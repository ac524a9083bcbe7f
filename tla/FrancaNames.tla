------------------------------ MODULE FrancaNames ------------------------------
(***************************************************************************)
(* Qualified names and how Franca references stand for them                *)
(* (transformer/resolver/utils_resolver.py).  A name is the sequence of    *)
(* its parts; the empty sequence is the absence of a name.                 *)
(***************************************************************************)
EXTENDS Naturals, Sequences

FirstParts(name, k) == SubSeq(name, 1, k)
LastParts(name, k) == SubSeq(name, Len(name) - k + 1, Len(name))
WithoutFirst(name, k) == SubSeq(name, k + 1, Len(name))

IsEnd(part, name) == Len(part) <= Len(name) /\ LastParts(name, Len(part)) = part

(* How many parts a reference may repeat of the name that it continues.    *)
Overlaps(base, reference) ==
    {k \in 0..Len(reference) : IsEnd(FirstParts(reference, k), base)}

(* The names that a reference made inside the namespace base stands for.   *)
expand_fqn_candidates(base, reference) ==
    {base \o WithoutFirst(reference, k) : k \in Overlaps(base, reference)}

(* What a reference stands for, stated without candidates: a name that     *)
(* continues the namespace and ends with the reference, without a gap.     *)
StandsFor(base, reference, name) ==
    /\ Len(base) <= Len(name) /\ FirstParts(name, Len(base)) = base
    /\ IsEnd(reference, name)
    /\ Len(name) <= Len(base) + Len(reference)

-----------------------------------------------------------------------------
(* Named deployments, seen from a file that imports theirs, maybe with a   *)
(* namespace only (imported; empty for all of them and for the own file).  *)

is_namespace_visible(namespace, imported) ==
    Len(imported) <= Len(namespace) /\ FirstParts(namespace, Len(imported)) = imported

(* Whether use stands for the deployment name of a file with the namespace.*)
matches_use_definition_reference(use, name, namespace, imported) ==
    LET prefix == Len(use) - Len(name)
    IN  /\ is_namespace_visible(namespace, imported)
        /\ IsEnd(name, use)
        /\ IsEnd(FirstParts(use, prefix), namespace)
        /\ imported # <<>> => prefix + Len(imported) >= Len(namespace)

(* The same as a relation between full names: the use ends the deployment's*)
(* one, at the latest where its own name starts, and if a namespace was    *)
(* imported, it continues this namespace without a gap.                    *)
UseMeans(use, name, namespace, imported) ==
    /\ Len(name) <= Len(use) /\ Len(imported) <= Len(namespace)
    /\ IsEnd(use, namespace \o name)
    /\ imported # <<>> => StandsFor(imported, use, namespace \o name)
=============================================================================
