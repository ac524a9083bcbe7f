------------------------- MODULE FrancaFileGraphProofs -------------------------
(***************************************************************************)
(* Proofs about the graph of Franca files, for any number of files, any    *)
(* import graph and any names.  The first part is about the parser's work  *)
(* list and the traversal: which files are parsed, that each is transformed*)
(* once, and in which order.  The second part is about what references are *)
(* bound to, and about which programs are rejected; the last one about the *)
(* values of enumerators.                                                  *)
(***************************************************************************)
EXTENDS FrancaFileGraph, SequenceTheorems, FiniteSetTheorems, TLAPS

-----------------------------------------------------------------------------
(* Names: what the candidates for a reference are.                         *)

(* Parts of a sequence, by length and by position.                         *)
LEMMA SomeParts ==
    ASSUME NEW S, NEW s \in Seq(S), NEW k \in 0..Len(s)
    PROVE  /\ FirstParts(s, k) \in Seq(S) /\ Len(FirstParts(s, k)) = k
           /\ \A i \in 1..k : FirstParts(s, k)[i] = s[i]
           /\ LastParts(s, k) \in Seq(S) /\ Len(LastParts(s, k)) = k
           /\ \A i \in 1..k : LastParts(s, k)[i] = s[Len(s) - k + i]
           /\ WithoutFirst(s, k) \in Seq(S) /\ Len(WithoutFirst(s, k)) = Len(s) - k
           /\ \A i \in 1..(Len(s) - k) : WithoutFirst(s, k)[i] = s[k + i]
<1>1. Len(s) \in Nat /\ k \in Nat /\ k <= Len(s)
  OBVIOUS
<1>2. \A i \in 1..Len(s) : s[i] \in S
  OBVIOUS
<1>3. /\ FirstParts(s, k) \in Seq(S) /\ Len(FirstParts(s, k)) = k
      /\ \A i \in 1..k : FirstParts(s, k)[i] = s[i]
  BY <1>1, <1>2, SubSeqProperties DEF FirstParts
<1>4. /\ LastParts(s, k) \in Seq(S) /\ Len(LastParts(s, k)) = k
      /\ \A i \in 1..k : LastParts(s, k)[i] = s[Len(s) - k + i]
  BY <1>1, <1>2, SubSeqProperties DEF LastParts
<1>5. /\ WithoutFirst(s, k) \in Seq(S) /\ Len(WithoutFirst(s, k)) = Len(s) - k
      /\ \A i \in 1..(Len(s) - k) : WithoutFirst(s, k)[i] = s[k + i]
  BY <1>1, <1>2, SubSeqProperties DEF WithoutFirst
<1> QED
  BY <1>3, <1>4, <1>5

(* Equality of sequences, by length and by position.                       *)
LEMMA SameSequence ==
    ASSUME NEW S, NEW s \in Seq(S), NEW t \in Seq(S), Len(s) = Len(t),
           \A i \in 1..Len(s) : s[i] = t[i]
    PROVE  s = t
BY SeqEqual

(* A candidate continues the namespace, ends with the reference, and has   *)
(* nothing in between.                                                     *)
LEMMA CandidateStandsFor ==
    ASSUME NEW S, NEW base \in Seq(S), NEW reference \in Seq(S),
           NEW k \in Overlaps(base, reference)
    PROVE  StandsFor(base, reference, base \o WithoutFirst(reference, k))
<1> DEFINE name == base \o WithoutFirst(reference, k)
<1>1. /\ k \in 0..Len(reference) /\ Len(reference) \in Nat /\ Len(base) \in Nat
      /\ IsEnd(FirstParts(reference, k), base)
  BY DEF Overlaps
<1>2. /\ k <= Len(base)
      /\ \A i \in 1..k : base[Len(base) - k + i] = reference[i]
  <2>1. Len(FirstParts(reference, k)) = k /\ \A i \in 1..k : FirstParts(reference, k)[i] = reference[i]
    BY <1>1, SomeParts
  <2>2. k <= Len(base) /\ LastParts(base, k) = FirstParts(reference, k)
    BY <1>1, <2>1 DEF IsEnd
  <2>3. k \in 0..Len(base)
    BY <1>1, <2>2
  <2>4. \A i \in 1..k : LastParts(base, k)[i] = base[Len(base) - k + i]
    BY <2>3, SomeParts
  <2> QED
    BY <2>1, <2>2, <2>4
<1>3. /\ WithoutFirst(reference, k) \in Seq(S)
      /\ Len(WithoutFirst(reference, k)) = Len(reference) - k
      /\ \A i \in 1..(Len(reference) - k) : WithoutFirst(reference, k)[i] = reference[k + i]
  BY <1>1, SomeParts
<1>4. /\ name \in Seq(S) /\ Len(name) = Len(base) + Len(reference) - k
      /\ \A i \in 1..Len(name) :
            name[i] = IF i <= Len(base) THEN base[i] ELSE reference[k + i - Len(base)]
  <2>1. name \in Seq(S) /\ Len(name) = Len(base) + (Len(reference) - k)
    BY <1>3, ConcatProperties
  <2>2. ASSUME NEW i \in 1..Len(name)
        PROVE  name[i] = IF i <= Len(base) THEN base[i] ELSE reference[k + i - Len(base)]
    <3>1. name[i] = IF i <= Len(base) THEN base[i] ELSE WithoutFirst(reference, k)[i - Len(base)]
      BY <1>3, <2>1, ConcatProperties
    <3>2. CASE i <= Len(base)
      BY <3>1, <3>2
    <3>3. CASE ~(i <= Len(base))
      <4> DEFINE j == i - Len(base)
      <4>1. j \in 1..(Len(reference) - k) /\ k + j = k + i - Len(base)
        BY <1>1, <2>1, <3>3
      <4>2. WithoutFirst(reference, k)[j] = reference[k + j]
        BY <1>3, <4>1
      <4> QED
        BY <3>1, <3>3, <4>1, <4>2
    <3> QED
      BY <3>2, <3>3
  <2> QED
    BY <1>1, <2>1, <2>2
<1> HIDE DEF name
<1>5. Len(base) \in 0..Len(name) /\ Len(reference) \in 0..Len(name)
  BY <1>1, <1>2, <1>4
<1>6. FirstParts(name, Len(base)) = base
  <2>1. /\ FirstParts(name, Len(base)) \in Seq(S) /\ Len(FirstParts(name, Len(base))) = Len(base)
        /\ \A i \in 1..Len(base) : FirstParts(name, Len(base))[i] = name[i]
    BY <1>4, <1>5, SomeParts
  <2>2. \A i \in 1..Len(base) : name[i] = base[i]
    BY <1>1, <1>4, <1>5
  <2> QED
    BY <2>1, <2>2, SameSequence
<1>7. LastParts(name, Len(reference)) = reference
  <2> DEFINE last == LastParts(name, Len(reference))
  <2>1. /\ last \in Seq(S) /\ Len(last) = Len(reference)
        /\ \A i \in 1..Len(reference) : last[i] = name[Len(name) - Len(reference) + i]
    BY <1>4, <1>5, SomeParts
  <2>2. ASSUME NEW i \in 1..Len(reference)
        PROVE  last[i] = reference[i]
    <3> DEFINE j == Len(name) - Len(reference) + i
    <3>1. j = Len(base) - k + i /\ j \in 1..Len(name)
      BY <1>1, <1>2, <1>4
    <3>2. last[i] = name[j]
      BY <2>1
    <3>3. name[j] = IF j <= Len(base) THEN base[j] ELSE reference[k + j - Len(base)]
      BY <1>4, <3>1
    <3>4. CASE i <= k
      <4>1. j <= Len(base) /\ i \in 1..k
        BY <1>1, <3>1, <3>4
      <4>2. base[Len(base) - k + i] = reference[i]
        BY <1>2, <4>1
      <4> QED
        BY <3>1, <3>2, <3>3, <4>1, <4>2
    <3>5. CASE ~(i <= k)
      <4>1. ~(j <= Len(base)) /\ k + j - Len(base) = i
        BY <1>1, <3>1, <3>5
      <4> QED
        BY <3>2, <3>3, <4>1
    <3> QED
      BY <3>4, <3>5
  <2> QED
    BY <2>1, <2>2, SameSequence
<1> QED
  BY <1>1, <1>4, <1>5, <1>6, <1>7 DEF StandsFor, IsEnd, name

(* A name that continues the namespace and ends with the reference is a    *)
(* candidate: the overlap is what the two have in common.                  *)
LEMMA MeaningIsCandidate ==
    ASSUME NEW S, NEW base \in Seq(S), NEW reference \in Seq(S), NEW name \in Seq(S),
           StandsFor(base, reference, name)
    PROVE  name \in expand_fqn_candidates(base, reference)
<1> DEFINE k == Len(base) + Len(reference) - Len(name)
<1>1. /\ Len(base) \in Nat /\ Len(reference) \in Nat /\ Len(name) \in Nat
      /\ Len(base) <= Len(name) /\ Len(reference) <= Len(name)
      /\ Len(name) <= Len(base) + Len(reference)
      /\ FirstParts(name, Len(base)) = base /\ LastParts(name, Len(reference)) = reference
  BY DEF StandsFor, IsEnd
<1>2. k \in 0..Len(reference) /\ k \in 0..Len(base)
  BY <1>1
<1> HIDE DEF k
<1>3. \A i \in 1..Len(base) : name[i] = base[i]
  <2> DEFINE n == Len(base)
  <2>1. n \in 0..Len(name)
    BY <1>1
  <2> HIDE DEF n
  <2>2. \A i \in 1..n : FirstParts(name, n)[i] = name[i]
    BY <2>1, SomeParts
  <2> QED
    BY <1>1, <2>2 DEF n
<1>4. \A i \in 1..Len(reference) : name[Len(name) - Len(reference) + i] = reference[i]
  <2> DEFINE n == Len(reference)
  <2>1. n \in 0..Len(name)
    BY <1>1
  <2> HIDE DEF n
  <2>2. \A i \in 1..n : LastParts(name, n)[i] = name[Len(name) - n + i]
    BY <2>1, SomeParts
  <2> QED
    BY <1>1, <2>2 DEF n
<1>5. FirstParts(reference, k) = LastParts(base, k)
  <2>1. /\ FirstParts(reference, k) \in Seq(S) /\ Len(FirstParts(reference, k)) = k
        /\ \A i \in 1..k : FirstParts(reference, k)[i] = reference[i]
        /\ LastParts(base, k) \in Seq(S) /\ Len(LastParts(base, k)) = k
        /\ \A i \in 1..k : LastParts(base, k)[i] = base[Len(base) - k + i]
    BY <1>2, SomeParts
  <2>2. ASSUME NEW i \in 1..k
        PROVE  reference[i] = base[Len(base) - k + i]
    <3>1. i \in 1..Len(reference) /\ Len(base) - k + i \in 1..Len(base)
      BY <1>1, <1>2
    <3>2. Len(base) - k + i = Len(name) - Len(reference) + i
      BY <1>1 DEF k
    <3> QED
      BY <1>3, <1>4, <3>1, <3>2
  <2> QED
    BY <2>1, <2>2, SameSequence
<1>6. k \in Overlaps(base, reference)
  <2>1. Len(FirstParts(reference, k)) = k
    BY <1>2, SomeParts
  <2> QED
    BY <1>2, <1>5, <2>1 DEF Overlaps, IsEnd
<1>7. name = base \o WithoutFirst(reference, k)
  <2> DEFINE rest == WithoutFirst(reference, k)
  <2>1. /\ rest \in Seq(S) /\ Len(rest) = Len(reference) - k
        /\ \A i \in 1..(Len(reference) - k) : rest[i] = reference[k + i]
    BY <1>2, SomeParts
  <2> HIDE DEF rest
  <2>2. /\ base \o rest \in Seq(S) /\ Len(base \o rest) = Len(base) + Len(rest)
        /\ \A i \in 1..(Len(base) + Len(rest)) :
              (base \o rest)[i] = IF i <= Len(base) THEN base[i] ELSE rest[i - Len(base)]
    BY <2>1, ConcatProperties
  <2>3. Len(base) + Len(rest) = Len(name)
    BY <1>1, <2>1 DEF k
  <2>4. ASSUME NEW i \in 1..Len(name)
        PROVE  name[i] = (base \o rest)[i]
    <3>1. CASE i <= Len(base)
      BY <1>1, <1>3, <2>2, <2>3, <3>1
    <3>2. CASE ~(i <= Len(base))
      <4> DEFINE j == i - Len(base)
      <4>1. j \in 1..(Len(reference) - k) /\ k + j \in 1..Len(reference)
        BY <1>1, <1>2, <2>1, <2>3, <3>2
      <4>2. Len(name) - Len(reference) + (k + j) = i
        BY <1>1 DEF k
      <4>3. name[i] = reference[k + j]
        BY <1>4, <4>1, <4>2
      <4> QED
        BY <2>1, <2>2, <2>3, <3>2, <4>1, <4>3
    <3> QED
      BY <3>1, <3>2
  <2>5. name = base \o rest
    BY <2>2, <2>3, <2>4, SameSequence
  <2> QED
    BY <2>5 DEF rest
<1> QED
  BY <1>6, <1>7 DEF expand_fqn_candidates

(* expand_fqn_candidates returns exactly the names that a reference stands *)
(* for: however much of the namespace a reference repeats, it is completed *)
(* to every name that it could be meant to be, and to no other.            *)
THEOREM CandidatesAreMeanings ==
    ASSUME NEW S, NEW base \in Seq(S), NEW reference \in Seq(S), NEW name \in Seq(S)
    PROVE  name \in expand_fqn_candidates(base, reference) <=> StandsFor(base, reference, name)
<1>1. ASSUME name \in expand_fqn_candidates(base, reference)
      PROVE  StandsFor(base, reference, name)
  <2>1. PICK k \in Overlaps(base, reference) : name = base \o WithoutFirst(reference, k)
    BY <1>1 DEF expand_fqn_candidates
  <2> QED
    BY <2>1, CandidateStandsFor
<1> QED
  BY <1>1, MeaningIsCandidate

-----------------------------------------------------------------------------
(* Elements of sequences.                                                  *)

LEMMA SequenceType ==
    ASSUME NEW S, NEW s \in Seq(S)
    PROVE  Len(s) \in Nat /\ DOMAIN s = 1..Len(s) /\ \A i \in 1..Len(s) : s[i] \in S
OBVIOUS

LEMMA ElementsInSet ==
    ASSUME NEW S, NEW s \in Seq(S)
    PROVE  Elements(s) \subseteq S
BY DEF Elements

LEMMA AppendElements ==
    ASSUME NEW S, NEW s \in Seq(S), NEW x \in S
    PROVE  /\ Append(s, x) \in Seq(S) /\ Len(Append(s, x)) = Len(s) + 1
           /\ DOMAIN Append(s, x) = 1..(Len(s) + 1) /\ DOMAIN s = 1..Len(s)
           /\ Append(s, x)[Len(s) + 1] = x
           /\ \A i \in DOMAIN s : Append(s, x)[i] = s[i]
           /\ Elements(Append(s, x)) = Elements(s) \cup {x}
<1>1. /\ Append(s, x) \in Seq(S) /\ Len(Append(s, x)) = Len(s) + 1 /\ Len(s) \in Nat
      /\ DOMAIN Append(s, x) = 1..(Len(s) + 1) /\ DOMAIN s = 1..Len(s)
      /\ Append(s, x)[Len(s) + 1] = x
      /\ \A i \in 1..Len(s) : Append(s, x)[i] = s[i]
  BY AppendProperties
<1>2. 1..(Len(s) + 1) = (1..Len(s)) \cup {Len(s) + 1}
  BY <1>1
<1>3. Elements(Append(s, x)) = Elements(s) \cup {x}
  BY <1>1, <1>2, Zenon DEF Elements
<1>4. QED
  BY <1>1, <1>3

LEMMA ConcatElements ==
    ASSUME NEW S, NEW s \in Seq(S), NEW t \in Seq(S)
    PROVE  s \o t \in Seq(S) /\ Elements(s \o t) = Elements(s) \cup Elements(t)
<1>1. /\ s \o t \in Seq(S) /\ Len(s) \in Nat /\ Len(t) \in Nat
      /\ DOMAIN (s \o t) = 1..(Len(s) + Len(t)) /\ DOMAIN s = 1..Len(s) /\ DOMAIN t = 1..Len(t)
      /\ \A i \in 1..(Len(s) + Len(t)) :
            (s \o t)[i] = IF i <= Len(s) THEN s[i] ELSE t[i - Len(s)]
  BY ConcatProperties
<1>2. ASSUME NEW y \in Elements(s \o t) PROVE y \in Elements(s) \cup Elements(t)
  <2>1. PICK i \in 1..(Len(s) + Len(t)) : y = (s \o t)[i]
    BY <1>1 DEF Elements
  <2>2. CASE i <= Len(s)
    BY <1>1, <2>1, <2>2 DEF Elements
  <2>3. CASE i > Len(s)
    <3>1. i - Len(s) \in 1..Len(t) /\ y = t[i - Len(s)]
      BY <1>1, <2>1, <2>3
    <3>2. QED
      BY <1>1, <3>1 DEF Elements
  <2>4. QED
    BY <1>1, <2>2, <2>3
<1>3. ASSUME NEW y \in Elements(s) PROVE y \in Elements(s \o t)
  <2>1. PICK i \in 1..Len(s) : y = s[i]
    BY <1>1 DEF Elements
  <2>2. i \in 1..(Len(s) + Len(t)) /\ (s \o t)[i] = y
    BY <1>1, <2>1
  <2>3. QED
    BY <1>1, <2>2 DEF Elements
<1>4. ASSUME NEW y \in Elements(t) PROVE y \in Elements(s \o t)
  <2>1. PICK i \in 1..Len(t) : y = t[i]
    BY <1>1 DEF Elements
  <2>2. i + Len(s) \in 1..(Len(s) + Len(t)) /\ (s \o t)[i + Len(s)] = y
    BY <1>1, <2>1
  <2>3. QED
    BY <1>1, <2>2 DEF Elements
<1>5. QED
  BY <1>1, <1>2, <1>3, <1>4

LEMMA PopElements ==
    ASSUME NEW S, NEW s \in Seq(S), s # <<>>
    PROVE  /\ Len(s) \in Nat \ {0} /\ Len(Pop(s)) = Len(s) - 1
           /\ Pop(s) \in Seq(S) /\ Top(s) \in S
           /\ DOMAIN Pop(s) = 1..(Len(s) - 1) /\ DOMAIN s = 1..Len(s)
           /\ \A i \in 1..(Len(s) - 1) : Pop(s)[i] = s[i]
           /\ Elements(s) = Elements(Pop(s)) \cup {Top(s)}
<1>1. /\ Len(s) \in Nat \ {0} /\ DOMAIN s = 1..Len(s)
      /\ \A i \in 1..Len(s) : s[i] \in S
  BY EmptySeq
<1>2. /\ Pop(s) \in Seq(S) /\ Len(Pop(s)) = Len(s) - 1
      /\ \A i \in 1..(Len(s) - 1) : Pop(s)[i] = s[i]
  BY <1>1, SubSeqProperties DEF Pop
<1>3. DOMAIN Pop(s) = 1..(Len(s) - 1)
  BY <1>2
<1>4. 1..Len(s) = (1..(Len(s) - 1)) \cup {Len(s)}
  BY <1>1
<1>5. Elements(s) = Elements(Pop(s)) \cup {Top(s)}
  BY <1>1, <1>2, <1>3, <1>4, Zenon DEF Elements, Top
<1>6. QED
  BY <1>1, <1>2, <1>3, <1>5 DEF Top

LEMMA TailElements ==
    ASSUME NEW S, NEW s \in Seq(S), s # <<>>
    PROVE  /\ Tail(s) \in Seq(S) /\ Head(s) \in S
           /\ Elements(s) = Elements(Tail(s)) \cup {Head(s)}
<1>1. /\ Len(s) \in Nat \ {0} /\ DOMAIN s = 1..Len(s) /\ Head(s) = s[1]
      /\ \A i \in 1..Len(s) : s[i] \in S
      /\ Tail(s) \in Seq(S) /\ Len(Tail(s)) = Len(s) - 1
      /\ \A i \in 1..(Len(s) - 1) : Tail(s)[i] = s[i + 1]
  BY EmptySeq, HeadTailProperties
<1>2. DOMAIN Tail(s) = 1..(Len(s) - 1)
  BY <1>1
<1>3. ASSUME NEW y \in Elements(s) PROVE y \in Elements(Tail(s)) \cup {Head(s)}
  <2>1. PICK i \in 1..Len(s) : y = s[i]
    BY <1>1 DEF Elements
  <2>2. CASE i # 1
    <3>1. i - 1 \in 1..(Len(s) - 1) /\ Tail(s)[i - 1] = y
      BY <1>1, <2>1, <2>2
    <3>2. QED
      BY <1>2, <3>1 DEF Elements
  <2>3. QED
    BY <1>1, <2>1, <2>2
<1>4. ASSUME NEW y \in Elements(Tail(s)) PROVE y \in Elements(s)
  <2>1. PICK i \in 1..(Len(s) - 1) : y = Tail(s)[i]
    BY <1>2 DEF Elements
  <2>2. i + 1 \in 1..Len(s) /\ s[i + 1] = y
    BY <1>1, <2>1
  <2>3. QED
    BY <1>1, <2>2 DEF Elements
<1>5. 1 \in 1..Len(s)
  BY <1>1
<1>6. Head(s) \in Elements(s) /\ Head(s) \in S
  BY <1>1, <1>5 DEF Elements
<1>7. QED
  BY <1>1, <1>3, <1>4, <1>6

-----------------------------------------------------------------------------
(* What can be reached through imports.                                    *)

LEMMA ReachableStep ==
    ASSUME NEW F
    PROVE  /\ F \cap Files \subseteq Reachable(F)
           /\ \A f \in Reachable(F) : Imported(f) \cap Files \subseteq Reachable(F)
BY DEF Reachable, Closed

LEMMA ReachableLeast ==
    ASSUME NEW F, NEW C \in SUBSET Files, F \subseteq C, Closed(C)
    PROVE  Reachable(F) \subseteq C
BY DEF Reachable

-----------------------------------------------------------------------------
(* The inductive invariant.                                                *)

Frames == [file : Files, rest : Seq(Files)]

GraphType ==
    /\ program \in Program
    /\ phase \in {"parsing", "transforming", "resolving", "done", "failed"}
    /\ pending_files \in Seq(Files) /\ parsed_files \in Seq(Files)
    /\ stack \in Seq(Frames)
    /\ transformed_files \in Seq(Files)

(* What is parsed or pending is needed, has the roots, and has the imports *)
(* of what is parsed; nothing is pending when the parser is done.          *)
ParseInv ==
    /\ Elements(parsed_files) \cup Elements(pending_files) \subseteq Needed
    /\ Elements(program.roots) \subseteq Elements(parsed_files) \cup Elements(pending_files)
    /\ \A f \in Elements(parsed_files) :
          Imported(f) \subseteq Elements(parsed_files) \cup Elements(pending_files)
    /\ phase \in {"transforming", "resolving", "done"} => pending_files = <<>>

(* The traversal stays within the parsed files, no file is twice on its    *)
(* path, and none on it is transformed.                                    *)
VisitInv ==
    /\ Elements(transformed_files) \subseteq Elements(parsed_files)
    /\ \A k \in DOMAIN stack : /\ stack[k].file \in Elements(parsed_files)
                               /\ Elements(stack[k].rest) \subseteq Imported(stack[k].file)
                               /\ stack[k].file \notin Elements(transformed_files)
    /\ \A j, k \in DOMAIN stack : stack[j].file = stack[k].file => j = k
    /\ \A i, j \in DOMAIN transformed_files : transformed_files[i] = transformed_files[j] => i = j
    /\ phase \in {"resolving", "done"} => Elements(parsed_files) \subseteq Elements(transformed_files)

(* Each file of the path leads to those after it.                          *)
PathInv ==
    \A j, k \in DOMAIN stack : j <= k => stack[k].file \in Reachable({stack[j].file})

(* An import of a file of the path is transformed, still to be visited, or *)
(* on the path: before the file, or as the next one.                       *)
OrderInv ==
    \A k \in DOMAIN stack : \A g \in Imported(stack[k].file) :
        \/ g \in Elements(transformed_files)
        \/ g \in Elements(stack[k].rest)
        \/ \E j \in DOMAIN stack : j <= k + 1 /\ stack[j].file = g

Inv == GraphType /\ ParseInv /\ VisitInv /\ PathInv /\ OrderInv /\ ImportsFirst

graph == <<program, phase, parsing, stack, transformed_files>>

-----------------------------------------------------------------------------

LEMMA ProgramType ==
    ASSUME GraphType, NEW f \in Files
    PROVE  /\ program.roots \in Seq(Files) /\ ImportList(f) \in Seq(Files)
           /\ Imported(f) \subseteq Files
<1>1. program.roots \in Seq(Files) /\ program.imports[f] \in Seq([file : Files, namespace : Name])
  BY DEF GraphType, Program
<1>2. /\ Len(program.imports[f]) \in Nat
      /\ \A i \in 1..Len(program.imports[f]) : program.imports[f][i].file \in Files
      /\ DOMAIN program.imports[f] = 1..Len(program.imports[f])
  <2>1. /\ Len(program.imports[f]) \in Nat
        /\ \A i \in 1..Len(program.imports[f]) : program.imports[f][i] \in [file : Files, namespace : Name]
        /\ DOMAIN program.imports[f] = 1..Len(program.imports[f])
    BY <1>1, SequenceType
  <2>2. \A x \in [file : Files, namespace : Name] : x.file \in Files
    OBVIOUS
  <2>3. QED
    BY <2>1, <2>2
<1>3. ImportList(f) \in Seq(Files)
  <2>1. ImportList(f) \in [1..Len(program.imports[f]) -> Files]
    BY <1>2 DEF ImportList
  <2>2. QED
    BY <1>2, <2>1, SeqDef
<1>4. Imported(f) \subseteq Files
  BY <1>3, ElementsInSet DEF Imported
<1>5. QED
  BY <1>1, <1>3, <1>4

LEMMA InvInit == Init => Inv
<1> SUFFICES ASSUME Init PROVE Inv
  OBVIOUS
<1>1. program \in Program
  BY FrancaFileGraphAssumption DEF Init
<1>2. program.roots \in Seq(Files)
  BY <1>1 DEF Program
<1>3. GraphType
  BY <1>1, <1>2 DEF Init, GraphType
<1>4. Elements(<<>>) = {}
  BY DEF Elements
<1>5. Elements(program.roots) \subseteq Files
  BY <1>2, ElementsInSet
<1>6. ParseInv
  BY <1>4, <1>5, ReachableStep DEF Init, ParseInv, Needed
<1>7. VisitInv /\ PathInv /\ OrderInv /\ ImportsFirst
  BY <1>4 DEF Init, VisitInv, PathInv, OrderInv, ImportsFirst
<1>8. QED
  BY <1>3, <1>6, <1>7 DEF Inv

(* Operators that depend on the program only.                              *)
LEMMA SameGraph ==
    ASSUME program' = program
    PROVE  /\ Needed' = Needed
           /\ \A f : Imported(f)' = Imported(f) /\ ImportList(f)' = ImportList(f)
           /\ \A F : Reachable(F)' = Reachable(F)
BY DEF Needed, Imported, ImportList, Reachable, Closed

LEMMA OrderFrame ==
    ASSUME ImportsFirst, program' = program, transformed_files' = transformed_files
    PROVE  ImportsFirst'
BY SameGraph DEF ImportsFirst

(* Steps that leave the graph alone.                                       *)
LEMMA GraphFrame == Inv /\ UNCHANGED graph => Inv'
<1> SUFFICES ASSUME Inv, UNCHANGED graph PROVE Inv'
  OBVIOUS
<1>1. /\ program' = program /\ phase' = phase /\ pending_files' = pending_files
      /\ parsed_files' = parsed_files /\ stack' = stack /\ transformed_files' = transformed_files
  BY DEF graph, parsing
<1>2. GraphType'
  BY <1>1 DEF Inv, GraphType
<1>3. ParseInv'
  BY <1>1, SameGraph DEF Inv, ParseInv
<1>4. VisitInv'
  BY <1>1, SameGraph DEF Inv, VisitInv
<1>5. PathInv'
  BY <1>1, SameGraph DEF Inv, PathInv
<1>6. OrderInv'
  BY <1>1, SameGraph DEF Inv, OrderInv
<1>7. ImportsFirst'
  BY <1>1, OrderFrame DEF Inv
<1>8. QED
  BY <1>2, <1>3, <1>4, <1>5, <1>6, <1>7 DEF Inv

-----------------------------------------------------------------------------
(* The parser's steps: none of them looks at the path.                     *)

LEMMA ParserFrame ==
    ASSUME Inv, phase = "parsing", program' = program, stack' = stack,
           transformed_files' = transformed_files,
           phase' \in {"parsing", "transforming", "failed"},
           Elements(parsed_files) \subseteq Elements(parsed_files')
    PROVE  VisitInv' /\ PathInv' /\ OrderInv' /\ ImportsFirst'
<1>1. VisitInv'
  BY SameGraph DEF Inv, VisitInv
<1>2. PathInv'
  BY SameGraph DEF Inv, PathInv
<1>3. OrderInv'
  BY SameGraph DEF Inv, OrderInv
<1>4. ImportsFirst'
  BY OrderFrame DEF Inv
<1>5. QED
  BY <1>1, <1>2, <1>3, <1>4

LEMMA SkipParsedStep == Inv /\ SkipParsed => Inv'
<1> SUFFICES ASSUME Inv, SkipParsed PROVE Inv'
  OBVIOUS
<1>1. /\ phase = "parsing" /\ pending_files # <<>> /\ Top(pending_files) \in Elements(parsed_files)
      /\ pending_files' = Pop(pending_files)
      /\ program' = program /\ phase' = phase /\ parsed_files' = parsed_files /\ stack' = stack
      /\ transformed_files' = transformed_files
  BY DEF SkipParsed, NextFile
<1>2. /\ Pop(pending_files) \in Seq(Files)
      /\ Elements(pending_files) = Elements(Pop(pending_files)) \cup {Top(pending_files)}
  BY <1>1, PopElements DEF Inv, GraphType
<1>3. GraphType'
  BY <1>1, <1>2 DEF Inv, GraphType
<1>4. Elements(parsed_files') \cup Elements(pending_files') = Elements(parsed_files) \cup Elements(pending_files)
  BY <1>1, <1>2
<1>5. ParseInv'
  BY <1>1, <1>4, SameGraph DEF Inv, ParseInv
<1>6. VisitInv' /\ PathInv' /\ OrderInv' /\ ImportsFirst'
  BY <1>1, ParserFrame
<1>7. QED
  BY <1>3, <1>5, <1>6 DEF Inv

LEMMA ParseFileStep ==
    ASSUME Inv, NEW f \in Files, ParseFile(f)
    PROVE  Inv'
<1>1. /\ phase = "parsing" /\ pending_files # <<>> /\ f = Top(pending_files)
      /\ parsed_files' = Append(parsed_files, f)
      /\ pending_files' = Pop(pending_files) \o ImportList(f)
      /\ program' = program /\ phase' = phase /\ stack' = stack
      /\ transformed_files' = transformed_files
  BY DEF ParseFile, NextFile
<1>2. /\ ImportList(f) \in Seq(Files) /\ Elements(ImportList(f)) = Imported(f) /\ Imported(f) \subseteq Files
      /\ parsed_files \in Seq(Files) /\ pending_files \in Seq(Files)
  BY ProgramType DEF Inv, Imported, GraphType
<1>3. /\ Pop(pending_files) \in Seq(Files)
      /\ Elements(pending_files) = Elements(Pop(pending_files)) \cup {f}
  BY <1>1, <1>2, PopElements
<1>4. /\ pending_files' \in Seq(Files)
      /\ Elements(pending_files') = Elements(Pop(pending_files)) \cup Imported(f)
  BY <1>1, <1>2, <1>3, ConcatElements
<1>5. /\ parsed_files' \in Seq(Files)
      /\ Elements(parsed_files') = Elements(parsed_files) \cup {f}
  BY <1>1, <1>2, AppendElements
<1>6. GraphType'
  BY <1>1, <1>4, <1>5 DEF Inv, GraphType
<1>7. f \in Needed /\ Imported(f) \subseteq Needed
  <2>1. f \in Needed
    BY <1>3 DEF Inv, ParseInv
  <2>2. QED
    BY <1>2, <2>1, ReachableStep DEF Needed
<1>8. Elements(parsed_files') \cup Elements(pending_files')
        = Elements(parsed_files) \cup Elements(pending_files) \cup Imported(f)
  BY <1>3, <1>4, <1>5
<1>9. ParseInv'
  <2>1. Elements(parsed_files') \cup Elements(pending_files') \subseteq Needed
    BY <1>7, <1>8 DEF Inv, ParseInv
  <2>2. Elements(program.roots) \subseteq Elements(parsed_files') \cup Elements(pending_files')
    BY <1>8 DEF Inv, ParseInv
  <2>3. \A g \in Elements(parsed_files') :
            Imported(g) \subseteq Elements(parsed_files') \cup Elements(pending_files')
    BY <1>5, <1>8 DEF Inv, ParseInv
  <2>4. QED
    BY <1>1, <2>1, <2>2, <2>3, SameGraph DEF ParseInv
<1>10. VisitInv' /\ PathInv' /\ OrderInv' /\ ImportsFirst'
  BY <1>1, <1>5, ParserFrame
<1>11. QED
  BY <1>6, <1>9, <1>10 DEF Inv

LEMMA EndParsingStep == Inv /\ EndParsing => Inv'
<1> SUFFICES ASSUME Inv, EndParsing PROVE Inv'
  OBVIOUS
<1>1. /\ phase = "parsing" /\ pending_files = <<>> /\ phase' = "transforming"
      /\ program' = program /\ pending_files' = pending_files /\ parsed_files' = parsed_files
      /\ stack' = stack /\ transformed_files' = transformed_files
  BY DEF EndParsing, parsing
<1>2. GraphType'
  BY <1>1 DEF Inv, GraphType
<1>3. ParseInv'
  BY <1>1, SameGraph DEF Inv, ParseInv
<1>4. VisitInv' /\ PathInv' /\ OrderInv' /\ ImportsFirst'
  BY <1>1, ParserFrame
<1>5. QED
  BY <1>2, <1>3, <1>4 DEF Inv

(* A failure ends the run and changes nothing else.                        *)
LEMMA FailureStep ==
    ASSUME Inv, phase' = "failed", UNCHANGED <<program, parsing, stack, transformed_files>>
    PROVE  Inv'
<1>1. /\ program' = program /\ pending_files' = pending_files
      /\ parsed_files' = parsed_files /\ stack' = stack /\ transformed_files' = transformed_files
  BY DEF parsing
<1>2. GraphType'
  BY <1>1 DEF Inv, GraphType
<1>3. ParseInv'
  BY <1>1, SameGraph DEF Inv, ParseInv
<1>4. VisitInv'
  BY <1>1, SameGraph DEF Inv, VisitInv
<1>5. PathInv'
  BY <1>1, SameGraph DEF Inv, PathInv
<1>6. OrderInv'
  BY <1>1, SameGraph DEF Inv, OrderInv
<1>7. ImportsFirst'
  BY <1>1, OrderFrame DEF Inv
<1>8. QED
  BY <1>2, <1>3, <1>4, <1>5, <1>6, <1>7 DEF Inv

-----------------------------------------------------------------------------
(* The steps of the traversal.                                             *)

(* The parsed files are closed under imports while it goes on.             *)
LEMMA ParsedAreClosed ==
    ASSUME Inv, phase \in {"transforming", "resolving", "done"}
    PROVE  /\ pending_files = <<>>
           /\ \A f \in Elements(parsed_files) : Imported(f) \subseteq Elements(parsed_files)
           /\ Elements(parsed_files) = Needed
<1>1. pending_files = <<>> /\ Elements(pending_files) = {}
  BY DEF Inv, ParseInv, Elements
<1>2. \A f \in Elements(parsed_files) : Imported(f) \subseteq Elements(parsed_files)
  BY <1>1 DEF Inv, ParseInv
<1>3. Elements(parsed_files) \subseteq Files
  BY ElementsInSet DEF Inv, GraphType
<1>4. Needed \subseteq Elements(parsed_files)
  <2>1. Elements(program.roots) \subseteq Elements(parsed_files)
    BY <1>1 DEF Inv, ParseInv
  <2>2. QED
    BY <1>2, <1>3, <2>1, ReachableLeast DEF Needed, Closed
<1>5. QED
  BY <1>1, <1>2, <1>4 DEF Inv, ParseInv

LEMMA VisitParsedStep == Inv /\ VisitParsed => Inv'
<1> SUFFICES ASSUME Inv, VisitParsed PROVE Inv'
  OBVIOUS
<1>1. /\ phase = "transforming" /\ stack = <<>>
      /\ program' = program /\ phase' = phase /\ pending_files' = pending_files
      /\ parsed_files' = parsed_files /\ transformed_files' = transformed_files
  BY DEF VisitParsed, parsing
<1>2. PICK i \in DOMAIN parsed_files : ~Entered(parsed_files[i]) /\ stack' = <<Frame(parsed_files[i])>>
  BY DEF VisitParsed
<1> DEFINE f == parsed_files[i]
<1>3. f \in Elements(parsed_files) /\ f \in Files /\ f \notin Elements(transformed_files)
  BY <1>2 DEF Inv, GraphType, Elements, Entered
<1>4. Frame(f) \in Frames /\ Frame(f).file = f /\ Elements(Frame(f).rest) = Imported(f)
  BY <1>3, ProgramType DEF Inv, Frame, Frames, Imported
<1> HIDE DEF f
<1>5. stack' = <<Frame(f)>> /\ DOMAIN stack' = {1} /\ stack'[1] = Frame(f)
  BY <1>2 DEF f
<1>6. GraphType'
  BY <1>1, <1>4, <1>5 DEF Inv, GraphType
<1>7. ParseInv'
  BY <1>1, SameGraph DEF Inv, ParseInv
<1>8. VisitInv'
  BY <1>1, <1>3, <1>4, <1>5, SameGraph DEF Inv, VisitInv
<1>9. PathInv'
  <2>1. f \in Reachable({f})
    BY <1>3, ReachableStep
  <2>2. QED
    BY <1>1, <1>4, <1>5, <2>1, SameGraph DEF PathInv
<1>10. OrderInv'
  BY <1>1, <1>4, <1>5, SameGraph DEF OrderInv
<1>11. ImportsFirst'
  BY <1>1, OrderFrame DEF Inv
<1>12. QED
  BY <1>6, <1>7, <1>8, <1>9, <1>10, <1>11 DEF Inv

(* The import that is next for the file on top of the path.                *)
LEMMA TopFrame ==
    ASSUME Inv, stack # <<>>
    PROVE  /\ Len(stack) \in Nat \ {0} /\ DOMAIN stack = 1..Len(stack) /\ Top(stack) = stack[Len(stack)]
           /\ \A k \in DOMAIN stack : stack[k].file \in Files /\ stack[k].rest \in Seq(Files)
<1>1. /\ Len(stack) \in Nat /\ DOMAIN stack = 1..Len(stack)
      /\ \A k \in 1..Len(stack) : stack[k] \in Frames
  BY SequenceType DEF Inv, GraphType
<1>2. Len(stack) # 0
  BY EmptySeq DEF Inv, GraphType
<1>3. \A x \in Frames : x.file \in Files /\ x.rest \in Seq(Files)
  BY DEF Frames
<1>4. QED
  BY <1>1, <1>2, <1>3 DEF Top

(* The stack with the next import of its top frame taken away.             *)
remaining == [stack EXCEPT ![Len(stack)].rest = Tail(Top(stack).rest)]

LEMMA RemainingFrames ==
    ASSUME Inv, stack # <<>>, Top(stack).rest # <<>>
    PROVE  /\ remaining \in Seq(Frames) /\ Len(remaining) = Len(stack) /\ DOMAIN remaining = DOMAIN stack
           /\ \A k \in DOMAIN stack : remaining[k].file = stack[k].file
           /\ \A k \in DOMAIN stack : k # Len(stack) => remaining[k].rest = stack[k].rest
           /\ Elements(Top(stack).rest) = Elements(remaining[Len(stack)].rest) \cup {Head(Top(stack).rest)}
           /\ Head(Top(stack).rest) \in Imported(Top(stack).file)
<1>1. /\ Len(stack) \in Nat \ {0} /\ DOMAIN stack = 1..Len(stack) /\ Top(stack) = stack[Len(stack)]
      /\ \A k \in DOMAIN stack : stack[k].file \in Files /\ stack[k].rest \in Seq(Files)
  BY TopFrame
<1> DEFINE rest == Top(stack).rest
<1>2. Len(stack) \in DOMAIN stack /\ rest \in Seq(Files)
  BY <1>1
<1>3. Tail(rest) \in Seq(Files) /\ Elements(rest) = Elements(Tail(rest)) \cup {Head(rest)}
  BY <1>2, TailElements
<1>4. \A k \in 1..Len(stack) : stack[k] \in Frames
  BY SequenceType DEF Inv, GraphType
<1>5. \A x \in Frames : [x EXCEPT !.rest = Tail(rest)] \in Frames
  BY <1>3 DEF Frames
<1>6. \A x \in Frames : /\ [x EXCEPT !.rest = Tail(rest)].file = x.file
                        /\ [x EXCEPT !.rest = Tail(rest)].rest = Tail(rest)
  BY DEF Frames
<1> HIDE DEF rest
<1>7. remaining = [k \in 1..Len(stack) |->
                      IF k = Len(stack) THEN [stack[k] EXCEPT !.rest = Tail(rest)] ELSE stack[k]]
  BY <1>1 DEF remaining, rest, Inv, GraphType
<1>8. remaining \in [1..Len(stack) -> Frames]
  BY <1>4, <1>5, <1>7
<1>9. remaining \in Seq(Frames) /\ Len(remaining) = Len(stack) /\ DOMAIN remaining = DOMAIN stack
  BY <1>1, <1>8, SeqDef, LenProperties
<1>10. \A k \in DOMAIN stack : remaining[k].file = stack[k].file
  BY <1>1, <1>4, <1>6, <1>7
<1>11. \A k \in DOMAIN stack : k # Len(stack) => remaining[k].rest = stack[k].rest
  BY <1>1, <1>7
<1>12. remaining[Len(stack)].rest = Tail(rest)
  BY <1>1, <1>2, <1>4, <1>6, <1>7
<1>13. Head(rest) \in Imported(Top(stack).file)
  BY <1>1, <1>2, <1>3 DEF Inv, VisitInv, rest
<1>14. QED
  BY <1>3, <1>9, <1>10, <1>11, <1>12, <1>13 DEF rest

(* Taking away an import that was met before keeps what is known of the    *)
(* path.                                                                   *)
LEMMA SkipImportStep ==
    ASSUME Inv, VisitImport, Entered(Head(Top(stack).rest))
    PROVE  Inv'
<1>1. /\ stack # <<>> /\ Top(stack).rest # <<>>
      /\ program' = program /\ phase' = phase /\ pending_files' = pending_files
      /\ parsed_files' = parsed_files /\ transformed_files' = transformed_files
  BY DEF VisitImport, parsing
<1>2. stack' = remaining
  BY DEF VisitImport, remaining
<1> DEFINE g == Head(Top(stack).rest)
<1>3. /\ remaining \in Seq(Frames) /\ DOMAIN stack' = DOMAIN stack
      /\ \A k \in DOMAIN stack : stack'[k].file = stack[k].file
      /\ \A k \in DOMAIN stack : k # Len(stack) => stack'[k].rest = stack[k].rest
      /\ Elements(stack[Len(stack)].rest) = Elements(stack'[Len(stack)].rest) \cup {g}
  BY <1>1, <1>2, RemainingFrames DEF Top
<1>4. DOMAIN stack = 1..Len(stack) /\ Len(stack) \in Nat \ {0}
  BY <1>1, TopFrame
<1>5. GraphType'
  BY <1>1, <1>2, <1>3 DEF Inv, GraphType
<1>6. ParseInv'
  BY <1>1, SameGraph DEF Inv, ParseInv
<1>7. \A k \in DOMAIN stack : /\ Elements(stack'[k].rest) \subseteq Elements(stack[k].rest)
                              /\ Elements(stack[k].rest) \subseteq Elements(stack'[k].rest) \cup {g}
  BY <1>3
<1>8. VisitInv'
  <2>1. \A k \in DOMAIN stack : /\ stack'[k].file \in Elements(parsed_files)
                                /\ Elements(stack'[k].rest) \subseteq Imported(stack'[k].file)
                                /\ stack'[k].file \notin Elements(transformed_files)
    BY <1>3, <1>7 DEF Inv, VisitInv
  <2>2. \A i, k \in DOMAIN stack : stack'[i].file = stack'[k].file => i = k
    BY <1>3 DEF Inv, VisitInv
  <2>3. QED
    BY <1>1, <1>3, <2>1, <2>2, SameGraph DEF Inv, VisitInv
<1>9. PathInv'
  BY <1>1, <1>3, SameGraph DEF Inv, PathInv
<1>10. g \in Elements(transformed_files) \/ \E i \in DOMAIN stack : stack[i].file = g
  BY DEF Entered, _visiting_files
<1> HIDE DEF g
<1>11. ASSUME NEW k \in DOMAIN stack, NEW h \in Imported(stack[k].file)
       PROVE  \/ h \in Elements(transformed_files)
              \/ h \in Elements(stack'[k].rest)
              \/ \E i \in DOMAIN stack : i <= k + 1 /\ stack[i].file = h
  <2>1. CASE h = g /\ k = Len(stack)
    <3>1. \A i \in DOMAIN stack : i <= k + 1
      BY <1>4, <2>1
    <3>2. QED
      BY <1>10, <2>1, <3>1
  <2>2. CASE h = g /\ k # Len(stack)
    BY <1>3, <2>2 DEF Inv, OrderInv
  <2>3. CASE h # g
    BY <1>7, <2>3 DEF Inv, OrderInv
  <2>4. QED
    BY <2>1, <2>2, <2>3
<1>12. OrderInv'
  BY <1>1, <1>3, <1>11, SameGraph DEF OrderInv
<1>13. ImportsFirst'
  BY <1>1, OrderFrame DEF Inv
<1>14. QED
  BY <1>5, <1>6, <1>8, <1>9, <1>12, <1>13 DEF Inv

(* An import that was not met becomes the new top of the path.             *)
LEMMA EnterImportStep ==
    ASSUME Inv, VisitImport, ~Entered(Head(Top(stack).rest))
    PROVE  Inv'
<1>1. /\ phase = "transforming" /\ stack # <<>> /\ Top(stack).rest # <<>>
      /\ program' = program /\ phase' = phase /\ pending_files' = pending_files
      /\ parsed_files' = parsed_files /\ transformed_files' = transformed_files
  BY DEF VisitImport, parsing
<1> DEFINE g == Head(Top(stack).rest)
           n == Len(stack)
<1>2. stack' = Append(remaining, Frame(g))
  BY DEF VisitImport, remaining
<1>3. /\ remaining \in Seq(Frames) /\ Len(remaining) = n /\ DOMAIN remaining = DOMAIN stack
      /\ \A k \in DOMAIN stack : remaining[k].file = stack[k].file
      /\ \A k \in DOMAIN stack : k # n => remaining[k].rest = stack[k].rest
      /\ Elements(stack[n].rest) = Elements(remaining[n].rest) \cup {g}
      /\ g \in Imported(stack[n].file)
  BY <1>1, RemainingFrames DEF Top
<1>4. /\ DOMAIN stack = 1..n /\ n \in Nat \ {0} /\ n \in DOMAIN stack
      /\ stack[n].file \in Elements(parsed_files) /\ stack[n].file \in Files
  BY <1>1, TopFrame DEF Inv, VisitInv
<1>5. g \in Elements(parsed_files) /\ g \in Files
  <2>1. Elements(parsed_files) \subseteq Files
    BY ElementsInSet DEF Inv, GraphType
  <2>2. QED
    BY <1>1, <1>3, <1>4, <2>1, ParsedAreClosed
<1>6. g \notin Elements(transformed_files) /\ \A k \in DOMAIN stack : stack[k].file # g
  BY DEF Entered, _visiting_files
<1>7. Frame(g) \in Frames /\ Frame(g).file = g /\ Elements(Frame(g).rest) = Imported(g)
  BY <1>5, ProgramType DEF Inv, Frame, Frames, Imported
<1> HIDE DEF g, n
<1>8. /\ stack' \in Seq(Frames) /\ DOMAIN stack' = 1..(n + 1) /\ stack'[n + 1] = Frame(g)
      /\ \A k \in 1..n : stack'[k] = remaining[k]
  BY <1>2, <1>3, <1>4, <1>7, AppendElements
<1>9. /\ \A k \in 1..n : /\ stack'[k].file = stack[k].file
                         /\ Elements(stack'[k].rest) \subseteq Elements(stack[k].rest)
                         /\ Elements(stack[k].rest) \subseteq Elements(stack'[k].rest) \cup {g}
      /\ \A k \in 1..n : k # n => stack'[k].rest = stack[k].rest
      /\ stack'[n + 1].file = g /\ Elements(stack'[n + 1].rest) = Imported(g)
  BY <1>3, <1>4, <1>7, <1>8
<1>10. 1..(n + 1) = (1..n) \cup {n + 1} /\ n + 1 \notin 1..n
  BY <1>4
<1>11. GraphType'
  BY <1>1, <1>8 DEF Inv, GraphType
<1>12. ParseInv'
  BY <1>1, SameGraph DEF Inv, ParseInv
<1>13. VisitInv'
  <2>1. \A k \in 1..(n + 1) : /\ stack'[k].file \in Elements(parsed_files)
                              /\ Elements(stack'[k].rest) \subseteq Imported(stack'[k].file)
                              /\ stack'[k].file \notin Elements(transformed_files)
    BY <1>4, <1>5, <1>6, <1>9, <1>10 DEF Inv, VisitInv
  <2>2. \A i, k \in 1..(n + 1) : stack'[i].file = stack'[k].file => i = k
    BY <1>4, <1>6, <1>9, <1>10 DEF Inv, VisitInv
  <2>3. QED
    BY <1>1, <1>8, <2>1, <2>2, SameGraph DEF Inv, VisitInv
<1>14. PathInv'
  <2>1. ASSUME NEW i \in 1..(n + 1), NEW k \in 1..(n + 1), i <= k
        PROVE  stack'[k].file \in Reachable({stack'[i].file})
    <3>1. CASE k \in 1..n
      <4>1. i \in 1..n
        BY <1>4, <2>1, <3>1
      <4>2. QED
        BY <1>4, <1>9, <2>1, <3>1, <4>1 DEF Inv, PathInv
    <3>2. CASE i = n + 1
      <4>1. k = n + 1
        BY <1>4, <2>1, <3>2
      <4>2. QED
        BY <1>5, <1>9, <3>2, <4>1, ReachableStep
    <3>3. CASE i \in 1..n /\ k = n + 1
      <4>1. stack[n].file \in Reachable({stack[i].file})
        <5>1. i \in DOMAIN stack /\ n \in DOMAIN stack /\ i <= n
          BY <1>4, <3>3
        <5>2. QED
          BY <5>1 DEF Inv, PathInv
      <4>2. g \in Reachable({stack[i].file})
        BY <1>3, <1>5, <4>1, ReachableStep
      <4>3. QED
        BY <1>9, <3>3, <4>2
    <3>4. QED
      BY <1>10, <3>1, <3>2, <3>3
  <2>2. QED
    BY <1>1, <1>8, <2>1, SameGraph DEF PathInv
<1>15. OrderInv'
  <2>1. ASSUME NEW k \in 1..(n + 1), NEW h \in Imported(stack'[k].file)
        PROVE  \/ h \in Elements(transformed_files)
               \/ h \in Elements(stack'[k].rest)
               \/ \E i \in 1..(n + 1) : i <= k + 1 /\ stack'[i].file = h
    <3>1. CASE k = n + 1
      BY <1>9, <2>1, <3>1
    <3>2. CASE k = n /\ h = g
      BY <1>4, <1>9, <3>2
    <3>3. CASE k \in 1..n /\ ~(k = n /\ h = g)
      <4>1. h \in Imported(stack[k].file)
        BY <1>9, <2>1, <3>3
      <4>2. \/ h \in Elements(transformed_files) \/ h \in Elements(stack[k].rest)
            \/ \E i \in 1..n : i <= k + 1 /\ stack[i].file = h
        BY <1>4, <3>3, <4>1 DEF Inv, OrderInv
      <4>3. h \in Elements(stack[k].rest) => h \in Elements(stack'[k].rest)
        BY <1>9, <3>3
      <4>4. QED
        BY <1>9, <1>10, <4>2, <4>3
    <3>4. QED
      BY <1>4, <1>10, <3>1, <3>2, <3>3
  <2>2. QED
    BY <1>1, <1>8, <2>1, SameGraph DEF OrderInv
<1>16. ImportsFirst'
  BY <1>1, OrderFrame DEF Inv
<1>17. QED
  BY <1>11, <1>12, <1>13, <1>14, <1>15, <1>16 DEF Inv

IsTransformed(f) == f \in Elements(transformed_files)

(* An import of the file on top of the path that is not transformed is on  *)
(* the path, and so leads to it.                                           *)
LEMMA TransformingImports ==
    ASSUME Inv, NEW f \in Files, IsTransforming(f)
    PROVE  /\ ~IsTransformed(f) /\ f \in Needed
           /\ \A g \in Imported(f) : IsTransformed(g) \/ f \in Reachable({g})
<1> DEFINE n == Len(stack)
<1>1. /\ stack # <<>> /\ f = Top(stack).file /\ Top(stack).rest = <<>>
  BY DEF IsTransforming
<1>2. /\ n \in Nat \ {0} /\ DOMAIN stack = 1..n /\ n \in DOMAIN stack
      /\ f = stack[n].file /\ Elements(stack[n].rest) = {}
  BY <1>1, TopFrame DEF Elements
<1>3. f \in Elements(parsed_files) /\ f \notin Elements(transformed_files)
  BY <1>2 DEF Inv, VisitInv
<1>4. f \in Needed
  BY <1>3 DEF Inv, ParseInv
<1>5. ASSUME NEW g \in Imported(f), g \notin Elements(transformed_files)
      PROVE  f \in Reachable({g})
  <2>1. PICK j \in DOMAIN stack : stack[j].file = g
    BY <1>2, <1>5 DEF Inv, OrderInv
  <2>2. j <= n
    BY <1>2
  <2>3. QED
    BY <1>2, <2>1, <2>2 DEF Inv, PathInv
<1>6. QED
  BY <1>3, <1>4, <1>5 DEF IsTransformed

(* The file on top of the path is transformed and leaves the path.  An     *)
(* import of it that is not transformed yet is on the path, and so leads   *)
(* to it.                                                                  *)
LEMMA TransformFileStep ==
    ASSUME Inv, NEW f \in Files, TransformFile(f)
    PROVE  Inv'
<1> DEFINE n == Len(stack)
           m == Len(transformed_files)
<1>1. /\ phase = "transforming" /\ stack # <<>> /\ f = Top(stack).file /\ Top(stack).rest = <<>>
      /\ program' = program /\ phase' = phase /\ pending_files' = pending_files
      /\ parsed_files' = parsed_files
      /\ stack' = Pop(stack) /\ transformed_files' = Append(transformed_files, f)
  BY DEF TransformFile, IsTransforming, parsing
<1>2. /\ n \in Nat \ {0} /\ DOMAIN stack = 1..n /\ n \in DOMAIN stack
      /\ f = stack[n].file /\ stack[n].rest = <<>> /\ Elements(stack[n].rest) = {}
  BY <1>1, TopFrame DEF Elements
<1>3. /\ stack' \in Seq(Frames) /\ DOMAIN stack' = 1..(n - 1)
      /\ \A k \in 1..(n - 1) : stack'[k] = stack[k]
  BY <1>1, PopElements DEF Inv, GraphType
<1>4. /\ transformed_files' \in Seq(Files) /\ DOMAIN transformed_files = 1..m
      /\ DOMAIN transformed_files' = 1..(m + 1) /\ transformed_files'[m + 1] = f
      /\ \A i \in 1..m : transformed_files'[i] = transformed_files[i]
      /\ Elements(transformed_files') = Elements(transformed_files) \cup {f}
  BY <1>1, AppendElements DEF Inv, GraphType
<1>5. m \in Nat /\ f \in Elements(parsed_files) /\ f \notin Elements(transformed_files)
  BY <1>2 DEF Inv, VisitInv, GraphType
<1> HIDE DEF n, m
<1>6. \A k \in 1..(n - 1) : k \in DOMAIN stack /\ k <= n /\ k # n
  BY <1>2
<1>7. 1..(m + 1) = (1..m) \cup {m + 1} /\ m + 1 \notin 1..m
  BY <1>5
<1>8. GraphType'
  BY <1>1, <1>3, <1>4 DEF Inv, GraphType
<1>9. ParseInv'
  BY <1>1, SameGraph DEF Inv, ParseInv
<1>10. VisitInv'
  <2>1. Elements(transformed_files') \subseteq Elements(parsed_files)
    BY <1>4, <1>5 DEF Inv, VisitInv
  <2>2. \A k \in 1..(n - 1) : stack[k].file # f
    BY <1>2, <1>6 DEF Inv, VisitInv
  <2>3. \A k \in 1..(n - 1) : /\ stack'[k].file \in Elements(parsed_files)
                              /\ Elements(stack'[k].rest) \subseteq Imported(stack'[k].file)
                              /\ stack'[k].file \notin Elements(transformed_files')
    BY <1>3, <1>4, <1>6, <2>2 DEF Inv, VisitInv
  <2>4. \A i, k \in 1..(n - 1) : stack'[i].file = stack'[k].file => i = k
    BY <1>3, <1>6 DEF Inv, VisitInv
  <2>5. \A i \in 1..m : transformed_files[i] # f
    BY <1>4, <1>5 DEF Elements
  <2>6. \A i, j \in 1..(m + 1) : transformed_files'[i] = transformed_files'[j] => i = j
    BY <1>4, <1>7, <2>5 DEF Inv, VisitInv
  <2>7. (\A k \in DOMAIN stack : /\ stack[k].file \in Elements(parsed_files)
                                 /\ Elements(stack[k].rest) \subseteq Imported(stack[k].file)
                                 /\ stack[k].file \notin Elements(transformed_files))'
    BY <1>1, <1>3, <2>3, SameGraph
  <2>8. \A i, k \in DOMAIN stack' : stack'[i].file = stack'[k].file => i = k
    BY <1>3, <2>4
  <2>9. \A i, j \in DOMAIN transformed_files' : transformed_files'[i] = transformed_files'[j] => i = j
    BY <1>4, <2>6
  <2>10. phase' \notin {"resolving", "done"}
    BY <1>1
  <2>11. QED
    BY <1>1, <2>1, <2>7, <2>8, <2>9, <2>10 DEF VisitInv
<1>11. PathInv'
  <2>1. \A i, k \in 1..(n - 1) : i <= k => stack'[k].file \in Reachable({stack'[i].file})
    BY <1>3, <1>6 DEF Inv, PathInv
  <2>2. QED
    BY <1>1, <1>3, <2>1, SameGraph DEF PathInv
<1>12. OrderInv'
  <2>1. ASSUME NEW k \in 1..(n - 1), NEW h \in Imported(stack'[k].file)
        PROVE  \/ h \in Elements(transformed_files')
               \/ h \in Elements(stack'[k].rest)
               \/ \E i \in 1..(n - 1) : i <= k + 1 /\ stack'[i].file = h
    <3>1. k \in DOMAIN stack /\ stack'[k] = stack[k]
      BY <1>3, <1>6
    <3>2. CASE h \in Elements(transformed_files) \/ h \in Elements(stack[k].rest)
      BY <1>4, <3>1, <3>2
    <3>3. CASE \E i \in DOMAIN stack : i <= k + 1 /\ stack[i].file = h
      <4>1. PICK i \in DOMAIN stack : i <= k + 1 /\ stack[i].file = h
        BY <3>3
      <4>2. CASE i = n
        BY <1>2, <1>4, <4>1, <4>2
      <4>3. CASE i # n
        <5>1. i \in 1..(n - 1)
          BY <1>2, <4>3
        <5>2. QED
          BY <1>3, <4>1, <5>1
      <4>4. QED
        BY <4>2, <4>3
    <3>4. QED
      BY <3>1, <3>2, <3>3 DEF Inv, OrderInv
  <2>2. QED
    BY <1>1, <1>3, <2>1, SameGraph DEF OrderInv
<1>13. ImportsFirst'
  <2>1. ASSUME NEW g \in Imported(f)
        PROVE  (\E j \in 1..m : transformed_files[j] = g) \/ f \in Reachable({g})
    <3>1. g \in Elements(transformed_files) \/ f \in Reachable({g})
      BY TransformingImports DEF TransformFile, IsTransformed
    <3>2. QED
      BY <1>4, <3>1 DEF Elements
  <2>2. ASSUME NEW i \in 1..(m + 1), NEW g \in Imported(transformed_files'[i])
        PROVE  \/ \E j \in 1..(i - 1) : transformed_files'[j] = g
               \/ transformed_files'[i] \in Reachable({g})
    <3>1. CASE i = m + 1
      <4>1. i - 1 = m /\ transformed_files'[i] = f
        BY <1>4, <1>5, <3>1
      <4>2. QED
        BY <1>4, <2>1, <2>2, <4>1
    <3>2. CASE i \in 1..m
      <4>1. transformed_files'[i] = transformed_files[i] /\ \A j \in 1..(i - 1) : j \in 1..m
        BY <1>4, <1>5, <3>2
      <4>2. \/ \E j \in 1..(i - 1) : transformed_files[j] = g
            \/ transformed_files[i] \in Reachable({g})
        BY <1>4, <2>2, <3>2, <4>1 DEF Inv, ImportsFirst
      <4>3. QED
        BY <1>4, <4>1, <4>2
    <3>3. QED
      BY <1>7, <3>1, <3>2
  <2>3. /\ \A i : Imported(transformed_files[i])' = Imported(transformed_files'[i])
        /\ \A g : Reachable({g})' = Reachable({g})
    BY <1>1, SameGraph
  <2>4. DOMAIN transformed_files' = 1..(m + 1)
    BY <1>4
  <2>5. ASSUME NEW i \in DOMAIN transformed_files', NEW g \in Imported(transformed_files[i])'
        PROVE  (\/ \E j \in 1..(i - 1) : transformed_files[j] = g
                \/ transformed_files[i] \in Reachable({g}))'
    <3>1. i \in 1..(m + 1) /\ g \in Imported(transformed_files'[i])
      BY <2>3, <2>4, <2>5
    <3>2. \/ \E j \in 1..(i - 1) : transformed_files'[j] = g
          \/ transformed_files'[i] \in Reachable({g})
      BY <2>2, <3>1
    <3>3. QED
      BY <2>3, <3>2
  <2>6. QED
    BY <2>5 DEF ImportsFirst
<1>14. QED
  BY <1>8, <1>9, <1>10, <1>11, <1>12, <1>13 DEF Inv

-----------------------------------------------------------------------------
(* The ends of the phases.                                                 *)

LEMMA PhaseStep ==
    ASSUME Inv, UNCHANGED <<program, parsing, stack, transformed_files>>,
           phase \in {"transforming", "resolving"}, phase' \in {"resolving", "done"},
           Elements(parsed_files) \subseteq Elements(transformed_files)
    PROVE  Inv'
<1>1. /\ program' = program /\ pending_files' = pending_files
      /\ parsed_files' = parsed_files /\ stack' = stack /\ transformed_files' = transformed_files
  BY DEF parsing
<1>2. GraphType'
  BY <1>1 DEF Inv, GraphType
<1>3. ParseInv'
  BY <1>1, SameGraph DEF Inv, ParseInv
<1>4. VisitInv'
  BY <1>1, SameGraph DEF Inv, VisitInv
<1>5. PathInv'
  BY <1>1, SameGraph DEF Inv, PathInv
<1>6. OrderInv'
  BY <1>1, SameGraph DEF Inv, OrderInv
<1>7. ImportsFirst'
  BY <1>1, OrderFrame DEF Inv
<1>8. QED
  BY <1>2, <1>3, <1>4, <1>5, <1>6, <1>7 DEF Inv

LEMMA InvNext == Inv /\ [Next]_vars => Inv'
<1> SUFFICES ASSUME Inv, [Next]_vars PROVE Inv'
  OBVIOUS
<1>1. CASE SkipParsed
  BY <1>1, SkipParsedStep
<1>2. ASSUME NEW f \in Files, ParseFile(f) PROVE Inv'
  BY <1>2, ParseFileStep
<1>3. ASSUME NEW f \in Files, RejectFile(f) PROVE Inv'
  BY <1>3, FailureStep DEF RejectFile
<1>4. CASE EndParsing
  BY <1>4, EndParsingStep
<1>5. CASE VisitParsed
  BY <1>5, VisitParsedStep
<1>6. CASE VisitImport
  BY <1>6, SkipImportStep, EnterImportStep
<1>7. ASSUME NEW f \in Files, TransformFile(f) PROVE Inv'
  BY <1>7, TransformFileStep
<1>8. ASSUME NEW f \in Files, RejectTransform(f) PROVE Inv'
  BY <1>8, FailureStep DEF RejectTransform
<1>9. CASE EndTransforming
  <2>1. /\ phase \in {"transforming", "resolving"} /\ phase' \in {"resolving", "done"}
        /\ Elements(parsed_files) \subseteq Elements(transformed_files)
        /\ UNCHANGED <<program, parsing, stack, transformed_files>>
    BY <1>9 DEF EndTransforming
  <2>2. QED
    BY <2>1, PhaseStep
<1>10. CASE ResolvePending
  BY <1>10, GraphFrame DEF ResolvePending, BindPending, graph
<1>11. CASE RejectPending
  BY <1>11, FailureStep DEF RejectPending
<1>12. CASE EndResolving
  <2>1. /\ phase \in {"transforming", "resolving"} /\ phase' \in {"resolving", "done"}
        /\ Elements(parsed_files) \subseteq Elements(transformed_files)
        /\ UNCHANGED <<program, parsing, stack, transformed_files>>
    BY <1>12 DEF EndResolving, Inv, VisitInv
  <2>2. QED
    BY <2>1, PhaseStep
<1>13. CASE Stopped \/ UNCHANGED vars
  BY <1>13, GraphFrame DEF Stopped, vars, graph, parsing
<1>14. QED
  BY <1>1, <1>2, <1>3, <1>4, <1>5, <1>6, <1>7, <1>8, <1>9, <1>10, <1>11, <1>12, <1>13 DEF Next

(* The invariant holds of the parser and of the traversal, whatever the    *)
(* imports, the roots and the cycles.                                      *)
THEOREM GraphInvariant == Spec => []Inv
<1>1. Init => Inv
  BY InvInit
<1>2. Inv /\ [Next]_vars => Inv'
  BY InvNext
<1>3. QED
  BY <1>1, <1>2, PTL DEF Spec

-----------------------------------------------------------------------------

(* FrancaParser.parse_files parses only files that can be reached from the *)
(* roots through imports, and when it ends it has parsed them all.         *)
THEOREM NeededAreParsed == Spec => []ParsesWhatIsReachable
<1>1. Inv => ParsesWhatIsReachable
  BY ParsedAreClosed DEF Inv, ParseInv, ParsesWhatIsReachable
<1>2. QED
  BY <1>1, GraphInvariant, PTL

(* _process_file transforms a file at most once, never enters a file that  *)
(* is on its path or transformed, and leaves out no parsed file.           *)
THEOREM EachFileOnce == Spec => []TransformsEachFileOnce
<1>1. Inv => TransformsEachFileOnce
  <2> SUFFICES ASSUME Inv PROVE TransformsEachFileOnce
    OBVIOUS
  <2> DEFINE path == [i \in DOMAIN stack |-> stack[i].file]
             m == Len(transformed_files)
             files == transformed_files \o path
  <2>1. /\ Len(stack) \in Nat /\ DOMAIN stack = 1..Len(stack)
        /\ \A k \in 1..Len(stack) : stack[k] \in Frames
    BY SequenceType DEF Inv, GraphType
  <2>2. path \in Seq(Files) /\ Len(path) = Len(stack)
    <3>1. \A k \in 1..Len(stack) : stack[k].file \in Files
      BY <2>1 DEF Frames
    <3>2. path \in [1..Len(stack) -> Files]
      BY <2>1, <3>1
    <3>3. QED
      BY <2>1, <3>2, SeqDef, LenProperties
  <2>3. \A k \in 1..Len(stack) : path[k] = stack[k].file
    BY <2>1
  <2>4. /\ m \in Nat /\ DOMAIN transformed_files = 1..m
        /\ transformed_files \in Seq(Files)
    BY DEF Inv, GraphType
  <2> HIDE DEF path
  <2>5. /\ DOMAIN files = 1..(m + Len(stack))
        /\ \A i \in 1..(m + Len(stack)) :
              files[i] = IF i <= m THEN transformed_files[i] ELSE path[i - m]
    BY <2>2, <2>4, ConcatProperties
  <2> HIDE DEF files, m
  <2>6. \A i \in 1..(m + Len(stack)) :
            \/ i \in 1..m /\ files[i] = transformed_files[i]
            \/ i > m /\ i - m \in 1..Len(stack) /\ files[i] = stack[i - m].file
    <3> TAKE i \in 1..(m + Len(stack))
    <3>1. CASE i <= m
      BY <2>1, <2>4, <2>5, <3>1
    <3>2. CASE i > m
      <4>1. i - m \in 1..Len(stack) /\ ~(i <= m)
        BY <2>1, <2>4, <3>2
      <4>2. QED
        BY <2>3, <2>5, <3>2, <4>1
    <3>3. QED
      BY <2>1, <2>4, <3>1, <3>2
  <2>7. ASSUME NEW i \in 1..(m + Len(stack)), NEW j \in 1..(m + Len(stack)), files[i] = files[j]
        PROVE  i = j
    <3>1. CASE i \in 1..m /\ j \in 1..m
      <4>1. transformed_files[i] = transformed_files[j]
        BY <2>4, <2>6, <2>7, <3>1
      <4>2. QED
        BY <2>4, <3>1, <4>1 DEF Inv, VisitInv
    <3>2. CASE i > m /\ j > m
      <4>1. /\ i - m \in DOMAIN stack /\ j - m \in DOMAIN stack
            /\ stack[i - m].file = stack[j - m].file
        BY <2>1, <2>4, <2>6, <2>7, <3>2
      <4>2. i - m = j - m
        BY <4>1 DEF Inv, VisitInv
      <4>3. QED
        BY <2>1, <2>4, <4>2
    <3>3. \A k \in DOMAIN stack, l \in 1..m : stack[k].file # transformed_files[l]
      BY <2>4 DEF Inv, VisitInv, Elements
    <3>4. QED
      BY <2>1, <2>6, <2>7, <3>1, <3>2, <3>3
  <2>8. phase \in {"resolving", "done"} => Elements(transformed_files) = Elements(parsed_files)
    BY DEF Inv, VisitInv
  <2>9. \A i, j \in DOMAIN files : files[i] = files[j] => i = j
    BY <2>5, <2>7
  <2>10. QED
    BY <2>8, <2>9 DEF TransformsEachFileOnce, files, path
<1>2. QED
  BY <1>1, GraphInvariant, PTL

(* A file is transformed after each of its imports, unless the import leads*)
(* back to it.                                                             *)
THEOREM ImportsAreFirst == Spec => []ImportsFirst
<1>1. Inv => ImportsFirst
  BY DEF Inv
<1>2. QED
  BY <1>1, GraphInvariant, PTL

-----------------------------------------------------------------------------
(* Declarations, slots and their names.                                    *)

Places == [role : {"extends", "field", "type"}, reference : Name]

LEMMA CollectionType ==
    ASSUME GraphType, NEW f \in Files
    PROVE  /\ program.package[f] \in Name
           /\ program.imports[f] \in Seq([file : Files, namespace : Name])
           /\ \A c \in DOMAIN program.collections[f] :
                 /\ c \in Nat
                 /\ Collection(f, c).name \in Name
                 /\ Collection(f, c).types \in Seq(Declaration)
                 /\ namespace(f, c) \in Name
<1> DEFINE Group == [name : Name, types : Seq(Declaration)]
<1>1. /\ program.package[f] \in Name
      /\ program.imports[f] \in Seq([file : Files, namespace : Name])
      /\ program.collections[f] \in Seq(Group)
  BY DEF GraphType, Program
<1>2. \A x \in Group : x.name \in Name /\ x.types \in Seq(Declaration)
  OBVIOUS
<1>3. \A c \in DOMAIN program.collections[f] : c \in Nat /\ program.collections[f][c] \in Group
  <2> HIDE DEF Group
  <2>1. QED
    BY <1>1, SequenceType
<1>4. ASSUME NEW c \in DOMAIN program.collections[f]
      PROVE  namespace(f, c) \in Name
  <2>1. Collection(f, c).name \in Name
    BY <1>2, <1>3 DEF Collection
  <2>2. QED
    BY <1>1, <2>1 DEF namespace, Name
<1>5. QED
  BY <1>1, <1>2, <1>3, <1>4 DEF Collection

LEMMA DeclarationType ==
    ASSUME GraphType, NEW f \in Files, NEW d \in Declarations(f)
    PROVE  /\ d[1] = f /\ d = <<f, d[2], d[3]>> /\ d # Unbound
           /\ d[2] \in DOMAIN program.collections[f] /\ d[3] \in DOMAIN Collection(f, d[2]).types
           /\ Said(d) \in Declaration /\ Said(d).name \in Parts
           /\ Said(d).places \in Seq(Places)
           /\ Identity(d) \in Name
<1>1. PICK c \in DOMAIN program.collections[f] : \E t \in DOMAIN Collection(f, c).types : d = <<f, c, t>>
  BY DEF Declarations
<1>2. PICK t \in DOMAIN Collection(f, c).types : d = <<f, c, t>>
  BY <1>1
<1>3. d[1] = f /\ d[2] = c /\ d[3] = t /\ d # Unbound
  BY <1>2 DEF Unbound
<1>4. Collection(f, c).types \in Seq(Declaration) /\ namespace(f, c) \in Name
  BY CollectionType
<1>5. Said(d) \in Declaration
  BY <1>2, <1>3, <1>4 DEF Said
<1>6. Said(d).name \in Parts /\ Said(d).places \in Seq(Places)
  BY <1>5 DEF Declaration, Places
<1>7. Identity(d) \in Name
  <2>1. <<Said(d).name>> \in Seq(Parts)
    BY <1>6
  <2>2. QED
    BY <1>3, <1>4, <2>1 DEF Identity, Name
<1>8. QED
  BY <1>1, <1>2, <1>3, <1>5, <1>6, <1>7

LEMMA FourParts ==
    ASSUME NEW a, NEW b, NEW c, NEW e
    PROVE  <<a, b, c>> \o <<e>> = <<a, b, c, e>>
<1> DEFINE U == {a, b, c, e}
           s == <<a, b, c>>
           t == <<e>>
           r == <<a, b, c, e>>
<1>1. s \in Seq(U) /\ t \in Seq(U) /\ r \in Seq(U) /\ Len(s) = 3 /\ Len(t) = 1 /\ Len(r) = 4
  OBVIOUS
<1>2. s \o t \in Seq(U) /\ Len(s \o t) = 4
  BY <1>1
<1>3. (s \o t)[1] = a /\ (s \o t)[2] = b /\ (s \o t)[3] = c /\ (s \o t)[4] = e
  BY <1>1
<1>4. \A i \in 1..4 : (s \o t)[i] = r[i]
  BY <1>3
<1>5. QED
  BY <1>1, <1>2, <1>4, SeqEqual

LEMMA SlotType ==
    ASSUME GraphType, NEW slot \in Slots
    PROVE  /\ slot[1] \in Files /\ slot \in References(slot[1])
           /\ \A f \in Files : slot \in References(f) => f = slot[1]
           /\ Owner(slot) \in Declarations(slot[1])
           /\ slot[2] \in DOMAIN program.collections[slot[1]]
           /\ Place(slot) \in Places /\ Reference(slot) \in Name
<1>1. ASSUME NEW f \in Files, slot \in References(f)
      PROVE  /\ f = slot[1] /\ Owner(slot) \in Declarations(f) /\ Place(slot) \in Places
             /\ slot[2] \in DOMAIN program.collections[f]
  <2>1. PICK d \in Declarations(f) : slot \in {d \o <<p>> : p \in DOMAIN Said(d).places}
    BY <1>1 DEF References
  <2>2. PICK p \in DOMAIN Said(d).places : slot = d \o <<p>>
    BY <2>1
  <2>3. d = <<f, d[2], d[3]>> /\ Said(d).places \in Seq(Places) /\ d[2] \in DOMAIN program.collections[f]
    BY DeclarationType
  <2>4. slot = <<f, d[2], d[3], p>>
    BY <2>2, <2>3, FourParts
  <2>5. slot[1] = f /\ slot[2] = d[2] /\ slot[3] = d[3] /\ slot[4] = p
    BY <2>4
  <2>6. Owner(slot) = d
    BY <2>3, <2>5 DEF Owner
  <2>7. Place(slot) \in Places
    BY <2>2, <2>3, <2>5, <2>6, SequenceType DEF Place
  <2>8. QED
    BY <2>3, <2>5, <2>6, <2>7
<1>2. PICK f \in Files : slot \in References(f)
  BY DEF Slots
<1>3. Reference(slot) \in Name
  BY <1>1, <1>2 DEF Reference, Places
<1>4. QED
  BY <1>1, <1>2, <1>3

LEMMA ReferenceIsSlot ==
    ASSUME NEW f \in Files, NEW slot \in References(f)
    PROVE  slot \in Slots
BY DEF Slots

(* A file has finitely many declarations, and so has a program.            *)
LEMMA DeclarationsFinite ==
    ASSUME GraphType
    PROVE  /\ \A f \in Files : IsFiniteSet(Declarations(f))
           /\ IsFiniteSet(UNION {Declarations(f) : f \in Files})
<1>1. ASSUME NEW f \in Files PROVE IsFiniteSet(Declarations(f))
  <2> DEFINE Part(c) == {<<f, c, t>> : t \in DOMAIN Collection(f, c).types}
             Parted == [c \in DOMAIN program.collections[f] |-> Part(c)]
  <2>1. ASSUME NEW c \in DOMAIN program.collections[f]
        PROVE  IsFiniteSet(Part(c))
    <3> DEFINE D == DOMAIN Collection(f, c).types
               F == [t \in D |-> <<f, c, t>>]
    <3>1. Collection(f, c).types \in Seq(Declaration)
      BY CollectionType
    <3>2. IsFiniteSet(D)
      BY <3>1, SequenceType, FS_Interval
    <3> HIDE DEF D
    <3>3. F \in Surjection(D, Part(c))
      BY DEF Surjection, D
    <3> HIDE DEF F, Part
    <3>4. QED
      BY <3>2, <3>3, FS_Surjection
  <2>2. IsFiniteSet(DOMAIN program.collections[f])
    <3>1. program.collections[f] \in Seq([name : Name, types : Seq(Declaration)])
      BY DEF GraphType, Program
    <3>2. QED
      BY <3>1, SequenceType, FS_Interval
  <2> HIDE DEF Part
  <2> DEFINE Groups == {Part(c) : c \in DOMAIN program.collections[f]}
  <2>3. Parted \in Surjection(DOMAIN program.collections[f], Groups)
    BY DEF Surjection
  <2> HIDE DEF Parted, Groups
  <2>4. IsFiniteSet(Groups)
    BY <2>2, <2>3, FS_Surjection
  <2>5. \A P \in Groups : IsFiniteSet(P)
    BY <2>1 DEF Groups
  <2>6. IsFiniteSet(UNION Groups)
    BY <2>4, <2>5, FS_UNION
  <2>7. QED
    BY <2>6 DEF Part, Groups, Declarations
<1>2. IsFiniteSet(UNION {Declarations(f) : f \in Files})
  <2> DEFINE Declared == [f \in Files |-> Declarations(f)]
             All == {Declarations(f) : f \in Files}
  <2>1. Declared \in Surjection(Files, All)
    BY DEF Surjection
  <2> HIDE DEF Declared, All
  <2>2. IsFiniteSet(All)
    BY <2>1, FS_Surjection, FrancaFileGraphAssumption
  <2>3. \A D \in All : IsFiniteSet(D)
    BY <1>1 DEF All
  <2>4. QED
    BY <2>2, <2>3, FS_UNION DEF All
<1>3. QED
  BY <1>1, <1>2

-----------------------------------------------------------------------------
(* What the searches find.                                                 *)

(* Among the imports: what the reference can mean there, in the files that *)
(* are transformed.                                                        *)
LEMMA ImportMatches ==
    ASSUME GraphType, NEW slot \in Slots
    PROVE  /\ _import_matches(slot, Reference(slot)) =
                 {d \in ImportScope(slot) : d[1] \in Elements(transformed_files)}
           /\ \A d \in ImportScope(slot) : d[1] \in Imported(slot[1]) /\ d \in Declarations(d[1])
<1> DEFINE f == slot[1]
           reference == Reference(slot)
<1>1. f \in Files /\ reference \in Seq(Parts)
  BY SlotType DEF Name
<1>2. \A i \in Elements(program.imports[f]) : /\ i.file \in Imported(f) /\ i.file \in Files
                                              /\ Base(i) \in Seq(Parts)
  <2> TAKE i \in Elements(program.imports[f])
  <2>1. PICK k \in DOMAIN program.imports[f] : i = program.imports[f][k]
    BY DEF Elements
  <2>2. program.imports[f] \in Seq([file : Files, namespace : Name])
    BY <1>1, CollectionType
  <2>3. i \in [file : Files, namespace : Name]
    BY <2>1, <2>2, SequenceType
  <2>4. i.file \in Files /\ i.namespace \in Name
    BY <2>3
  <2>5. Base(i) \in Seq(Parts)
    BY <2>4, CollectionType DEF Base, Name
  <2>6. i.file \in Imported(f)
    BY <2>1 DEF Imported, ImportList, Elements
  <2>7. QED
    BY <2>4, <2>5, <2>6
<1> HIDE DEF f, reference
<1>3. \A i \in Elements(program.imports[f]) : \A d \in Declarations(i.file) :
          /\ d[1] = i.file
          /\ Identity(d) \in expand_fqn_candidates(Base(i), reference)
                <=> StandsFor(Base(i), reference, Identity(d))
  BY <1>1, <1>2, DeclarationType, CandidatesAreMeanings DEF Name
<1>4. \A d : d \in _import_matches(slot, reference) <=>
          \E i \in Elements(program.imports[f]) :
              /\ i.file \in Elements(transformed_files)
              /\ d \in Declarations(i.file) /\ Identity(d) \in expand_fqn_candidates(Base(i), reference)
  BY DEF _import_matches, lookup_datatype, f
<1>5. \A d : d \in ImportScope(slot) <=>
          \E i \in Elements(program.imports[f]) :
              d \in Declarations(i.file) /\ StandsFor(Base(i), reference, Identity(d))
  BY DEF ImportScope, f, reference
<1>6. \A d : d \in _import_matches(slot, reference)
                <=> d \in ImportScope(slot) /\ d[1] \in Elements(transformed_files)
  BY <1>3, <1>4, <1>5
<1>7. \A d \in ImportScope(slot) : d[1] \in Imported(f) /\ d \in Declarations(d[1])
  BY <1>2, <1>3, <1>5
<1>8. QED
  BY <1>6, <1>7 DEF f, reference

(* In the file itself: exactly what the reference can mean there.          *)
LEMMA LocalMatchesAre ==
    ASSUME GraphType, NEW slot \in Slots
    PROVE  /\ _local_matches(slot, Reference(slot)) = LocalScope(slot)
           /\ LocalScope(slot) \subseteq Declarations(slot[1])
<1> DEFINE f == slot[1]
           reference == Reference(slot)
           base == namespace(f, slot[2])
           sibling == IF Len(reference) <= 1 THEN {}
                      ELSE {program.package[f] \o LastParts(reference, 2)}
<1>1. f \in Files /\ reference \in Seq(Parts) /\ base \in Seq(Parts) /\ Len(reference) \in Nat
  BY SlotType, CollectionType DEF Name
<1> HIDE DEF f, reference, base
<1>2. \A d \in Declarations(f) :
          Identity(d) \in expand_fqn_candidates(base, reference) <=> StandsFor(base, reference, Identity(d))
  BY <1>1, DeclarationType, CandidatesAreMeanings DEF Name
<1>3. \A x : x \in sibling <=> /\ Len(reference) > 1
                               /\ x = program.package[f] \o LastParts(reference, 2)
  BY <1>1
<1> HIDE DEF sibling
<1>4. \A d : d \in _local_matches(slot, reference) <=>
          /\ d \in Declarations(f)
          /\ Identity(d) \in expand_fqn_candidates(base, reference) \/ Identity(d) \in sibling
  BY DEF _local_matches, lookup_datatype, f, base, sibling
<1>5. \A d : d \in LocalScope(slot) <=>
          /\ d \in Declarations(f)
          /\ \/ StandsFor(base, reference, Identity(d))
             \/ /\ Len(reference) > 1
                /\ Identity(d) = program.package[f] \o LastParts(reference, 2)
  BY DEF LocalScope, f, base, reference
<1>6. \A d : d \in _local_matches(slot, reference) <=> d \in LocalScope(slot)
  BY <1>2, <1>3, <1>4, <1>5
<1>7. QED
  BY <1>5, <1>6 DEF f, reference

LEMMA ScopeType ==
    ASSUME GraphType, NEW slot \in Slots
    PROVE  /\ \A d \in Scope(slot) : d \in UNION {Declarations(f) : f \in Files} /\ d # Unbound
           /\ IsFiniteSet(Scope(slot))
<1>1. \A d \in Scope(slot) : \E f \in Files : d \in Declarations(f)
  BY SlotType, ImportMatches, LocalMatchesAre, ProgramType DEF Scope
<1>2. \A d \in Scope(slot) : d \in UNION {Declarations(f) : f \in Files} /\ d # Unbound
  BY <1>1, DeclarationType
<1>3. QED
  BY <1>2, DeclarationsFinite, FS_Subset

(* One match is the match.                                                 *)
LEMMA SingleMatch ==
    ASSUME NEW S, IsFiniteSet(S), NEW M \in SUBSET S, IsSingle(M), M # {}
    PROVE  M = {Single(M)} /\ Single(M) \in M
<1>1. IsFiniteSet(M) /\ Cardinality(M) \in Nat
  BY FS_Subset, FS_CardinalityType
<1>2. Cardinality(M) # 0
  BY <1>1, FS_EmptySet
<1>3. Cardinality(M) = 1
  BY <1>1, <1>2 DEF IsSingle
<1>4. \E x : M = {x}
  BY <1>1, <1>3, FS_Singleton
<1>5. Single(M) \in M
  BY DEF Single
<1>6. QED
  BY <1>4, <1>5

-----------------------------------------------------------------------------
(* The invariant of the binding.                                           *)

(* A reference that must wait behind a cycle: nothing in its own file, and *)
(* in imports only what lies around a cycle.                               *)
Waits(slot) ==
    /\ LocalScope(slot) = {}
    /\ \A d \in ImportScope(slot) : slot[1] \in Reachable({d[1]})

(* What _record_field_references records besides the references of a file: *)
(* the element of an imported array that a field is bound to.              *)
IsElementOf(slot, field) ==
    /\ Place(field).role = "field"
    /\ \E array \in ImportScope(field) : Said(array).kind = "array" /\ slot = array \o <<1>>

OnCycle(f) == f \in Reachable(Imported(f))

Meaning(slot) == IF ImportScope(slot) # {} THEN ImportScope(slot) ELSE LocalScope(slot)

CanMean(slot, d) == d \in Scope(slot) /\ CanBind(slot, d)

AllMeanSomething == \A slot \in NeededReferences : Scope(slot) # {}

(* Operators that depend on the program only.                              *)
LEMMA SameProgram ==
    ASSUME program' = program
    PROVE  /\ Slots' = Slots /\ NeededReferences' = NeededReferences
           /\ \A f : References(f)' = References(f) /\ Declarations(f)' = Declarations(f)
                     /\ OnCycle(f)' = OnCycle(f)
           /\ \A s : /\ ImportScope(s)' = ImportScope(s) /\ LocalScope(s)' = LocalScope(s)
                     /\ Scope(s)' = Scope(s) /\ Waits(s)' = Waits(s)
                     /\ Meaning(s)' = Meaning(s)
           /\ \A s, d : /\ CanBind(s, d)' = CanBind(s, d) /\ CanMean(s, d)' = CanMean(s, d)
                        /\ IsElementOf(s, d)' = IsElementOf(s, d)
           /\ AllMeanSomething' = AllMeanSomething
           /\ CircularElements' = CircularElements
           /\ HasFieldOfCircularArray' = HasFieldOfCircularArray
           /\ WellFormed' = WellFormed
<1>1. /\ \A d : Said(d)' = Said(d) /\ Identity(d)' = Identity(d)
      /\ \A f : Declarations(f)' = Declarations(f)
  BY DEF Declarations, Said, Identity, namespace, Collection
<1>2. \A s : Place(s)' = Place(s) /\ Reference(s)' = Reference(s) /\ Owner(s)' = Owner(s)
  BY <1>1 DEF Place, Owner, Reference
<1>3. \A f : References(f)' = References(f)
  BY DEF References, Reference, Place, Owner, Said, Declarations, Collection
<1>4. Slots' = Slots /\ NeededReferences' = NeededReferences
  BY <1>3, SameGraph DEF Slots, NeededReferences
<1>5. \A s : ImportScope(s)' = ImportScope(s)
  BY <1>1, <1>2 DEF ImportScope, Base
<1>6. \A s : LocalScope(s)' = LocalScope(s)
  BY <1>1, <1>2 DEF LocalScope, namespace, Collection
<1>7. \A s : Scope(s)' = Scope(s) /\ Meaning(s)' = Meaning(s)
  BY <1>5, <1>6 DEF Scope, Meaning
<1>8. \A s, d : CanBind(s, d)' = CanBind(s, d)
  BY <1>1, <1>2 DEF CanBind
<1>9. \A s, d : CanMean(s, d)' = CanMean(s, d)
  BY <1>7, <1>8 DEF CanMean
<1>10. \A s : Waits(s)' = Waits(s)
  BY <1>5, <1>6, SameGraph DEF Waits
<1>11. \A s, d : IsElementOf(s, d)' = IsElementOf(s, d)
  BY <1>1, <1>2, <1>5 DEF IsElementOf
<1>12. \A f : OnCycle(f)' = OnCycle(f)
  BY SameGraph DEF OnCycle
<1>13. AllMeanSomething' = AllMeanSomething
  BY <1>4, <1>7 DEF AllMeanSomething
<1>14. CircularElements' = CircularElements /\ HasFieldOfCircularArray' = HasFieldOfCircularArray
  <2> DEFINE Leads(element, array, d) ==
               d \in ImportScope(element) /\ array[1] \in Reachable({d[1]})
             Closes(element, array) == \E d : Leads(element, array, d)
             Through(element, field, array) ==
               /\ array \in ImportScope(field) /\ Said(array).kind = "array"
               /\ element = array \o <<1>> /\ Closes(element, array)
             Behind(element, field) ==
               /\ field \in NeededReferences /\ Place(field).role = "field"
               /\ \E array : Through(element, field, array)
             Circular(element) == \E field : Behind(element, field)
  <2>a. \A S : Reachable(S)' = Reachable(S)
    BY SameGraph
  <2>b. \A element, array, d : Leads(element, array, d)' = Leads(element, array, d)
    BY <1>5, <2>a
  <2>c. \A element, array : Closes(element, array)' = Closes(element, array)
    BY <2>b
  <2>d. \A element, field, array :
           Through(element, field, array)' = Through(element, field, array)
    BY <1>1, <1>5, <2>c
  <2>e. \A element, field : Behind(element, field)' = Behind(element, field)
    BY <1>2, <1>4, <2>d
  <2>f. \A element : Circular(element)' = Circular(element)
    BY <2>e
  <2>g. CircularElements = {element \in Slots : Circular(element)}
    BY DEF CircularElements
  <2>h. CircularElements' = {element \in Slots' : Circular(element)'}
    BY DEF CircularElements
  <2>1. CircularElements' = CircularElements
    BY <1>4, <2>f, <2>g, <2>h
  <2>2. QED
    BY <2>1 DEF HasFieldOfCircularArray
<1>15. WellFormed' = WellFormed
  <2>1. \A f : IsAccepted(f)' = IsAccepted(f)
    BY <1>1 DEF IsAccepted, EnumValues, Collection
  <2>2. QED
    BY <1>4, <1>7, <1>8, <2>1, SameGraph DEF WellFormed
<1>16. QED
  BY <1>1, <1>3, <1>4, <1>5, <1>6, <1>7, <1>8, <1>9, <1>10, <1>11, <1>12, <1>13, <1>14, <1>15

(* Left for later, in the slot itself.                                     *)
IsPending(slot) ==
    \E i \in DOMAIN pending_references : <<slot, slot>> \in pending_references[i].references

Records == [owner : Files, references : SUBSET (Slots \X Slots)]

BindType == DOMAIN target = Slots /\ pending_references \in Seq(Records)

(* What is left for later is a reference of a transformed file, or the     *)
(* element of an array that one of its fields was bound to; in any case it *)
(* has to wait.                                                            *)
IsLeft(owner, pair) ==
    /\ pair[1] \in References(owner)
    /\ IsTransformed(pair[2][1]) /\ Waits(pair[2])
    /\ pair[1] = pair[2] \/ IsElementOf(pair[2], pair[1])

PendingInv ==
    /\ phase = "done" => pending_references = <<>>
    /\ \A i \in DOMAIN pending_references :
          /\ IsTransformed(pending_references[i].owner)
          /\ \A pair \in pending_references[i].references : IsLeft(pending_references[i].owner, pair)

(* A slot is bound when its file is transformed, once and for all unless it*)
(* has to wait; then it is pending until it is bound.                      *)
SlotInv(slot) ==
    /\ ~IsTransformed(slot[1]) => target[slot] = Unbound
    /\ IsTransformed(slot[1]) /\ target[slot] = Unbound => Waits(slot) /\ IsPending(slot)
    /\ IsTransformed(slot[1]) /\ Scope(slot) = {} => IsPending(slot)
    /\ IsTransformed(slot[1]) /\ ~Waits(slot) =>
          CanMean(slot, target[slot]) /\ (~OnCycle(slot[1]) => {target[slot]} = Meaning(slot))

BoundInv == \A slot \in Slots : SlotInv(slot)

(* As long as no reference is hopeless, what is bound is bound in scope,   *)
(* but for the elements of circular arrays.                                *)
ScopeInv ==
    AllMeanSomething =>
        \A slot \in Slots : target[slot] # Unbound =>
            CanMean(slot, target[slot]) \/ slot \in CircularElements

FailInv == phase = "failed" => ~WellFormed \/ HasFieldOfCircularArray

BindInv == BindType /\ PendingInv /\ BoundInv /\ ScopeInv /\ FailInv

LEMMA BindInit == Init => BindInv
<1> SUFFICES ASSUME Init PROVE BindInv
  OBVIOUS
<1>1. /\ phase = "parsing" /\ transformed_files = <<>> /\ pending_references = <<>>
      /\ target = [slot \in Slots |-> Unbound]
  BY DEF Init
<1>2. BindType /\ PendingInv /\ FailInv
  BY <1>1 DEF BindType, PendingInv, FailInv
<1>3. \A f : ~IsTransformed(f)
  BY <1>1 DEF IsTransformed, Elements
<1>4. BoundInv
  BY <1>1, <1>3 DEF BoundInv, SlotInv
<1>5. ScopeInv
  BY <1>1 DEF ScopeInv
<1>6. QED
  BY <1>2, <1>4, <1>5 DEF BindInv

(* Steps that bind nothing.                                                *)
LEMMA BindFrame ==
    ASSUME BindInv, UNCHANGED <<program, transformed_files, target, pending_references>>,
           phase' = "done" => pending_references = <<>>, FailInv'
    PROVE  BindInv'
<1>1. \A f : IsTransformed(f)' = IsTransformed(f)
  BY DEF IsTransformed
<1>2. \A s : IsPending(s)' = IsPending(s)
  BY DEF IsPending
<1>3. BindType'
  BY SameProgram DEF BindInv, BindType, Records
<1>4. \A o, pair : IsLeft(o, pair)' = IsLeft(o, pair)
  BY <1>1, SameProgram DEF IsLeft
<1>5. PendingInv'
  BY <1>1, <1>4 DEF BindInv, PendingInv
<1>6. \A s : SlotInv(s)' = SlotInv(s)
  BY <1>1, <1>2, SameProgram DEF SlotInv
<1>7. BoundInv'
  BY <1>6, SameProgram DEF BindInv, BoundInv
<1>8. ScopeInv'
  BY SameProgram DEF BindInv, ScopeInv
<1>9. QED
  BY <1>3, <1>5, <1>7, <1>8 DEF BindInv

-----------------------------------------------------------------------------
(* What a file that is being transformed leaves for later.                 *)

(* Only needed files are transformed.                                      *)
LEMMA TransformedAreNeeded ==
    ASSUME Inv, NEW slot \in Slots, IsTransformed(slot[1]) \/ slot[1] \in Needed
    PROVE  slot \in NeededReferences /\ slot[1] \in Needed
<1>1. slot[1] \in Needed
  BY DEF Inv, ParseInv, VisitInv, IsTransformed
<1>2. slot \in References(slot[1])
  BY SlotType DEF Inv
<1>3. QED
  BY <1>1, <1>2 DEF NeededReferences

(* Off every cycle nothing waits that means something.                     *)
LEMMA OnCycleIf ==
    ASSUME NEW f, NEW g \in Imported(f), f \in Reachable({g})
    PROVE  OnCycle(f)
BY DEF OnCycle, Reachable

(* What a reference of the file means among its imports.                   *)
LEMMA EarlySlots ==
    ASSUME Inv, NEW f \in Files, IsTransforming(f), NEW slot \in References(f)
    PROVE  /\ slot \in Slots /\ slot[1] = f
           /\ slot \notin Early(f) /\ LocalScope(slot) = {} => Waits(slot)
           /\ slot \notin Early(f) /\ ~OnCycle(f) => ImportScope(slot) = {}
           /\ slot \in Early(f) /\ ~OnCycle(f) =>
                 _import_matches(slot, Reference(slot)) = ImportScope(slot)
<1>1. slot \in Slots /\ slot[1] = f
  BY ReferenceIsSlot, SlotType DEF Inv
<1>2. /\ _import_matches(slot, Reference(slot)) = {d \in ImportScope(slot) : IsTransformed(d[1])}
      /\ \A d \in ImportScope(slot) : d[1] \in Imported(f)
  BY <1>1, ImportMatches DEF Inv, IsTransformed
<1>3. \A d \in ImportScope(slot) : IsTransformed(d[1]) \/ f \in Reachable({d[1]})
  BY <1>2, TransformingImports
<1>4. slot \notin Early(f) => \A d \in ImportScope(slot) : f \in Reachable({d[1]})
  BY <1>2, <1>3 DEF Early
<1>5. ~OnCycle(f) => \A d \in ImportScope(slot) : IsTransformed(d[1])
  BY <1>2, <1>3, OnCycleIf
<1>6. slot \notin Early(f) /\ LocalScope(slot) = {} => Waits(slot)
  BY <1>1, <1>4 DEF Waits
<1>7. slot \notin Early(f) /\ ~OnCycle(f) => ImportScope(slot) = {}
  BY <1>2, <1>5 DEF Early
<1>8. QED
  BY <1>1, <1>2, <1>5, <1>6, <1>7

(* Pairs that are recorded: references of the file, and elements of arrays *)
(* that wait in files before it.                                           *)
LEMMA RecordedPairs ==
    ASSUME Inv, BindInv, NEW f \in Files, IsTransforming(f), NEW pair \in Recorded(f)
    PROVE  /\ pair = <<pair[1], pair[2]>> /\ pair[1] \in References(f) /\ pair[2] \in Slots
           /\ \/ pair[1] = pair[2] /\ pair[1] \notin Early(f)
              \/ /\ IsElementOf(pair[2], pair[1]) /\ IsTransformed(pair[2][1])
                 /\ Waits(pair[2]) /\ IsPending(pair[2]) /\ target[pair[2]] = Unbound
<1>1. CASE pair \in {<<slot, slot>> : slot \in References(f) \ Early(f)}
  BY <1>1, ReferenceIsSlot
<1>2. CASE pair \notin {<<slot, slot>> : slot \in References(f) \ Early(f)}
  <2>1. PICK field \in Early(f) :
           /\ pair = <<field, Match(field) \o <<1>>>>
           /\ Place(field).role = "field" /\ Said(Match(field)).kind = "array"
           /\ Match(field) \o <<1>> \in DOMAIN target
           /\ target[Match(field) \o <<1>>] = Unbound
    BY <1>2 DEF Recorded
  <2> DEFINE array == Match(field)
             slot == array \o <<1>>
  <2>2. field \in References(f) /\ field \in Slots /\ _import_matches(field, Reference(field)) # {}
    BY ReferenceIsSlot DEF Early
  <2>3. array \in _import_matches(field, Reference(field))
    BY <2>2 DEF Match, Single
  <2>4. array \in ImportScope(field) /\ IsTransformed(array[1]) /\ array \in Declarations(array[1])
    BY <2>2, <2>3, ImportMatches DEF Inv, IsTransformed
  <2>5. array[1] \in Files
    BY <2>4, ElementsInSet DEF Inv, GraphType, IsTransformed
  <2>6. array = <<array[1], array[2], array[3]>>
    BY <2>4, <2>5, DeclarationType DEF Inv
  <2> HIDE DEF array
  <2>7. slot = <<array[1], array[2], array[3], 1>>
    BY <2>6, FourParts
  <2>8. slot[1] = array[1] /\ slot \in Slots /\ target[slot] = Unbound
    BY <2>1, <2>7 DEF BindInv, BindType, array
  <2>9. IsElementOf(slot, field)
    BY <2>1, <2>4 DEF IsElementOf, array
  <2>10. Waits(slot) /\ IsPending(slot)
    BY <2>4, <2>8 DEF BindInv, BoundInv, SlotInv
  <2>11. pair = <<field, slot>>
    BY <2>1 DEF array
  <2>12. QED
    BY <2>2, <2>4, <2>8, <2>9, <2>10, <2>11
<1>3. QED
  BY <1>1, <1>2

(* Only elements of circular arrays wait in this way.                      *)
LEMMA CircularWaits ==
    ASSUME Inv, AllMeanSomething, NEW slot \in Slots, NEW field \in Slots,
           slot[1] \in Needed, field[1] \in Needed, IsElementOf(slot, field), Waits(slot)
    PROVE  slot \in CircularElements /\ HasFieldOfCircularArray
<1>1. slot \in NeededReferences /\ field \in NeededReferences
  BY TransformedAreNeeded
<1>2. PICK array \in ImportScope(field) : Said(array).kind = "array" /\ slot = array \o <<1>>
  BY DEF IsElementOf
<1>3. PICK d \in ImportScope(slot) : slot[1] \in Reachable({d[1]})
  BY <1>1 DEF AllMeanSomething, Waits, Scope
<1>4. array \in Declarations(array[1]) /\ array[1] \in Files
  BY ImportMatches, SlotType, ProgramType DEF Inv
<1>5. slot[1] = array[1]
  <2>1. array = <<array[1], array[2], array[3]>>
    BY <1>4, DeclarationType DEF Inv
  <2>2. slot = <<array[1], array[2], array[3], 1>>
    BY <1>2, <2>1, FourParts
  <2>3. QED
    BY <2>2
<1>6. Place(field).role = "field"
  BY DEF IsElementOf
<1>7. slot \in CircularElements
  BY <1>1, <1>2, <1>3, <1>5, <1>6 DEF CircularElements
<1>8. QED
  BY <1>7 DEF HasFieldOfCircularArray

-----------------------------------------------------------------------------
(* A file is transformed.                                                  *)

LEMMA TransformTarget ==
    ASSUME NEW f, TransformFile(f)
    PROVE  LET local == {pair \in Recorded(f) : LocalMatches(pair) # {}}
           IN  target' = [s \in DOMAIN target |->
                             IF \E pair \in local : pair[2] = s THEN BoundBy(local, s)
                             ELSE IF s \in Early(f) THEN Match(s) ELSE target[s]]
<1> DEFINE Local(recorded) == {pair \in recorded : LocalMatches(pair) # {}}
           Bound(early, local) == [slot \in DOMAIN target |->
                                      IF \E pair \in local : pair[2] = slot THEN BoundBy(local, slot)
                                      ELSE IF slot \in early THEN Match(slot) ELSE target[slot]]
           Left(recorded, local) ==
               IF recorded = local THEN pending_references
               ELSE Append(pending_references, Deferred(f, recorded \ local))
<1>1. \E early \in {Early(f)}, recorded \in {Recorded(f)} :
          \E local \in {Local(recorded)} :
              /\ target' = Bound(early, local)
              /\ pending_references' = Left(recorded, local)
  BY Zenon DEF TransformFile
<1> HIDE DEF Local, Bound, Left
<1>2. target' = Bound(Early(f), Local(Recorded(f)))
  BY <1>1
<1>3. QED
  BY <1>2 DEF Local, Bound

(* What the slots of the file itself are bound to.                         *)
LEMMA OwnSlots ==
    ASSUME Inv, BindInv, NEW f \in Files, TransformFile(f), NEW slot \in References(f)
    PROVE  \/ /\ CanMean(slot, target'[slot]) /\ target'[slot] # Unbound
              /\ ~OnCycle(f) => {target'[slot]} = Meaning(slot)
           \/ /\ Waits(slot) /\ target'[slot] = Unbound
              /\ <<slot, slot>> \in Recorded(f) /\ LocalMatches(<<slot, slot>>) = {}
<1> DEFINE local == {pair \in Recorded(f) : LocalMatches(pair) # {}}
           matches == _import_matches(slot, Reference(slot))
<1>1. /\ IsTransforming(f) /\ CanTransform(f)
      /\ target' = [s \in DOMAIN target |->
                       IF \E pair \in local : pair[2] = s THEN BoundBy(local, s)
                       ELSE IF s \in Early(f) THEN Match(s) ELSE target[s]]
  BY TransformTarget DEF TransformFile
<1>2. /\ slot \in Slots /\ slot[1] = f /\ ~IsTransformed(f) /\ DOMAIN target = Slots
      /\ target[slot] = Unbound
  BY <1>1, EarlySlots, TransformingImports DEF BindInv, BoundInv, SlotInv, BindType
<1>3. \A pair \in Recorded(f) : pair[2] = slot =>
          pair = <<slot, slot>> /\ slot \notin Early(f)
  BY <1>1, <1>2, RecordedPairs
<1>4. /\ matches = {d \in ImportScope(slot) : IsTransformed(d[1])}
      /\ LocalMatches(<<slot, slot>>) = LocalScope(slot)
  BY <1>2, ImportMatches, LocalMatchesAre DEF Inv, LocalMatches, IsTransformed
<1>5. \A d \in Scope(slot) : d # Unbound
  BY <1>2, ScopeType DEF Inv
<1>6. CASE slot \in Early(f)
  <2>1. target'[slot] = Match(slot)
    BY <1>1, <1>2, <1>3, <1>6
  <2>2. matches # {} /\ IsSingle(matches) /\ \A d \in matches : CanBind(slot, d)
    BY <1>1, <1>6 DEF Early, CanTransform
  <2>3. matches \subseteq Scope(slot) /\ IsFiniteSet(Scope(slot))
    BY <1>2, <1>4, ScopeType DEF Inv, Scope
  <2> HIDE DEF matches
  <2>4. matches = {Single(matches)}
    BY <2>2, <2>3, SingleMatch
  <2>5. Match(slot) = Single(matches)
    BY DEF Match, matches
  <2>6. ~OnCycle(f) => matches = Meaning(slot)
    BY <1>1, <1>6, <2>2, EarlySlots DEF Meaning, matches
  <2>7. QED
    BY <1>5, <2>1, <2>2, <2>3, <2>4, <2>5, <2>6 DEF CanMean
<1>7. CASE slot \notin Early(f) /\ LocalScope(slot) # {}
  <2>1. <<slot, slot>> \in Recorded(f)
    BY <1>7 DEF Recorded
  <2>2. <<slot, slot>> \in local
    BY <1>4, <1>7, <2>1
  <2>3. target'[slot] = BoundBy(local, slot)
    BY <1>1, <1>2, <2>2
  <2>4. {pair \in local : pair[2] = slot} = {<<slot, slot>>}
    BY <1>3, <2>2
  <2> HIDE DEF local
  <2>5. BoundBy(local, slot) = Single(LocalScope(slot))
    BY <1>4, <2>4 DEF BoundBy
  <2>6. IsSingle(LocalScope(slot)) /\ \A d \in LocalScope(slot) : CanBind(slot, d)
    BY <1>1, <1>4, <2>1 DEF CanTransform
  <2>7. LocalScope(slot) \subseteq Scope(slot) /\ IsFiniteSet(Scope(slot))
    BY <1>2, ScopeType DEF Inv, Scope
  <2>8. LocalScope(slot) = {Single(LocalScope(slot))}
    BY <1>7, <2>6, <2>7, SingleMatch
  <2>9. ~OnCycle(f) => LocalScope(slot) = Meaning(slot)
    BY <1>1, <1>7, EarlySlots DEF Meaning
  <2>10. QED
    BY <1>5, <2>3, <2>5, <2>6, <2>7, <2>8, <2>9 DEF CanMean
<1>8. CASE slot \notin Early(f) /\ LocalScope(slot) = {}
  <2>1. <<slot, slot>> \in Recorded(f) /\ LocalMatches(<<slot, slot>>) = {}
    BY <1>4, <1>8 DEF Recorded
  <2>2. \A pair \in local : pair[2] # slot
    BY <1>3, <2>1
  <2>3. target'[slot] = Unbound
    BY <1>1, <1>2, <1>8, <2>2
  <2>4. Waits(slot)
    BY <1>1, <1>8, EarlySlots
  <2>5. QED
    BY <2>1, <2>3, <2>4
<1>9. QED
  BY <1>6, <1>7, <1>8

(* The slots of other files: only what waits is touched.                   *)
LEMMA OtherSlots ==
    ASSUME Inv, BindInv, NEW f \in Files, TransformFile(f), NEW slot \in Slots, slot[1] # f
    PROVE  \/ target'[slot] = target[slot]
           \/ /\ IsTransformed(slot[1]) /\ Waits(slot) /\ IsPending(slot)
              /\ \E field \in References(f) : IsElementOf(slot, field)
<1> DEFINE local == {pair \in Recorded(f) : LocalMatches(pair) # {}}
<1>1. /\ IsTransforming(f) /\ CanTransform(f) /\ DOMAIN target = Slots
      /\ target' = [s \in DOMAIN target |->
                       IF \E pair \in local : pair[2] = s THEN BoundBy(local, s)
                       ELSE IF s \in Early(f) THEN Match(s) ELSE target[s]]
  BY TransformTarget DEF TransformFile, BindInv, BindType
<1>2. slot \notin References(f)
  BY SlotType DEF Inv
<1>3. slot \notin Early(f)
  BY <1>2 DEF Early
<1>4. CASE \E pair \in local : pair[2] = slot
  <2>1. PICK pair \in Recorded(f) : pair[2] = slot
    BY <1>4
  <2>2. pair[1] \in References(f) /\ pair[1] # slot
    BY <1>1, <1>2, <2>1, RecordedPairs
  <2>3. QED
    BY <1>1, <2>1, <2>2, RecordedPairs
<1>5. CASE ~\E pair \in local : pair[2] = slot
  BY <1>1, <1>3, <1>5
<1>6. QED
  BY <1>4, <1>5

(* The record of what is left.                                             *)
LEMMA LeftForLater ==
    ASSUME Inv, BindInv, NEW f \in Files, TransformFile(f)
    PROVE  /\ pending_references' \in Seq(Records)
           /\ \A i \in DOMAIN pending_references' :
                 \/ i \in DOMAIN pending_references /\ pending_references'[i] = pending_references[i]
                 \/ /\ pending_references'[i].owner = f
                    /\ pending_references'[i].references =
                          {pair \in Recorded(f) : LocalMatches(pair) = {}}
           /\ \A slot : IsPending(slot) => IsPending(slot)'
           /\ \A slot : <<slot, slot>> \in Recorded(f) /\ LocalMatches(<<slot, slot>>) = {} => IsPending(slot)'
<1> DEFINE left == {pair \in Recorded(f) : LocalMatches(pair) = {}}
           local == {pair \in Recorded(f) : LocalMatches(pair) # {}}
           record == [owner |-> f, references |-> left]
<1>1. /\ pending_references \in Seq(Records)
      /\ pending_references' = IF Recorded(f) = local THEN pending_references
                               ELSE Append(pending_references, Deferred(f, Recorded(f) \ local))
  BY DEF TransformFile, BindInv, BindType
<1>2. Recorded(f) \ local = left
  OBVIOUS
<1>3. Recorded(f) = local => left = {}
  BY <1>2
<1>4. left \in SUBSET (Slots \X Slots)
  <2> SUFFICES ASSUME NEW pair \in Recorded(f) PROVE pair \in Slots \X Slots
    OBVIOUS
  <2>1. /\ pair = <<pair[1], pair[2]>> /\ pair[1] \in References(f) /\ pair[2] \in Slots
    BY RecordedPairs DEF TransformFile
  <2>2. QED
    BY <2>1, ReferenceIsSlot
<1> HIDE DEF left, local
<1>5. record \in Records /\ record.owner = f /\ record.references = left
  BY <1>4 DEF Records
<1> HIDE DEF record
<1>6. CASE left = {} /\ pending_references' = pending_references
  <2>1. \A slot : IsPending(slot) => IsPending(slot)'
    BY <1>6 DEF IsPending
  <2>2. \A slot : <<slot, slot>> \in Recorded(f) /\ LocalMatches(<<slot, slot>>) = {} => <<slot, slot>> \in left
    BY DEF left
  <2>3. QED
    BY <1>1, <1>6, <2>1, <2>2
<1>7. CASE pending_references' = Append(pending_references, record)
  <2> DEFINE n == Len(pending_references)
  <2>1. /\ pending_references' \in Seq(Records) /\ DOMAIN pending_references' = 1..(n + 1)
        /\ DOMAIN pending_references = 1..n /\ pending_references'[n + 1] = record
        /\ \A i \in DOMAIN pending_references : pending_references'[i] = pending_references[i]
    BY <1>1, <1>5, <1>7, AppendElements
  <2>2. n \in Nat
    BY <1>1
  <2> HIDE DEF n
  <2>3. 1..(n + 1) = 1..n \cup {n + 1} /\ n + 1 \in 1..(n + 1)
    BY <2>2
  <2>4. \A slot : IsPending(slot) => IsPending(slot)'
    BY <2>1, <2>3 DEF IsPending
  <2>5. \A slot : <<slot, slot>> \in left => IsPending(slot)'
    BY <1>5, <2>1, <2>3 DEF IsPending
  <2>6. QED
    BY <1>5, <2>1, <2>3, <2>4, <2>5 DEF left
<1>8. Deferred(f, left) = record
  BY DEF Deferred, record
<1>9. QED
  BY <1>1, <1>2, <1>3, <1>6, <1>7, <1>8

LEMMA TransformBinds ==
    ASSUME Inv, BindInv, NEW f \in Files, TransformFile(f)
    PROVE  BindInv'
<1>1. /\ IsTransforming(f) /\ CanTransform(f) /\ phase = "transforming" /\ phase' = phase
      /\ program' = program /\ transformed_files' = Append(transformed_files, f)
      /\ DOMAIN target' = DOMAIN target
  BY DEF TransformFile, IsTransforming
<1>2. \A g : IsTransformed(g)' <=> IsTransformed(g) \/ g = f
  BY <1>1, AppendElements DEF IsTransformed, Inv, GraphType
<1>3. BindType'
  BY <1>1, LeftForLater, SameProgram DEF BindInv, BindType, Records
<1>4. ASSUME NEW o, NEW pair, IsLeft(o, pair)
      PROVE  IsLeft(o, pair)'
  BY <1>1, <1>2, <1>4, SameProgram DEF IsLeft
<1>5. ASSUME NEW pair \in Recorded(f), LocalMatches(pair) = {}
      PROVE  IsLeft(f, pair)'
  <2>1. /\ pair = <<pair[1], pair[2]>> /\ pair[1] \in References(f)
    BY <1>1, RecordedPairs
  <2>2. CASE pair[1] = pair[2] /\ pair[1] \notin Early(f)
    <3>1. pair[1] \in Slots /\ pair[1][1] = f
      BY <1>1, <2>1, EarlySlots
    <3>2. LocalScope(pair[1]) = {}
      BY <1>5, <2>1, <2>2, <3>1, LocalMatchesAre DEF LocalMatches, Inv
    <3>3. Waits(pair[1])
      BY <1>1, <2>1, <2>2, <3>2, EarlySlots
    <3>4. QED
      BY <1>1, <1>2, <2>1, <2>2, <3>1, <3>3, SameProgram DEF IsLeft
  <2>3. CASE IsElementOf(pair[2], pair[1]) /\ IsTransformed(pair[2][1]) /\ Waits(pair[2])
    BY <1>1, <1>2, <2>1, <2>3, SameProgram DEF IsLeft
  <2>4. QED
    BY <1>1, <2>2, <2>3, RecordedPairs
<1>6. PendingInv'
  <2>1. phase' # "done"
    BY <1>1
  <2>2. ASSUME NEW i \in DOMAIN pending_references'
        PROVE  /\ IsTransformed(pending_references[i].owner)'
               /\ \A pair \in pending_references'[i].references : IsLeft(pending_references[i].owner, pair)'
    <3>1. CASE i \in DOMAIN pending_references /\ pending_references'[i] = pending_references[i]
      <4>1. /\ IsTransformed(pending_references[i].owner)
            /\ \A pair \in pending_references[i].references : IsLeft(pending_references[i].owner, pair)
        BY <3>1 DEF BindInv, PendingInv
      <4>2. \A pair \in pending_references'[i].references : IsLeft(pending_references'[i].owner, pair)
        BY <3>1, <4>1
      <4>3. \A pair \in pending_references'[i].references : IsLeft(pending_references[i].owner, pair)'
        BY <1>1, <1>2, <4>2, SameProgram DEF IsLeft
      <4>4. IsTransformed(pending_references[i].owner)'
        BY <1>2, <3>1, <4>1 DEF IsTransformed
      <4>5. QED
        BY <4>3, <4>4
    <3>2. CASE /\ pending_references'[i].owner = f
               /\ pending_references'[i].references = {pair \in Recorded(f) : LocalMatches(pair) = {}}
      <4>1. IsTransformed(pending_references[i].owner)'
        BY <1>2, <3>2 DEF IsTransformed
      <4>2. \A pair \in pending_references'[i].references : IsLeft(f, pair)'
        BY <1>5, <3>2
      <4>3. \A pair \in pending_references'[i].references : IsLeft(pending_references[i].owner, pair)'
        BY <3>2, <4>2 DEF IsLeft
      <4>4. QED
        BY <4>1, <4>3
    <3>3. QED
      BY <3>1, <3>2, LeftForLater
  <2>3. QED
    BY <2>1, <2>2 DEF PendingInv
<1>7. ASSUME NEW slot \in Slots
      PROVE  SlotInv(slot)' /\ (AllMeanSomething => \/ target'[slot] = Unbound
                                                    \/ CanMean(slot, target'[slot])
                                                    \/ slot \in CircularElements)
  <2>1. /\ SlotInv(slot) /\ (IsPending(slot) => IsPending(slot)')
        /\ AllMeanSomething => \/ target[slot] = Unbound \/ CanMean(slot, target[slot])
                               \/ slot \in CircularElements
    BY LeftForLater DEF BindInv, BoundInv, ScopeInv
  <2>2. CASE slot[1] = f
    <3>1. slot \in References(f)
      BY <2>2, SlotType DEF Inv
    <3>2. IsTransformed(slot[1])'
      BY <1>2, <2>2
    <3>3. CASE /\ CanMean(slot, target'[slot]) /\ target'[slot] # Unbound
               /\ ~OnCycle(f) => {target'[slot]} = Meaning(slot)
      BY <1>1, <2>2, <3>2, <3>3, SameProgram DEF SlotInv, CanMean
    <3>4. CASE /\ Waits(slot) /\ target'[slot] = Unbound
               /\ <<slot, slot>> \in Recorded(f) /\ LocalMatches(<<slot, slot>>) = {}
      <4>1. IsPending(slot)'
        BY <3>4, LeftForLater
      <4>2. QED
        BY <1>1, <3>2, <3>4, <4>1, SameProgram DEF SlotInv
    <3>5. QED
      BY <3>1, <3>3, <3>4, OwnSlots
  <2>3. CASE slot[1] # f
    <3>1. IsTransformed(slot[1])' <=> IsTransformed(slot[1])
      BY <1>2, <2>3
    <3>2. CASE target'[slot] = target[slot]
      BY <1>1, <2>1, <3>1, <3>2, SameProgram DEF SlotInv
    <3>3. CASE /\ IsTransformed(slot[1]) /\ Waits(slot) /\ IsPending(slot)
               /\ \E field \in References(f) : IsElementOf(slot, field)
      <4>1. SlotInv(slot)'
        BY <1>1, <2>1, <3>1, <3>3, SameProgram DEF SlotInv
      <4>2. PICK field \in References(f) : IsElementOf(slot, field)
        BY <3>3
      <4>3. field \in Slots /\ field[1] = f /\ f \in Needed /\ slot[1] \in Needed
        BY <1>1, <3>3, EarlySlots, TransformingImports, TransformedAreNeeded
      <4>4. slot \in CircularElements \/ ~AllMeanSomething
        BY <3>3, <4>2, <4>3, CircularWaits
      <4>5. QED
        BY <3>3, <4>1, <4>4
    <3>4. QED
      BY <2>3, <3>2, <3>3, OtherSlots
  <2>4. QED
    BY <2>2, <2>3
<1>8. BoundInv'
  BY <1>1, <1>7, SameProgram DEF BoundInv
<1>9. ScopeInv'
  <2>1. SUFFICES ASSUME AllMeanSomething, NEW slot \in Slots, target'[slot] # Unbound
                 PROVE  CanMean(slot, target'[slot]) \/ slot \in CircularElements
    BY <1>1, SameProgram DEF ScopeInv
  <2>2. QED
    BY <1>7, <2>1
<1>10. FailInv'
  BY <1>1 DEF FailInv
<1>11. QED
  BY <1>3, <1>6, <1>8, <1>9, <1>10 DEF BindInv

-----------------------------------------------------------------------------
(* What was left is bound.                                                 *)

(* What is found for a pair that was left.                                 *)
LEMMA FoundLater ==
    ASSUME Inv, NEW owner \in Files, NEW pair \in Slots \X Slots, IsLeft(owner, pair), CanResolve(pair)
    PROVE  /\ Single(PendingMatches(pair)) # Unbound
           /\ pair[1] = pair[2] =>
                 CanMean(pair[2], Single(PendingMatches(pair))) /\ Scope(pair[2]) # {}
<1> DEFINE found == Single(PendingMatches(pair))
<1>1. Cardinality(PendingMatches(pair)) = 1 /\ CanBind(pair[2], found)
  BY DEF CanResolve
<1>2. PendingMatches(pair) # {}
  BY <1>1, FS_EmptySet
<1>3. found \in PendingMatches(pair)
  BY <1>2 DEF Single
<1>4. pair[1] \in Slots /\ pair[2] \in Slots
  OBVIOUS
<1>5. PICK i \in Elements(program.imports[pair[1][1]]) : found \in Declarations(i.file)
  BY <1>3 DEF PendingMatches, _import_matches, lookup_datatype
<1>6. i.file \in Files
  <2>1. pair[1][1] \in Files
    BY <1>4, SlotType DEF Inv
  <2>2. i.file \in Imported(pair[1][1])
    BY <1>5 DEF Imported, ImportList, Elements
  <2>3. QED
    BY <2>1, <2>2, ProgramType DEF Inv
<1>7. found # Unbound
  BY <1>5, <1>6, DeclarationType DEF Inv
<1>8. ASSUME pair[1] = pair[2]
      PROVE  found \in Scope(pair[2])
  <2>1. found \in _import_matches(pair[2], Reference(pair[2]))
    BY <1>3, <1>8 DEF PendingMatches
  <2>2. QED
    BY <1>4, <2>1, ImportMatches DEF Inv, Scope
<1>9. QED
  BY <1>1, <1>7, <1>8 DEF CanMean

LEMMA ResolveBinds ==
    ASSUME Inv, BindInv, ResolvePending
    PROVE  BindInv'
<1> DEFINE record == Head(pending_references)
           Chosen(slot) == CHOOSE pair \in record.references : pair[2] = slot
<1>1. /\ phase = "resolving" /\ pending_references # <<>>
      /\ \A pair \in record.references : CanResolve(pair)
      /\ target' = [slot \in DOMAIN target |->
                       IF \E pair \in record.references : pair[2] = slot
                       THEN Single(PendingMatches(Chosen(slot))) ELSE target[slot]]
      /\ pending_references' = Tail(pending_references)
      /\ program' = program /\ phase' = phase /\ transformed_files' = transformed_files
  BY DEF ResolvePending, BindPending
<1>2. /\ pending_references \in Seq(Records) /\ DOMAIN target = Slots
  BY DEF BindInv, BindType
<1>3. /\ Len(pending_references) \in Nat \ {0} /\ DOMAIN pending_references = 1..Len(pending_references)
      /\ record = pending_references[1] /\ record \in Records
      /\ pending_references' \in Seq(Records)
      /\ DOMAIN pending_references' = 1..(Len(pending_references) - 1)
      /\ \A i \in 1..(Len(pending_references) - 1) : pending_references'[i] = pending_references[i + 1]
  BY <1>1, <1>2, HeadTailProperties, EmptySeq
<1>4. /\ record.owner \in Files /\ record.references \subseteq Slots \X Slots
      /\ \A pair \in record.references : IsLeft(record.owner, pair)
  <2>1. 1 \in DOMAIN pending_references
    BY <1>3
  <2>2. \A pair \in record.references : IsLeft(record.owner, pair)
    BY <1>3, <2>1 DEF BindInv, PendingInv
  <2>3. QED
    BY <1>3, <2>2 DEF Records
<1>5. /\ \A i \in DOMAIN pending_references' :
            i + 1 \in DOMAIN pending_references /\ pending_references'[i] = pending_references[i + 1]
      /\ \A i \in DOMAIN pending_references : i = 1 \/ i - 1 \in DOMAIN pending_references'
      /\ \A i \in DOMAIN pending_references : i \in Int
  BY <1>3
<1> HIDE DEF record
<1>6. \A g : IsTransformed(g)' = IsTransformed(g)
  BY <1>1 DEF IsTransformed
<1>7. \A o, pair : IsLeft(o, pair)' = IsLeft(o, pair)
  BY <1>1, <1>6, SameProgram DEF IsLeft
<1>8. \A slot : IsPending(slot) => <<slot, slot>> \in record.references \/ IsPending(slot)'
  <2> SUFFICES ASSUME NEW slot, NEW i \in DOMAIN pending_references,
                      <<slot, slot>> \in pending_references[i].references,
                      <<slot, slot>> \notin record.references
               PROVE  IsPending(slot)'
    BY DEF IsPending
  <2>1. i # 1
    BY <1>3
  <2>2. i - 1 \in DOMAIN pending_references' /\ (i - 1) + 1 = i
    BY <1>5, <2>1
  <2>3. pending_references'[i - 1] = pending_references[i]
    BY <1>5, <2>2
  <2>4. QED
    BY <2>2, <2>3 DEF IsPending
<1>9. BindType'
  BY <1>1, <1>2, <1>3, SameProgram DEF BindType, Records
<1>10. PendingInv'
  <2>1. phase' # "done"
    BY <1>1
  <2>2. ASSUME NEW i \in DOMAIN pending_references'
        PROVE  /\ IsTransformed(pending_references'[i].owner)
               /\ \A pair \in pending_references'[i].references :
                     IsLeft(pending_references'[i].owner, pair)
    BY <1>5 DEF BindInv, PendingInv
  <2>3. ASSUME NEW i \in DOMAIN pending_references'
        PROVE  /\ IsTransformed(pending_references[i].owner)'
               /\ \A pair \in pending_references'[i].references :
                     IsLeft(pending_references[i].owner, pair)'
    <3>1. IsTransformed(pending_references[i].owner)'
      BY <1>1, <2>2 DEF IsTransformed
    <3>2. \A pair \in pending_references'[i].references : IsLeft(pending_references[i].owner, pair)'
      BY <1>1, <1>6, <2>2, SameProgram DEF IsLeft
    <3>3. QED
      BY <3>1, <3>2
  <2>4. QED
    BY <2>1, <2>3 DEF PendingInv
<1>11. ASSUME NEW slot \in Slots
       PROVE  /\ SlotInv(slot)'
              /\ AllMeanSomething
                    => \/ target'[slot] = Unbound \/ CanMean(slot, target'[slot])
                       \/ slot \in CircularElements
  <2>1. SlotInv(slot)
    BY DEF BindInv, BoundInv
  <2>2. CASE \E pair \in record.references : pair[2] = slot
    <3> DEFINE pair == Chosen(slot)
    <3>1. pair \in record.references /\ pair[2] = slot
      BY <2>2
    <3>2. target'[slot] = Single(PendingMatches(pair))
      BY <1>1, <1>2, <2>2
    <3> HIDE DEF pair
    <3>3. /\ pair \in Slots \X Slots /\ pair = <<pair[1], slot>>
          /\ IsLeft(record.owner, pair) /\ CanResolve(pair)
      BY <1>1, <1>4, <3>1
    <3>4. /\ IsTransformed(slot[1]) /\ Waits(slot) /\ pair[1] \in References(record.owner)
          /\ pair[1] = slot \/ IsElementOf(slot, pair[1])
      BY <3>3 DEF IsLeft
    <3>5. /\ target'[slot] # Unbound
          /\ pair[1] = slot => CanMean(slot, target'[slot])
      BY <1>4, <3>1, <3>2, <3>3, FoundLater
    <3>6. Scope(slot) = {} /\ IsPending(slot) => IsPending(slot)'
      <4>1. ASSUME <<slot, slot>> \in record.references
            PROVE  Scope(slot) # {}
        <5>1. IsLeft(record.owner, <<slot, slot>>) /\ CanResolve(<<slot, slot>>)
          BY <1>1, <1>4, <4>1
        <5>2. QED
          BY <1>4, <4>1, <5>1, FoundLater
      <4>2. QED
        BY <1>8, <4>1
    <3>7. SlotInv(slot)'
      BY <1>1, <1>6, <2>1, <3>4, <3>5, <3>6, SameProgram DEF SlotInv
    <3>8. ASSUME slot \notin CircularElements, AllMeanSomething
          PROVE  pair[1] = slot
      <4>1. pair[1] \in Slots /\ pair[1][1] = record.owner /\ IsTransformed(record.owner)
        <5>1. IsTransformed(record.owner)
          BY <1>3 DEF BindInv, PendingInv
        <5>2. QED
          BY <1>4, <3>4, <5>1, ReferenceIsSlot, SlotType DEF Inv
      <4>2. pair[1][1] \in Needed /\ slot[1] \in Needed
        BY <3>4, <4>1, TransformedAreNeeded
      <4>3. QED
        BY <3>4, <3>8, <4>1, <4>2, CircularWaits
    <3>9. QED
      BY <3>5, <3>7, <3>8
  <2>3. CASE ~\E pair \in record.references : pair[2] = slot
    <3>1. target'[slot] = target[slot]
      BY <1>1, <1>2, <2>3
    <3>2. <<slot, slot>> \notin record.references
      BY <2>3
    <3>3. IsPending(slot) => IsPending(slot)'
      BY <1>8, <3>2
    <3>4. SlotInv(slot)'
      BY <1>1, <1>6, <2>1, <3>1, <3>3, SameProgram DEF SlotInv
    <3>5. QED
      BY <3>1, <3>4 DEF BindInv, ScopeInv
  <2>4. QED
    BY <2>2, <2>3
<1>12. BoundInv'
  BY <1>1, <1>11, SameProgram DEF BoundInv
<1>13. ScopeInv'
  <2>1. SUFFICES ASSUME AllMeanSomething, NEW slot \in Slots, target'[slot] # Unbound
                 PROVE  CanMean(slot, target'[slot]) \/ slot \in CircularElements
    BY <1>1, SameProgram DEF ScopeInv
  <2>2. QED
    BY <1>11, <2>1
<1>14. FailInv'
  BY <1>1 DEF FailInv
<1>15. QED
  BY <1>9, <1>10, <1>12, <1>13, <1>14 DEF BindInv

-----------------------------------------------------------------------------
(* Rejections: none of a well-formed program.                              *)

LEMMA WellFormedMeans ==
    ASSUME Inv, WellFormed
    PROVE  /\ AllMeanSomething
           /\ \A slot \in NeededReferences :
                 /\ slot \in Slots
                 /\ \A M \in SUBSET Scope(slot) : /\ IsSingle(M) /\ \A d \in M : CanBind(slot, d)
                                                  /\ M # {} => Cardinality(M) = 1
<1>1. \A slot \in NeededReferences : slot \in Slots
  BY DEF NeededReferences, Slots, Needed, Reachable
<1>2. AllMeanSomething
  BY FS_EmptySet DEF WellFormed, AllMeanSomething
<1>3. ASSUME NEW slot \in NeededReferences, NEW M \in SUBSET Scope(slot)
      PROVE  /\ IsSingle(M) /\ \A d \in M : CanBind(slot, d)
             /\ M # {} => Cardinality(M) = 1
  <2>1. IsFiniteSet(Scope(slot)) /\ Cardinality(Scope(slot)) = 1
    BY <1>1, ScopeType DEF WellFormed, Inv
  <2>2. PICK x : Scope(slot) = {x}
    BY <2>1, FS_Singleton
  <2>3. M = {} \/ M = {x}
    BY <2>2
  <2>4. Cardinality({}) = 0 /\ Cardinality({x}) = 1
    BY FS_EmptySet, FS_Singleton
  <2>5. IsSingle(M) /\ (M # {} => Cardinality(M) = 1)
    BY <2>3, <2>4 DEF IsSingle
  <2>6. QED
    BY <2>5 DEF WellFormed
<1>4. QED
  BY <1>1, <1>2, <1>3

LEMMA NoRejectFile ==
    ASSUME Inv, WellFormed, NEW f \in Files, RejectFile(f)
    PROVE  FALSE
<1>1. f \in Elements(pending_files)
  BY PopElements DEF RejectFile, NextFile, Inv, GraphType
<1>2. f \in Needed
  BY <1>1 DEF Inv, ParseInv
<1>3. Imported(f) \subseteq Needed
  BY <1>2, ProgramType, ReachableStep DEF Needed, Inv
<1>4. QED
  BY <1>2, <1>3 DEF WellFormed, RejectFile, IsAllowed

LEMMA NoRejectTransform ==
    ASSUME Inv, BindInv, WellFormed, ~HasFieldOfCircularArray, NEW f \in Files, RejectTransform(f)
    PROVE  FALSE
<1>1. IsTransforming(f) /\ ~CanTransform(f) /\ f \in Needed
  BY TransformingImports DEF RejectTransform
<1>2. IsAccepted(f)
  BY <1>1 DEF WellFormed
<1>3. \A slot \in References(f) : slot \in Slots /\ slot[1] = f /\ slot \in NeededReferences
  BY <1>1, ReferenceIsSlot, SlotType, TransformedAreNeeded DEF Inv
<1>4. ASSUME NEW slot \in References(f)
      PROVE  LET matches == _import_matches(slot, Reference(slot))
             IN  IsSingle(matches) /\ \A d \in matches : CanBind(slot, d)
  <2>1. _import_matches(slot, Reference(slot)) \subseteq Scope(slot)
    BY <1>3, ImportMatches DEF Inv, Scope
  <2>2. QED
    BY <1>3, <2>1, WellFormedMeans
<1>5. ASSUME NEW pair \in Recorded(f)
      PROVE  IsSingle(LocalMatches(pair)) /\ \A d \in LocalMatches(pair) : CanBind(pair[2], d)
  <2>1. /\ pair = <<pair[1], pair[2]>> /\ pair[1] \in References(f) /\ pair[2] \in Slots
        /\ \/ pair[1] = pair[2]
           \/ IsElementOf(pair[2], pair[1]) /\ IsTransformed(pair[2][1]) /\ Waits(pair[2])
    BY <1>1, RecordedPairs
  <2>2. pair[1] = pair[2]
    <3>1. SUFFICES ASSUME IsElementOf(pair[2], pair[1]), IsTransformed(pair[2][1]), Waits(pair[2])
                   PROVE  FALSE
      BY <2>1
    <3>2. pair[2][1] \in Needed /\ pair[1][1] \in Needed
      BY <1>1, <1>3, <2>1, <3>1, TransformedAreNeeded
    <3>3. QED
      BY <1>3, <2>1, <3>1, <3>2, CircularWaits, WellFormedMeans
  <2>3. LocalMatches(pair) = LocalScope(pair[1])
    BY <1>3, <2>1, <2>2, LocalMatchesAre DEF LocalMatches, Inv
  <2>4. LocalScope(pair[1]) \subseteq Scope(pair[1])
    BY DEF Scope
  <2>5. QED
    BY <1>3, <2>1, <2>2, <2>3, <2>4, WellFormedMeans
<1>6. CanTransform(f)
  BY <1>2, <1>4, <1>5 DEF CanTransform
<1>7. QED
  BY <1>1, <1>6

(* All files are transformed when what is left is resolved.                *)
LEMMA AllTransformed ==
    ASSUME Inv, phase \in {"resolving", "done"}
    PROVE  \A f : IsTransformed(f) <=> f \in Needed
BY ParsedAreClosed DEF Inv, VisitInv, IsTransformed

LEMMA NoRejectPending ==
    ASSUME Inv, BindInv, WellFormed, ~HasFieldOfCircularArray, RejectPending
    PROVE  FALSE
<1>1. phase = "resolving" /\ pending_references # <<>> /\ pending_references \in Seq(Records)
  BY DEF RejectPending, BindInv, BindType
<1> DEFINE record == pending_references[1]
<1>2. PICK pair \in record.references : ~CanResolve(pair)
  <2>1. Head(pending_references) = record
    BY <1>1
  <2>2. QED
    BY <2>1 DEF RejectPending
<1>3. 1 \in DOMAIN pending_references /\ record \in Records
  BY <1>1, EmptySeq
<1>4. IsTransformed(record.owner) /\ IsLeft(record.owner, pair)
  BY <1>2, <1>3 DEF BindInv, PendingInv
<1>5. record.owner \in Files /\ pair \in Slots \X Slots
  BY <1>2, <1>3 DEF Records
<1> DEFINE slot == pair[2]
           field == pair[1]
<1> HIDE DEF record
<1>6. /\ pair = <<field, slot>> /\ field \in Slots /\ slot \in Slots
      /\ field[1] = record.owner /\ IsTransformed(slot[1]) /\ Waits(slot)
      /\ field = slot \/ IsElementOf(slot, field)
  BY <1>4, <1>5, SlotType DEF IsLeft, Inv
<1> HIDE DEF slot, field
<1>7. /\ slot \in NeededReferences /\ slot[1] \in Needed /\ field[1] \in Needed
  BY <1>4, <1>6, TransformedAreNeeded
<1>8. field = slot
  BY <1>6, <1>7, CircularWaits, WellFormedMeans
<1>9. PendingMatches(pair) = _import_matches(slot, Reference(slot))
  BY <1>8 DEF PendingMatches, slot, field
<1>10. _import_matches(slot, Reference(slot)) = Scope(slot)
  <2>1. /\ _import_matches(slot, Reference(slot)) =
              {d \in ImportScope(slot) : d[1] \in Elements(transformed_files)}
        /\ \A d \in ImportScope(slot) : d[1] \in Imported(slot[1])
    BY <1>6, ImportMatches DEF Inv
  <2>2. Imported(slot[1]) \subseteq Needed
    <3>1. slot[1] \in Files
      BY <1>6, SlotType DEF Inv
    <3>2. QED
      BY <1>7, <3>1, ProgramType, ReachableStep DEF Needed, Inv
  <2>3. \A d \in ImportScope(slot) : d[1] \in Elements(transformed_files)
    BY <1>1, <2>1, <2>2, AllTransformed DEF IsTransformed
  <2>4. LocalScope(slot) = {}
    BY <1>6 DEF Waits
  <2>5. QED
    BY <2>1, <2>3, <2>4 DEF Scope
<1>11. Scope(slot) # {}
  BY <1>7, WellFormedMeans DEF AllMeanSomething
<1>12. Cardinality(Scope(slot)) = 1 /\ \A d \in Scope(slot) : CanBind(slot, d)
  BY <1>7, <1>11, WellFormedMeans
<1>13. Single(Scope(slot)) \in Scope(slot)
  BY <1>11 DEF Single
<1>14. CanResolve(pair)
  BY <1>9, <1>10, <1>12, <1>13 DEF CanResolve, slot
<1>15. QED
  BY <1>2, <1>14

-----------------------------------------------------------------------------

LEMMA BindNext == Inv /\ BindInv /\ [Next]_vars => BindInv'
<1> SUFFICES ASSUME Inv, BindInv, [Next]_vars PROVE BindInv'
  OBVIOUS
<1> DEFINE Untouched == UNCHANGED <<program, transformed_files, target, pending_references>>
<1>1. ASSUME Untouched, phase' \notin {"done", "failed"}
      PROVE  BindInv'
  BY <1>1, BindFrame DEF FailInv
<1>2. ASSUME Untouched, phase' = "failed", WellFormed => HasFieldOfCircularArray
      PROVE  BindInv'
  BY <1>2, BindFrame, SameProgram DEF FailInv
<1>3. CASE SkipParsed \/ EndParsing \/ VisitParsed \/ VisitImport \/ EndTransforming
  BY <1>1, <1>3 DEF SkipParsed, NextFile, EndParsing, VisitParsed, VisitImport, EndTransforming, binding
<1>4. ASSUME NEW f \in Files, ParseFile(f) PROVE BindInv'
  BY <1>1, <1>4 DEF ParseFile, NextFile, binding
<1>5. ASSUME NEW f \in Files, RejectFile(f) PROVE BindInv'
  BY <1>2, <1>5, NoRejectFile DEF RejectFile, binding
<1>6. ASSUME NEW f \in Files, TransformFile(f) PROVE BindInv'
  BY <1>6, TransformBinds
<1>7. ASSUME NEW f \in Files, RejectTransform(f) PROVE BindInv'
  BY <1>2, <1>7, NoRejectTransform DEF RejectTransform, binding
<1>8. CASE ResolvePending
  BY <1>8, ResolveBinds
<1>9. CASE RejectPending
  BY <1>2, <1>9, NoRejectPending DEF RejectPending, binding
<1>10. CASE EndResolving
  BY <1>10, BindFrame DEF EndResolving, binding, FailInv
<1>11. CASE Stopped \/ UNCHANGED vars
  <2>1. Untouched /\ phase' = phase
    BY <1>11 DEF Stopped, vars, binding
  <2>2. phase' = "done" => pending_references = <<>>
    BY <2>1 DEF BindInv, PendingInv
  <2>3. FailInv'
    BY <2>1, SameProgram DEF BindInv, FailInv
  <2>4. QED
    BY <2>1, <2>2, <2>3, BindFrame
<1>12. QED
  BY <1>3, <1>4, <1>5, <1>6, <1>7, <1>8, <1>9, <1>10, <1>11 DEF Next

(* What slots are bound to, or wait for, at every moment, whatever the     *)
(* imports, their cycles and the names.                                    *)
THEOREM BindInvariant == Spec => []BindInv
<1>1. Init => BindInv
  BY BindInit
<1>2. Inv /\ BindInv /\ [Next]_vars => BindInv'
  BY BindNext
<1>3. QED
  BY <1>1, <1>2, GraphInvariant, PTL DEF Spec

(* The end of a run: everything is bound, and everything means something.  *)
LEMMA DoneSlots ==
    ASSUME Inv, BindInv, phase = "done"
    PROVE  /\ AllMeanSomething
           /\ \A slot \in NeededReferences :
                 slot \in Slots /\ IsTransformed(slot[1]) /\ target[slot] # Unbound /\ Scope(slot) # {}
<1>1. pending_references = <<>>
  BY DEF BindInv, PendingInv
<1>2. ASSUME NEW slot \in NeededReferences
      PROVE  slot \in Slots /\ IsTransformed(slot[1]) /\ target[slot] # Unbound /\ Scope(slot) # {}
  <2>1. PICK f \in Needed : slot \in References(f)
    BY DEF NeededReferences
  <2>2. f \in Files
    BY <2>1 DEF Needed, Reachable
  <2>3. slot \in Slots /\ slot[1] = f
    BY <2>1, <2>2, ReferenceIsSlot, SlotType DEF Inv
  <2>4. IsTransformed(slot[1])
    BY <2>1, <2>3, AllTransformed
  <2>5. ~IsPending(slot)
    BY <1>1 DEF IsPending
  <2>6. QED
    BY <2>3, <2>4, <2>5 DEF BindInv, BoundInv, SlotInv
<1>3. QED
  BY <1>2 DEF AllMeanSomething

(* For any files, imports and names: a transformation that succeeds has    *)
(* bound every reference to a declaration that it can mean, and of the     *)
(* right kind, but for the elements of circular arrays, each by itself.    *)
THEOREM BoundInScope == Spec => []BindsInScope
<1>1. Inv /\ BindInv => BindsInScope
  <2> SUFFICES ASSUME Inv, BindInv, phase = "done",
                      NEW slot \in NeededReferences, slot \notin CircularElements
               PROVE  /\ target[slot] \in Scope(slot)
                      /\ Place(slot).role = "extends" => Said(target[slot]).kind = Said(Owner(slot)).kind
    BY DEF BindsInScope
  <2>1. CanMean(slot, target[slot])
    BY DoneSlots DEF BindInv, ScopeInv
  <2>2. QED
    BY <2>1 DEF CanMean, CanBind
<1>2. QED
  BY <1>1, GraphInvariant, BindInvariant, PTL

(* For any files, imports and names: off the cycles of imports a reference *)
(* is bound to its only match among the imports, or else to the only one   *)
(* in its file.                                                            *)
THEOREM OneMeaningOffCycles == Spec => []OneMeaning
<1>1. Inv /\ BindInv => OneMeaning
  <2> SUFFICES ASSUME Inv, BindInv, phase = "done", NEW slot \in NeededReferences,
                      slot[1] \notin Reachable(Imported(slot[1]))
               PROVE  {target[slot]} = IF ImportScope(slot) # {} THEN ImportScope(slot) ELSE LocalScope(slot)
    BY DEF OneMeaning
  <2>1. /\ slot \in Slots /\ IsTransformed(slot[1]) /\ Scope(slot) # {} /\ ~OnCycle(slot[1])
    BY DoneSlots DEF OnCycle
  <2>2. ~Waits(slot)
    <3>1. SUFFICES ASSUME Waits(slot) PROVE FALSE
      OBVIOUS
    <3>2. PICK d \in ImportScope(slot) : slot[1] \in Reachable({d[1]})
      BY <2>1, <3>1 DEF Waits, Scope
    <3>3. d[1] \in Imported(slot[1])
      BY <2>1, ImportMatches DEF Inv
    <3>4. QED
      BY <2>1, <3>2, <3>3, OnCycleIf
  <2>3. {target[slot]} = Meaning(slot)
    BY <2>1, <2>2 DEF BindInv, BoundInv, SlotInv
  <2>4. QED
    BY <2>3 DEF Meaning
<1>2. QED
  BY <1>1, GraphInvariant, BindInvariant, PTL

(* For any files, imports and names: a well-formed program is never        *)
(* rejected, unless a field is of a circular array.                        *)
THEOREM WellFormedIsResolved == Spec => []ResolvesWellFormed
<1>1. BindInv => ResolvesWellFormed
  BY DEF BindInv, FailInv, ResolvesWellFormed
<1>2. QED
  BY <1>1, BindInvariant, PTL

-----------------------------------------------------------------------------
(* The values of enumerators.                                              *)

(* A set of natural numbers has a least element: its initial segments are  *)
(* ordered by inclusion.                                                   *)
LEMMA LeastNumber ==
    ASSUME NEW K, K \subseteq Nat, K # {}
    PROVE  \E m \in K : \A k \in K : m <= k
<1>1. PICK n \in K : TRUE
  OBVIOUS
<1> DEFINE below == {1..k : k \in {j \in K : j <= n}}
<1>2. n \in Nat /\ IsFiniteSet(1..n)
  BY FS_Interval
<1>3. IsWellFoundedOn(StrictSubsetOrdering(1..n), SUBSET (1..n))
  <2>1. FiniteSubsetsOf(1..n) = SUBSET (1..n)
    BY <1>2, FS_FiniteSubsetsOfFinite
  <2>2. QED
    BY <2>1, FS_StrictSubsetOrderingWellFounded
<1>4. below \subseteq SUBSET (1..n) /\ 1..n \in below
  <2>1. \A k \in K : k <= n => 1..k \subseteq 1..n
    BY <1>2
  <2>2. QED
    BY <2>1, <1>2
<1> HIDE DEF below
<1>5. PICK x \in below : \A y \in below : ~(<<y, x>> \in StrictSubsetOrdering(1..n))
  BY <1>3, <1>4, WFMin
<1>6. PICK m \in K : m <= n /\ x = 1..m
  BY <1>5 DEF below
<1>7. ASSUME NEW k \in K PROVE m <= k
  <2>1. SUFFICES ASSUME k < m PROVE FALSE
    OBVIOUS
  <2>2. 1..k \in below
    BY <1>2, <1>6, <2>1 DEF below
  <2>3. 1..k \subseteq 1..m /\ 1..k # 1..m
    <3>1. m \in 1..m /\ m \notin 1..k
      BY <2>1
    <3>2. QED
      BY <3>1, <2>1
  <2>4. <<1..k, 1..m>> \in StrictSubsetOrdering(1..n)
    BY <1>4, <1>5, <1>6, <2>2, <2>3 DEF StrictSubsetOrdering
  <2>5. QED
    BY <1>5, <1>6, <2>2, <2>4
<1>8. QED
  BY <1>6, <1>7

(* The value that a literal has: its own, that of the last literal that    *)
(* has one plus the distance, or its position from zero if none has.       *)
IsValue(values, i, v) ==
    \/ \E j \in 1..i : /\ values[j] # Implicit /\ v = values[j] + (i - j)
                       /\ \A k \in (j + 1)..i : values[k] = Implicit
    \/ v = i - 1 /\ \A k \in 1..i : values[k] = Implicit

NextValue(values, i, before) ==
    IF values[i] # Implicit THEN values[i] ELSE IF i = 1 THEN 0 ELSE before + 1

LEMMA ValueOfNext ==
    ASSUME NEW values \in Seq(Int \cup {Implicit}), NEW i \in 1..Len(values), NEW before,
           i # 1 => IsValue(values, i - 1, before)
    PROVE  IsValue(values, i, NextValue(values, i, before))
<1>1. /\ Len(values) \in Nat /\ Implicit \notin Int
      /\ \A k \in 1..Len(values) : values[k] \in Int \cup {Implicit}
  BY FrancaFileGraphAssumption
<1>2. CASE values[i] # Implicit
  <2>1. values[i] \in Int /\ i \in 1..i /\ values[i] = values[i] + (i - i)
    BY <1>1, <1>2
  <2>2. \A k \in (i + 1)..i : values[k] = Implicit
    BY <1>1
  <2>3. QED
    BY <1>2, <2>1, <2>2 DEF IsValue, NextValue
<1>3. CASE values[i] = Implicit /\ i = 1
  BY <1>3 DEF IsValue, NextValue
<1>4. CASE values[i] = Implicit /\ i # 1
  <2>1. \A k \in 1..i : k \in 1..(i - 1) \/ k = i
    BY <1>1
  <2>2. CASE before = (i - 1) - 1 /\ \A k \in 1..(i - 1) : values[k] = Implicit
    <3>1. before + 1 = i - 1
      BY <1>1, <2>2
    <3>2. \A k \in 1..i : values[k] = Implicit
      BY <1>4, <2>1, <2>2
    <3>3. QED
      BY <1>4, <3>1, <3>2 DEF IsValue, NextValue
  <2>3. CASE \E j \in 1..(i - 1) :
                /\ values[j] # Implicit /\ before = values[j] + ((i - 1) - j)
                /\ \A k \in (j + 1)..(i - 1) : values[k] = Implicit
    <3>1. PICK j \in 1..(i - 1) :
                /\ values[j] # Implicit /\ before = values[j] + ((i - 1) - j)
                /\ \A k \in (j + 1)..(i - 1) : values[k] = Implicit
      BY <2>3
    <3>2. j \in 1..i /\ j \in 1..Len(values) /\ values[j] \in Int
      BY <1>1, <3>1
    <3>3. before + 1 = values[j] + (i - j)
      <4>1. \A x, n, m \in Int : (x + ((n - 1) - m)) + 1 = x + (n - m)
        OBVIOUS
      <4>2. i \in Int /\ j \in Int
        BY <1>1
      <4>3. (values[j] + ((i - 1) - j)) + 1 = values[j] + (i - j)
        BY <3>2, <4>1, <4>2
      <4>4. QED
        BY <3>1, <4>3
    <3>4. \A k \in (j + 1)..i : k \in (j + 1)..(i - 1) \/ k = i
      BY <1>1, <3>2
    <3>5. \A k \in (j + 1)..i : values[k] = Implicit
      BY <1>4, <3>1, <3>4
    <3>6. QED
      BY <1>4, <3>1, <3>2, <3>3, <3>5 DEF IsValue, NextValue
  <2>4. IsValue(values, i - 1, before)
    BY <1>4
  <2>5. QED
    BY <2>2, <2>3, <2>4 DEF IsValue
<1>5. QED
  BY <1>2, <1>3, <1>4

LEMMA OneValue ==
    ASSUME NEW values \in Seq(Int \cup {Implicit}), NEW i \in 1..Len(values), NEW v, NEW w,
           IsValue(values, i, v), IsValue(values, i, w)
    PROVE  v = w
<1>1. \A j, k \in 1..i : k = j \/ k \in (j + 1)..i \/ j \in (k + 1)..i
  OBVIOUS
<1>2. CASE \A k \in 1..i : values[k] = Implicit
  BY <1>2 DEF IsValue
<1>3. CASE ~(\A k \in 1..i : values[k] = Implicit)
  <2>1. PICK j \in 1..i : /\ values[j] # Implicit /\ v = values[j] + (i - j)
                          /\ \A k \in (j + 1)..i : values[k] = Implicit
    BY <1>3 DEF IsValue
  <2>2. PICK l \in 1..i : /\ values[l] # Implicit /\ w = values[l] + (i - l)
                          /\ \A k \in (l + 1)..i : values[k] = Implicit
    BY <1>3 DEF IsValue
  <2>3. j = l
    BY <1>1, <2>1, <2>2
  <2>4. QED
    BY <2>1, <2>2, <2>3
<1>4. QED
  BY <1>2, <1>3

LEMMA SomeValue ==
    ASSUME NEW values \in Seq(Int \cup {Implicit}), NEW i \in 1..Len(values)
    PROVE  \E v : IsValue(values, i, v)
<1> SUFFICES ASSUME \A v : ~IsValue(values, i, v) PROVE FALSE
  OBVIOUS
<1> DEFINE K == {m \in 1..Len(values) : \A v : ~IsValue(values, m, v)}
<1>1. i \in K /\ K \subseteq Nat
  OBVIOUS
<1>2. PICK m \in K : \A k \in K : m <= k
  <2> HIDE DEF K
  <2>1. QED
    BY <1>1, LeastNumber
<1>3. m \in 1..Len(values) /\ \A v : ~IsValue(values, m, v)
  BY <1>2
<1>4. m # 1 => m - 1 \in 1..Len(values) /\ ~(m <= m - 1)
  BY <1>3
<1>5. m # 1 => m - 1 \notin K
  <2> HIDE DEF K
  <2>1. QED
    BY <1>2, <1>4
<1>6. \E v : m # 1 => IsValue(values, m - 1, v)
  BY <1>4, <1>5
<1>7. QED
  BY <1>3, <1>6, ValueOfNext

(* The constructor of an enumeration gives every literal its own value, or *)
(* that of the last one that has one plus the distance, or its position.   *)
THEOREM EnumValuesAre ==
    ASSUME NEW values \in Seq(Int \cup {Implicit})
    PROVE  /\ DOMAIN EnumValues(values) = DOMAIN values
           /\ \A i \in DOMAIN values : \A v : EnumValues(values)[i] = v <=> IsValue(values, i, v)
<1> DEFINE N == DOMAIN values
           g == [i \in N |-> CHOOSE v : IsValue(values, i, v)]
           f == CHOOSE h : h = [i \in N |-> IF values[i] # Implicit THEN values[i]
                                            ELSE IF i = 1 THEN 0 ELSE h[i - 1] + 1]
<1>1. N = 1..Len(values) /\ Len(values) \in Nat
  OBVIOUS
<1>2. EnumValues(values) = f
  BY DEF EnumValues
<1>3. \A i \in N : IsValue(values, i, g[i])
  BY <1>1, SomeValue
<1> HIDE DEF g
<1>4. g = [i \in N |-> IF values[i] # Implicit THEN values[i]
                       ELSE IF i = 1 THEN 0 ELSE g[i - 1] + 1]
  <2>1. ASSUME NEW i \in N PROVE g[i] = NextValue(values, i, g[i - 1])
    <3>1. i # 1 => i - 1 \in N
      BY <1>1
    <3>2. IsValue(values, i, NextValue(values, i, g[i - 1]))
      BY <1>1, <1>3, <3>1, ValueOfNext
    <3>3. QED
      BY <1>1, <1>3, <3>2, OneValue
  <2>2. g = [i \in N |-> g[i]]
    BY DEF g
  <2>3. QED
    BY <2>1, <2>2 DEF NextValue
<1>5. f = [i \in N |-> IF values[i] # Implicit THEN values[i]
                       ELSE IF i = 1 THEN 0 ELSE f[i - 1] + 1]
  BY <1>4
<1> HIDE DEF f
<1>6. DOMAIN f = N /\ \A i \in N : f[i] = NextValue(values, i, f[i - 1])
  BY <1>5 DEF NextValue
<1>7. ASSUME NEW i \in N, ~IsValue(values, i, f[i]) PROVE FALSE
  <2> DEFINE K == {m \in N : ~IsValue(values, m, f[m])}
  <2>1. i \in K /\ K \subseteq Nat
    BY <1>1, <1>7
  <2>2. PICK m \in K : \A k \in K : m <= k
    <3> HIDE DEF K
    <3>1. QED
      BY <2>1, LeastNumber
  <2>3. m \in N /\ ~IsValue(values, m, f[m])
    BY <2>2
  <2>4. m # 1 => m - 1 \in N /\ ~(m <= m - 1)
    BY <1>1, <2>3
  <2>5. m # 1 => m - 1 \notin K
    <3> HIDE DEF K
    <3>1. QED
      BY <2>2, <2>4
  <2>6. m # 1 => IsValue(values, m - 1, f[m - 1])
    BY <2>4, <2>5
  <2>7. QED
    BY <1>1, <1>6, <2>3, <2>6, ValueOfNext
<1>8. QED
  BY <1>1, <1>2, <1>6, <1>7, OneValue
=============================================================================
