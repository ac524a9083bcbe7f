------------------------- MODULE DeploymentProofs -------------------------
EXTENDS Deployment, SequenceTheorems, FiniteSetTheorems, TLAPS

-----------------------------------------------------------------------------
(* Names: what the comparisons of a use are.                               *)

(* Parts of a sequence, by length and by position.                         *)
LEMMA SomeParts ==
    ASSUME NEW S, NEW s \in Seq(S), NEW k \in 0..Len(s)
    PROVE  /\ FirstParts(s, k) \in Seq(S) /\ Len(FirstParts(s, k)) = k
           /\ \A i \in 1..k : FirstParts(s, k)[i] = s[i]
           /\ LastParts(s, k) \in Seq(S) /\ Len(LastParts(s, k)) = k
           /\ \A i \in 1..k : LastParts(s, k)[i] = s[Len(s) - k + i]
           /\ WithoutFirst(s, k) \in Seq(S) /\ Len(WithoutFirst(s, k)) = Len(s) - k
           /\ \A i \in 1..(Len(s) - k) : WithoutFirst(s, k)[i] = s[k + i]
<1>1. Len(s) \in Nat /\ k \in Nat /\ k <= Len(s)
  OBVIOUS
<1>2. \A i \in 1..Len(s) : s[i] \in S
  OBVIOUS
<1>3. /\ FirstParts(s, k) \in Seq(S) /\ Len(FirstParts(s, k)) = k
      /\ \A i \in 1..k : FirstParts(s, k)[i] = s[i]
  BY <1>1, <1>2, SubSeqProperties DEF FirstParts
<1>4. /\ LastParts(s, k) \in Seq(S) /\ Len(LastParts(s, k)) = k
      /\ \A i \in 1..k : LastParts(s, k)[i] = s[Len(s) - k + i]
  BY <1>1, <1>2, SubSeqProperties DEF LastParts
<1>5. /\ WithoutFirst(s, k) \in Seq(S) /\ Len(WithoutFirst(s, k)) = Len(s) - k
      /\ \A i \in 1..(Len(s) - k) : WithoutFirst(s, k)[i] = s[k + i]
  BY <1>1, <1>2, SubSeqProperties DEF WithoutFirst
<1> QED
  BY <1>3, <1>4, <1>5

(* Equality of sequences, by length and by position.                       *)
LEMMA SameSequence ==
    ASSUME NEW S, NEW s \in Seq(S), NEW t \in Seq(S), Len(s) = Len(t),
           \A i \in 1..Len(s) : s[i] = t[i]
    PROVE  s = t
BY SeqEqual

(* A name ends with a part, position by position.                          *)
LEMMA EndByPosition ==
    ASSUME NEW S, NEW part \in Seq(S), NEW name \in Seq(S)
    PROVE  IsEnd(part, name) <=>
              /\ Len(part) <= Len(name)
              /\ \A i \in 1..Len(part) : name[Len(name) - Len(part) + i] = part[i]
<1>1. SUFFICES ASSUME Len(part) <= Len(name)
               PROVE  LastParts(name, Len(part)) = part <=>
                         \A i \in 1..Len(part) : name[Len(name) - Len(part) + i] = part[i]
  BY DEF IsEnd
<1>2. Len(part) \in 0..Len(name)
  BY <1>1
<1>3. /\ LastParts(name, Len(part)) \in Seq(S) /\ Len(LastParts(name, Len(part))) = Len(part)
      /\ \A i \in 1..Len(part) : LastParts(name, Len(part))[i] = name[Len(name) - Len(part) + i]
  BY <1>2, SomeParts
<1>4. ASSUME \A i \in 1..Len(part) : name[Len(name) - Len(part) + i] = part[i]
      PROVE  LastParts(name, Len(part)) = part
  BY <1>3, <1>4, SameSequence
<1> QED
  BY <1>3, <1>4

(* The two comparisons of a use, with the deployment's own name and with   *)
(* the end of its namespace, are one comparison with the full name.        *)
LEMMA UseEndsFullName ==
    ASSUME NEW S, NEW use \in Seq(S), NEW name \in Seq(S), NEW namespace \in Seq(S),
           Len(name) <= Len(use)
    PROVE  IsEnd(name, use) /\ IsEnd(FirstParts(use, Len(use) - Len(name)), namespace)
              <=> IsEnd(use, namespace \o name)
<1> DEFINE u == Len(use)
           n == Len(name)
           m == Len(namespace)
           k == u - n
           full == namespace \o name
<1>1. u \in Nat /\ n \in Nat /\ m \in Nat /\ n <= u /\ k \in 0..u /\ u = k + n
  OBVIOUS
<1>2. /\ full \in Seq(S) /\ Len(full) = m + n
      /\ \A i \in 1..m : full[i] = namespace[i]
      /\ \A i \in 1..n : full[m + i] = name[i]
  <2>1. full \in Seq(S) /\ Len(full) = m + n
    BY ConcatProperties
  <2>2. \A i \in 1..(m + n) : full[i] = IF i <= m THEN namespace[i] ELSE name[i - m]
    BY <2>1, ConcatProperties
  <2> HIDE DEF full, m, n
  <2>3. ASSUME NEW i \in 1..n
        PROVE  full[m + i] = name[i]
    <3>1. m + i \in 1..(m + n) /\ ~(m + i <= m) /\ (m + i) - m = i
      BY <1>1
    <3> QED
      BY <2>2, <3>1
  <2> QED
    BY <1>1, <2>1, <2>2, <2>3
<1>3. IsEnd(name, use) <=> \A i \in 1..n : use[k + i] = name[i]
  BY EndByPosition
<1>4. IsEnd(FirstParts(use, k), namespace) <=>
         k <= m /\ \A i \in 1..k : namespace[m - k + i] = use[i]
  <2> DEFINE first == FirstParts(use, k)
  <2>1. first \in Seq(S) /\ Len(first) = k /\ \A i \in 1..k : first[i] = use[i]
    BY <1>1, SomeParts
  <2> HIDE DEF first, k
  <2>2. IsEnd(first, namespace) <=>
           /\ Len(first) <= Len(namespace)
           /\ \A i \in 1..Len(first) : namespace[Len(namespace) - Len(first) + i] = first[i]
    BY <2>1, EndByPosition
  <2>3. IsEnd(first, namespace) <=> k <= m /\ \A i \in 1..k : namespace[m - k + i] = use[i]
    BY <2>1, <2>2
  <2> QED
    BY <2>3 DEF first
<1>5. IsEnd(use, full) <=> u <= m + n /\ \A i \in 1..u : full[m + n - u + i] = use[i]
  <2> HIDE DEF full
  <2>1. IsEnd(use, full) <=>
           u <= Len(full) /\ \A i \in 1..u : full[Len(full) - u + i] = use[i]
    BY <1>2, EndByPosition
  <2> QED
    BY <1>2, <2>1
<1> HIDE DEF full, u, n, m, k
<1>6. ASSUME \A i \in 1..n : use[k + i] = name[i],
             k <= m, \A i \in 1..k : namespace[m - k + i] = use[i]
      PROVE  u <= m + n /\ \A i \in 1..u : full[m + n - u + i] = use[i]
  <2>1. ASSUME NEW i \in 1..u
        PROVE  full[m + n - u + i] = use[i]
    <3>1. CASE i <= k
      <4>1. i \in 1..k /\ m - k + i \in 1..m /\ m + n - u + i = m - k + i
        BY <1>1, <1>6, <3>1
      <4> QED
        BY <1>2, <1>6, <4>1
    <3>2. CASE ~(i <= k)
      <4>1. i - k \in 1..n /\ m + n - u + i = m + (i - k) /\ k + (i - k) = i
        BY <1>1, <3>2
      <4> QED
        BY <1>2, <1>6, <4>1
    <3> QED
      BY <3>1, <3>2
  <2> QED
    BY <1>1, <1>6, <2>1
<1>7. ASSUME u <= m + n, \A i \in 1..u : full[m + n - u + i] = use[i]
      PROVE  /\ \A i \in 1..n : use[k + i] = name[i]
             /\ k <= m /\ \A i \in 1..k : namespace[m - k + i] = use[i]
  <2>1. ASSUME NEW i \in 1..n
        PROVE  use[k + i] = name[i]
    <3>1. k + i \in 1..u /\ m + n - u + (k + i) = m + i
      BY <1>1
    <3> QED
      BY <1>2, <1>7, <3>1
  <2>2. ASSUME NEW i \in 1..k
        PROVE  namespace[m - k + i] = use[i]
    <3>1. i \in 1..u /\ m - k + i \in 1..m /\ m + n - u + i = m - k + i
      BY <1>1, <1>7
    <3> QED
      BY <1>2, <1>7, <3>1
  <2> QED
    BY <1>1, <1>7, <2>1, <2>2
<1>8. IsEnd(name, use) /\ IsEnd(FirstParts(use, k), namespace) <=> IsEnd(use, full)
  BY <1>3, <1>4, <1>5, <1>6, <1>7
<1> QED
  BY <1>8 DEF full, k, u, n

(* matches_use_definition_reference matches exactly the uses that end the  *)
(* full name of a deployment, not within its own name, and that continue   *)
(* the imported namespace without a gap.                                   *)
THEOREM UsesAreMeanings ==
    ASSUME NEW S, NEW use \in Seq(S), NEW name \in Seq(S), NEW namespace \in Seq(S),
           NEW imported \in Seq(S)
    PROVE  matches_use_definition_reference(use, name, namespace, imported)
              <=> UseMeans(use, name, namespace, imported)
<1>1. /\ Len(use) \in Nat /\ Len(name) \in Nat /\ Len(namespace) \in Nat /\ Len(imported) \in Nat
      /\ namespace \o name \in Seq(S) /\ Len(namespace \o name) = Len(namespace) + Len(name)
  BY ConcatProperties
<1>2. CASE ~(Len(name) <= Len(use) /\ Len(imported) <= Len(namespace))
  BY <1>2 DEF matches_use_definition_reference, UseMeans, IsEnd, is_namespace_visible
<1>3. CASE Len(name) <= Len(use) /\ Len(imported) <= Len(namespace)
  <2>1. IsEnd(name, use) /\ IsEnd(FirstParts(use, Len(use) - Len(name)), namespace)
           <=> IsEnd(use, namespace \o name)
    BY <1>3, UseEndsFullName
  <2>2. FirstParts(namespace \o name, Len(imported)) = FirstParts(namespace, Len(imported))
    <3> DEFINE k == Len(imported)
               full == namespace \o name
    <3>1. k \in 0..Len(namespace) /\ k \in 0..Len(full)
      BY <1>1, <1>3
    <3>2. /\ FirstParts(full, k) \in Seq(S) /\ Len(FirstParts(full, k)) = k
          /\ \A i \in 1..k : FirstParts(full, k)[i] = full[i]
      BY <1>1, <3>1, SomeParts
    <3>3. /\ FirstParts(namespace, k) \in Seq(S) /\ Len(FirstParts(namespace, k)) = k
          /\ \A i \in 1..k : FirstParts(namespace, k)[i] = namespace[i]
      BY <3>1, SomeParts
    <3>4. \A i \in 1..k : full[i] = namespace[i]
      BY <1>1, <3>1, ConcatProperties
    <3> HIDE DEF k, full
    <3>5. FirstParts(full, k) = FirstParts(namespace, k)
      BY <3>2, <3>3, <3>4, SameSequence
    <3> QED
      BY <3>5 DEF k, full
  <2>3. CASE imported = <<>>
    <3>1. FirstParts(namespace, Len(imported)) = <<>>
      BY <1>1, <2>3, SomeParts
    <3> QED
      BY <1>3, <2>1, <2>3, <3>1 DEF matches_use_definition_reference, UseMeans, is_namespace_visible
  <2>4. CASE imported # <<>>
    <3>1. Len(use) - Len(name) + Len(imported) >= Len(namespace)
             <=> Len(namespace \o name) <= Len(imported) + Len(use)
      BY <1>1
    <3>2. Len(imported) <= Len(namespace \o name)
      BY <1>1, <1>3
    <3> QED
      BY <1>3, <2>1, <2>2, <2>4, <3>1, <3>2
      DEF matches_use_definition_reference, UseMeans, is_namespace_visible, StandsFor
  <2> QED
    BY <2>3, <2>4
<1> QED
  BY <1>2, <1>3

-----------------------------------------------------------------------------
(* Numbers.  A set of natural numbers has a least element: its initial     *)
(* segments are ordered by inclusion.  Inductions below are by the least   *)
(* number that has no proof.                                               *)

LEMMA LeastNumber ==
    ASSUME NEW K, K \subseteq Nat, K # {}
    PROVE  Min(K) \in K /\ \A k \in K : Min(K) <= k
<1>1. PICK n \in K : TRUE
  OBVIOUS
<1> DEFINE below == {1..k : k \in {j \in K : j <= n}}
<1>2. n \in Nat /\ IsFiniteSet(1..n)
  BY FS_Interval
<1>3. IsWellFoundedOn(StrictSubsetOrdering(1..n), SUBSET (1..n))
  <2>1. FiniteSubsetsOf(1..n) = SUBSET (1..n)
    BY <1>2, FS_FiniteSubsetsOfFinite
  <2> QED
    BY <2>1, FS_StrictSubsetOrderingWellFounded
<1>4. below \subseteq SUBSET (1..n) /\ 1..n \in below
  <2>1. \A k \in K : k <= n => 1..k \subseteq 1..n
    BY <1>2
  <2> QED
    BY <2>1, <1>2
<1> HIDE DEF below
<1>5. PICK x \in below : \A y \in below : ~(<<y, x>> \in StrictSubsetOrdering(1..n))
  BY <1>3, <1>4, WFMin
<1>6. PICK m \in K : m <= n /\ x = 1..m
  BY <1>5 DEF below
<1>7. ASSUME NEW k \in K PROVE m <= k
  <2>1. SUFFICES ASSUME k < m PROVE FALSE
    OBVIOUS
  <2>2. 1..k \in below
    BY <1>2, <1>6, <2>1 DEF below
  <2>3. 1..k \subseteq 1..m /\ 1..k # 1..m
    <3>1. m \in 1..m /\ m \notin 1..k
      BY <2>1
    <3> QED
      BY <3>1, <2>1
  <2>4. <<1..k, 1..m>> \in StrictSubsetOrdering(1..n)
    BY <1>4, <1>5, <1>6, <2>2, <2>3 DEF StrictSubsetOrdering
  <2> QED
    BY <1>5, <1>6, <2>2, <2>4
<1>8. \E k \in K : \A j \in K : k <= j
  BY <1>6, <1>7
<1> QED
  BY <1>8 DEF Min

LEMMA GreatestNumber ==
    ASSUME NEW n \in Nat, NEW K, K \subseteq 1..n, K # {}
    PROVE  Max(K) \in K /\ \A k \in K : k <= Max(K)
<1> DEFINE distances == {n - k : k \in K}
<1>1. distances \subseteq Nat /\ distances # {}
  <2>1. \A k \in K : n - k \in Nat
    OBVIOUS
  <2> QED
    BY <2>1
<1> HIDE DEF distances
<1>2. PICK m \in distances : \A k \in distances : m <= k
  BY <1>1, LeastNumber
<1>3. n - m \in K /\ \A k \in K : m <= n - k
  BY <1>2 DEF distances
<1>4. \E g \in K : \A k \in K : g >= k
  <2>1. \A k \in K : n - m >= k
    BY <1>1, <1>2, <1>3
  <2> QED
    BY <1>3, <2>1
<1> QED
  BY <1>4 DEF Max

-----------------------------------------------------------------------------
(* Lists of lists.                                                         *)

IsFlattening(f, seqs, n) ==
    f = [i \in 1..n |-> IF i = 1 THEN seqs[i] ELSE f[i-1] \o seqs[i]]

LEMMA FlatteningExists ==
    ASSUME NEW seqs, NEW n \in Nat \ {0}
    PROVE  \E f : IsFlattening(f, seqs, n)
<1> DEFINE bad == {m \in 1..n : ~ \E f : IsFlattening(f, seqs, m)}
<1>1. SUFFICES ASSUME bad # {} PROVE FALSE
  OBVIOUS
<1>2. bad \subseteq Nat
  OBVIOUS
<1>3. PICK m \in bad : \A k \in bad : m <= k
  <2> HIDE DEF bad
  <2> QED
    BY <1>1, <1>2, LeastNumber
<1>4. m \in 1..n /\ ~ \E f : IsFlattening(f, seqs, m)
  BY <1>3
<1>5. CASE m = 1
  <2> DEFINE f == [i \in 1..1 |-> seqs[i]]
  <2>1. f = [i \in 1..1 |-> IF i = 1 THEN seqs[i] ELSE f[i-1] \o seqs[i]]
    OBVIOUS
  <2>2. IsFlattening(f, seqs, m)
    BY <1>5, <2>1 DEF IsFlattening
  <2> QED
    BY <1>4, <2>2
<1>6. CASE m # 1
  <2>1. m - 1 \in 1..n /\ ~(m <= m - 1)
    BY <1>4, <1>6
  <2>2. PICK f : IsFlattening(f, seqs, m - 1)
    BY <1>3, <2>1
  <2> DEFINE g == [i \in 1..m |-> IF i = m THEN f[m - 1] \o seqs[m] ELSE f[i]]
  <2>3. ASSUME NEW i \in 1..m PROVE g[i] = IF i = 1 THEN seqs[i] ELSE g[i-1] \o seqs[i]
    <3>1. CASE i = m
      <4>1. m - 1 \in 1..m /\ m - 1 # m
        BY <1>4, <1>6
      <4>2. g[m - 1] = f[m - 1]
        BY <4>1
      <4> QED
        BY <3>1, <4>2, <1>6
    <3>2. CASE i # m
      <4>1. i \in 1..(m - 1) /\ (i # 1 => i - 1 \in 1..m /\ i - 1 # m)
        BY <3>2, <1>4
      <4>2. f[i] = IF i = 1 THEN seqs[i] ELSE f[i-1] \o seqs[i]
        BY <4>1, <2>2 DEF IsFlattening
      <4>3. i # 1 => g[i - 1] = f[i - 1]
        BY <4>1
      <4> QED
        BY <3>2, <4>2, <4>3
    <3> QED
      BY <3>1, <3>2
  <2>4. g = [i \in 1..m |-> g[i]]
    OBVIOUS
  <2> HIDE DEF g
  <2>5. IsFlattening(g, seqs, m)
    BY <2>3, <2>4 DEF IsFlattening
  <2> QED
    BY <2>5, <1>4
<1> QED
  BY <1>5, <1>6

LEMMA FlattenSeqIs ==
    ASSUME NEW seqs, Len(seqs) \in Nat \ {0}
    PROVE  \E f : IsFlattening(f, seqs, Len(seqs)) /\ FlattenSeq(seqs) = f[Len(seqs)]
<1> DEFINE f == CHOOSE g : g = [i \in 1..Len(seqs) |-> IF i = 1 THEN seqs[i] ELSE g[i-1] \o seqs[i]]
<1>1. FlattenSeq(seqs) = f[Len(seqs)]
  BY DEF FlattenSeq
<1>2. f = [i \in 1..Len(seqs) |-> IF i = 1 THEN seqs[i] ELSE f[i-1] \o seqs[i]]
  <2>1. \E g : g = [i \in 1..Len(seqs) |-> IF i = 1 THEN seqs[i] ELSE g[i-1] \o seqs[i]]
    BY FlatteningExists DEF IsFlattening
  <2> QED
    BY <2>1
<1> QED
  BY <1>1, <1>2 DEF IsFlattening

(* Two lists that begin alike are flattened alike, as far as they do.      *)
LEMMA SameFlattening ==
    ASSUME NEW s, NEW t, NEW f, NEW g, NEW m \in Nat, NEW n \in Nat, m <= n,
           IsFlattening(f, s, m), IsFlattening(g, t, n), \A i \in 1..m : s[i] = t[i]
    PROVE  \A i \in 1..m : f[i] = g[i]
<1> DEFINE bad == {i \in 1..m : f[i] # g[i]}
<1>1. SUFFICES ASSUME bad # {} PROVE FALSE
  OBVIOUS
<1>2. bad \subseteq Nat
  OBVIOUS
<1>3. PICK i \in bad : \A k \in bad : i <= k
  <2> HIDE DEF bad
  <2> QED
    BY <1>1, <1>2, LeastNumber
<1>4. i \in 1..m /\ i \in 1..n /\ f[i] # g[i]
  BY <1>3
<1>5. /\ f[i] = IF i = 1 THEN s[i] ELSE f[i-1] \o s[i]
      /\ g[i] = IF i = 1 THEN t[i] ELSE g[i-1] \o t[i]
  BY <1>4 DEF IsFlattening
<1>6. i # 1 => f[i-1] = g[i-1]
  <2>1. i # 1 => i - 1 \in 1..m /\ ~(i <= i - 1)
    BY <1>4
  <2> QED
    BY <1>3, <2>1
<1> QED
  BY <1>4, <1>5, <1>6

LEMMA FlattenNone == FlattenSeq(<<>>) = <<>>
BY DEF FlattenSeq

LEMMA FlattenAppend ==
    ASSUME NEW S, NEW seqs \in Seq(Seq(S)), NEW x \in Seq(S)
    PROVE  FlattenSeq(Append(seqs, x)) = FlattenSeq(seqs) \o x
<1> DEFINE more == Append(seqs, x)
           n == Len(seqs)
<1>1. n \in Nat /\ Len(more) = n + 1 /\ more[n + 1] = x /\ \A i \in 1..n : more[i] = seqs[i]
  OBVIOUS
<1> HIDE DEF more, n
<1>2. PICK g : IsFlattening(g, more, n + 1) /\ FlattenSeq(more) = g[n + 1]
  BY <1>1, FlattenSeqIs
<1>3. g[n + 1] = IF n + 1 = 1 THEN more[n + 1] ELSE g[n + 1 - 1] \o more[n + 1]
  <2>1. \A i \in 1..(n + 1) : g[i] = IF i = 1 THEN more[i] ELSE g[i - 1] \o more[i]
    BY <1>2 DEF IsFlattening
  <2>2. n + 1 \in 1..(n + 1)
    BY <1>1
  <2> QED
    BY <2>1, <2>2, <1>1
<1>4. CASE n = 0
  <2>1. seqs = <<>>
    BY <1>4 DEF n
  <2>2. <<>> \o x = x
    BY ConcatEmptySeq
  <2> QED
    BY <1>1, <1>2, <1>3, <1>4, <2>1, <2>2, FlattenNone DEF more
<1>5. CASE n # 0
  <2>1. PICK f : IsFlattening(f, seqs, n) /\ FlattenSeq(seqs) = f[n]
    BY <1>1, <1>5, FlattenSeqIs DEF n
  <2>2. f[n] = g[n]
    <3>1. n + 1 \in Nat /\ n <= n + 1 /\ n \in 1..n
      BY <1>1, <1>5
    <3> QED
      BY <1>1, <1>2, <2>1, <3>1, SameFlattening
  <2>3. n + 1 # 1 /\ n + 1 - 1 = n
    BY <1>1, <1>5
  <2> QED
    BY <1>1, <1>2, <1>3, <2>1, <2>2, <2>3 DEF more
<1> QED
  BY <1>4, <1>5

LEMMA FlattenType ==
    ASSUME NEW S, NEW seqs \in Seq(Seq(S))
    PROVE  FlattenSeq(seqs) \in Seq(S)
<1>1. CASE seqs = <<>>
  BY <1>1, FlattenNone, EmptySeq
<1>2. CASE seqs # <<>>
  <2> DEFINE n == Len(seqs)
  <2>1. n \in Nat \ {0} /\ \A i \in 1..n : seqs[i] \in Seq(S)
    BY <1>2
  <2> HIDE DEF n
  <2>2. PICK f : IsFlattening(f, seqs, n) /\ FlattenSeq(seqs) = f[n]
    BY <2>1, FlattenSeqIs DEF n
  <2> DEFINE bad == {i \in 1..n : f[i] \notin Seq(S)}
  <2>3. SUFFICES ASSUME bad # {} PROVE FALSE
    BY <2>1, <2>2
  <2>4. bad \subseteq Nat
    BY <2>1
  <2>5. PICK i \in bad : \A k \in bad : i <= k
    <3> HIDE DEF bad
    <3> QED
      BY <2>3, <2>4, LeastNumber
  <2>6. i \in 1..n /\ f[i] \notin Seq(S)
    BY <2>5
  <2>7. f[i] = IF i = 1 THEN seqs[i] ELSE f[i-1] \o seqs[i]
    BY <2>2, <2>6 DEF IsFlattening
  <2>8. i # 1 => f[i-1] \in Seq(S)
    <3>1. i # 1 => i - 1 \in 1..n /\ ~(i <= i - 1)
      BY <2>1, <2>6
    <3> QED
      BY <2>5, <3>1
  <2> QED
    BY <2>1, <2>6, <2>7, <2>8, ConcatProperties
<1> QED
  BY <1>1, <1>2

-----------------------------------------------------------------------------
(* Parts of lists.                                                         *)

LEMMA ListType ==
    ASSUME NEW S, NEW s \in Seq(S)
    PROVE  Len(s) \in Nat /\ DOMAIN s = 1..Len(s) /\ \A i \in 1..Len(s) : s[i] \in S
OBVIOUS

LEMMA ListByPosition ==
    ASSUME NEW S, NEW n \in Nat, NEW f \in [1..n -> S]
    PROVE  f \in Seq(S) /\ Len(f) = n
<1>1. f \in Seq(S)
  BY SeqDef
<1> QED
  BY <1>1

LEMMA ToSetOfList ==
    ASSUME NEW S, NEW s \in Seq(S)
    PROVE  /\ ToSet(s) \subseteq S
           /\ \A i \in 1..Len(s) : s[i] \in ToSet(s)
           /\ \A x \in ToSet(s) : \E i \in 1..Len(s) : x = s[i]
BY DEF ToSet

LEMMA ToSetAppend ==
    ASSUME NEW S, NEW s \in Seq(S), NEW x \in S
    PROVE  ToSet(Append(s, x)) = ToSet(s) \cup {x}
<1> DEFINE t == Append(s, x)
<1>1. /\ t \in Seq(S) /\ Len(t) = Len(s) + 1 /\ t[Len(s) + 1] = x /\ Len(s) \in Nat
      /\ \A i \in 1..Len(s) : t[i] = s[i]
  OBVIOUS
<1> HIDE DEF t
<1>2. ASSUME NEW y \in ToSet(t) PROVE y \in ToSet(s) \cup {x}
  <2>1. PICK i \in 1..Len(t) : y = t[i]
    BY <1>1, ToSetOfList
  <2>2. i = Len(s) + 1 \/ i \in 1..Len(s)
    BY <1>1
  <2> QED
    BY <1>1, <2>1, <2>2, ToSetOfList
<1>3. ASSUME NEW y \in ToSet(s) PROVE y \in ToSet(t)
  <2>1. PICK i \in 1..Len(s) : y = s[i]
    BY ToSetOfList
  <2>2. i \in 1..Len(t) /\ t[i] = y
    BY <1>1, <2>1
  <2> QED
    BY <1>1, <2>2, ToSetOfList
<1>4. x \in ToSet(t)
  <2>1. Len(s) + 1 \in 1..Len(t)
    BY <1>1
  <2> QED
    BY <1>1, <2>1, ToSetOfList
<1> QED
  BY <1>2, <1>3, <1>4 DEF t

LEMMA ToSetConcat ==
    ASSUME NEW S, NEW s \in Seq(S), NEW t \in Seq(S)
    PROVE  ToSet(s \o t) = ToSet(s) \cup ToSet(t)
<1>1. /\ s \o t \in Seq(S) /\ Len(s \o t) = Len(s) + Len(t) /\ Len(s) \in Nat /\ Len(t) \in Nat
      /\ \A i \in 1..(Len(s) + Len(t)) : (s \o t)[i] = IF i <= Len(s) THEN s[i] ELSE t[i - Len(s)]
  BY ConcatProperties
<1>2. ASSUME NEW y \in ToSet(s \o t) PROVE y \in ToSet(s) \cup ToSet(t)
  <2>1. PICK i \in 1..(Len(s) + Len(t)) : y = (s \o t)[i]
    BY <1>1, ToSetOfList
  <2>2. CASE i <= Len(s)
    <3>1. i \in 1..Len(s) /\ y = s[i]
      BY <1>1, <2>1, <2>2
    <3> QED
      BY <3>1, ToSetOfList
  <2>3. CASE i > Len(s)
    <3>1. i - Len(s) \in 1..Len(t) /\ y = t[i - Len(s)]
      BY <1>1, <2>1, <2>3
    <3> QED
      BY <3>1, ToSetOfList
  <2> QED
    BY <1>1, <2>2, <2>3
<1>3. ASSUME NEW y \in ToSet(s) PROVE y \in ToSet(s \o t)
  <2>1. PICK i \in 1..Len(s) : y = s[i]
    BY ToSetOfList
  <2>2. i \in 1..Len(s \o t) /\ (s \o t)[i] = y
    BY <1>1, <2>1
  <2> QED
    BY <1>1, <2>2, ToSetOfList
<1>4. ASSUME NEW y \in ToSet(t) PROVE y \in ToSet(s \o t)
  <2>1. PICK i \in 1..Len(t) : y = t[i]
    BY ToSetOfList
  <2>2. i + Len(s) \in 1..(Len(s) + Len(t)) /\ ~(i + Len(s) <= Len(s)) /\ i + Len(s) - Len(s) = i
    BY <1>1, <2>1
  <2>3. i + Len(s) \in 1..Len(s \o t) /\ (s \o t)[i + Len(s)] = y
    BY <1>1, <2>1, <2>2
  <2> QED
    BY <1>1, <2>3, ToSetOfList
<1> QED
  BY <1>2, <1>3, <1>4

LEMMA FirstPart ==
    ASSUME NEW S, NEW s \in Seq(S), NEW k \in Nat, k <= Len(s)
    PROVE  /\ SubSeq(s, 1, k) \in Seq(S) /\ Len(SubSeq(s, 1, k)) = k
           /\ \A i \in 1..k : SubSeq(s, 1, k)[i] = s[i]
BY SubSeqProperties

LEMMA FirstPartGrows ==
    ASSUME NEW S, NEW s \in Seq(S), NEW k \in Nat, k < Len(s)
    PROVE  SubSeq(s, 1, k + 1) = Append(SubSeq(s, 1, k), s[k + 1])
<1> DEFINE t == SubSeq(s, 1, k)
           u == SubSeq(s, 1, k + 1)
<1>1. k + 1 \in Nat /\ k + 1 <= Len(s) /\ k <= Len(s) /\ s[k + 1] \in S
  BY ListType
<1>2. t \in Seq(S) /\ Len(t) = k /\ \A i \in 1..k : t[i] = s[i]
  BY <1>1, FirstPart
<1>3. u \in Seq(S) /\ Len(u) = k + 1 /\ \A i \in 1..(k + 1) : u[i] = s[i]
  BY <1>1, FirstPart
<1> HIDE DEF t, u
<1>4. /\ Append(t, s[k + 1]) \in Seq(S) /\ Len(Append(t, s[k + 1])) = k + 1
      /\ \A i \in 1..(k + 1) : Append(t, s[k + 1])[i] = s[i]
  BY <1>1, <1>2
<1>5. u = Append(t, s[k + 1])
  BY <1>3, <1>4, SeqEqual
<1> QED
  BY <1>5 DEF t, u

LEMMA WholePart ==
    ASSUME NEW S, NEW s \in Seq(S)
    PROVE  SubSeq(s, 1, Len(s)) = s /\ SubSeq(s, 1, 0) = <<>>
<1>1. SubSeq(s, 1, Len(s)) = s
  <2>1. Len(s) \in Nat /\ Len(s) <= Len(s)
    OBVIOUS
  <2> QED
    BY <2>1, FirstPart, SeqEqual
<1>2. Len(SubSeq(s, 1, 0)) = 0 /\ SubSeq(s, 1, 0) \in Seq(S)
  BY FirstPart
<1> QED
  BY <1>1, <1>2

LEMMA LastPart ==
    ASSUME NEW S, NEW s \in Seq(S), NEW k \in 1..Len(s)
    PROVE  LET t == SubSeq(s, k, Len(s))
           IN  /\ t \in Seq(S) /\ t # <<>> /\ Len(t) = Len(s) - k + 1
               /\ Head(t) = s[k] /\ Tail(t) = SubSeq(s, k + 1, Len(s))
<1> DEFINE t == SubSeq(s, k, Len(s))
           u == SubSeq(s, k + 1, Len(s))
<1>1. Len(s) \in Nat /\ k \in Nat
  OBVIOUS
<1>2. t \in Seq(S) /\ Len(t) = Len(s) - k + 1 /\ \A i \in 1..(Len(s) - k + 1) : t[i] = s[k + i - 1]
  BY <1>1, SubSeqProperties
<1>3. u \in Seq(S) /\ Len(u) = Len(s) - k /\ \A i \in 1..(Len(s) - k) : u[i] = s[k + i]
  BY <1>1, SubSeqProperties
<1> HIDE DEF t, u
<1>4. t # <<>> /\ Head(t) = s[k]
  BY <1>1, <1>2
<1>5. /\ Tail(t) \in Seq(S) /\ Len(Tail(t)) = Len(s) - k
      /\ \A i \in 1..(Len(s) - k) : Tail(t)[i] = t[i + 1]
  BY <1>1, <1>2, <1>4
<1>6. \A i \in 1..(Len(s) - k) : Tail(t)[i] = u[i]
  <2> TAKE i \in 1..(Len(s) - k)
  <2>1. i + 1 \in 1..(Len(s) - k + 1) /\ k + (i + 1) - 1 = k + i
    BY <1>1
  <2> QED
    BY <1>2, <1>3, <1>5, <2>1
<1>7. Tail(t) = u
  BY <1>3, <1>5, <1>6, SeqEqual
<1> QED
  BY <1>2, <1>4, <1>7 DEF t, u

-----------------------------------------------------------------------------
(* Lists that are collected in a loop.                                     *)

IsCollecting(f, n, skipped, item) ==
    f = [i \in 0..n |-> IF i = 0 THEN <<>>
                        ELSE IF i \in skipped THEN f[i - 1] ELSE Append(f[i - 1], item[i])]

LEMMA CollectingExists ==
    ASSUME NEW n \in Nat, NEW skipped, NEW item
    PROVE  \E f : IsCollecting(f, n, skipped, item)
<1> DEFINE bad == {m \in 0..n : ~ \E f : IsCollecting(f, m, skipped, item)}
<1>1. SUFFICES ASSUME bad # {} PROVE FALSE
  OBVIOUS
<1>2. bad \subseteq Nat
  OBVIOUS
<1>3. PICK m \in bad : \A k \in bad : m <= k
  <2> HIDE DEF bad
  <2> QED
    BY <1>1, <1>2, LeastNumber
<1>4. m \in 0..n /\ ~ \E f : IsCollecting(f, m, skipped, item)
  BY <1>3
<1> DEFINE Next1(v, i) == IF i \in skipped THEN v ELSE Append(v, item[i])
<1>5. CASE m = 0
  <2> DEFINE f == [i \in 0..0 |-> <<>>]
  <2>1. f = [i \in 0..0 |-> IF i = 0 THEN <<>> ELSE Next1(f[i - 1], i)]
    OBVIOUS
  <2>2. IsCollecting(f, m, skipped, item)
    BY <1>5, <2>1 DEF IsCollecting
  <2> QED
    BY <1>4, <2>2
<1>6. CASE m # 0
  <2>1. m - 1 \in 0..n /\ ~(m <= m - 1)
    BY <1>4, <1>6
  <2>2. PICK f : IsCollecting(f, m - 1, skipped, item)
    BY <1>3, <2>1
  <2> DEFINE g == [i \in 0..m |-> IF i = m THEN Next1(f[m - 1], m) ELSE f[i]]
  <2>3. ASSUME NEW i \in 0..m PROVE g[i] = IF i = 0 THEN <<>> ELSE Next1(g[i - 1], i)
    <3>1. CASE i = m
      <4>1. m - 1 \in 0..m /\ m - 1 # m
        BY <1>4, <1>6
      <4>2. g[m - 1] = f[m - 1]
        BY <4>1
      <4> QED
        BY <3>1, <4>2, <1>6
    <3>2. CASE i # m
      <4>1. i \in 0..(m - 1) /\ (i # 0 => i - 1 \in 0..m /\ i - 1 # m)
        BY <3>2, <1>4
      <4>2. f[i] = IF i = 0 THEN <<>> ELSE Next1(f[i - 1], i)
        BY <4>1, <2>2 DEF IsCollecting
      <4>3. i # 0 => g[i - 1] = f[i - 1]
        BY <4>1
      <4> HIDE DEF Next1
      <4> QED
        BY <3>2, <4>2, <4>3
    <3> QED
      BY <3>1, <3>2
  <2>4. g = [i \in 0..m |-> g[i]]
    OBVIOUS
  <2> HIDE DEF g
  <2>5. IsCollecting(g, m, skipped, item)
    BY <2>3, <2>4 DEF IsCollecting
  <2> QED
    BY <2>5, <1>4
<1> QED
  BY <1>5, <1>6

(* The items at the positions that are not skipped.                        *)
Kept(item, n, skipped) == {item[i] : i \in (1..n) \ skipped}

IsItems(item, n, S) == item \in [1..n -> S]

LEMMA CollectedItems ==
    ASSUME NEW S, NEW n \in Nat, NEW skipped, NEW item, IsItems(item, n, S),
           NEW f, IsCollecting(f, n, skipped, item)
    PROVE  /\ f[n] \in Seq(S)
           /\ ToSet(f[n]) = Kept(item, n, skipped)
<1> DEFINE IsGood(m) == f[m] \in Seq(S) /\ ToSet(f[m]) = Kept(item, m, skipped)
           bad == {m \in 0..n : ~IsGood(m)}
<1>1. SUFFICES ASSUME bad # {} PROVE FALSE
  <2> HIDE DEF IsGood
  <2>1. bad = {} => IsGood(n)
    OBVIOUS
  <2> QED
    BY <2>1 DEF IsGood
<1>2. bad \subseteq Nat
  OBVIOUS
<1>3. PICK m \in bad : \A k \in bad : m <= k
  <2> HIDE DEF bad
  <2> QED
    BY <1>1, <1>2, LeastNumber
<1>4. m \in 0..n /\ ~IsGood(m)
  BY <1>3
<1>5. f[m] = IF m = 0 THEN <<>> ELSE IF m \in skipped THEN f[m - 1] ELSE Append(f[m - 1], item[m])
  BY <1>4 DEF IsCollecting
<1>6. CASE m = 0
  <2>1. f[m] = <<>> /\ (1..m) \ skipped = {}
    BY <1>5, <1>6
  <2>2. f[m] \in Seq(S) /\ ToSet(f[m]) = {}
    BY <2>1, EmptySeq DEF ToSet
  <2>3. Kept(item, m, skipped) = {}
    BY <2>1 DEF Kept
  <2> QED
    BY <1>4, <2>2, <2>3
<1>7. CASE m # 0
  <2>1. m - 1 \in 0..n /\ ~(m <= m - 1) /\ m \in 1..n
    BY <1>4, <1>7
  <2>2. IsGood(m - 1)
    BY <1>3, <2>1
  <2>3. item \in [1..n -> S]
    BY DEF IsItems
  <2>4. item[m] \in S /\ 1..m = (1..(m - 1)) \cup {m}
    BY <2>1, <2>3
  <2>5. CASE m \in skipped
    <3>1. (1..m) \ skipped = (1..(m - 1)) \ skipped
      BY <2>4, <2>5
    <3>2. Kept(item, m, skipped) = Kept(item, m - 1, skipped)
      BY <3>1 DEF Kept
    <3> QED
      BY <1>4, <1>5, <1>7, <2>2, <2>5, <3>2
  <2>6. CASE m \notin skipped
    <3>1. (1..m) \ skipped = ((1..(m - 1)) \ skipped) \cup {m}
      BY <2>4, <2>6
    <3>2. f[m] \in Seq(S) /\ ToSet(f[m]) = ToSet(f[m - 1]) \cup {item[m]}
      BY <1>5, <1>7, <2>2, <2>4, <2>6, ToSetAppend
    <3>3. Kept(item, m, skipped) = Kept(item, m - 1, skipped) \cup {item[m]}
      BY <3>1 DEF Kept
    <3> QED
      BY <1>4, <2>2, <3>2, <3>3
  <2> QED
    BY <2>5, <2>6
<1> QED
  BY <1>6, <1>7

-----------------------------------------------------------------------------
(* Specifications and their ancestors.                                     *)

IsLine(line, S, base, N) ==
    line = [n \in 0..N |->
               IF n = 0 THEN [b \in S |-> <<b>>]
               ELSE [b \in S |->
                        <<b>> \o FlattenSeq([i \in DOMAIN base[b] |-> line[n - 1][base[b][i]]])]]

LEMMA LineExists ==
    ASSUME NEW S, NEW base, NEW N \in Nat
    PROVE  \E line : IsLine(line, S, base, N)
<1> DEFINE bad == {m \in 0..N : ~ \E line : IsLine(line, S, base, m)}
           Longer(v) == [b \in S |-> <<b>> \o FlattenSeq([i \in DOMAIN base[b] |-> v[base[b][i]]])]
<1>1. SUFFICES ASSUME bad # {} PROVE FALSE
  OBVIOUS
<1>2. bad \subseteq Nat
  OBVIOUS
<1>3. PICK m \in bad : \A k \in bad : m <= k
  <2> HIDE DEF bad
  <2> QED
    BY <1>1, <1>2, LeastNumber
<1>4. m \in 0..N /\ ~ \E line : IsLine(line, S, base, m)
  BY <1>3
<1>5. CASE m = 0
  <2> DEFINE line == [n \in 0..0 |-> [b \in S |-> <<b>>]]
  <2>1. line = [n \in 0..0 |-> IF n = 0 THEN [b \in S |-> <<b>>] ELSE Longer(line[n - 1])]
    <3> HIDE DEF Longer
    <3> QED
      OBVIOUS
  <2>2. IsLine(line, S, base, m)
    BY <1>5, <2>1 DEF IsLine
  <2> QED
    BY <1>4, <2>2
<1>6. CASE m # 0
  <2>1. m - 1 \in 0..N /\ ~(m <= m - 1)
    BY <1>4, <1>6
  <2>2. PICK f : IsLine(f, S, base, m - 1)
    BY <1>3, <2>1
  <2> DEFINE g == [n \in 0..m |-> IF n = m THEN Longer(f[m - 1]) ELSE f[n]]
  <2>3. ASSUME NEW n \in 0..m
        PROVE  g[n] = IF n = 0 THEN [b \in S |-> <<b>>] ELSE Longer(g[n - 1])
    <3>1. CASE n = m
      <4>1. m - 1 \in 0..m /\ m - 1 # m
        BY <1>4, <1>6
      <4> HIDE DEF Longer
      <4>2. g[m - 1] = f[m - 1]
        BY <4>1
      <4> QED
        BY <3>1, <4>2, <1>6
    <3>2. CASE n # m
      <4>1. n \in 0..(m - 1) /\ (n # 0 => n - 1 \in 0..m /\ n - 1 # m)
        BY <3>2, <1>4
      <4>2. f[n] = IF n = 0 THEN [b \in S |-> <<b>>] ELSE Longer(f[n - 1])
        BY <4>1, <2>2 DEF IsLine
      <4> HIDE DEF Longer
      <4>3. n # 0 => g[n - 1] = f[n - 1]
        BY <4>1
      <4> QED
        BY <3>2, <4>2, <4>3
    <3> QED
      BY <3>1, <3>2
  <2>4. g = [n \in 0..m |-> g[n]]
    <3> HIDE DEF Longer
    <3> QED
      OBVIOUS
  <2> HIDE DEF g
  <2>5. IsLine(g, S, base, m)
    BY <2>3, <2>4 DEF IsLine
  <2> QED
    BY <2>5, <1>4
<1> QED
  BY <1>5, <1>6

LEMMA LineType ==
    ASSUME NEW S, NEW base, NEW N \in Nat, NEW line, IsLine(line, S, base, N),
           NEW R \in SUBSET S, \A b \in R : base[b] \in Seq(R)
    PROVE  \A n \in 0..N : \A b \in R : line[n][b] \in Seq(R)
<1> DEFINE IsGood(n) == \A b \in R : line[n][b] \in Seq(R)
           bad == {n \in 0..N : ~IsGood(n)}
<1>1. SUFFICES ASSUME bad # {} PROVE FALSE
  <2> HIDE DEF IsGood
  <2>1. bad = {} => \A n \in 0..N : IsGood(n)
    OBVIOUS
  <2> QED
    BY <2>1 DEF IsGood
<1>2. bad \subseteq Nat
  OBVIOUS
<1>3. PICK m \in bad : \A k \in bad : m <= k
  <2> HIDE DEF bad
  <2> QED
    BY <1>1, <1>2, LeastNumber
<1>4. m \in 0..N /\ ~IsGood(m)
  BY <1>3
<1>5. PICK b \in R : line[m][b] \notin Seq(R)
  BY <1>4
<1>6. line[m] = IF m = 0 THEN [x \in S |-> <<x>>]
                ELSE [x \in S |-> <<x>> \o FlattenSeq([i \in DOMAIN base[x] |-> line[m - 1][base[x][i]]])]
  BY <1>4 DEF IsLine
<1>7. <<b>> \in Seq(R)
  OBVIOUS
<1>8. CASE m = 0
  BY <1>5, <1>6, <1>7, <1>8
<1>9. CASE m # 0
  <2> DEFINE parts == [i \in DOMAIN base[b] |-> line[m - 1][base[b][i]]]
  <2>1. m - 1 \in 0..N /\ ~(m <= m - 1)
    BY <1>4, <1>9
  <2>2. IsGood(m - 1)
    BY <1>3, <2>1
  <2>3. base[b] \in Seq(R)
    OBVIOUS
  <2>4. DOMAIN base[b] = 1..Len(base[b]) /\ Len(base[b]) \in Nat
    BY <2>3
  <2>5. parts \in [1..Len(base[b]) -> Seq(R)]
    BY <2>2, <2>3, <2>4
  <2> HIDE DEF parts
  <2>6. parts \in Seq(Seq(R))
    BY <2>4, <2>5, ListByPosition
  <2>7. FlattenSeq(parts) \in Seq(R)
    BY <2>6, FlattenType
  <2>8. line[m][b] = <<b>> \o FlattenSeq(parts)
    BY <1>6, <1>9 DEF parts
  <2> QED
    BY <1>5, <1>7, <2>7, <2>8, ConcatProperties
<1> QED
  BY <1>8, <1>9

(* Lines do not depend on what is outside of a set that is closed.         *)
AgreeOn(R, base, other) == \A b \in R : base[b] \in Seq(R) /\ other[b] = base[b]

LEMMA SameLine ==
    ASSUME NEW S, NEW N \in Nat, NEW R \in SUBSET S,
           NEW base, NEW other, AgreeOn(R, base, other),
           NEW line, IsLine(line, S, base, N), NEW line2, IsLine(line2, S, other, N)
    PROVE  \A n \in 0..N : \A b \in R : line2[n][b] = line[n][b]
<1> DEFINE IsGood(n) == \A b \in R : line2[n][b] = line[n][b]
           bad == {n \in 0..N : ~IsGood(n)}
<1>1. SUFFICES ASSUME bad # {} PROVE FALSE
  <2> HIDE DEF IsGood
  <2>1. bad = {} => \A n \in 0..N : IsGood(n)
    OBVIOUS
  <2> QED
    BY <2>1 DEF IsGood
<1>2. bad \subseteq Nat
  OBVIOUS
<1>3. PICK m \in bad : \A k \in bad : m <= k
  <2> HIDE DEF bad
  <2> QED
    BY <1>1, <1>2, LeastNumber
<1>4. m \in 0..N /\ ~IsGood(m)
  BY <1>3
<1>5. PICK b \in R : line2[m][b] # line[m][b]
  BY <1>4
<1> DEFINE Parts1(l, c) == [i \in DOMAIN c |-> l[m - 1][c[i]]]
<1>6. /\ line[m] = IF m = 0 THEN [x \in S |-> <<x>>]
                   ELSE [x \in S |-> <<x>> \o FlattenSeq(Parts1(line, base[x]))]
      /\ line2[m] = IF m = 0 THEN [x \in S |-> <<x>>]
                    ELSE [x \in S |-> <<x>> \o FlattenSeq(Parts1(line2, other[x]))]
  BY <1>4 DEF IsLine
<1>7. CASE m = 0
  BY <1>5, <1>6, <1>7
<1>8. CASE m # 0
  <2>1. m - 1 \in 0..N /\ ~(m <= m - 1)
    BY <1>4, <1>8
  <2>2. IsGood(m - 1)
    BY <1>3, <2>1
  <2>3. other[b] = base[b] /\ \A i \in DOMAIN base[b] : base[b][i] \in R
    <3>1. base[b] \in Seq(R) /\ other[b] = base[b]
      BY DEF AgreeOn
    <3> QED
      BY <3>1
  <2>4. Parts1(line2, base[b]) = Parts1(line, base[b])
    BY <2>2, <2>3
  <2> HIDE DEF Parts1
  <2> QED
    BY <1>5, <1>6, <1>8, <2>3, <2>4
<1> QED
  BY <1>7, <1>8

LEMMA LineageIs ==
    Cardinality(Specifications) \in Nat =>
        \E line : /\ IsLine(line, Specifications, base_specifications, Cardinality(Specifications))
                  /\ \A s : Lineage(s) = line[Cardinality(Specifications)][s]
<1> SUFFICES ASSUME Cardinality(Specifications) \in Nat
             PROVE  \E line : /\ IsLine(line, Specifications, base_specifications,
                                        Cardinality(Specifications))
                              /\ \A s : Lineage(s) = line[Cardinality(Specifications)][s]
  OBVIOUS
<1> DEFINE Is(f) ==
              f = [n \in 0..Cardinality(Specifications) |->
                      IF n = 0 THEN [b \in Specifications |-> <<b>>]
                      ELSE [b \in Specifications |->
                               <<b>> \o FlattenSeq([i \in DOMAIN base_specifications[b] |->
                                                        f[n - 1][base_specifications[b][i]]])]]
           line == CHOOSE f : Is(f)
<1>1. \A s : Lineage(s) = line[Cardinality(Specifications)][s]
  BY DEF Lineage
<1>2. Is(line)
  <2>1. \E f : Is(f)
    <3>1. \E f : IsLine(f, Specifications, base_specifications, Cardinality(Specifications))
      BY LineExists
    <3> QED
      BY <3>1 DEF IsLine
  <2> HIDE DEF Is
  <2> QED
    BY <2>1
<1> HIDE DEF line
<1>3. IsLine(line, Specifications, base_specifications, Cardinality(Specifications))
  BY <1>2 DEF IsLine
<1> QED
  BY <1>1, <1>3

-----------------------------------------------------------------------------
(* Where the files are: those before the current one are transformed, and  *)
(* Turn - 1 of its deployments are done.                                   *)
Count == Len(transformed_files)
Own == program.deployments[Owner]
Turn == Len(Own) - Len(todo) + 1
InHand == todo # <<>> /\ specification[Head(todo)] # Unresolved

FileInv ==
    /\ Count <= Len(program.order)
    /\ transformed_files = SubSeq(program.order, 1, Count)
    /\ file = <<>> => todo = <<>>
    /\ file # <<>> =>
          /\ Count < Len(program.order) /\ file = <<program.order[Count + 1]>>
          /\ Turn \in 1..(Len(Own) + 1)
          /\ todo = SubSeq(Own, Turn, Len(Own))
    /\ phase \in {"resolving", "done"} => file = <<>> /\ Count = Len(program.order)

(* The specifications of the files so far, and only these, are resolved:   *)
(* to each other.                                                          *)
Settled == {s \in Specifications : Resolved(s)}
Entered == ToSet(transformed_files) \cup ToSet(file)

SpecInv ==
    /\ \A f \in Entered : ToSet(program.specifications[f]) \subseteq Settled
    /\ \A s \in Settled :
          /\ base_specifications[s] \in Seq(Settled)
          /\ IsLegalSpecification(s)
          /\ \E f \in Entered : s \in ToSet(program.specifications[f])

(* Deployments are resolved in their turn, and not before.                 *)
IsSettled(f, d) ==
    /\ specification[d] \in Settled
    /\ \A e \in ToSet(program.elements[d]) : DeployedType(f, d, e) \in Types

DeployInv ==
    /\ \A f \in Files : \A d \in ToSet(program.deployments[f]) :
          specification[d] # Unresolved => IsSettled(f, d)
    /\ \A f \in Entered : \A j \in DOMAIN program.deployments[f] :
          f \in ToSet(transformed_files) \/ j < Turn
          => specification[program.deployments[f][j]] # Unresolved
    /\ \A f \in Files : \A j \in DOMAIN program.deployments[f] :
          specification[program.deployments[f][j]] # Unresolved =>
             \/ f \in ToSet(transformed_files)
             \/ f \in ToSet(file) /\ j <= Turn

(* Uses are bound to what they mean, or left for later.                    *)
Bound(d, i) == {x \in Deployments : <<d, i, x>> \in use_definitions}
IsMeant(f, d, i, e) ==
    \E g \in {[file |-> f, namespace |-> <<>>]} \cup program.imports[f] :
        /\ e \in ToSet(program.deployments[g.file])
        /\ UseMeans(program.uses[d][i], program.name[e], program.package[g.file], g.namespace)
Pending(f, d, i) == [deployment |-> d, index |-> i, owner |-> f] \in ToSet(pending_uses)

SlotInv(f, d, i) ==
    IF Pending(f, d, i)
    THEN /\ Bound(d, i) \subseteq UseMatches(f, program.uses[d][i])
         /\ phase = "transforming" => Bound(d, i) = {}
    ELSE \E e \in Deployments : Bound(d, i) = {e} /\ IsMeant(f, d, i, e)

UseInv ==
    /\ \A p \in ToSet(pending_uses) :
          /\ specification[p.deployment] # Unresolved
          /\ p.deployment \in ToSet(program.deployments[p.owner])
          /\ p.index \in UseSlots(p.deployment)
    /\ \A u \in use_definitions : specification[u[1]] # Unresolved
    /\ \A f \in Files : \A d \in ToSet(program.deployments[f]) :
          specification[d] # Unresolved => \A i \in UseSlots(d) : SlotInv(f, d, i)
    /\ phase = "done" => pending_uses = <<>>

(* The elements that are applied so far, in this order.                    *)
Pairs(f) == [k \in DOMAIN program.deployments[f] |-> <<f, program.deployments[f][k]>>]
Record(f, d, e) ==
    [type |-> DeployedType(f, d, e), parameters |-> e.parameters,
     declared |-> Declarations(specification[d], e.hosts)]
Records(pair) ==
    [k \in DOMAIN program.elements[pair[2]] |-> Record(pair[1], pair[2], program.elements[pair[2]][k])]

DoneFiles == FlattenSeq([i \in 1..Count |-> Pairs(program.order[i])])
DoneDeployments == IF file = <<>> THEN DoneFiles ELSE DoneFiles \o SubSeq(Pairs(Owner), 1, Turn - 1)
DoneElements == FlattenSeq([i \in DOMAIN DoneDeployments |-> Records(DoneDeployments[i])])
Current == <<Owner, Head(todo)>>
Step == Len(program.elements[Head(todo)]) - Len(elements)
Applied ==
    IF InHand THEN DoneElements \o SubSeq(Records(Current), 1, Step) ELSE DoneElements

ElementInv ==
    InHand => /\ Step \in 0..Len(program.elements[Head(todo)])
              /\ elements = SubSeq(program.elements[Head(todo)], Step + 1,
                                   Len(program.elements[Head(todo)]))

LEMMA Cardinals ==
    /\ Cardinality(Specifications) \in Nat /\ Cardinality(Hosts) \in Nat
    /\ IsFiniteSet(Deployments)
BY DeploymentAssumption, FS_CardinalityType DEF DeploymentAssumption

LEMMA LineageType ==
    ASSUME SpecInv, NEW s \in Settled
    PROVE  Lineage(s) \in Seq(Settled)
<1> DEFINE N == Cardinality(Specifications)
<1>1. PICK line : /\ IsLine(line, Specifications, base_specifications, N)
                  /\ \A b : Lineage(b) = line[N][b]
  BY Cardinals, LineageIs
<1>2. N \in Nat /\ N \in 0..N
  BY Cardinals
<1>3. Settled \subseteq Specifications /\ \A b \in Settled : base_specifications[b] \in Seq(Settled)
  BY DEF Settled, SpecInv
<1> HIDE DEF N
<1>4. line[N][s] \in Seq(Settled)
  BY <1>1, <1>2, <1>3, LineType
<1> QED
  BY <1>1, <1>4

(* A declaration that is found was checked when its file was entered.      *)
LEMMA DeclaredType ==
    ASSUME TypeOK, NEW s \in Specifications, IsLegalSpecification(s), NEW h, NEW p,
           Places(s, h, p) # {}
    PROVE  Declared(s, h, p) \in Declaration /\ IsLegal(Declared(s, h, p))
<1> DEFINE blocks == {i \in DOMAIN program.hosts[s] : program.hosts[s][i].host = h}
<1>1. /\ program.hosts[s] \in Seq([host : Hosts, parameters : Seq(Declaration)])
  BY DEF TypeOK, IsProgram
<1>2. /\ DOMAIN program.hosts[s] = 1..Len(program.hosts[s]) /\ Len(program.hosts[s]) \in Nat
      /\ \A i \in 1..Len(program.hosts[s]) : program.hosts[s][i].parameters \in Seq(Declaration)
  <2>1. /\ DOMAIN program.hosts[s] = 1..Len(program.hosts[s]) /\ Len(program.hosts[s]) \in Nat
        /\ \A i \in 1..Len(program.hosts[s]) :
              program.hosts[s][i] \in [host : Hosts, parameters : Seq(Declaration)]
    BY <1>1, ListType
  <2> QED
    BY <2>1
<1>3. blocks # {} /\ HostBlock(s, h) = program.hosts[s][Max(blocks)].parameters
  <2>1. HostBlock(s, h) # <<>>
    BY DEF Places
  <2> QED
    BY <2>1 DEF HostBlock
<1>4. Max(blocks) \in DOMAIN program.hosts[s]
  BY <1>2, <1>3, GreatestNumber
<1> HIDE DEF blocks
<1>5. HostBlock(s, h) \in Seq(Declaration)
  BY <1>2, <1>3, <1>4
<1>6. Places(s, h, p) \subseteq 1..Len(HostBlock(s, h)) /\ Len(HostBlock(s, h)) \in Nat
  BY <1>5 DEF Places
<1>7. Max(Places(s, h, p)) \in 1..Len(HostBlock(s, h))
  BY <1>6, GreatestNumber
<1>8. Declared(s, h, p) \in Declaration /\ Declared(s, h, p) \in ToSet(HostBlock(s, h))
  BY <1>5, <1>7, ToSetOfList DEF Declared
<1> QED
  BY <1>3, <1>4, <1>8 DEF IsLegalSpecification

LEMMA DeclarationsType ==
    ASSUME TypeOK, SpecInv, NEW s \in Settled, NEW hosts
    PROVE  /\ Declarations(s, hosts) \in [DOMAIN Declarations(s, hosts) -> Declaration]
           /\ DOMAIN Declarations(s, hosts) \subseteq Properties
           /\ \A p \in DOMAIN Declarations(s, hosts) : IsLegal(Declarations(s, hosts)[p])
<1> DEFINE line == Lineage(s)
           declarers(p) == {i \in DOMAIN line : DeclaringHosts(line[i], hosts, p) # {}}
           D == {q \in Properties : declarers(q) # {}}
           found(p) == OwnDeclaration(line[Min(declarers(p))], hosts, p)
<1>1. Declarations(s, hosts) = [p \in D |-> found(p)]
  BY DEF Declarations
<1>2. line \in Seq(Settled)
  BY LineageType
<1>3. DOMAIN line = 1..Len(line) /\ \A i \in 1..Len(line) : line[i] \in Settled
  BY <1>2, ListType
<1> HIDE DEF line
<1>4. ASSUME NEW p \in D PROVE found(p) \in Declaration /\ IsLegal(found(p))
  <2> DEFINE owner == line[Min(declarers(p))]
             hs == DeclaringHosts(owner, hosts, p)
  <2>1. Min(declarers(p)) \in declarers(p)
    <3>1. declarers(p) # {}
      OBVIOUS
    <3>2. declarers(p) \subseteq Nat
      BY <1>3
    <3> HIDE DEF declarers
    <3> QED
      BY <3>1, <3>2, LeastNumber
  <2>2. owner \in Settled /\ hs # {}
    BY <1>3, <2>1
  <2> HIDE DEF owner
  <2>3. DOMAIN host_order = 1..Cardinality(Hosts)
    BY DEF TypeOK
  <2>4. Max(hs) \in hs
    <3>1. hs \subseteq 1..Cardinality(Hosts)
      BY <2>3 DEF DeclaringHosts
    <3> HIDE DEF hs
    <3> QED
      BY <2>2, <3>1, Cardinals, GreatestNumber
  <2>5. Places(owner, host_order[Max(hs)], p) # {}
    BY <2>4 DEF DeclaringHosts
  <2>6. owner \in Specifications /\ IsLegalSpecification(owner)
    BY <2>2 DEF SpecInv, Settled
  <2>7. found(p) = Declared(owner, host_order[Max(hs)], p)
    BY DEF owner, OwnDeclaration
  <2> HIDE DEF hs, found
  <2> QED
    BY <2>5, <2>6, <2>7, DeclaredType
<1> HIDE DEF found, D
<1>5. D \subseteq Properties
  BY DEF D
<1> QED
  BY <1>1, <1>4, <1>5

(* Where a base specification, or that of a deployment, is found.          *)
Visible(owner) ==
    {s \in Specifications : \/ s \in ToSet(program.specifications[owner])
                            \/ \E f \in ToSet(transformed_files) : s \in ToSet(program.specifications[f])}

LEMMA SpecificationFound ==
    ASSUME TypeOK, NEW owner \in Files, NEW reference, Declarers(owner, reference) # {}
    PROVE  Specification(owner, reference) \in Visible(owner)
<1> DEFINE V == Visible(owner)
           lists == [i \in DOMAIN transformed_files |-> program.specifications[transformed_files[i]]]
<1>1. /\ transformed_files \in Seq(Files)
      /\ \A f \in Files : program.specifications[f] \in Seq(Specifications)
  BY DEF TypeOK, IsProgram
<1>2. /\ DOMAIN transformed_files = 1..Len(transformed_files) /\ Len(transformed_files) \in Nat
      /\ \A i \in 1..Len(transformed_files) : transformed_files[i] \in Files
  BY <1>1
<1>3. program.specifications[owner] \in Seq(V)
  <2> DEFINE t == program.specifications[owner]
  <2>1. t \in Seq(Specifications)
    BY <1>1
  <2>2. \A i \in 1..Len(t) : t[i] \in V
    BY <2>1, ToSetOfList DEF Visible
  <2>3. t \in [1..Len(t) -> V] /\ Len(t) \in Nat
    <3> HIDE DEF t, V
    <3> QED
      BY <2>1, <2>2
  <2> HIDE DEF t, V
  <2>4. t \in Seq(V)
    BY <2>3, ListByPosition
  <2> QED
    BY <2>4 DEF t
<1>4. ASSUME NEW i \in 1..Len(transformed_files)
      PROVE  program.specifications[transformed_files[i]] \in Seq(V)
  <2> DEFINE t == program.specifications[transformed_files[i]]
  <2>1. t \in Seq(Specifications) /\ transformed_files[i] \in ToSet(transformed_files)
    BY <1>1, <1>2, ToSetOfList
  <2>2. \A k \in 1..Len(t) : t[k] \in V
    BY <2>1, ToSetOfList DEF Visible
  <2>3. t \in [1..Len(t) -> V] /\ Len(t) \in Nat
    <3> HIDE DEF t, V
    <3> QED
      BY <2>1, <2>2
  <2> HIDE DEF t, V
  <2>4. t \in Seq(V)
    BY <2>3, ListByPosition
  <2> QED
    BY <2>4 DEF t
<1>5. lists \in Seq(Seq(V))
  <2>1. lists \in [1..Len(transformed_files) -> Seq(V)]
    BY <1>2, <1>4
  <2> HIDE DEF lists, V
  <2> QED
    BY <1>2, <2>1, ListByPosition
<1>6. Searched(owner) \in Seq(V)
  <2>1. Searched(owner) = program.specifications[owner] \o FlattenSeq(lists)
    BY DEF Searched
  <2> HIDE DEF lists, V
  <2>2. FlattenSeq(lists) \in Seq(V)
    BY <1>5, FlattenType
  <2> QED
    BY <1>3, <2>1, <2>2, ConcatProperties
<1> HIDE DEF V
<1>7. DOMAIN Searched(owner) = 1..Len(Searched(owner)) /\ \A i \in 1..Len(Searched(owner)) : Searched(owner)[i] \in V
  BY <1>6, ListType
<1>8. Min(Declarers(owner, reference)) \in Declarers(owner, reference)
  <2>1. Declarers(owner, reference) \subseteq Nat
    BY <1>7 DEF Declarers
  <2> QED
    BY <2>1, LeastNumber
<1>9. Min(Declarers(owner, reference)) \in 1..Len(Searched(owner))
  BY <1>7, <1>8 DEF Declarers
<1> QED
  BY <1>7, <1>9 DEF Specification, V

-----------------------------------------------------------------------------
(* What does not change.                                                   *)

LEMMA SameInput ==
    ASSUME program' = program, host_order' = host_order
    PROVE  /\ \A s, h, p : Places(s, h, p)' = Places(s, h, p)
           /\ \A s, h, p : Declared(s, h, p)' = Declared(s, h, p)
           /\ \A s, hosts, p : DeclaringHosts(s, hosts, p)' = DeclaringHosts(s, hosts, p)
           /\ \A s, hosts, p : OwnDeclaration(s, hosts, p)' = OwnDeclaration(s, hosts, p)
           /\ \A s : IsLegalSpecification(s)' <=> IsLegalSpecification(s)
           /\ \A f, d, e : DeployedType(f, d, e)' = DeployedType(f, d, e)
           /\ \A f : Pairs(f)' = Pairs(f)
<1>1. \A s, h : HostBlock(s, h)' = HostBlock(s, h)
  BY DEF HostBlock
<1>2. \A s, h, p : Places(s, h, p)' = Places(s, h, p)
  BY <1>1 DEF Places
<1>3. \A s, h, p : Declared(s, h, p)' = Declared(s, h, p)
  BY <1>1, <1>2 DEF Declared
<1>4. \A s, hosts, p : DeclaringHosts(s, hosts, p)' = DeclaringHosts(s, hosts, p)
  BY <1>2 DEF DeclaringHosts
<1>5. \A s, hosts, p : OwnDeclaration(s, hosts, p)' = OwnDeclaration(s, hosts, p)
  BY <1>3, <1>4 DEF OwnDeclaration
<1>6. \A s : IsLegalSpecification(s)' <=> IsLegalSpecification(s)
  BY DEF IsLegalSpecification
<1>7. \A f, d : Targets(f, d)' = Targets(f, d)
  BY DEF Targets
<1>8. \A f, d, e : DeployedType(f, d, e)' = DeployedType(f, d, e)
  BY <1>7 DEF DeployedType, Datatypes
<1>9. \A f : Pairs(f)' = Pairs(f)
  BY DEF Pairs
<1> QED
  BY <1>2, <1>3, <1>4, <1>5, <1>6, <1>8, <1>9

LEMMA LineageIsNext ==
    (Cardinality(Specifications) \in Nat =>
        \E line : /\ IsLine(line, Specifications, base_specifications, Cardinality(Specifications))
                  /\ \A s : Lineage(s) = line[Cardinality(Specifications)][s])'
BY LineageIs, PTL

LEMMA LineageKept ==
    ASSUME SpecInv, \A b \in Settled : base_specifications'[b] = base_specifications[b],
           NEW s \in Settled
    PROVE  Lineage(s)' = Lineage(s)
<1> DEFINE N == Cardinality(Specifications)
<1>1. PICK line : /\ IsLine(line, Specifications, base_specifications, N)
                  /\ \A b : Lineage(b) = line[N][b]
  BY Cardinals, LineageIs
<1>2. \E other : /\ IsLine(other, Specifications, base_specifications', N)
                 /\ \A b : Lineage(b)' = other[N][b]
  BY Cardinals, LineageIsNext
<1>3. PICK other : /\ IsLine(other, Specifications, base_specifications', N)
                   /\ \A b : Lineage(b)' = other[N][b]
  BY <1>2
<1>4. N \in Nat /\ N \in 0..N
  BY Cardinals
<1>5. Settled \subseteq Specifications /\ \A b \in Settled : base_specifications[b] \in Seq(Settled)
  BY DEF Settled, SpecInv
<1> HIDE DEF N
<1>6. \A n \in 0..N : \A b \in Settled : other[n][b] = line[n][b]
  <2>1. Settled \in SUBSET Specifications
    BY <1>5
  <2>2. IsLine(line, Specifications, base_specifications, N)
    BY <1>1
  <2>3. IsLine(other, Specifications, base_specifications', N)
    BY <1>3
  <2>4. AgreeOn(Settled, base_specifications, base_specifications')
    BY <1>5 DEF AgreeOn
  <2> QED
    BY <2>1, <2>2, <2>3, <2>4, <1>4, SameLine
<1>7. other[N][s] = line[N][s]
  BY <1>4, <1>6
<1> QED
  BY <1>1, <1>3, <1>7

LEMMA DeclarationsKept ==
    ASSUME SpecInv, program' = program, host_order' = host_order,
           \A b \in Settled : base_specifications'[b] = base_specifications[b],
           NEW s \in Settled, NEW hosts
    PROVE  Declarations(s, hosts)' = Declarations(s, hosts)
<1>1. Lineage(s)' = Lineage(s)
  BY LineageKept
<1>2. \A q : {i \in DOMAIN Lineage(s)' : DeclaringHosts(Lineage(s)[i], hosts, q)' # {}}
              = {i \in DOMAIN Lineage(s) : DeclaringHosts(Lineage(s)[i], hosts, q) # {}}
  BY <1>1, SameInput
<1>3. \A i, q : OwnDeclaration(Lineage(s)[i], hosts, q)' = OwnDeclaration(Lineage(s)[i], hosts, q)
  BY <1>1, SameInput
<1> QED
  BY <1>1, <1>2, <1>3 DEF Declarations

(* The records of settled deployments do not change.                       *)
LEMMA RecordsKept ==
    ASSUME SpecInv, program' = program, host_order' = host_order,
           \A b \in Settled : base_specifications'[b] = base_specifications[b],
           NEW pair, specification[pair[2]] \in Settled,
           specification'[pair[2]] = specification[pair[2]]
    PROVE  Records(pair)' = Records(pair)
<1>1. \A hosts : Declarations(specification[pair[2]], hosts)' = Declarations(specification[pair[2]], hosts)
  <2> TAKE hosts
  <2> DEFINE s == specification[pair[2]]
  <2>1. \A t : t = s => Declarations(t, hosts)' = Declarations(t, hosts)
    BY DeclarationsKept
  <2> QED
    BY <2>1
<1>2. \A f, e : Record(f, pair[2], e)' = Record(f, pair[2], e)
  BY <1>1, SameInput DEF Record
<1> QED
  BY <1>2 DEF Records

-----------------------------------------------------------------------------
(* Files, specifications and deployments.                                  *)

Core == TypeOK /\ FileInv /\ SpecInv /\ DeployInv /\ ElementInv

LEMMA ProgramType ==
    ASSUME TypeOK
    PROVE  /\ program.order \in Seq(Files) /\ IsInjective(program.order)
           /\ program.specifications \in [Files -> Seq(Specifications)]
           /\ InOnePlace(program.specifications)
           /\ program.deployments \in [Files -> Seq(Deployments)]
           /\ InOnePlace(program.deployments)
           /\ program.elements \in [Deployments -> Seq(Element)]
           /\ program.uses \in [Deployments -> Seq(Name)]
BY DEF TypeOK, IsProgram

LEMMA NextFileIsNew ==
    ASSUME TypeOK, FileInv, Count < Len(program.order)
    PROVE  /\ program.order[Count + 1] \in Files
           /\ program.order[Count + 1] \notin ToSet(transformed_files)
           /\ Count \in Nat
           /\ \A i \in 1..Count : transformed_files[i] = program.order[i]
<1>1. /\ program.order \in Seq(Files) /\ IsInjective(program.order)
      /\ transformed_files \in Seq(Files)
  BY ProgramType DEF TypeOK
<1>2. Count \in Nat /\ Count <= Len(program.order) /\ Len(program.order) \in Nat
  BY <1>1 DEF Count
<1>3. \A i \in 1..Count : transformed_files[i] = program.order[i]
  BY <1>1, <1>2, FirstPart DEF FileInv
<1>4. ASSUME program.order[Count + 1] \in ToSet(transformed_files) PROVE FALSE
  <2>1. PICK i \in 1..Count : transformed_files[i] = program.order[Count + 1]
    BY <1>1, <1>4, ToSetOfList DEF Count
  <2>2. /\ program.order[i] = program.order[Count + 1]
        /\ i \in DOMAIN program.order /\ Count + 1 \in DOMAIN program.order /\ i # Count + 1
    BY <1>1, <1>2, <1>3, <2>1
  <2> QED
    BY <1>1, <2>2 DEF IsInjective
<1>5. program.order[Count + 1] \in Files
  BY <1>1, <1>2
<1> QED
  BY <1>2, <1>3, <1>4, <1>5

LEMMA CurrentFile ==
    ASSUME TypeOK, FileInv, file # <<>>
    PROVE  /\ Owner \in Files /\ file = <<Owner>> /\ ToSet(file) = {Owner}
           /\ Owner = program.order[Count + 1]
           /\ Owner \notin ToSet(transformed_files)
           /\ Own \in Seq(Deployments)
           /\ Turn \in 1..(Len(Own) + 1) /\ todo = SubSeq(Own, Turn, Len(Own))
<1>1. Count < Len(program.order) /\ file = <<program.order[Count + 1]>>
  BY DEF FileInv
<1>2. Owner = program.order[Count + 1] /\ file = <<Owner>> /\ ToSet(file) = {Owner}
  <2>1. Owner = program.order[Count + 1]
    BY <1>1 DEF Owner
  <2>2. \A x : ToSet(<<x>>) = {x}
    BY DEF ToSet
  <2> QED
    BY <1>1, <2>1, <2>2
<1>3. Own \in Seq(Deployments)
  BY <1>1, <1>2, NextFileIsNew, ProgramType DEF Own
<1> QED
  BY <1>1, <1>2, <1>3, NextFileIsNew DEF FileInv

LEMMA NoFile == ToSet(<<>>) = {}
BY DEF ToSet

LEMMA CurrentDeployment ==
    ASSUME TypeOK, FileInv, todo # <<>>
    PROVE  /\ file # <<>> /\ Turn \in 1..Len(Own) /\ Head(todo) = Own[Turn]
           /\ Tail(todo) = SubSeq(Own, Turn + 1, Len(Own))
           /\ Head(todo) \in Deployments /\ Head(todo) \in ToSet(Own)
           /\ Len(Tail(todo)) = Len(todo) - 1 /\ Len(todo) \in Nat
<1>1. file # <<>>
  BY DEF FileInv
<1>2. /\ Own \in Seq(Deployments) /\ Turn \in 1..(Len(Own) + 1) /\ todo = SubSeq(Own, Turn, Len(Own))
      /\ Len(Own) \in Nat
  BY <1>1, CurrentFile
<1>3. Turn \in 1..Len(Own)
  <2>1. CASE Turn = Len(Own) + 1
    <3>1. Len(todo) = 0 /\ todo \in Seq(Deployments)
      BY <1>2, <2>1 DEF Turn, TypeOK
    <3> QED
      BY <3>1
  <2> QED
    BY <1>2, <2>1
<1>4. /\ Head(todo) = Own[Turn] /\ Tail(todo) = SubSeq(Own, Turn + 1, Len(Own))
  BY <1>2, <1>3, LastPart
<1>5. Head(todo) \in Deployments /\ Head(todo) \in ToSet(Own)
  BY <1>2, <1>3, <1>4, ToSetOfList
<1>6. Len(Tail(todo)) = Len(todo) - 1 /\ Len(todo) \in Nat
  <2>1. todo \in Seq(Deployments)
    BY DEF TypeOK
  <2> QED
    BY <2>1
<1> QED
  BY <1>1, <1>3, <1>4, <1>5, <1>6

(* Each declared object is in one file, and in one place of it.            *)
LEMMA OnePlace ==
    ASSUME TypeOK, NEW f \in Files, NEW g \in Files
    PROVE  /\ \A s : s \in ToSet(program.specifications[f]) /\ s \in ToSet(program.specifications[g])
                     => f = g
           /\ \A d : d \in ToSet(program.deployments[f]) /\ d \in ToSet(program.deployments[g]) => f = g
           /\ \A i \in DOMAIN program.deployments[f], j \in DOMAIN program.deployments[g] :
                 program.deployments[f][i] = program.deployments[g][j] => f = g /\ i = j
BY ProgramType DEF InOnePlace, ToSet

(* Only the phase changes, or the uses do.                                 *)
LEMMA PhaseCore ==
    ASSUME Core, UNCHANGED <<program, host_order, progress, bases, deployment_properties>>,
           phase' \in {"transforming", "resolving", "done", "failed"},
           phase' \in {"resolving", "done"} => file = <<>> /\ Count = Len(program.order),
           use_definitions' \subseteq Deployments \X Nat \X Deployments,
           pending_uses' \in Seq([deployment : Deployments, index : Nat, owner : Files])
    PROVE  Core'
<1>1. /\ program' = program /\ host_order' = host_order /\ transformed_files' = transformed_files
      /\ file' = file /\ todo' = todo /\ elements' = elements
      /\ base_specifications' = base_specifications /\ specification' = specification
      /\ deployment_properties' = deployment_properties
  BY DEF progress, bases
<1>2. TypeOK'
  BY <1>1 DEF Core, TypeOK
<1>3. Owner' = Owner /\ Own' = Own /\ Turn' = Turn /\ Count' = Count
  BY <1>1 DEF Owner, Own, Turn, Count
<1>4. FileInv'
  BY <1>1, <1>3 DEF Core, FileInv
<1>5. Settled' = Settled /\ Entered' = Entered
  BY <1>1 DEF Settled, Resolved, Entered
<1>6. SpecInv'
  BY <1>1, <1>5, SameInput DEF Core, SpecInv
<1>7. DeployInv'
  <2>1. \A f, d : IsSettled(f, d)' <=> IsSettled(f, d)
    BY <1>1, <1>5, SameInput DEF IsSettled
  <2> QED
    BY <1>1, <1>3, <1>5, <2>1 DEF Core, DeployInv
<1>8. ElementInv'
  <2>1. (InHand' <=> InHand) /\ Step' = Step
    BY <1>1 DEF InHand, Step
  <2> QED
    BY <1>1, <2>1 DEF Core, ElementInv
<1> QED
  BY <1>2, <1>4, <1>6, <1>7, <1>8 DEF Core

LEMMA StartFileCore ==
    ASSUME Core, NEW f \in Files, StartFile(f)
    PROVE  /\ Core' /\ ~InHand' /\ todo' = program.deployments[f]
           /\ \A s \in Settled : base_specifications'[s] = base_specifications[s]
<1>1. /\ phase = "transforming" /\ file = <<>> /\ Count < Len(program.order)
      /\ f = program.order[Count + 1] /\ IsTransformable(f)
      /\ file' = <<f>> /\ todo' = program.deployments[f]
      /\ base_specifications' =
            [s \in Specifications |-> IF s \in ToSet(program.specifications[f])
                                      THEN Extended(f, s) ELSE base_specifications[s]]
      /\ UNCHANGED <<program, host_order, phase, transformed_files, elements, specification,
                     deployment_properties, use_definitions, pending_uses>>
  BY DEF StartFile, IsNext, Count, uses
<1>2. TypeOK /\ FileInv /\ SpecInv /\ DeployInv /\ ElementInv
  BY DEF Core
<1>3. f \notin ToSet(transformed_files) /\ Entered = ToSet(transformed_files)
  BY <1>1, <1>2, NextFileIsNew, NoFile DEF Entered
<1>4. Entered' = Entered \cup {f}
  <2>1. ToSet(<<f>>) = {f}
    BY DEF ToSet
  <2> QED
    BY <1>1, <1>3, <2>1 DEF Entered
<1>5. /\ ToSet(program.specifications[f]) \subseteq Specifications
      /\ \A g \in ToSet(transformed_files) : g \in Files
  <2>1. program.specifications[f] \in Seq(Specifications) /\ transformed_files \in Seq(Files)
    BY <1>2, ProgramType DEF TypeOK
  <2> QED
    BY <2>1, ToSetOfList
<1>6. Visible(f) \subseteq Settled \cup ToSet(program.specifications[f])
  BY <1>2, <1>3 DEF Visible, SpecInv
<1>7. \A s \in ToSet(program.specifications[f]) :
         base_specifications'[s] \in Seq(Settled \cup ToSet(program.specifications[f]))
  <2> TAKE s \in ToSet(program.specifications[f])
  <2> DEFINE V == Settled \cup ToSet(program.specifications[f])
             names == program.extends[s]
  <2>1. names \in Seq(Name) /\ s \in Specifications
    BY <1>2, <1>5 DEF TypeOK, IsProgram
  <2>2. \A i \in DOMAIN names : Declarers(f, names[i]) # {}
    BY <1>1 DEF IsTransformable, ToSet
  <2>3. \A i \in DOMAIN names : Specification(f, names[i]) \in V
    BY <1>2, <1>6, <2>2, SpecificationFound
  <2>4. base_specifications'[s] = [i \in DOMAIN names |-> Specification(f, names[i])]
    BY <1>1, <2>1 DEF Extended
  <2>5. DOMAIN names = 1..Len(names) /\ Len(names) \in Nat
    BY <2>1
  <2> HIDE DEF V, names
  <2>6. base_specifications'[s] \in Seq(V)
    BY <2>3, <2>4, <2>5, ListByPosition
  <2> QED
    BY <2>6 DEF V
<1>8. \A s \in Settled : s \notin ToSet(program.specifications[f])
  <2> SUFFICES ASSUME NEW s \in Settled, s \in ToSet(program.specifications[f]) PROVE FALSE
    OBVIOUS
  <2>1. PICK g \in Entered : s \in ToSet(program.specifications[g])
    BY <1>2 DEF SpecInv
  <2>2. g \in Files /\ g # f
    BY <1>3, <1>5, <2>1
  <2> QED
    BY <1>2, <2>1, <2>2, OnePlace
<1>9. \A s \in Settled : base_specifications'[s] = base_specifications[s]
  BY <1>1, <1>8 DEF Settled
<1>10. Settled' = Settled \cup ToSet(program.specifications[f])
  <2>1. \A s \in Specifications : s \notin ToSet(program.specifications[f]) =>
           base_specifications'[s] = base_specifications[s]
    BY <1>1
  <2>2. \A s \in ToSet(program.specifications[f]) : base_specifications'[s] # Unresolved
    <3>1. \A s \in ToSet(program.specifications[f]) :
             base_specifications'[s] = [i \in DOMAIN program.extends[s] |-> Specification(f, program.extends[s][i])]
      BY <1>1, <1>5 DEF Extended
    <3>2. Settled \cup ToSet(program.specifications[f]) \subseteq Specifications
      BY <1>5 DEF Settled
    <3>3. \A s \in ToSet(program.specifications[f]) : base_specifications'[s] \in Seq(Specifications)
      BY <1>7, <3>2
    <3> QED
      BY <3>3, DeploymentAssumption DEF DeploymentAssumption
  <2> QED
    BY <1>5, <1>9, <2>1, <2>2 DEF Settled, Resolved
<1>11. /\ Owner' = f /\ Own' = program.deployments[f] /\ Count' = Count /\ file' # <<>>
       /\ program.deployments[f] \in Seq(Deployments) /\ Turn' = 1
  <2>1. Owner' = f /\ Own' = program.deployments[f] /\ Count' = Count /\ file' # <<>>
    BY <1>1 DEF Owner, Own, Count
  <2>2. program.deployments[f] \in Seq(Deployments)
    BY <1>2, ProgramType
  <2>3. Turn' = Len(program.deployments[f]) - Len(program.deployments[f]) + 1
    BY <1>1, <2>1 DEF Turn
  <2>4. Len(program.deployments[f]) \in Nat
    BY <2>2
  <2> QED
    BY <2>1, <2>2, <2>3, <2>4
<1>12. TypeOK'
  <2>1. base_specifications' \in [Specifications -> Seq(Specifications) \cup {Unresolved}]
    <3>1. Settled \cup ToSet(program.specifications[f]) \subseteq Specifications
      BY <1>5 DEF Settled
    <3>2. \A s \in ToSet(program.specifications[f]) : base_specifications'[s] \in Seq(Specifications)
      BY <1>7, <3>1
    <3>3. \A s \in Specifications : s \notin ToSet(program.specifications[f]) =>
             base_specifications'[s] = base_specifications[s]
      BY <1>1
    <3>4. base_specifications \in [Specifications -> Seq(Specifications) \cup {Unresolved}]
      BY <1>2 DEF TypeOK
    <3>5. \A s \in Specifications : base_specifications'[s] \in Seq(Specifications) \cup {Unresolved}
      BY <3>2, <3>3, <3>4
    <3>6. base_specifications' = [s \in Specifications |-> base_specifications'[s]]
      BY <1>1
    <3> QED
      BY <3>5, <3>6
  <2>2. file' \in Seq(Files) /\ Len(file') <= 1
    BY <1>1
  <2> QED
    BY <1>1, <1>2, <1>11, <2>1, <2>2 DEF TypeOK
<1>13. FileInv'
  <2>1. todo' = SubSeq(program.deployments[f], 1, Len(program.deployments[f]))
    BY <1>1, <1>11, WholePart
  <2>2. 1 \in 1..(Len(program.deployments[f]) + 1)
    BY <1>11
  <2> QED
    BY <1>1, <1>2, <1>11, <2>1, <2>2 DEF FileInv
<1>14. SpecInv'
  <2>1. \A g \in Entered' : ToSet(program.specifications[g]) \subseteq Settled'
    BY <1>2, <1>4, <1>10 DEF SpecInv
  <2>2. \A s \in Settled' : base_specifications'[s] \in Seq(Settled')
    <3>1. \A s \in Settled : base_specifications'[s] \in Seq(Settled)
      BY <1>2, <1>9 DEF SpecInv
    <3>2. \A s \in Settled : base_specifications'[s] \in Seq(Settled')
      BY <1>10, <3>1
    <3> QED
      BY <1>7, <1>10, <3>2
  <2>3. \A s \in Settled' : IsLegalSpecification(s)
    BY <1>1, <1>2, <1>10 DEF SpecInv, IsTransformable
  <2>4. \A s \in Settled' : \E g \in Entered' : s \in ToSet(program.specifications[g])
    BY <1>2, <1>4, <1>10 DEF SpecInv
  <2>5. \A s : IsLegalSpecification(s)' <=> IsLegalSpecification(s)
    BY <1>1, SameInput
  <2> QED
    BY <1>1, <2>1, <2>2, <2>3, <2>4, <2>5 DEF SpecInv
<1>15. DeployInv'
  <2>1. \A g, d : IsSettled(g, d) => IsSettled(g, d)'
    <3>1. \A g, d, e : DeployedType(g, d, e)' = DeployedType(g, d, e)
      BY <1>1, SameInput
    <3> QED
      BY <1>1, <1>10, <3>1 DEF IsSettled
  <2>2. \A g \in Files : \A d \in ToSet(program.deployments[g]) :
           specification[d] # Unresolved => IsSettled(g, d)'
    BY <1>2, <2>1 DEF DeployInv
  <2>3. \A g \in Entered' : \A j \in DOMAIN program.deployments[g] :
           g \in ToSet(transformed_files) \/ j < Turn'
           => specification[program.deployments[g][j]] # Unresolved
    <3>1. \A g \in ToSet(transformed_files) : \A j \in DOMAIN program.deployments[g] :
             specification[program.deployments[g][j]] # Unresolved
      BY <1>2, <1>3 DEF DeployInv
    <3>2. \A j \in DOMAIN program.deployments[f] : ~(j < Turn')
      BY <1>11
    <3> QED
      BY <1>3, <1>4, <3>1, <3>2
  <2>4. \A g \in Files : \A j \in DOMAIN program.deployments[g] :
           specification[program.deployments[g][j]] # Unresolved => g \in ToSet(transformed_files)
    BY <1>1, <1>2, NoFile DEF DeployInv
  <2> QED
    BY <1>1, <2>2, <2>3, <2>4 DEF DeployInv
<1>16. ~InHand'
  <2> SUFFICES ASSUME InHand' PROVE FALSE
    OBVIOUS
  <2>1. todo' # <<>> /\ specification[Head(todo')] # Unresolved
    BY <1>1 DEF InHand
  <2>2. 1 \in DOMAIN program.deployments[f] /\ Head(todo') = program.deployments[f][1]
    BY <1>1, <1>11, <2>1
  <2>3. f \in ToSet(transformed_files)
    BY <1>1, <1>2, <2>1, <2>2, NoFile DEF DeployInv
  <2> QED
    BY <1>3, <2>3
<1>17. ElementInv'
  BY <1>16 DEF ElementInv
<1> QED
  BY <1>1, <1>9, <1>12, <1>13, <1>14, <1>15, <1>16, <1>17 DEF Core

-----------------------------------------------------------------------------
(* The uses that ResolveDeployment finds and those that it leaves.         *)

UseRecord == [deployment : Deployments, index : Nat, owner : Files]
Left(d) == {i \in UseSlots(d) : UseMatches(Owner, program.uses[d][i]) = {}}

LEMMA MissingIs ==
    ASSUME TypeOK, Owner \in Files, NEW d \in Deployments
    PROVE  /\ Missing(d) \in Seq(UseRecord)
           /\ ToSet(Missing(d)) = {[deployment |-> d, index |-> i, owner |-> Owner] : i \in Left(d)}
<1> DEFINE n == Len(program.uses[d])
           skipped == {i \in 1..n : UseMatches(Owner, program.uses[d][i]) # {}}
           item == [i \in 1..n |-> [deployment |-> d, index |-> i, owner |-> Owner]]
           Is(f) == f = [i \in 0..n |->
                            IF i = 0 THEN <<>>
                            ELSE IF UseMatches(Owner, program.uses[d][i]) # {} THEN f[i - 1]
                            ELSE Append(f[i - 1], [deployment |-> d, index |-> i, owner |-> Owner])]
           missing == CHOOSE f : Is(f)
<1>1. Missing(d) = missing[n]
  BY DEF Missing
<1>2. n \in Nat /\ UseSlots(d) = 1..n
  <2>1. program.uses[d] \in Seq(Name)
    BY ProgramType
  <2> QED
    BY <2>1 DEF UseSlots
<1>3. \A f : Is(f) <=> IsCollecting(f, n, skipped, item)
  <2> TAKE f
  <2>1. \A i \in 0..n :
           (IF i = 0 THEN <<>>
            ELSE IF UseMatches(Owner, program.uses[d][i]) # {} THEN f[i - 1]
            ELSE Append(f[i - 1], [deployment |-> d, index |-> i, owner |-> Owner]))
           = (IF i = 0 THEN <<>> ELSE IF i \in skipped THEN f[i - 1] ELSE Append(f[i - 1], item[i]))
    <3> TAKE i \in 0..n
    <3>1. CASE i = 0
      BY <3>1
    <3>2. CASE i # 0
      <4>1. i \in 1..n
        BY <1>2, <3>2
      <4>2. i \in skipped <=> UseMatches(Owner, program.uses[d][i]) # {}
        BY <4>1
      <4>3. item[i] = [deployment |-> d, index |-> i, owner |-> Owner]
        BY <4>1
      <4> HIDE DEF skipped, item, n
      <4> QED
        BY <3>2, <4>2, <4>3
    <3> QED
      BY <3>1, <3>2
  <2> HIDE DEF skipped, item, n
  <2> QED
    BY <2>1 DEF IsCollecting
<1>4. IsCollecting(missing, n, skipped, item)
  <2>1. \E f : Is(f)
    <3> HIDE DEF Is, n, skipped, item
    <3> QED
      BY <1>2, <1>3, CollectingExists
  <2>2. Is(missing)
    <3> HIDE DEF Is
    <3> QED
      BY <2>1
  <2> HIDE DEF Is, n, skipped, item, missing
  <2> QED
    BY <1>3, <2>2
<1>5. item \in [1..n -> UseRecord]
  BY <1>2 DEF UseRecord
<1>6. missing[n] \in Seq(UseRecord) /\ ToSet(missing[n]) = Kept(item, n, skipped)
  <2> HIDE DEF n, skipped, item, missing
  <2>1. IsItems(item, n, UseRecord)
    BY <1>5 DEF IsItems
  <2> QED
    BY <1>2, <1>4, <2>1, CollectedItems
<1>7. (1..n) \ skipped = Left(d)
  BY <1>2 DEF Left
<1>8. Kept(item, n, skipped) = {[deployment |-> d, index |-> i, owner |-> Owner] : i \in Left(d)}
  <2>1. \A i \in Left(d) : item[i] = [deployment |-> d, index |-> i, owner |-> Owner]
    BY <1>2 DEF Left
  <2> HIDE DEF item, skipped, n
  <2> QED
    BY <1>7, <2>1 DEF Kept
<1> HIDE DEF missing, item, skipped, n
<1> QED
  BY <1>1, <1>6, <1>7, <1>8

(* What a use is matched by.                                               *)
LEMMA MatchesType ==
    ASSUME TypeOK, NEW f \in Files, NEW use
    PROVE  /\ UseMatches(f, use) \subseteq Deployments
           /\ UseMatches(f, use) \in SUBSET Deployments
<1>1. \A i \in Scope(f) : i.file \in Files
  BY DEF TypeOK, IsProgram, Scope
<1>2. \A g \in Files : ToSet(program.deployments[g]) \subseteq Deployments
  BY ProgramType, ToSetOfList
<1>3. UseMatches(f, use) \subseteq Deployments
  BY <1>1, <1>2 DEF UseMatches
<1> QED
  BY <1>3

LEMMA MatchesAreMeant ==
    ASSUME TypeOK, NEW f \in Files, NEW d \in Deployments, NEW i \in UseSlots(d),
           NEW e \in UseMatches(f, program.uses[d][i])
    PROVE  e \in Deployments /\ IsMeant(f, d, i, e)
<1> DEFINE use == program.uses[d][i]
<1>1. use \in Seq(Parts)
  <2>1. program.uses[d] \in Seq(Name)
    BY ProgramType
  <2> QED
    BY <2>1 DEF UseSlots, Name
<1>2. PICK g \in Scope(f) :
         /\ e \in ToSet(program.deployments[g.file])
         /\ matches_use_definition_reference(use, program.name[e], program.package[g.file], g.namespace)
  BY DEF UseMatches
<1>3. g \in {[file |-> f, namespace |-> <<>>]} \cup program.imports[f]
  BY <1>2 DEF Scope
<1>4. g.file \in Files /\ g.namespace \in Seq(Parts)
  <2>1. program.imports[f] \in SUBSET [file : Files, namespace : Name]
    BY DEF TypeOK, IsProgram
  <2>2. <<>> \in Seq(Parts)
    OBVIOUS
  <2>3. CASE g = [file |-> f, namespace |-> <<>>]
    BY <2>2, <2>3
  <2>4. CASE g \in program.imports[f]
    BY <2>1, <2>4 DEF Name
  <2> QED
    BY <1>3, <2>3, <2>4
<1>5. e \in Deployments
  BY <1>2, <1>4, ProgramType, ToSetOfList
<1>6. program.name[e] \in Seq(Parts) /\ program.package[g.file] \in Seq(Parts)
  BY <1>4, <1>5 DEF TypeOK, IsProgram, Name
<1>7. UseMeans(use, program.name[e], program.package[g.file], g.namespace)
  <2> HIDE DEF use
  <2> QED
    BY <1>1, <1>2, <1>4, <1>6, UsesAreMeanings
<1> QED
  BY <1>2, <1>3, <1>5, <1>7 DEF IsMeant

LEMMA FoundIs ==
    ASSUME TypeOK, Owner \in Files, NEW d \in Deployments
    PROVE  /\ Found(d) \subseteq Deployments \X Nat \X Deployments
           /\ \A c, i, x : <<c, i, x>> \in Found(d)
                 <=> c = d /\ i \in UseSlots(d) /\ x \in UseMatches(Owner, program.uses[d][i])
           /\ \A u \in Found(d) : u[1] = d
<1>1. UseSlots(d) \subseteq Nat
  <2>1. program.uses[d] \in Seq(Name)
    BY ProgramType
  <2> QED
    BY <2>1 DEF UseSlots
<1>2. \A i \in UseSlots(d) : UseMatches(Owner, program.uses[d][i]) \subseteq Deployments
  BY MatchesType
<1> QED
  BY <1>1, <1>2 DEF Found

-----------------------------------------------------------------------------
(* The other steps.                                                        *)

LEMMA DatatypeFound ==
    ASSUME TypeOK, NEW f \in Files, NEW d \in Deployments, NEW e,
           Cardinality(Targets(f, d)) = 1, e.name \in DOMAIN Datatypes(f, d)
    PROVE  DeployedType(f, d, e) \in Types
<1>1. Targets(f, d) # {}
  BY FS_EmptySet
<1>2. program.collections[f] \in Seq(Collection)
  BY DEF TypeOK, IsProgram
<1>3. Min(Targets(f, d)) \in DOMAIN program.collections[f]
  <2>1. Targets(f, d) \subseteq Nat
    BY <1>2 DEF Targets
  <2>2. Min(Targets(f, d)) \in Targets(f, d)
    BY <1>1, <2>1, LeastNumber
  <2> QED
    BY <2>2 DEF Targets
<1>4. program.collections[f][Min(Targets(f, d))] \in Collection
  BY <1>2, <1>3, ListType
<1>5. Datatypes(f, d) \in UNION {[names -> Types] : names \in SUBSET TypeNames}
  BY <1>4 DEF Datatypes, Collection
<1> QED
  BY <1>5 DEF DeployedType

LEMMA VisibleIsSettled ==
    ASSUME Core, file # <<>>
    PROVE  Visible(Owner) \subseteq Settled
BY CurrentFile DEF Core, SpecInv, Visible, Entered

LEMMA ResolveDeploymentCore ==
    ASSUME Core, NEW d \in Deployments, ResolveDeployment(d)
    PROVE  /\ Core' /\ InHand' /\ Step' = 0
           /\ specification[d] = Unresolved /\ specification'[d] \in Settled
<1>1. /\ phase = "transforming" /\ todo # <<>> /\ d = Head(todo)
      /\ specification[d] = Unresolved /\ CanResolve(d)
      /\ specification' = [specification EXCEPT ![d] = Specification(Owner, program.specification[d])]
      /\ use_definitions' = use_definitions \cup Found(d)
      /\ pending_uses' = pending_uses \o Missing(d)
      /\ elements' = program.elements[d]
      /\ UNCHANGED <<program, host_order, phase, transformed_files, file, todo,
                     base_specifications, deployment_properties>>
  BY DEF ResolveDeployment, IsNextDeployment
<1>2. TypeOK /\ FileInv /\ SpecInv /\ DeployInv /\ ElementInv
  BY DEF Core
<1>3. /\ file # <<>> /\ Turn \in 1..Len(Own) /\ d = Own[Turn]
      /\ Owner \in Files /\ Own \in Seq(Deployments) /\ ToSet(file) = {Owner}
      /\ d \in ToSet(program.deployments[Owner])
  BY <1>1, <1>2, CurrentDeployment, CurrentFile DEF Own
<1>4. Specification(Owner, program.specification[d]) \in Settled
  BY <1>1, <1>2, <1>3, SpecificationFound, VisibleIsSettled DEF CanResolve
<1>5. Settled \subseteq Specifications /\ Unresolved \notin Settled
  BY DeploymentAssumption DEF Settled, DeploymentAssumption
<1>6. /\ Owner' = Owner /\ Own' = Own /\ Turn' = Turn /\ Count' = Count /\ Settled' = Settled
      /\ Entered' = Entered
  BY <1>1 DEF Owner, Own, Turn, Count, Settled, Resolved, Entered
<1>7. /\ specification'[d] \in Settled
      /\ \A c \in Deployments : c # d => specification'[c] = specification[c]
      /\ specification' \in [Deployments -> Specifications \cup {Unresolved}]
  <2>1. specification \in [Deployments -> Specifications \cup {Unresolved}]
    BY <1>2 DEF TypeOK
  <2> QED
    BY <1>1, <1>4, <1>5, <2>1
<1>8. TypeOK'
  <2>1. program.elements[d] \in Seq(Element)
    BY <1>2, ProgramType
  <2>2. use_definitions' \subseteq Deployments \X Nat \X Deployments
    BY <1>1, <1>2, <1>3, FoundIs DEF TypeOK
  <2>3. pending_uses' \in Seq([deployment : Deployments, index : Nat, owner : Files])
    <3>1. Missing(d) \in Seq([deployment : Deployments, index : Nat, owner : Files])
      BY <1>2, <1>3, MissingIs DEF UseRecord
    <3>2. pending_uses \in Seq([deployment : Deployments, index : Nat, owner : Files])
      BY <1>2 DEF TypeOK
    <3> QED
      BY <1>1, <3>1, <3>2, ConcatProperties
  <2> QED
    BY <1>1, <1>2, <1>7, <2>1, <2>2, <2>3 DEF TypeOK
<1>9. FileInv'
  BY <1>1, <1>2, <1>6 DEF FileInv
<1>10. SpecInv'
  BY <1>1, <1>2, <1>6, SameInput DEF SpecInv
<1>11. DeployInv'
  <2>1. \A f \in Files : \A c \in ToSet(program.deployments[f]) :
           specification'[c] # Unresolved => IsSettled(f, c)'
    <3> TAKE f \in Files
    <3> TAKE c \in ToSet(program.deployments[f])
    <3> HAVE specification'[c] # Unresolved
    <3>1. \A g, b, e : DeployedType(g, b, e)' = DeployedType(g, b, e)
      BY <1>1, SameInput
    <3>2. CASE c = d
      <4>1. f = Owner
        BY <1>2, <1>3, <3>2, OnePlace
      <4>2. \A e \in ToSet(program.elements[d]) : DeployedType(Owner, d, e) \in Types
        BY <1>1, <1>2, <1>3, DatatypeFound DEF CanResolve
      <4> QED
        BY <1>1, <1>6, <1>7, <3>1, <3>2, <4>1, <4>2 DEF IsSettled
    <3>3. CASE c # d
      <4>1. c \in Deployments
        BY <1>2, ProgramType, ToSetOfList
      <4>2. specification'[c] = specification[c] /\ IsSettled(f, c)
        BY <1>2, <1>7, <3>3, <4>1 DEF DeployInv
      <4> QED
        BY <1>1, <1>6, <3>1, <4>2 DEF IsSettled
    <3> QED
      BY <3>2, <3>3
  <2>2. \A f \in Entered : \A j \in DOMAIN program.deployments[f] :
           f \in ToSet(transformed_files) \/ j < Turn
           => specification'[program.deployments[f][j]] # Unresolved
    <3> TAKE f \in Entered
    <3> TAKE j \in DOMAIN program.deployments[f]
    <3> HAVE f \in ToSet(transformed_files) \/ j < Turn
    <3>1. specification[program.deployments[f][j]] # Unresolved
      BY <1>2 DEF DeployInv
    <3>2. f \in Files
      <4>1. transformed_files \in Seq(Files)
        BY <1>2 DEF TypeOK
      <4> QED
        BY <1>3, <4>1, ToSetOfList DEF Entered
    <3>3. program.deployments[f][j] \in Deployments
      BY <1>2, <3>2, ProgramType, ListType
    <3> QED
      BY <1>1, <1>7, <3>1, <3>3
  <2>3. \A f \in Files : \A j \in DOMAIN program.deployments[f] :
           specification'[program.deployments[f][j]] # Unresolved =>
              f \in ToSet(transformed_files) \/ (f \in ToSet(file) /\ j <= Turn)
    <3> TAKE f \in Files
    <3> TAKE j \in DOMAIN program.deployments[f]
    <3> HAVE specification'[program.deployments[f][j]] # Unresolved
    <3>1. CASE program.deployments[f][j] = d
      <4>1. Turn \in DOMAIN program.deployments[Owner] /\ d = program.deployments[Owner][Turn]
        BY <1>3 DEF Own
      <4>2. f = Owner /\ j = Turn
        BY <1>2, <1>3, <3>1, <4>1, OnePlace
      <4> QED
        BY <1>3, <4>2
    <3>2. CASE program.deployments[f][j] # d
      <4>1. program.deployments[f][j] \in Deployments
        BY <1>2, ProgramType, ListType
      <4> QED
        BY <1>2, <1>7, <3>2, <4>1 DEF DeployInv
    <3> QED
      BY <3>1, <3>2
  <2> QED
    BY <1>1, <1>6, <2>1, <2>2, <2>3 DEF DeployInv
<1>12. InHand' /\ Step' = 0 /\ ElementInv'
  <2>1. InHand'
    BY <1>1, <1>5, <1>7 DEF InHand
  <2>2. program.elements[d] \in Seq(Element) /\ Len(program.elements[d]) \in Nat
    <3>1. program.elements[d] \in Seq(Element)
      BY <1>2, ProgramType
    <3> QED
      BY <3>1
  <2>3. Step' = 0
    BY <1>1, <2>2 DEF Step
  <2>4. elements' = SubSeq(program.elements[d], 0 + 1, Len(program.elements[d]))
    BY <1>1, <2>2, WholePart
  <2> QED
    BY <1>1, <2>1, <2>2, <2>3, <2>4 DEF ElementInv
<1> QED
  BY <1>1, <1>7, <1>8, <1>9, <1>10, <1>11, <1>12 DEF Core

LEMMA EndDeploymentCore ==
    ASSUME Core, NEW d \in Deployments, EndDeployment(d)
    PROVE  Core' /\ ~InHand' /\ Turn' = Turn + 1
<1>1. /\ phase = "transforming" /\ todo # <<>> /\ d = Head(todo)
      /\ specification[d] # Unresolved /\ elements = <<>>
      /\ todo' = Tail(todo)
      /\ UNCHANGED <<program, host_order, phase, transformed_files, file, elements,
                     base_specifications, specification, deployment_properties,
                     use_definitions, pending_uses>>
  BY DEF EndDeployment, Applying, bases, uses
<1>2. TypeOK /\ FileInv /\ SpecInv /\ DeployInv /\ ElementInv
  BY DEF Core
<1>3. /\ file # <<>> /\ Turn \in 1..Len(Own) /\ d = Own[Turn]
      /\ Tail(todo) = SubSeq(Own, Turn + 1, Len(Own))
      /\ Len(Tail(todo)) = Len(todo) - 1 /\ Len(todo) \in Nat
      /\ Owner \in Files /\ Own \in Seq(Deployments) /\ ToSet(file) = {Owner}
      /\ Owner \notin ToSet(transformed_files) /\ Len(Own) \in Nat
  BY <1>1, <1>2, CurrentDeployment, CurrentFile
<1>4. /\ Owner' = Owner /\ Own' = Own /\ Count' = Count /\ Settled' = Settled /\ Entered' = Entered
  BY <1>1 DEF Owner, Own, Count, Settled, Resolved, Entered
<1>5. Turn' = Turn + 1
  BY <1>1, <1>3, <1>4 DEF Turn
<1>6. TypeOK'
  <2>1. todo' \in Seq(Deployments)
    BY <1>1, <1>2 DEF TypeOK
  <2> QED
    BY <1>1, <1>2, <2>1 DEF TypeOK
<1>7. FileInv'
  BY <1>1, <1>2, <1>3, <1>4, <1>5 DEF FileInv
<1>8. SpecInv'
  BY <1>1, <1>2, <1>4, SameInput DEF SpecInv
<1>9. DeployInv'
  <2>1. \A f, c : IsSettled(f, c)' <=> IsSettled(f, c)
    BY <1>1, <1>4, SameInput DEF IsSettled
  <2>2. \A f \in Entered : \A j \in DOMAIN program.deployments[f] :
           f \in ToSet(transformed_files) \/ j < Turn + 1
           => specification[program.deployments[f][j]] # Unresolved
    <3> TAKE f \in Entered
    <3> TAKE j \in DOMAIN program.deployments[f]
    <3> HAVE f \in ToSet(transformed_files) \/ j < Turn + 1
    <3>1. CASE f \in ToSet(transformed_files)
      BY <1>2, <3>1 DEF DeployInv
    <3>2. CASE f = Owner
      <4>1. j \in 1..Len(Own) /\ program.deployments[f][j] = Own[j]
        BY <1>3, <3>2 DEF Own
      <4>2. CASE j = Turn
        BY <1>1, <1>3, <4>1, <4>2
      <4>3. CASE j # Turn
        <5>1. j < Turn
          BY <1>3, <3>2, <4>1, <4>3
        <5> QED
          BY <1>2, <5>1 DEF DeployInv
      <4> QED
        BY <4>2, <4>3
    <3> QED
      BY <1>3, <3>1, <3>2 DEF Entered
  <2>3. \A f \in Files : \A j \in DOMAIN program.deployments[f] :
           specification[program.deployments[f][j]] # Unresolved =>
              f \in ToSet(transformed_files) \/ (f \in ToSet(file) /\ j <= Turn + 1)
    <3> TAKE f \in Files
    <3> TAKE j \in DOMAIN program.deployments[f]
    <3> HAVE specification[program.deployments[f][j]] # Unresolved
    <3>1. j \in Nat
      <4>1. program.deployments[f] \in Seq(Deployments)
        BY <1>2, ProgramType
      <4> QED
        BY <4>1
    <3>2. f \in ToSet(transformed_files) \/ (f \in ToSet(file) /\ j <= Turn)
      BY <1>2 DEF DeployInv
    <3> QED
      BY <1>3, <3>1, <3>2
  <2> QED
    BY <1>1, <1>2, <1>4, <1>5, <2>1, <2>2, <2>3 DEF DeployInv
<1>10. ~InHand'
  <2> SUFFICES ASSUME InHand' PROVE FALSE
    OBVIOUS
  <2>1. Tail(todo) # <<>> /\ specification[Head(Tail(todo))] # Unresolved
    BY <1>1 DEF InHand
  <2>2. Turn + 1 \in 1..Len(Own)
    <3>1. CASE Turn = Len(Own)
      <4>1. Len(Own) = Len(Own) - Len(todo) + 1
        BY <3>1 DEF Turn
      <4>2. Len(Tail(todo)) = 0
        <5>1. Len(Own) \in Nat /\ Len(todo) \in Nat /\ Len(Tail(todo)) = Len(todo) - 1
          BY <1>3
        <5>2. \A a, b \in Nat : a = a - b + 1 => b - 1 = 0
          OBVIOUS
        <5> QED
          BY <4>1, <5>1, <5>2, Zenon
      <4>3. Tail(todo) \in Seq(Deployments)
        BY <1>1, <1>2 DEF TypeOK
      <4>4. Tail(todo) = <<>>
        BY <4>2, <4>3, EmptySeq
      <4> QED
        BY <2>1, <4>4
    <3> QED
      BY <1>3, <3>1
  <2>3. Head(Tail(todo)) = Own[Turn + 1]
    BY <1>3, <2>2, LastPart
  <2>4. Turn + 1 \in DOMAIN program.deployments[Owner]
    BY <1>3, <2>2 DEF Own
  <2>5. Turn + 1 <= Turn
    BY <1>2, <1>3, <2>1, <2>3, <2>4 DEF DeployInv, Own
  <2> QED
    BY <1>3, <2>5
<1>11. ElementInv'
  BY <1>10 DEF ElementInv
<1> QED
  BY <1>5, <1>6, <1>7, <1>8, <1>9, <1>10, <1>11 DEF Core

LEMMA EndFileCore ==
    ASSUME Core, EndFile
    PROVE  /\ Core' /\ ~InHand' /\ file' = <<>> /\ Turn = Len(Own) + 1
           /\ Count' = Count + 1 /\ ToSet(transformed_files') = ToSet(transformed_files) \cup {Owner}
<1>1. /\ phase = "transforming" /\ file # <<>> /\ todo = <<>>
      /\ transformed_files' = transformed_files \o file /\ file' = <<>>
      /\ UNCHANGED <<program, host_order, phase, todo, elements, base_specifications,
                     specification, deployment_properties, use_definitions, pending_uses>>
  BY DEF EndFile, bases, uses
<1>2. TypeOK /\ FileInv /\ SpecInv /\ DeployInv /\ ElementInv
  BY DEF Core
<1>3. /\ Owner \in Files /\ file = <<Owner>> /\ Owner = program.order[Count + 1]
      /\ Own \in Seq(Deployments) /\ ToSet(file) = {Owner} /\ Len(Own) \in Nat
  BY <1>1, <1>2, CurrentFile
<1>4. /\ Count < Len(program.order) /\ transformed_files = SubSeq(program.order, 1, Count)
      /\ transformed_files \in Seq(Files) /\ Count \in Nat /\ Len(program.order) \in Nat
      /\ program.order \in Seq(Files)
  <2>1. Count < Len(program.order) /\ transformed_files = SubSeq(program.order, 1, Count)
    BY <1>1, <1>2 DEF FileInv
  <2>2. transformed_files \in Seq(Files) /\ program.order \in Seq(Files)
    BY <1>2, ProgramType DEF TypeOK
  <2>3. Count \in Nat /\ Len(program.order) \in Nat
    BY <2>2 DEF Count
  <2> QED
    BY <2>1, <2>2, <2>3
<1>5. /\ transformed_files' = Append(transformed_files, Owner)
      /\ transformed_files' \in Seq(Files) /\ Count' = Count + 1
  <2>1. \A s \in Seq(Files) : s \o <<Owner>> = Append(s, Owner)
    BY <1>3
  <2>2. transformed_files' = Append(transformed_files, Owner)
    BY <1>1, <1>3, <1>4, <2>1
  <2>3. Len(transformed_files') = Len(transformed_files) + 1
    BY <1>4, <2>2
  <2> QED
    BY <1>3, <1>4, <2>2, <2>3 DEF Count
<1>6. ToSet(transformed_files') = ToSet(transformed_files) \cup {Owner}
  <2>1. transformed_files \in Seq(Files) /\ Owner \in Files
    BY <1>3, <1>4
  <2>2. ToSet(Append(transformed_files, Owner)) = ToSet(transformed_files) \cup {Owner}
    BY <2>1, ToSetAppend
  <2> QED
    BY <1>5, <2>2
<1>7. Turn = Len(Own) + 1
  BY <1>1, <1>3 DEF Turn
<1>8. Settled' = Settled /\ Entered' = Entered
  BY <1>1, <1>3, <1>6, NoFile DEF Settled, Resolved, Entered
<1>9. TypeOK'
  BY <1>1, <1>2, <1>5 DEF TypeOK
<1>10. FileInv'
  <2>1. transformed_files' = SubSeq(program.order, 1, Count + 1)
    BY <1>3, <1>4, <1>5, FirstPartGrows
  <2>2. Count + 1 <= Len(program.order)
    BY <1>4
  <2> QED
    BY <1>1, <1>5, <2>1, <2>2 DEF FileInv
<1>11. SpecInv'
  BY <1>1, <1>2, <1>8, SameInput DEF SpecInv
<1>12. DeployInv'
  <2>1. \A f, c : IsSettled(f, c)' <=> IsSettled(f, c)
    BY <1>1, <1>8, SameInput DEF IsSettled
  <2>2. \A f \in Entered : \A j \in DOMAIN program.deployments[f] :
           specification[program.deployments[f][j]] # Unresolved
    <3> TAKE f \in Entered
    <3> TAKE j \in DOMAIN program.deployments[f]
    <3>1. CASE f \in ToSet(transformed_files)
      BY <1>2, <3>1 DEF DeployInv
    <3>2. CASE f = Owner
      <4>1. j < Turn
        BY <1>3, <1>7, <3>2 DEF Own
      <4> QED
        BY <1>2, <4>1 DEF DeployInv
    <3> QED
      BY <1>3, <3>1, <3>2 DEF Entered
  <2>3. \A f \in Files : \A j \in DOMAIN program.deployments[f] :
           specification[program.deployments[f][j]] # Unresolved => f \in ToSet(transformed_files')
    BY <1>2, <1>3, <1>6 DEF DeployInv
  <2> QED
    BY <1>1, <1>2, <1>8, <2>1, <2>2, <2>3 DEF DeployInv
<1>13. ~InHand' /\ ElementInv'
  BY <1>1 DEF InHand, ElementInv
<1> QED
  BY <1>1, <1>5, <1>6, <1>7, <1>9, <1>10, <1>11, <1>12, <1>13 DEF Core

(* What is stored has a type.                                              *)
LEMMA NormalizedType ==
    ASSUME NEW value \in Value, NEW d
    PROVE  Normalized(value, d) \in Value
<1>1. value.items \in Seq(Scalar) /\ value.is_list \in BOOLEAN
  BY DEF Value
<1>2. \A x \in Scalar : [x EXCEPT !.kind = "string"] \in Scalar
  BY DEF Scalar
<1> DEFINE items == [i \in DOMAIN value.items |-> [value.items[i] EXCEPT !.kind = "string"]]
<1>3. items \in Seq(Scalar)
  <2>1. DOMAIN value.items = 1..Len(value.items) /\ Len(value.items) \in Nat
    BY <1>1
  <2>2. items \in [1..Len(value.items) -> Scalar]
    BY <1>1, <1>2, <2>1, ListType
  <2> HIDE DEF items
  <2> QED
    BY <2>1, <2>2, ListByPosition
<1>4. Normalized(value, d) = value \/ Normalized(value, d) = [value EXCEPT !.items = items]
  BY DEF Normalized
<1> HIDE DEF items
<1>5. [value EXCEPT !.items = items] \in Value
  BY <1>3 DEF Value
<1> QED
  BY <1>4, <1>5

LEMMA DefaultType ==
    ASSUME NEW d \in Declaration, Defaults(d) # {}
    PROVE  Default(d) \in Value /\ Min(Defaults(d)) \in Defaults(d)
<1>1. d.liabilities \in Seq(Value \cup {Optional})
  BY DEF Declaration
<1>2. Defaults(d) \subseteq DOMAIN d.liabilities /\ Defaults(d) \subseteq Nat
  BY <1>1 DEF Defaults
<1>3. Min(Defaults(d)) \in Defaults(d)
  BY <1>2, LeastNumber
<1>4. d.liabilities[Min(Defaults(d))] \in Value \cup {Optional}
  BY <1>1, <1>2, <1>3, ListType
<1>5. d.liabilities[Min(Defaults(d))] # Optional
  BY <1>3 DEF Defaults
<1> QED
  BY <1>3, <1>4, <1>5 DEF Default

Parameter == [name : Properties, value : Value]

LEMMA AssignedType ==
    ASSUME NEW declared, NEW e, e.parameters \in Seq(Parameter), NEW p, Assigned(declared, e, p) # {}
    PROVE  LET i == Max(Assigned(declared, e, p))
           IN  /\ i \in Assigned(declared, e, p) /\ i \in 1..Len(e.parameters)
               /\ e.parameters[i].value \in Value /\ AssignedValue(declared, e, p) \in Value
               /\ p \in DOMAIN declared
<1> DEFINE i == Max(Assigned(declared, e, p))
<1>1. Assigned(declared, e, p) \subseteq 1..Len(e.parameters) /\ Len(e.parameters) \in Nat
  BY DEF Assigned
<1>2. i \in Assigned(declared, e, p) /\ i \in 1..Len(e.parameters)
  BY <1>1, GreatestNumber
<1>3. p \in DOMAIN declared
  BY DEF Assigned
<1> HIDE DEF i
<1>4. e.parameters[i] \in Parameter
  BY <1>2, ListType
<1>5. e.parameters[i].value \in Value
  BY <1>4 DEF Parameter
<1>6. AssignedValue(declared, e, p) \in Value
  BY <1>5, NormalizedType DEF AssignedValue, i
<1> QED
  BY <1>2, <1>3, <1>5, <1>6 DEF i

LEMMA StoredType ==
    ASSUME NEW declared, NEW e, e.parameters \in Seq(Parameter),
           \A p \in DOMAIN declared : declared[p] \in Declaration,
           NEW properties \in [Properties -> Value \cup {Unset}]
    PROVE  /\ WithParameters(declared, e, properties) \in [Properties -> Value \cup {Unset}]
           /\ WithDefaults(declared, WithParameters(declared, e, properties))
                 \in [Properties -> Value \cup {Unset}]
<1>1. WithParameters(declared, e, properties) \in [Properties -> Value \cup {Unset}]
  <2>1. \A p \in Properties : Assigned(declared, e, p) # {} => AssignedValue(declared, e, p) \in Value
    BY AssignedType
  <2> QED
    BY <2>1 DEF WithParameters
<1>2. \A stored \in [Properties -> Value \cup {Unset}] :
         WithDefaults(declared, stored) \in [Properties -> Value \cup {Unset}]
  <2> TAKE stored \in [Properties -> Value \cup {Unset}]
  <2>1. \A p \in Defaulted(declared, stored) : Normalized(Default(declared[p]), declared[p]) \in Value
    <3> TAKE p \in Defaulted(declared, stored)
    <3>1. declared[p] \in Declaration /\ Defaults(declared[p]) # {}
      BY DEF Defaulted
    <3> QED
      BY <3>1, DefaultType, NormalizedType
  <2> QED
    BY <2>1 DEF WithDefaults
<1> QED
  BY <1>1, <1>2

LEMMA InTheHand ==
    ASSUME Core, NEW d \in Deployments, Applying(d)
    PROVE  /\ InHand /\ file # <<>> /\ d = Head(todo) /\ phase = "transforming"
           /\ Owner \in Files /\ d \in ToSet(program.deployments[Owner])
           /\ specification[d] \in Settled /\ Owner \notin ToSet(transformed_files)
           /\ Turn \in 1..Len(Own) /\ d = Own[Turn] /\ Own \in Seq(Deployments)
           /\ program.elements[d] \in Seq(Element)
           /\ Step \in 0..Len(program.elements[d]) /\ Step = Len(program.elements[d]) - Len(elements)
           /\ elements = SubSeq(program.elements[d], Step + 1, Len(program.elements[d]))
<1>1. /\ phase = "transforming" /\ todo # <<>> /\ d = Head(todo) /\ specification[d] # Unresolved
  BY DEF Applying
<1>2. InHand
  BY <1>1 DEF InHand
<1>3. /\ file # <<>> /\ Turn \in 1..Len(Own) /\ d = Own[Turn] /\ d \in ToSet(Own)
      /\ Owner \in Files /\ Own \in Seq(Deployments) /\ Owner \notin ToSet(transformed_files)
  BY <1>1, CurrentDeployment, CurrentFile DEF Core
<1>4. specification[d] \in Settled /\ d \in ToSet(program.deployments[Owner])
  BY <1>1, <1>3 DEF Core, DeployInv, IsSettled, Own
<1>5. program.elements[d] \in Seq(Element)
  BY ProgramType DEF Core
<1>6. /\ Step \in 0..Len(program.elements[d]) /\ Step = Len(program.elements[d]) - Len(elements)
      /\ elements = SubSeq(program.elements[d], Step + 1, Len(program.elements[d]))
  BY <1>1, <1>2 DEF Core, ElementInv, Step
<1> QED
  BY <1>1, <1>2, <1>3, <1>4, <1>5, <1>6

LEMMA NextElement ==
    ASSUME Core, NEW d \in Deployments, Applying(d), elements # <<>>
    PROVE  LET e == Head(elements)
           IN  /\ Step + 1 \in 1..Len(program.elements[d]) /\ e = program.elements[d][Step + 1]
               /\ Step \in Nat
               /\ e \in Element /\ e \in ToSet(program.elements[d])
               /\ DeployedType(Owner, d, e) \in Types
               /\ Tail(elements) = SubSeq(program.elements[d], Step + 2, Len(program.elements[d]))
               /\ Len(Tail(elements)) = Len(elements) - 1
               /\ Len(elements) \in Nat /\ Len(program.elements[d]) \in Nat
<1> DEFINE all == program.elements[d]
<1>1. /\ all \in Seq(Element) /\ Step \in 0..Len(all) /\ elements = SubSeq(all, Step + 1, Len(all))
      /\ Len(all) \in Nat /\ Step = Len(all) - Len(elements)
  BY InTheHand
<1>2. elements \in Seq(Element)
  BY DEF Core, TypeOK
<1> HIDE DEF all
<1>3. Len(elements) # 0 /\ Len(elements) \in Nat
  BY <1>2, EmptySeq
<1>4. Step + 1 \in 1..Len(all) /\ (Step + 1) + 1 = Step + 2
  BY <1>1, <1>3
<1>5. Head(elements) = all[Step + 1] /\ Tail(elements) = SubSeq(all, Step + 2, Len(all))
  BY <1>1, <1>4, LastPart
<1>6. Head(elements) \in Element /\ Head(elements) \in ToSet(all)
  <2>1. all[Step + 1] \in Element /\ all[Step + 1] \in ToSet(all)
    <3>1. all \in Seq(Element) /\ Step + 1 \in 1..Len(all)
      BY <1>1, <1>4
    <3> QED
      BY <3>1, ToSetOfList, ListType
  <2> QED
    BY <1>5, <2>1
<1>7. Len(Tail(elements)) = Len(elements) - 1
  BY <1>2
<1>8. DeployedType(Owner, d, Head(elements)) \in Types
  <2>1. Owner \in Files /\ d \in ToSet(program.deployments[Owner]) /\ specification[d] # Unresolved
    BY InTheHand DEF Applying
  <2> QED
    BY <1>6, <2>1 DEF Core, DeployInv, IsSettled, all
<1>9. Step \in Nat
  BY <1>1
<1> QED
  BY <1>1, <1>3, <1>4, <1>5, <1>6, <1>7, <1>8, <1>9, Zenon DEF all

LEMMA ApplyElementCore ==
    ASSUME Core, NEW d \in Deployments, ApplyElement(d)
    PROVE  Core' /\ InHand' /\ Step' = Step + 1
<1> DEFINE e == Head(elements)
           type == DeployedType(Owner, d, e)
           declared == Declarations(specification[d], e.hosts)
           stored == WithDefaults(declared, WithParameters(declared, e, deployment_properties[type]))
<1>1. /\ Applying(d) /\ elements # <<>> /\ elements' = Tail(elements)
      /\ deployment_properties' = [deployment_properties EXCEPT ![type] = stored]
      /\ UNCHANGED <<program, host_order, phase, transformed_files, file, todo, base_specifications,
                     specification, use_definitions, pending_uses>>
  BY DEF ApplyElement, bases, uses
<1>2. TypeOK /\ FileInv /\ SpecInv /\ DeployInv /\ ElementInv
  BY DEF Core
<1>3. /\ InHand /\ d = Head(todo) /\ specification[d] \in Settled
      /\ Step = Len(program.elements[d]) - Len(elements)
  BY <1>1, InTheHand
<1>4. /\ Step + 1 \in 1..Len(program.elements[d]) /\ Step \in Nat /\ e \in Element /\ type \in Types
      /\ elements' = SubSeq(program.elements[d], Step + 2, Len(program.elements[d]))
      /\ Len(elements') = Len(elements) - 1 /\ Len(elements) \in Nat /\ Len(program.elements[d]) \in Nat
  BY <1>1, NextElement
<1>5. TypeOK'
  <2>1. stored \in [Properties -> Value \cup {Unset}]
    <3>1. e.parameters \in Seq(Parameter)
      BY <1>4 DEF Element, Parameter
    <3>2. \A p \in DOMAIN declared : declared[p] \in Declaration
      BY <1>2, <1>3, DeclarationsType
    <3>3. deployment_properties[type] \in [Properties -> Value \cup {Unset}]
      BY <1>2, <1>4 DEF TypeOK
    <3> HIDE DEF e, type, declared
    <3> QED
      BY <3>1, <3>2, <3>3, StoredType
  <2> HIDE DEF stored, type
  <2>2. deployment_properties' \in [Types -> [Properties -> Value \cup {Unset}]]
    BY <1>1, <1>2, <1>4, <2>1 DEF TypeOK
  <2>3. elements' \in Seq(Element)
    BY <1>1, <1>2 DEF TypeOK
  <2> QED
    BY <1>1, <1>2, <2>2, <2>3 DEF TypeOK
<1> HIDE DEF e, type, declared, stored
<1>6. /\ Owner' = Owner /\ Own' = Own /\ Turn' = Turn /\ Count' = Count /\ Settled' = Settled
      /\ Entered' = Entered
  BY <1>1 DEF Owner, Own, Turn, Count, Settled, Resolved, Entered
<1>7. FileInv'
  BY <1>1, <1>2, <1>6 DEF FileInv
<1>8. SpecInv'
  BY <1>1, <1>2, <1>6, SameInput DEF SpecInv
<1>9. DeployInv'
  <2>1. \A f, c : IsSettled(f, c)' <=> IsSettled(f, c)
    BY <1>1, <1>6, SameInput DEF IsSettled
  <2> QED
    BY <1>1, <1>2, <1>6, <2>1 DEF DeployInv
<1>10. InHand' /\ Step' = Step + 1
  <2>1. InHand'
    BY <1>1, <1>3 DEF InHand
  <2>2. Step' = Len(program.elements[d]) - Len(elements')
    BY <1>1, <1>3 DEF Step
  <2>3. \A a, b, c \in Nat : a = b - c => b - (c - 1) = a + 1
    OBVIOUS
  <2> QED
    BY <1>3, <1>4, <2>1, <2>2, <2>3
<1>11. ElementInv'
  <2>1. Step + 1 \in 0..Len(program.elements[d]) /\ (Step + 1) + 1 = Step + 2
    BY <1>4
  <2> QED
    BY <1>1, <1>3, <1>4, <1>10, <2>1 DEF ElementInv
<1> QED
  BY <1>5, <1>7, <1>8, <1>9, <1>10, <1>11 DEF Core

LEMMA CoreInit == Init => Core
<1> SUFFICES ASSUME Init PROVE Core
  OBVIOUS
<1>1. /\ program \in Programs /\ phase = "transforming"
      /\ host_order \in [1..Cardinality(Hosts) -> Hosts]
      /\ transformed_files = <<>> /\ file = <<>> /\ todo = <<>> /\ elements = <<>>
      /\ base_specifications = [s \in Specifications |-> Unresolved]
      /\ specification = [d \in Deployments |-> Unresolved]
      /\ deployment_properties = [t \in Types |-> [p \in Properties |-> Unset]]
      /\ use_definitions = {} /\ pending_uses = <<>>
  BY DEF Init
<1>2. IsProgram(program)
  BY <1>1, DeploymentAssumption DEF DeploymentAssumption
<1>3. TypeOK
  <2>1. /\ transformed_files \in Seq(Files) /\ file \in Seq(Files) /\ Len(file) <= 1
        /\ todo \in Seq(Deployments) /\ elements \in Seq(Element)
        /\ pending_uses \in Seq([deployment : Deployments, index : Nat, owner : Files])
    BY <1>1
  <2> QED
    BY <1>1, <1>2, <2>1 DEF TypeOK
<1>4. Count = 0
  BY <1>1 DEF Count
<1>5. FileInv
  <2>1. program.order \in Seq(Files)
    BY <1>2 DEF IsProgram
  <2>2. SubSeq(program.order, 1, 0) = <<>> /\ 0 <= Len(program.order)
    BY <2>1, WholePart
  <2> QED
    BY <1>1, <1>4, <2>2 DEF FileInv
<1>6. Settled = {} /\ Entered = {}
  BY <1>1, NoFile DEF Settled, Resolved, Entered
<1>7. SpecInv
  BY <1>6 DEF SpecInv
<1>8. DeployInv
  <2>1. \A f \in Files : \A j \in DOMAIN program.deployments[f] :
           specification[program.deployments[f][j]] = Unresolved
    <3> TAKE f \in Files
    <3> TAKE j \in DOMAIN program.deployments[f]
    <3>1. program.deployments[f][j] \in Deployments
      BY <1>3, ProgramType, ListType
    <3> QED
      BY <1>1, <3>1
  <2>2. \A f \in Files : \A d \in ToSet(program.deployments[f]) : specification[d] = Unresolved
    <3> TAKE f \in Files
    <3> TAKE d \in ToSet(program.deployments[f])
    <3>1. d \in Deployments
      BY <1>3, ProgramType, ToSetOfList
    <3> QED
      BY <1>1, <3>1
  <2> QED
    BY <1>6, <2>1, <2>2 DEF DeployInv
<1>9. ElementInv
  BY <1>1 DEF ElementInv, InHand
<1> QED
  BY <1>3, <1>5, <1>7, <1>8, <1>9 DEF Core

LEMMA FailCore == ASSUME Core, Fail PROVE Core'
<1>1. /\ phase' = "failed" /\ use_definitions' = use_definitions /\ pending_uses' = pending_uses
      /\ UNCHANGED <<program, host_order, progress, bases, deployment_properties>>
  BY DEF Fail, uses
<1>2. /\ use_definitions \subseteq Deployments \X Nat \X Deployments
      /\ pending_uses \in Seq([deployment : Deployments, index : Nat, owner : Files])
  BY DEF Core, TypeOK
<1> QED
  BY <1>1, <1>2, PhaseCore

LEMMA SameCore == ASSUME Core, UNCHANGED vars PROVE Core'
<1>1. /\ phase' = phase /\ use_definitions' = use_definitions /\ pending_uses' = pending_uses
      /\ UNCHANGED <<program, host_order, progress, bases, deployment_properties>>
  BY DEF vars, uses
<1>2. /\ use_definitions \subseteq Deployments \X Nat \X Deployments
      /\ pending_uses \in Seq([deployment : Deployments, index : Nat, owner : Files])
      /\ phase \in {"transforming", "resolving", "done", "failed"}
      /\ phase \in {"resolving", "done"} => file = <<>> /\ Count = Len(program.order)
  BY DEF Core, TypeOK, FileInv
<1> QED
  BY <1>1, <1>2, PhaseCore

LEMMA PendingUse ==
    ASSUME TypeOK, pending_uses # <<>>
    PROVE  /\ Head(pending_uses) \in UseRecord /\ Head(pending_uses) \in ToSet(pending_uses)
           /\ PendingMatches \subseteq Deployments /\ Tail(pending_uses) \in Seq(UseRecord)
           /\ pending_uses \in Seq(UseRecord)
<1>1. pending_uses \in Seq(UseRecord)
  BY DEF TypeOK, UseRecord
<1>2. Head(pending_uses) \in UseRecord /\ Tail(pending_uses) \in Seq(UseRecord)
  BY <1>1
<1>3. Head(pending_uses) \in ToSet(pending_uses)
  <2>1. Len(pending_uses) \in Nat \ {0} /\ Head(pending_uses) = pending_uses[1]
    BY <1>1, EmptySeq
  <2>2. 1 \in 1..Len(pending_uses)
    BY <2>1
  <2> QED
    BY <1>1, <2>1, <2>2, ToSetOfList
<1>4. Head(pending_uses).owner \in Files
  BY <1>2 DEF UseRecord
<1> QED
  BY <1>1, <1>2, <1>3, <1>4, MatchesType DEF PendingMatches

LEMMA ResolvePendingUseCore == ASSUME Core, ResolvePendingUse PROVE Core'
<1> DEFINE pending == Head(pending_uses)
<1>1. /\ phase = "resolving" /\ pending_uses # <<>> /\ phase' = phase
      /\ use_definitions' = use_definitions \cup ({pending.deployment} \X {pending.index} \X PendingMatches)
      /\ pending_uses' = Tail(pending_uses)
      /\ UNCHANGED <<program, host_order, progress, bases, deployment_properties>>
  BY DEF ResolvePendingUse
<1>2. TypeOK /\ FileInv
  BY DEF Core
<1>3. pending \in UseRecord /\ PendingMatches \subseteq Deployments /\ pending_uses' \in Seq(UseRecord)
  BY <1>1, <1>2, PendingUse
<1>4. use_definitions' \subseteq Deployments \X Nat \X Deployments
  <2>1. pending.deployment \in Deployments /\ pending.index \in Nat
    BY <1>3 DEF UseRecord
  <2> HIDE DEF pending
  <2> QED
    BY <1>1, <1>2, <1>3, <2>1 DEF TypeOK
<1> QED
  BY <1>1, <1>2, <1>3, <1>4, PhaseCore DEF UseRecord, FileInv

LEMMA EndTransformingCore == ASSUME Core, EndTransforming PROVE Core'
<1>1. /\ phase' = "resolving" /\ file = <<>> /\ Count = Len(program.order)
      /\ use_definitions' = use_definitions /\ pending_uses' = pending_uses
      /\ UNCHANGED <<program, host_order, progress, bases, deployment_properties>>
  BY DEF EndTransforming, uses, Count
<1>2. /\ use_definitions \subseteq Deployments \X Nat \X Deployments
      /\ pending_uses \in Seq([deployment : Deployments, index : Nat, owner : Files])
  BY DEF Core, TypeOK
<1> QED
  BY <1>1, <1>2, PhaseCore

LEMMA EndResolvingCore == ASSUME Core, EndResolving PROVE Core'
<1>1. /\ phase = "resolving" /\ phase' = "done" /\ pending_uses = <<>>
      /\ use_definitions' = use_definitions /\ pending_uses' = pending_uses
      /\ UNCHANGED <<program, host_order, progress, bases, deployment_properties>>
  BY DEF EndResolving, uses
<1>2. /\ use_definitions \subseteq Deployments \X Nat \X Deployments
      /\ pending_uses \in Seq([deployment : Deployments, index : Nat, owner : Files])
      /\ file = <<>> /\ Count = Len(program.order)
  BY <1>1 DEF Core, TypeOK, FileInv
<1> QED
  BY <1>1, <1>2, PhaseCore

(* Which steps there are.                                                  *)
LEMMA Steps ==
    ASSUME [Next]_vars
    PROVE  \/ \E f \in Files : StartFile(f)
           \/ \E d \in Deployments : ResolveDeployment(d)
           \/ \E d \in Deployments : ApplyElement(d)
           \/ \E d \in Deployments : EndDeployment(d)
           \/ EndFile \/ EndTransforming \/ ResolvePendingUse \/ EndResolving \/ Fail
           \/ UNCHANGED vars
BY DEF Next, RejectSpecification, RejectDeployment, RejectElement, RejectInheritance,
       RejectPendingUse, Stopped

LEMMA CoreStep == ASSUME Core, [Next]_vars PROVE Core'
BY Steps, StartFileCore, ResolveDeploymentCore, ApplyElementCore, EndDeploymentCore, EndFileCore,
   EndTransformingCore, ResolvePendingUseCore, EndResolvingCore, FailCore, SameCore

(* Type correctness, for every program.                                    *)
THEOREM TypeCorrect == Spec => []TypeOK
<1>1. Init => Core
  BY CoreInit
<1>2. Core /\ [Next]_vars => Core'
  BY CoreStep
<1>3. Core => TypeOK
  BY DEF Core
<1> QED
  BY <1>1, <1>2, <1>3, PTL DEF Spec

-----------------------------------------------------------------------------
(* Uses.                                                                   *)

LEMMA ToSetTail ==
    ASSUME NEW S, NEW s \in Seq(S), s # <<>>
    PROVE  /\ ToSet(Tail(s)) \subseteq ToSet(s)
           /\ \A x \in ToSet(s) : x # Head(s) => x \in ToSet(Tail(s))
<1>1. /\ Tail(s) \in Seq(S) /\ Len(Tail(s)) = Len(s) - 1 /\ Len(s) \in Nat \ {0} /\ Head(s) = s[1]
      /\ \A i \in 1..(Len(s) - 1) : Tail(s)[i] = s[i + 1]
  BY HeadTailProperties, EmptySeq
<1> DEFINE t == Tail(s)
<1>2. /\ t \in Seq(S) /\ Len(t) = Len(s) - 1 /\ \A i \in 1..(Len(s) - 1) : t[i] = s[i + 1]
  BY <1>1
<1> HIDE DEF t
<1>3. ASSUME NEW x \in ToSet(t) PROVE x \in ToSet(s)
  <2>1. PICK i \in 1..Len(t) : x = t[i]
    BY <1>2, ToSetOfList
  <2>2. i + 1 \in 1..Len(s) /\ x = s[i + 1]
    BY <1>1, <1>2, <2>1
  <2> QED
    BY <2>2, ToSetOfList
<1>4. ASSUME NEW x \in ToSet(s), x # Head(s) PROVE x \in ToSet(t)
  <2>1. PICK i \in 1..Len(s) : x = s[i]
    BY ToSetOfList
  <2>2. i # 1
    BY <1>1, <1>4, <2>1
  <2>3. i - 1 \in 1..Len(t) /\ i - 1 \in 1..(Len(s) - 1) /\ (i - 1) + 1 = i
    BY <1>1, <1>2, <2>2
  <2>4. x = t[i - 1]
    BY <1>2, <2>1, <2>3
  <2> QED
    BY <1>2, <2>3, <2>4, ToSetOfList
<1> QED
  BY <1>3, <1>4 DEF t

LEMMA OneMatch ==
    ASSUME NEW S \in SUBSET Deployments, Cardinality(S) <= 1, S # {}
    PROVE  \E e \in Deployments : S = {e}
<1>1. IsFiniteSet(S)
  BY Cardinals, FS_Subset
<1>2. Cardinality(S) \in Nat /\ Cardinality(S) # 0
  BY <1>1, FS_CardinalityType, FS_EmptySet
<1>3. Cardinality(S) = 1
  BY <1>2
<1> QED
  BY <1>1, <1>3, FS_Singleton

(* Steps that bind no use; a file may become visible while files are       *)
(* transformed, when none of the uses that are left for later is bound.    *)
LEMMA UsesKept ==
    ASSUME UseInv, program' = program, specification' = specification,
           use_definitions' = use_definitions, pending_uses' = pending_uses,
           phase = "transforming" \/ transformed_files' = transformed_files,
           phase' = "transforming" => phase = "transforming",
           phase' = "done" => pending_uses = <<>>
    PROVE  UseInv'
<1>1. \A d, i : Bound(d, i)' = Bound(d, i)
  BY DEF Bound
<1>2. \A f, d, i : Pending(f, d, i)' <=> Pending(f, d, i)
  BY DEF Pending
<1>3. \A f, d, i, e : IsMeant(f, d, i, e)' <=> IsMeant(f, d, i, e)
  BY DEF IsMeant
<1>4. \A d : UseSlots(d)' = UseSlots(d)
  BY DEF UseSlots
<1>5. ASSUME transformed_files' = transformed_files, NEW f, NEW use
      PROVE  UseMatches(f, use)' = UseMatches(f, use)
  <2>1. Scope(f)' = Scope(f)
    BY <1>5 DEF Scope
  <2> QED
    BY <2>1 DEF UseMatches
<1>6. ASSUME NEW f, NEW d, NEW i, SlotInv(f, d, i) PROVE SlotInv(f, d, i)'
  <2>1. CASE Pending(f, d, i)
    <3>1. Bound(d, i) \subseteq UseMatches(f, program.uses[d][i])'
      <4>1. CASE phase = "transforming"
        BY <1>6, <2>1, <4>1 DEF SlotInv
      <4>2. CASE transformed_files' = transformed_files
        <5>1. Bound(d, i) \subseteq UseMatches(f, program.uses[d][i])
          BY <1>6, <2>1 DEF SlotInv
        <5> QED
          BY <1>5, <4>2, <5>1
      <4> QED
        BY <4>1, <4>2
    <3>2. phase' = "transforming" => Bound(d, i) = {}
      BY <1>6, <2>1 DEF SlotInv
    <3> QED
      BY <1>1, <1>2, <2>1, <3>1, <3>2 DEF SlotInv
  <2>2. CASE ~Pending(f, d, i)
    BY <1>1, <1>2, <1>3, <1>6, <2>2 DEF SlotInv
  <2> QED
    BY <2>1, <2>2
<1> QED
  BY <1>4, <1>6 DEF UseInv

LEMMA ResolveDeploymentUses ==
    ASSUME Core, UseInv, NEW d \in Deployments, ResolveDeployment(d)
    PROVE  UseInv'
<1>1. /\ phase = "transforming" /\ todo # <<>> /\ d = Head(todo)
      /\ specification[d] = Unresolved /\ CanResolve(d)
      /\ use_definitions' = use_definitions \cup Found(d)
      /\ pending_uses' = pending_uses \o Missing(d)
      /\ specification' = [specification EXCEPT ![d] = Specification(Owner, program.specification[d])]
      /\ program' = program /\ phase' = phase /\ transformed_files' = transformed_files
  BY DEF ResolveDeployment, IsNextDeployment
<1>2. specification'[d] # Unresolved
  BY ResolveDeploymentCore, DeploymentAssumption DEF Settled, DeploymentAssumption
<1>3. \A c \in Deployments : c # d => specification'[c] = specification[c]
  BY <1>1 DEF Core, TypeOK
<1>4. /\ Owner \in Files /\ d \in ToSet(program.deployments[Owner]) /\ TypeOK
  BY <1>1, CurrentDeployment, CurrentFile DEF Core, Own
<1>5. /\ Found(d) \subseteq Deployments \X Nat \X Deployments
      /\ \A c, i, x : <<c, i, x>> \in Found(d)
            <=> c = d /\ i \in UseSlots(d) /\ x \in UseMatches(Owner, program.uses[d][i])
      /\ \A u \in Found(d) : u[1] = d
  BY <1>4, FoundIs
<1>6. /\ ToSet(pending_uses') = ToSet(pending_uses) \cup ToSet(Missing(d))
      /\ ToSet(Missing(d)) = {[deployment |-> d, index |-> i, owner |-> Owner] : i \in Left(d)}
      /\ ToSet(pending_uses) \subseteq UseRecord
  <2>1. pending_uses \in Seq(UseRecord)
    BY <1>4 DEF TypeOK, UseRecord
  <2>2. Missing(d) \in Seq(UseRecord)
    BY <1>4, MissingIs
  <2>3. ToSet(pending_uses \o Missing(d)) = ToSet(pending_uses) \cup ToSet(Missing(d))
    BY <2>1, <2>2, ToSetConcat
  <2> QED
    BY <1>1, <1>4, <2>1, <2>3, MissingIs, ToSetOfList
<1>7. /\ \A c : UseSlots(c)' = UseSlots(c)
      /\ \A f, c, i, e : IsMeant(f, c, i, e)' <=> IsMeant(f, c, i, e)
      /\ \A f, use : UseMatches(f, use)' = UseMatches(f, use)
  <2>1. \A f : Scope(f)' = Scope(f)
    BY <1>1 DEF Scope
  <2> QED
    BY <1>1, <2>1 DEF UseSlots, IsMeant, UseMatches
<1>8. ASSUME NEW p \in ToSet(pending_uses')
      PROVE  /\ specification'[p.deployment] # Unresolved
             /\ p.deployment \in ToSet(program.deployments[p.owner])
             /\ p.index \in UseSlots(p.deployment)
  <2>1. CASE p \in ToSet(pending_uses)
    <3>1. /\ specification[p.deployment] # Unresolved
          /\ p.deployment \in ToSet(program.deployments[p.owner])
          /\ p.index \in UseSlots(p.deployment)
      BY <2>1 DEF UseInv
    <3>2. p.deployment \in Deployments
      BY <1>6, <2>1 DEF UseRecord
    <3> QED
      BY <1>1, <1>3, <3>1, <3>2
  <2>2. CASE p \in ToSet(Missing(d))
    <3>1. PICK i \in Left(d) : p = [deployment |-> d, index |-> i, owner |-> Owner]
      BY <1>6, <2>2
    <3>2. p.deployment = d /\ p.index = i /\ p.owner = Owner /\ i \in UseSlots(d)
      BY <3>1 DEF Left
    <3> QED
      BY <1>2, <1>4, <3>2
  <2> QED
    BY <1>6, <1>8, <2>1, <2>2
<1>9. ASSUME NEW u \in use_definitions' PROVE specification'[u[1]] # Unresolved
  <2>1. CASE u \in use_definitions
    <3>1. u[1] \in Deployments
      BY <1>4, <2>1 DEF TypeOK
    <3>2. specification[u[1]] # Unresolved
      BY <2>1 DEF UseInv
    <3> QED
      BY <1>1, <1>3, <3>1, <3>2
  <2>2. CASE u \in Found(d)
    BY <1>2, <1>5, <2>2
  <2> QED
    BY <1>1, <1>9, <2>1, <2>2
<1>10. ASSUME NEW f \in Files, NEW c \in ToSet(program.deployments[f]),
              specification'[c] # Unresolved, NEW i \in UseSlots(c)
       PROVE  SlotInv(f, c, i)'
  <2>1. CASE c # d
    <3>1. c \in Deployments
      BY <1>4, ProgramType, ToSetOfList
    <3>2. SlotInv(f, c, i)
      BY <1>3, <1>10, <2>1, <3>1 DEF UseInv
    <3>3. Bound(c, i)' = Bound(c, i)
      BY <1>1, <1>5, <2>1 DEF Bound
    <3>4. Pending(f, c, i)' <=> Pending(f, c, i)
      BY <1>6, <2>1 DEF Pending
    <3> QED
      BY <1>1, <1>7, <3>2, <3>3, <3>4 DEF SlotInv
  <2>2. CASE c = d
    <3> DEFINE M == UseMatches(Owner, program.uses[d][i])
    <3>1. f = Owner
      BY <1>4, <2>2, OnePlace
    <3>2. Bound(d, i)' = M
      <4>1. \A x \in Deployments : <<d, i, x>> \notin use_definitions
        <5>1. \A x : <<d, i, x>>[1] = d
          OBVIOUS
        <5> QED
          BY <1>1, <5>1 DEF UseInv
      <4>2. M \subseteq Deployments
        BY <1>4, MatchesType
      <4>3. \A x \in Deployments : <<d, i, x>> \in use_definitions' <=> x \in M
        BY <1>1, <1>5, <1>10, <2>2, <4>1
      <4> HIDE DEF M
      <4> QED
        BY <4>2, <4>3 DEF Bound
    <3>3. Pending(f, d, i)' <=> M = {}
      <4>1. [deployment |-> d, index |-> i, owner |-> Owner] \notin ToSet(pending_uses)
        <5>1. \A p \in ToSet(pending_uses) : p.deployment # d
          BY <1>1 DEF UseInv
        <5> QED
          BY <5>1
      <4>2. Pending(f, d, i)' <=> [deployment |-> d, index |-> i, owner |-> f] \in ToSet(pending_uses')
        BY DEF Pending
      <4>3. Pending(f, d, i)' <=> i \in Left(d)
        BY <1>6, <3>1, <4>1, <4>2
      <4> QED
        BY <1>10, <2>2, <4>3 DEF Left
    <3>4. CASE M = {}
      BY <1>7, <2>2, <3>1, <3>2, <3>3, <3>4 DEF SlotInv
    <3>5. CASE M # {}
      <4>1. Cardinality(M) <= 1 /\ M \in SUBSET Deployments
        BY <1>1, <1>4, <1>10, <2>2, MatchesType DEF CanResolve
      <4>2. PICK e \in Deployments : M = {e}
        <5> HIDE DEF M
        <5> QED
          BY <3>5, <4>1, OneMatch
      <4>3. IsMeant(Owner, d, i, e)
        BY <1>4, <1>10, <2>2, <4>2, MatchesAreMeant
      <4> HIDE DEF M
      <4> QED
        BY <1>7, <2>2, <3>1, <3>2, <3>3, <3>5, <4>2, <4>3 DEF SlotInv
    <3> QED
      BY <3>4, <3>5
  <2> QED
    BY <2>1, <2>2
<1> QED
  BY <1>1, <1>7, <1>8, <1>9, <1>10 DEF UseInv

LEMMA ResolvePendingUseUses ==
    ASSUME Core, UseInv, ResolvePendingUse
    PROVE  UseInv'
<1> DEFINE p == Head(pending_uses)
           M == PendingMatches
<1>1. /\ phase = "resolving" /\ pending_uses # <<>> /\ phase' = phase
      /\ Cardinality(M) = 1
      /\ use_definitions' = use_definitions \cup ({p.deployment} \X {p.index} \X M)
      /\ pending_uses' = Tail(pending_uses)
      /\ program' = program /\ specification' = specification
      /\ transformed_files' = transformed_files
  BY DEF ResolvePendingUse, progress, bases
<1>2. TypeOK
  BY DEF Core
<1>3. /\ p \in UseRecord /\ p \in ToSet(pending_uses) /\ M \in SUBSET Deployments
      /\ pending_uses \in Seq(UseRecord)
  BY <1>1, <1>2, PendingUse
<1>4. /\ specification[p.deployment] # Unresolved
      /\ p.deployment \in ToSet(program.deployments[p.owner])
      /\ p.index \in UseSlots(p.deployment)
      /\ p.deployment \in Deployments /\ p.owner \in Files /\ p.index \in Nat
  BY <1>3 DEF UseInv, UseRecord
<1>5. M = UseMatches(p.owner, program.uses[p.deployment][p.index])
  BY DEF PendingMatches
<1>6. PICK e \in Deployments : M = {e}
  <2>1. M # {} /\ Cardinality(M) <= 1
    <3>1. IsFiniteSet(M)
      BY <1>3, Cardinals, FS_Subset
    <3>2. Cardinality(M) = 1
      BY <1>1
    <3> HIDE DEF M
    <3>3. M # {}
      BY <3>1, <3>2, FS_EmptySet
    <3> QED
      BY <3>2, <3>3
  <2> HIDE DEF M
  <2> QED
    BY <1>3, <2>1, OneMatch
<1>7. IsMeant(p.owner, p.deployment, p.index, e)
  BY <1>2, <1>4, <1>5, <1>6, MatchesAreMeant
<1>8. /\ ToSet(pending_uses') \subseteq ToSet(pending_uses)
      /\ \A x \in ToSet(pending_uses) : x # p => x \in ToSet(pending_uses')
  BY <1>1, <1>3, ToSetTail
<1>9. \A c, i, x : <<c, i, x>> \in use_definitions'
         <=> <<c, i, x>> \in use_definitions \/ (c = p.deployment /\ i = p.index /\ x \in M)
  BY <1>1
<1>10. /\ \A c : UseSlots(c)' = UseSlots(c)
       /\ \A f, c, i, x : IsMeant(f, c, i, x)' <=> IsMeant(f, c, i, x)
       /\ \A f, use : UseMatches(f, use)' = UseMatches(f, use)
  <2>1. \A f : Scope(f)' = Scope(f)
    BY <1>1 DEF Scope
  <2> QED
    BY <1>1, <2>1 DEF UseSlots, IsMeant, UseMatches
<1>11. \A u \in use_definitions' : specification[u[1]] # Unresolved
  <2> TAKE u \in use_definitions'
  <2>1. CASE u \in use_definitions
    BY <2>1 DEF UseInv
  <2>2. CASE u \in {p.deployment} \X {p.index} \X M
    BY <1>4, <2>2
  <2> HIDE DEF p, M
  <2> QED
    BY <1>1, <2>1, <2>2
<1>12. ASSUME NEW f \in Files, NEW c \in ToSet(program.deployments[f]),
              specification[c] # Unresolved, NEW i \in UseSlots(c)
       PROVE  SlotInv(f, c, i)'
  <2>1. SlotInv(f, c, i)
    BY <1>12 DEF UseInv
  <2>2. CASE c = p.deployment /\ i = p.index
    <3>1. f = p.owner
      BY <1>2, <1>4, <2>2, OnePlace
    <3>2. UseMatches(f, program.uses[c][i]) = M
      BY <1>5, <2>2, <3>1
    <3>3. Pending(f, c, i)
      <4>1. p = [deployment |-> c, index |-> i, owner |-> f]
        BY <1>3, <2>2, <3>1 DEF UseRecord
      <4> QED
        BY <1>3, <4>1 DEF Pending
    <3> HIDE DEF p, M
    <3>4. Bound(c, i) \subseteq M
      BY <2>1, <3>2, <3>3 DEF SlotInv
    <3>5. Bound(c, i)' = M
      BY <1>3, <1>9, <2>2, <3>4 DEF Bound
    <3>6. IsMeant(f, c, i, e)
      BY <1>7, <2>2, <3>1
    <3> QED
      BY <1>1, <1>6, <1>10, <3>2, <3>5, <3>6 DEF SlotInv
  <2>3. CASE ~(c = p.deployment /\ i = p.index)
    <3>1. Pending(f, c, i)' <=> Pending(f, c, i)
      <4>1. [deployment |-> c, index |-> i, owner |-> f] # p
        BY <2>3
      <4> HIDE DEF p
      <4> QED
        BY <1>8, <4>1 DEF Pending
    <3> HIDE DEF p, M
    <3>2. Bound(c, i)' = Bound(c, i)
      BY <1>9, <2>3 DEF Bound
    <3> QED
      BY <1>1, <1>10, <2>1, <3>1, <3>2 DEF SlotInv
  <2> QED
    BY <2>2, <2>3
<1> HIDE DEF p, M
<1> QED
  BY <1>1, <1>8, <1>10, <1>11, <1>12 DEF UseInv

LEMMA UseInit == Init => UseInv
<1> SUFFICES ASSUME Init PROVE UseInv
  OBVIOUS
<1>1. /\ phase = "transforming" /\ use_definitions = {} /\ pending_uses = <<>>
      /\ specification = [d \in Deployments |-> Unresolved]
  BY DEF Init
<1>2. ToSet(pending_uses) = {}
  BY <1>1, NoFile
<1>3. \A f \in Files : \A d \in ToSet(program.deployments[f]) : specification[d] = Unresolved
  <2> TAKE f \in Files
  <2> TAKE d \in ToSet(program.deployments[f])
  <2>1. d \in Deployments
    BY CoreInit, ProgramType, ToSetOfList DEF Core
  <2> QED
    BY <1>1, <2>1
<1> QED
  BY <1>1, <1>2, <1>3 DEF UseInv

LEMMA UseStep == ASSUME Core, UseInv, [Next]_vars PROVE UseInv'
<1>1. ASSUME NEW f \in Files, StartFile(f) PROVE UseInv'
  BY <1>1, UsesKept DEF StartFile, IsNext, uses
<1>2. ASSUME NEW d \in Deployments, ResolveDeployment(d) PROVE UseInv'
  BY <1>2, ResolveDeploymentUses
<1>3. ASSUME NEW d \in Deployments, ApplyElement(d) PROVE UseInv'
  BY <1>3, UsesKept DEF ApplyElement, Applying, bases, uses
<1>4. ASSUME NEW d \in Deployments, EndDeployment(d) PROVE UseInv'
  BY <1>4, UsesKept DEF EndDeployment, Applying, bases, uses
<1>5. CASE EndFile
  BY <1>5, UsesKept DEF EndFile, bases, uses
<1>6. CASE EndTransforming
  BY <1>6, UsesKept DEF EndTransforming, progress, bases, uses
<1>7. CASE ResolvePendingUse
  BY <1>7, ResolvePendingUseUses
<1>8. CASE EndResolving
  BY <1>8, UsesKept DEF EndResolving, progress, bases, uses
<1>9. CASE Fail
  BY <1>9, UsesKept DEF Fail, progress, bases, uses
<1>10. CASE UNCHANGED vars
  <2>1. phase = "done" => pending_uses = <<>>
    BY DEF UseInv
  <2> QED
    BY <1>10, <2>1, UsesKept DEF vars, progress, bases, uses
<1> QED
  BY Steps, <1>1, <1>2, <1>3, <1>4, <1>5, <1>6, <1>7, <1>8, <1>9, <1>10

(* When all files are transformed, every deployment is resolved.           *)
LEMMA AllResolved ==
    ASSUME Core, phase \in {"resolving", "done"}
    PROVE  /\ file = <<>> /\ Count = Len(program.order) /\ transformed_files = program.order
           /\ \A f \in ToSet(program.order) : \A d \in ToSet(program.deployments[f]) :
                 specification[d] # Unresolved
<1>1. file = <<>> /\ Count = Len(program.order) /\ transformed_files = SubSeq(program.order, 1, Count)
  BY DEF Core, FileInv
<1>2. transformed_files = program.order
  BY <1>1, ProgramType, WholePart DEF Core
<1>3. \A f \in ToSet(program.order) : \A d \in ToSet(program.deployments[f]) :
         specification[d] # Unresolved
  <2> TAKE f \in ToSet(program.order)
  <2> TAKE d \in ToSet(program.deployments[f])
  <2>1. f \in ToSet(transformed_files) /\ f \in Entered
    BY <1>2 DEF Entered
  <2>2. PICK j \in DOMAIN program.deployments[f] : d = program.deployments[f][j]
    BY DEF ToSet
  <2> QED
    BY <2>1, <2>2 DEF Core, DeployInv
<1> QED
  BY <1>1, <1>2, <1>3

(* Each use is bound to one deployment that it means and that is in scope, *)
(* whether it was bound at once or left for later behind a cycle of        *)
(* imports.                                                                *)
THEOREM UsesAreInScope == Spec => []UsesInScope
<1>1. Init => Core /\ UseInv
  BY CoreInit, UseInit
<1>2. Core /\ UseInv /\ [Next]_vars => Core' /\ UseInv'
  BY CoreStep, UseStep
<1>3. Core /\ UseInv => UsesInScope
  <2> SUFFICES ASSUME Core, UseInv, phase = "done",
                      NEW f \in ToSet(program.order), NEW d \in ToSet(program.deployments[f]),
                      NEW i \in UseSlots(d)
               PROVE  \E e \in Deployments : Bound(d, i) = {e} /\ IsMeant(f, d, i, e)
    BY DEF UsesInScope, Bound, IsMeant
  <2>1. specification[d] # Unresolved
    BY AllResolved
  <2>2. f \in Files
    BY ProgramType, ToSetOfList DEF Core
  <2>3. SlotInv(f, d, i)
    BY <2>1, <2>2 DEF UseInv
  <2>4. ~Pending(f, d, i)
    BY NoFile DEF UseInv, Pending
  <2> QED
    BY <2>3, <2>4 DEF SlotInv
<1> QED
  BY <1>1, <1>2, <1>3, PTL DEF Spec

-----------------------------------------------------------------------------
(* What one more element makes of a property.                              *)

LegalDeclarations ==
    {declared \in UNION {[names -> Declaration] : names \in SUBSET Properties} :
        \A p \in DOMAIN declared : IsLegal(declared[p])}
ElementRecord == [type : Types, parameters : Seq(Parameter), declared : LegalDeclarations]

IsAbout(x, t, p) == x.type = t /\ p \in DOMAIN x.declared
About(all, t, p) == {i \in DOMAIN all : IsAbout(all[i], t, p)}
Setters(all, t, p) == {i \in About(all, t, p) : Assigned(all[i].declared, all[i], p) # {}}
Defaulters(all, t, p) == {i \in About(all, t, p) : Defaults(all[i].declared[p]) # {}}
SetValue(x, p) == AssignedValue(x.declared, x, p)
DefaultValue(x, p) == Normalized(Default(x.declared[p]), x.declared[p])

LEMMA ExpectedIs ==
    ASSUME NEW all, NEW t, NEW p
    PROVE  Expected(all, t, p) =
              IF Setters(all, t, p) # {} THEN SetValue(all[Max(Setters(all, t, p))], p)
              ELSE IF Defaulters(all, t, p) # {} THEN DefaultValue(all[Min(Defaulters(all, t, p))], p)
              ELSE Unset
BY DEF Expected, Setters, Defaulters, About, IsAbout, SetValue, DefaultValue

LEMMA MaxOfMore ==
    ASSUME NEW n \in Nat, NEW S, S \subseteq 1..n
    PROVE  Max(S \cup {n + 1}) = n + 1
<1>1. S \cup {n + 1} \subseteq 1..(n + 1) /\ S \cup {n + 1} # {} /\ n + 1 \in Nat
  OBVIOUS
<1> DEFINE T == S \cup {n + 1}
<1>2. T \subseteq 1..(n + 1) /\ T # {} /\ n + 1 \in T /\ \A x \in T : x <= n + 1 /\ x \in Nat
  OBVIOUS
<1> HIDE DEF T
<1>3. Max(T) \in T /\ \A x \in T : x <= Max(T)
  BY <1>1, <1>2, GreatestNumber
<1>4. Max(T) = n + 1
  <2>1. Max(T) \in Nat /\ Max(T) <= n + 1 /\ n + 1 <= Max(T)
    BY <1>2, <1>3
  <2>2. \A a \in Nat : a <= n + 1 /\ n + 1 <= a => a = n + 1
    OBVIOUS
  <2> QED
    BY <2>1, <2>2
<1> QED
  BY <1>4 DEF T

LEMMA MinOfMore ==
    ASSUME NEW n \in Nat, NEW S, S \subseteq 1..n
    PROVE  Min(S \cup {n + 1}) = IF S = {} THEN n + 1 ELSE Min(S)
<1> DEFINE T == S \cup {n + 1}
<1>1. T \subseteq Nat /\ T # {} /\ S \subseteq Nat /\ S \subseteq T /\ n + 1 \in T
      /\ \A x \in S : x < n + 1
  OBVIOUS
<1>2. \A x \in T : x \in S \/ x = n + 1
  OBVIOUS
<1> HIDE DEF T
<1>3. Min(T) \in T /\ \A x \in T : Min(T) <= x
  BY <1>1, LeastNumber
<1>4. CASE S = {}
  BY <1>2, <1>3, <1>4 DEF T
<1>5. CASE S # {}
  <2>1. Min(S) \in S /\ \A x \in S : Min(S) <= x
    BY <1>1, <1>5, LeastNumber
  <2>2. Min(T) = Min(S)
    <3>1. Min(T) <= Min(S) /\ Min(S) < n + 1 /\ Min(S) \in Nat /\ Min(T) \in Nat
      BY <1>1, <1>3, <2>1
    <3>2. Min(T) \in S
      BY <1>2, <1>3, <3>1
    <3>3. Min(S) <= Min(T)
      BY <2>1, <3>2
    <3> QED
      BY <3>1, <3>3
  <2> QED
    BY <1>5, <2>2 DEF T
<1> QED
  BY <1>4, <1>5

LEMMA RecordType ==
    ASSUME NEW x \in ElementRecord, NEW p
    PROVE  /\ x.type \in Types /\ x.parameters \in Seq(Parameter)
           /\ p \in DOMAIN x.declared => /\ x.declared[p] \in Declaration /\ IsLegal(x.declared[p])
                                         /\ p \in Properties
           /\ Assigned(x.declared, x, p) # {} => SetValue(x, p) \in Value
           /\ p \in DOMAIN x.declared /\ Defaults(x.declared[p]) # {} => DefaultValue(x, p) \in Value
<1>1. x.type \in Types /\ x.parameters \in Seq(Parameter) /\ x.declared \in LegalDeclarations
  BY DEF ElementRecord
<1>2. p \in DOMAIN x.declared => /\ x.declared[p] \in Declaration /\ IsLegal(x.declared[p])
                                 /\ p \in Properties
  BY <1>1 DEF LegalDeclarations
<1>3. Assigned(x.declared, x, p) # {} => SetValue(x, p) \in Value
  BY <1>1, AssignedType DEF SetValue
<1>4. p \in DOMAIN x.declared /\ Defaults(x.declared[p]) # {} => DefaultValue(x, p) \in Value
  BY <1>2, DefaultType, NormalizedType DEF DefaultValue
<1> QED
  BY <1>1, <1>2, <1>3, <1>4

LEMMA Indices ==
    ASSUME NEW all \in Seq(ElementRecord), NEW t, NEW p
    PROVE  /\ Len(all) \in Nat
           /\ About(all, t, p) \subseteq 1..Len(all) /\ Setters(all, t, p) \subseteq 1..Len(all)
           /\ Defaulters(all, t, p) \subseteq 1..Len(all)
<1>1. Len(all) \in Nat /\ DOMAIN all = 1..Len(all)
  BY ListType
<1> QED
  BY <1>1 DEF About, Setters, Defaulters

LEMMA ExpectedUnset ==
    ASSUME NEW all \in Seq(ElementRecord), NEW t, NEW p
    PROVE  Expected(all, t, p) = Unset <=> Setters(all, t, p) = {} /\ Defaulters(all, t, p) = {}
<1>1. Unset \notin Value
  BY DeploymentAssumption DEF DeploymentAssumption
<1>2. CASE Setters(all, t, p) # {}
  <2> DEFINE i == Max(Setters(all, t, p))
  <2>1. i \in Setters(all, t, p) /\ i \in 1..Len(all)
    BY <1>2, Indices, GreatestNumber
  <2>2. all[i] \in ElementRecord /\ Assigned(all[i].declared, all[i], p) # {}
    BY <2>1, ListType DEF Setters
  <2>3. SetValue(all[i], p) \in Value
    BY <2>2, RecordType
  <2> QED
    BY <1>1, <1>2, <2>3, ExpectedIs
<1>3. CASE Setters(all, t, p) = {} /\ Defaulters(all, t, p) # {}
  <2> DEFINE i == Min(Defaulters(all, t, p))
  <2>1. Defaulters(all, t, p) \subseteq Nat
    BY Indices
  <2>2. i \in Defaulters(all, t, p) /\ i \in 1..Len(all)
    BY <1>3, <2>1, Indices, LeastNumber
  <2>3. all[i] \in ElementRecord /\ p \in DOMAIN all[i].declared /\ Defaults(all[i].declared[p]) # {}
    BY <2>2, ListType DEF Defaulters, About, IsAbout
  <2>4. DefaultValue(all[i], p) \in Value
    BY <2>3, RecordType
  <2> QED
    BY <1>1, <1>3, <2>4, ExpectedIs
<1>4. CASE Setters(all, t, p) = {} /\ Defaulters(all, t, p) = {}
  BY <1>4, ExpectedIs
<1> QED
  BY <1>2, <1>3, <1>4

(* What there is in a list to which the element x is appended.             *)
Extends(more, all, x, t, p) ==
    LET n == Len(all) + 1
    IN  /\ more[n] = x /\ \A i \in 1..Len(all) : more[i] = all[i]
        /\ \A i : i \in About(more, t, p) <=> i \in About(all, t, p) \/ (i = n /\ IsAbout(x, t, p))
        /\ \A i : i \in Setters(more, t, p) <=>
              \/ i \in Setters(all, t, p)
              \/ i = n /\ IsAbout(x, t, p) /\ Assigned(x.declared, x, p) # {}
        /\ \A i : i \in Defaulters(more, t, p) <=>
              \/ i \in Defaulters(all, t, p)
              \/ i = n /\ IsAbout(x, t, p) /\ Defaults(x.declared[p]) # {}

LEMMA IndicesOfMore ==
    ASSUME NEW all \in Seq(ElementRecord), NEW x \in ElementRecord, NEW t, NEW p
    PROVE  Extends(Append(all, x), all, x, t, p)
<1> DEFINE more == Append(all, x)
           n == Len(all) + 1
<1>1. /\ Len(all) \in Nat /\ DOMAIN all = 1..Len(all) /\ DOMAIN more = 1..n /\ more[n] = x
      /\ \A i \in 1..Len(all) : more[i] = all[i]
  OBVIOUS
<1>2. /\ \A i : i \in DOMAIN more <=> i \in DOMAIN all \/ i = n
      /\ n \notin DOMAIN all
  BY <1>1
<1> HIDE DEF more, n
<1>3. ASSUME NEW i
      PROVE  i \in About(more, t, p) <=> i \in About(all, t, p) \/ (i = n /\ IsAbout(x, t, p))
  <2>1. CASE i \in DOMAIN all
    BY <1>1, <1>2, <2>1 DEF About
  <2>2. CASE i = n
    BY <1>1, <1>2, <2>2 DEF About
  <2>3. CASE i \notin DOMAIN all /\ i # n
    BY <1>2, <2>3 DEF About
  <2> QED
    BY <2>1, <2>2, <2>3
<1>4. \A i \in About(all, t, p) : more[i] = all[i] /\ i # n
  BY <1>1, <1>2 DEF About
<1>5. ASSUME NEW i
      PROVE  i \in Setters(more, t, p) <=>
                \/ i \in Setters(all, t, p)
                \/ i = n /\ IsAbout(x, t, p) /\ Assigned(x.declared, x, p) # {}
  <2>1. CASE i \in About(all, t, p)
    BY <1>3, <1>4, <2>1 DEF Setters
  <2>2. CASE i \notin About(all, t, p)
    BY <1>1, <1>3, <2>2 DEF Setters
  <2> QED
    BY <2>1, <2>2
<1>6. ASSUME NEW i
      PROVE  i \in Defaulters(more, t, p) <=>
                \/ i \in Defaulters(all, t, p)
                \/ i = n /\ IsAbout(x, t, p) /\ Defaults(x.declared[p]) # {}
  <2>1. CASE i \in About(all, t, p)
    BY <1>3, <1>4, <2>1 DEF Defaulters
  <2>2. CASE i \notin About(all, t, p)
    BY <1>1, <1>3, <2>2 DEF Defaulters
  <2> QED
    BY <2>1, <2>2
<1> QED
  BY <1>1, <1>3, <1>5, <1>6 DEF more, n, Extends

(* The value that the property has then, if it had the value old before.   *)
Updated(old, x, t, p) ==
    IF ~IsAbout(x, t, p) THEN old
    ELSE IF Assigned(x.declared, x, p) # {} THEN SetValue(x, p)
    ELSE IF old = Unset /\ Defaults(x.declared[p]) # {} THEN DefaultValue(x, p)
    ELSE old

IsUpdated(more, all, x, t, p) == Expected(more, t, p) = Updated(Expected(all, t, p), x, t, p)

LEMMA ExpectedAppend ==
    ASSUME NEW all \in Seq(ElementRecord), NEW x \in ElementRecord, NEW t, NEW p
    PROVE  IsUpdated(Append(all, x), all, x, t, p)
<1> SUFFICES Expected(Append(all, x), t, p) =
              IF ~IsAbout(x, t, p) THEN Expected(all, t, p)
              ELSE IF Assigned(x.declared, x, p) # {} THEN SetValue(x, p)
              ELSE IF Expected(all, t, p) = Unset /\ Defaults(x.declared[p]) # {} THEN DefaultValue(x, p)
              ELSE Expected(all, t, p)
  BY DEF IsUpdated, Updated
<1> DEFINE new == Append(all, x)
           n == Len(all) + 1
           S == Setters(all, t, p)
           D == Defaulters(all, t, p)
<1>1. /\ new[n] = x /\ \A i \in 1..Len(all) : new[i] = all[i]
      /\ \A i : i \in Setters(new, t, p) <=>
            i \in S \/ (i = n /\ IsAbout(x, t, p) /\ Assigned(x.declared, x, p) # {})
      /\ \A i : i \in Defaulters(new, t, p) <=>
            i \in D \/ (i = n /\ IsAbout(x, t, p) /\ Defaults(x.declared[p]) # {})
  <2>1. Extends(new, all, x, t, p)
    BY IndicesOfMore
  <2> HIDE DEF new
  <2> QED
    BY <2>1 DEF Extends
<1>2. /\ S \subseteq 1..Len(all) /\ D \subseteq 1..Len(all) /\ Len(all) \in Nat
      /\ D \subseteq Nat
  BY Indices
<1>3. Expected(new, t, p) =
         IF Setters(new, t, p) # {} THEN SetValue(new[Max(Setters(new, t, p))], p)
         ELSE IF Defaulters(new, t, p) # {} THEN DefaultValue(new[Min(Defaulters(new, t, p))], p)
         ELSE Unset
  BY ExpectedIs
<1>4. Expected(all, t, p) = IF S # {} THEN SetValue(all[Max(S)], p)
                            ELSE IF D # {} THEN DefaultValue(all[Min(D)], p) ELSE Unset
  BY ExpectedIs
<1>5. /\ S # {} => new[Max(S)] = all[Max(S)]
      /\ D # {} => new[Min(D)] = all[Min(D)]
  <2>1. S # {} => Max(S) \in 1..Len(all)
    BY <1>2, GreatestNumber
  <2>2. D # {} => Min(D) \in 1..Len(all)
    BY <1>2, LeastNumber
  <2> HIDE DEF new, S, D
  <2> QED
    BY <1>1, <2>1, <2>2
<1>6. Expected(all, t, p) = Unset <=> S = {} /\ D = {}
  BY ExpectedUnset
<1>7. Max(S \cup {n}) = n /\ Min(D \cup {n}) = IF D = {} THEN n ELSE Min(D)
  <2> HIDE DEF S, D
  <2> QED
    BY <1>2, MaxOfMore, MinOfMore
<1> HIDE DEF new, n, S, D
<1>8. CASE ~IsAbout(x, t, p)
  <2>1. Setters(new, t, p) = S /\ Defaulters(new, t, p) = D
    BY <1>1, <1>8
  <2> QED
    BY <1>3, <1>4, <1>5, <1>8, <2>1 DEF new
<1>9. CASE IsAbout(x, t, p) /\ Assigned(x.declared, x, p) # {}
  <2>1. Setters(new, t, p) = S \cup {n} /\ S \cup {n} # {}
    BY <1>1, <1>9
  <2> QED
    BY <1>1, <1>3, <1>7, <1>9, <2>1 DEF new
<1>10. CASE IsAbout(x, t, p) /\ Assigned(x.declared, x, p) = {}
  <2>1. Setters(new, t, p) = S
    BY <1>1, <1>10
  <2>2. CASE Defaults(x.declared[p]) # {}
    <3>1. Defaulters(new, t, p) = D \cup {n} /\ D \cup {n} # {}
      BY <1>1, <1>10, <2>2
    <3>2. CASE S # {}
      BY <1>3, <1>4, <1>5, <1>6, <1>10, <2>1, <3>2 DEF new
    <3>3. CASE S = {} /\ D # {}
      BY <1>3, <1>4, <1>5, <1>6, <1>7, <1>10, <2>1, <3>1, <3>3 DEF new
    <3>4. CASE S = {} /\ D = {}
      BY <1>1, <1>3, <1>6, <1>7, <1>10, <2>1, <2>2, <3>1, <3>4 DEF new
    <3> QED
      BY <3>2, <3>3, <3>4
  <2>3. CASE Defaults(x.declared[p]) = {}
    <3>1. Defaulters(new, t, p) = D
      BY <1>1, <1>10, <2>3
    <3> QED
      BY <1>3, <1>4, <1>5, <1>10, <2>1, <2>3, <3>1 DEF new
  <2> QED
    BY <2>2, <2>3
<1> QED
  BY <1>8, <1>9, <1>10

(* What a set value or a default looks like once it is stored.             *)
LEMMA StoredFits ==
    ASSUME NEW value \in Value, NEW d \in Declaration, IsEnumerated(value, d),
           value.is_list => d.is_array,
           \A x \in ToSet(value.items) :
              x.kind \in Kinds[d.type] \/ (d.type = "Integer" /\ x.kind = "boolean")
    PROVE  Fits(Normalized(value, d), d)
<1>1. value.items \in Seq(Scalar)
  BY DEF Value
<1>2. CASE d.type # "Enum"
  BY <1>2 DEF Normalized, Fits
<1>3. CASE d.type = "Enum"
  <2> DEFINE items == [i \in DOMAIN value.items |-> [value.items[i] EXCEPT !.kind = "string"]]
             stored == [value EXCEPT !.items = items]
  <2>1. Normalized(value, d) = stored
    BY <1>3 DEF Normalized
  <2>2. stored.items = items /\ stored.is_list = value.is_list
    BY DEF Value
  <2>3. \A x \in ToSet(items) : x.kind = "string" /\ x.text \in d.enumerators
    <3> TAKE x \in ToSet(items)
    <3>1. PICK i \in DOMAIN value.items : x = [value.items[i] EXCEPT !.kind = "string"]
      BY DEF ToSet
    <3>2. value.items[i] \in Scalar /\ value.items[i] \in ToSet(value.items)
      BY <1>1 DEF ToSet
    <3>3. x.kind = "string" /\ x.text = value.items[i].text
      BY <3>1, <3>2 DEF Scalar
    <3> QED
      BY <1>3, <3>2, <3>3 DEF IsEnumerated
  <2> HIDE DEF items, stored
  <2> QED
    BY <1>3, <2>1, <2>2, <2>3 DEF Fits
<1> QED
  BY <1>2, <1>3

LEMMA SetValueFits ==
    ASSUME NEW x \in ElementRecord, NEW p, Assigned(x.declared, x, p) # {},
           IsAcceptable(x.declared, x)
    PROVE  p \in DOMAIN x.declared /\ Fits(SetValue(x, p), x.declared[p])
<1> DEFINE i == Max(Assigned(x.declared, x, p))
           value == x.parameters[i].value
<1>1. x.parameters \in Seq(Parameter)
  BY RecordType
<1>2. /\ i \in Assigned(x.declared, x, p) /\ i \in 1..Len(x.parameters)
      /\ value \in Value /\ p \in DOMAIN x.declared
  BY <1>1, AssignedType
<1>3. x.parameters[i].name = p /\ x.parameters[i] \in ToSet(x.parameters)
  BY <1>1, <1>2, ToSetOfList DEF Assigned
<1>4. IsValid(value, x.declared[p])
  BY <1>2, <1>3 DEF IsAcceptable
<1>5. x.declared[p] \in Declaration
  BY <1>2, RecordType
<1> HIDE DEF value
<1>6. Fits(Normalized(value, x.declared[p]), x.declared[p])
  BY <1>2, <1>4, <1>5, StoredFits DEF IsValid
<1> QED
  BY <1>2, <1>6 DEF SetValue, AssignedValue, value

LEMMA DefaultValueFits ==
    ASSUME NEW x \in ElementRecord, NEW p \in DOMAIN x.declared, Defaults(x.declared[p]) # {}
    PROVE  Fits(DefaultValue(x, p), x.declared[p])
<1> DEFINE d == x.declared[p]
<1>1. d \in Declaration /\ IsLegal(d)
  BY RecordType
<1>2. Default(d) \in Value
  BY <1>1, DefaultType
<1>3. IsCompatible(Default(d), d) /\ IsEnumerated(Default(d), d)
  BY <1>1 DEF IsLegal
<1>4. Fits(Normalized(Default(d), d), d)
  BY <1>1, <1>2, <1>3, StoredFits DEF IsCompatible
<1> QED
  BY <1>4 DEF DefaultValue

-----------------------------------------------------------------------------
(* The elements that are applied so far.                                   *)

ResolvedPairs ==
    {pair \in Files \X Deployments :
        pair[2] \in ToSet(program.deployments[pair[1]]) /\ specification[pair[2]] # Unresolved}

LEMMA RecordOf ==
    ASSUME Core, NEW f \in Files, NEW d \in ToSet(program.deployments[f]),
           specification[d] # Unresolved, NEW e \in ToSet(program.elements[d])
    PROVE  Record(f, d, e) \in ElementRecord
<1>1. TypeOK /\ SpecInv /\ d \in Deployments
  BY ProgramType, ToSetOfList DEF Core
<1>2. specification[d] \in Settled /\ DeployedType(f, d, e) \in Types
  BY DEF Core, DeployInv, IsSettled
<1>3. e.parameters \in Seq(Parameter)
  <2>1. program.elements[d] \in Seq(Element)
    BY <1>1, ProgramType
  <2>2. e \in Element
    BY <2>1, ToSetOfList
  <2> QED
    BY <2>2 DEF Element, Parameter
<1>4. Declarations(specification[d], e.hosts) \in LegalDeclarations
  <2> DEFINE declared == Declarations(specification[d], e.hosts)
  <2>1. /\ declared \in [DOMAIN declared -> Declaration] /\ DOMAIN declared \subseteq Properties
        /\ \A p \in DOMAIN declared : IsLegal(declared[p])
    BY <1>1, <1>2, DeclarationsType
  <2> HIDE DEF declared
  <2>2. declared \in LegalDeclarations
    BY <2>1 DEF LegalDeclarations
  <2> QED
    BY <2>2 DEF declared
<1> QED
  BY <1>2, <1>3, <1>4 DEF Record, ElementRecord

LEMMA RecordsType ==
    ASSUME Core, NEW pair \in ResolvedPairs
    PROVE  /\ Records(pair) \in Seq(ElementRecord)
           /\ Len(Records(pair)) = Len(program.elements[pair[2]])
           /\ \A k \in 1..Len(program.elements[pair[2]]) :
                 Records(pair)[k] = Record(pair[1], pair[2], program.elements[pair[2]][k])
<1> DEFINE all == program.elements[pair[2]]
<1>1. /\ pair[1] \in Files /\ pair[2] \in Deployments
      /\ pair[2] \in ToSet(program.deployments[pair[1]]) /\ specification[pair[2]] # Unresolved
  BY DEF ResolvedPairs
<1>2. all \in Seq(Element)
  BY <1>1, ProgramType DEF Core
<1>3. Len(all) \in Nat /\ DOMAIN all = 1..Len(all) /\ \A k \in 1..Len(all) : all[k] \in ToSet(all)
  BY <1>2, ToSetOfList
<1>4. \A k \in 1..Len(all) : Record(pair[1], pair[2], all[k]) \in ElementRecord
  BY <1>1, <1>3, RecordOf
<1>5. Records(pair) = [k \in DOMAIN all |-> Record(pair[1], pair[2], all[k])]
  BY DEF Records
<1> HIDE DEF all
<1>6. Records(pair) \in [1..Len(all) -> ElementRecord]
  BY <1>3, <1>4, <1>5
<1>7. Records(pair) \in Seq(ElementRecord) /\ Len(Records(pair)) = Len(all)
  BY <1>3, <1>6, ListByPosition
<1> QED
  BY <1>3, <1>5, <1>7 DEF all

LEMMA PairsType ==
    ASSUME TypeOK, NEW f \in Files
    PROVE  /\ Pairs(f) \in Seq(Files \X Deployments)
           /\ Len(Pairs(f)) = Len(program.deployments[f])
           /\ \A k \in 1..Len(program.deployments[f]) : Pairs(f)[k] = <<f, program.deployments[f][k]>>
<1> DEFINE own == program.deployments[f]
<1>1. own \in Seq(Deployments)
  BY ProgramType
<1>2. Len(own) \in Nat /\ DOMAIN own = 1..Len(own) /\ \A k \in 1..Len(own) : own[k] \in Deployments
  BY <1>1, ListType
<1>3. Pairs(f) = [k \in DOMAIN own |-> <<f, own[k]>>]
  BY DEF Pairs
<1> HIDE DEF own
<1>4. Pairs(f) \in [1..Len(own) -> Files \X Deployments]
  BY <1>2, <1>3
<1>5. Pairs(f) \in Seq(Files \X Deployments) /\ Len(Pairs(f)) = Len(own)
  BY <1>2, <1>4, ListByPosition
<1> QED
  BY <1>2, <1>3, <1>5 DEF own

(* The first n deployments of a file are resolved if they have had a turn. *)
LEMMA FirstPairs ==
    ASSUME Core, NEW f \in Files, NEW n \in 0..Len(program.deployments[f]),
           \A k \in 1..n : specification[program.deployments[f][k]] # Unresolved
    PROVE  SubSeq(Pairs(f), 1, n) \in Seq(ResolvedPairs)
<1> DEFINE own == program.deployments[f]
           t == SubSeq(Pairs(f), 1, n)
<1>1. own \in Seq(Deployments)
  BY ProgramType DEF Core
<1>2. /\ Pairs(f) \in Seq(Files \X Deployments) /\ Len(Pairs(f)) = Len(own)
      /\ \A k \in 1..Len(own) : Pairs(f)[k] = <<f, own[k]>>
  BY PairsType DEF Core
<1>3. n \in Nat /\ n <= Len(own) /\ Len(own) \in Nat
  BY <1>1
<1>4. /\ t \in Seq(Files \X Deployments) /\ Len(t) = n
      /\ \A k \in 1..n : t[k] = Pairs(f)[k]
  BY <1>2, <1>3, FirstPart
<1>5. \A k \in 1..n : own[k] \in ToSet(own) /\ own[k] \in Deployments /\ k \in 1..Len(own)
  BY <1>1, <1>3, ToSetOfList, ListType
<1> HIDE DEF t
<1>6. \A k \in 1..n : t[k] \in ResolvedPairs
  <2> TAKE k \in 1..n
  <2>1. t[k] = <<f, own[k]>>
    BY <1>2, <1>4, <1>5
  <2>2. t[k] \in Files \X Deployments /\ t[k][1] = f /\ t[k][2] = own[k]
    BY <1>5, <2>1
  <2> QED
    BY <1>5, <2>2 DEF ResolvedPairs
<1>7. t \in [1..n -> ResolvedPairs]
  BY <1>4, <1>6
<1>8. t \in Seq(ResolvedPairs)
  BY <1>3, <1>7, ListByPosition
<1> QED
  BY <1>8 DEF t

LEMMA DoneFilesType ==
    ASSUME Core
    PROVE  /\ [i \in 1..Count |-> Pairs(program.order[i])] \in Seq(Seq(ResolvedPairs))
           /\ DoneFiles \in Seq(ResolvedPairs)
<1> DEFINE lists == [i \in 1..Count |-> Pairs(program.order[i])]
<1>1. /\ transformed_files \in Seq(Files) /\ transformed_files = SubSeq(program.order, 1, Count)
      /\ program.order \in Seq(Files) /\ Count <= Len(program.order) /\ Count \in Nat
  <2>1. transformed_files \in Seq(Files)
    BY DEF Core, TypeOK
  <2> QED
    BY <2>1, ProgramType DEF Core, FileInv, Count
<1>2. ASSUME NEW i \in 1..Count PROVE Pairs(program.order[i]) \in Seq(ResolvedPairs)
  <2> DEFINE f == program.order[i]
             own == program.deployments[f]
  <2>1. f = transformed_files[i]
    BY <1>1, FirstPart
  <2>2. f \in ToSet(transformed_files) /\ f \in Files /\ f \in Entered
    BY <1>1, <2>1, ToSetOfList DEF Count, Entered
  <2>3. own \in Seq(Deployments)
    BY <2>2, ProgramType DEF Core
  <2>4. Len(own) \in 0..Len(own) /\ DOMAIN own = 1..Len(own)
    BY <2>3
  <2>5. \A k \in 1..Len(own) : specification[own[k]] # Unresolved
    BY <2>2, <2>4 DEF Core, DeployInv
  <2> HIDE DEF f
  <2>6. SubSeq(Pairs(f), 1, Len(own)) \in Seq(ResolvedPairs)
    BY <2>2, <2>4, <2>5, FirstPairs
  <2>7. SubSeq(Pairs(f), 1, Len(own)) = Pairs(f)
    BY <2>2, PairsType, WholePart DEF Core
  <2> QED
    BY <2>6, <2>7 DEF f
<1>3. lists \in [1..Count -> Seq(ResolvedPairs)]
  BY <1>2
<1>4. lists \in Seq(Seq(ResolvedPairs))
  BY <1>1, <1>3, ListByPosition
<1>5. FlattenSeq(lists) \in Seq(ResolvedPairs)
  BY <1>4, FlattenType
<1> QED
  BY <1>4, <1>5 DEF DoneFiles

LEMMA DoneType ==
    ASSUME Core
    PROVE  DoneDeployments \in Seq(ResolvedPairs)
<1>1. CASE file = <<>>
  BY <1>1, DoneFilesType DEF DoneDeployments
<1>2. CASE file # <<>>
  <2>1. Owner \in Files /\ Own \in Seq(Deployments) /\ Turn \in 1..(Len(Own) + 1) /\ Owner \in Entered
    BY <1>2, CurrentFile DEF Core, Entered
  <2>2. Turn - 1 \in 0..Len(Own) /\ DOMAIN Own = 1..Len(Own) /\ Len(Own) \in Nat
    BY <2>1
  <2>3. \A k \in 1..(Turn - 1) : k \in DOMAIN Own /\ k < Turn
    BY <2>1, <2>2
  <2>4. \A k \in 1..(Turn - 1) : specification[program.deployments[Owner][k]] # Unresolved
    BY <2>1, <2>3 DEF Core, DeployInv, Own
  <2>5. SubSeq(Pairs(Owner), 1, Turn - 1) \in Seq(ResolvedPairs)
    BY <2>1, <2>2, <2>4, FirstPairs DEF Own
  <2> QED
    BY <1>2, <2>5, DoneFilesType, ConcatProperties DEF DoneDeployments
<1> QED
  BY <1>1, <1>2

LEMMA DoneElementsType ==
    ASSUME Core
    PROVE  /\ [i \in DOMAIN DoneDeployments |-> Records(DoneDeployments[i])] \in Seq(Seq(ElementRecord))
           /\ DoneElements \in Seq(ElementRecord)
<1> DEFINE lists == [i \in DOMAIN DoneDeployments |-> Records(DoneDeployments[i])]
           n == Len(DoneDeployments)
<1>1. n \in Nat /\ DOMAIN DoneDeployments = 1..n /\ \A i \in 1..n : DoneDeployments[i] \in ResolvedPairs
  BY DoneType, ListType
<1>2. \A i \in 1..n : Records(DoneDeployments[i]) \in Seq(ElementRecord)
  BY <1>1, RecordsType
<1> HIDE DEF n
<1>3. lists \in [1..n -> Seq(ElementRecord)]
  BY <1>1, <1>2
<1>4. lists \in Seq(Seq(ElementRecord))
  BY <1>1, <1>3, ListByPosition
<1>5. FlattenSeq(lists) \in Seq(ElementRecord)
  BY <1>4, FlattenType
<1> QED
  BY <1>4, <1>5 DEF DoneElements

LEMMA CurrentIsResolved ==
    ASSUME Core, InHand
    PROVE  /\ Current \in ResolvedPairs /\ Current = <<Owner, Head(todo)>>
           /\ Current[1] = Owner /\ Current[2] = Head(todo)
           /\ Records(Current) \in Seq(ElementRecord)
           /\ Len(Records(Current)) = Len(program.elements[Head(todo)])
           /\ Step \in 0..Len(Records(Current))
<1>1. todo # <<>> /\ specification[Head(todo)] # Unresolved
  BY DEF InHand
<1>2. /\ Owner \in Files /\ Head(todo) \in Deployments
      /\ Head(todo) \in ToSet(program.deployments[Owner])
  BY <1>1, CurrentDeployment, CurrentFile DEF Core, Own
<1>3. Current = <<Owner, Head(todo)>> /\ Current[1] = Owner /\ Current[2] = Head(todo)
  BY DEF Current
<1>4. Current \in ResolvedPairs
  BY <1>1, <1>2, <1>3 DEF ResolvedPairs
<1>5. /\ Records(Current) \in Seq(ElementRecord)
      /\ Len(Records(Current)) = Len(program.elements[Head(todo)])
  BY <1>3, <1>4, RecordsType
<1>6. Step \in 0..Len(program.elements[Head(todo)])
  BY DEF Core, ElementInv
<1> QED
  BY <1>3, <1>4, <1>5, <1>6

LEMMA AppliedType ==
    ASSUME Core
    PROVE  Applied \in Seq(ElementRecord)
<1>1. CASE ~InHand
  BY <1>1, DoneElementsType DEF Applied
<1>2. CASE InHand
  <2>1. Records(Current) \in Seq(ElementRecord) /\ Step \in 0..Len(Records(Current))
    BY <1>2, CurrentIsResolved
  <2>2. Step \in Nat /\ Step <= Len(Records(Current))
    BY <2>1
  <2>3. SubSeq(Records(Current), 1, Step) \in Seq(ElementRecord)
    BY <2>1, <2>2, FirstPart
  <2> QED
    BY <1>2, <2>3, DoneElementsType, ConcatProperties DEF Applied
<1> QED
  BY <1>1, <1>2

(* What a step may not change if the records of the deployments so far are *)
(* to stay the same.                                                       *)
Frame ==
    /\ program' = program /\ host_order' = host_order
    /\ \A b \in Settled : base_specifications'[b] = base_specifications[b]
    /\ \A c \in Deployments : specification[c] # Unresolved => specification'[c] = specification[c]

LEMMA SameRecords ==
    ASSUME Core, Frame, NEW pair \in ResolvedPairs
    PROVE  Records(pair)' = Records(pair)
<1>1. /\ pair[1] \in Files /\ pair[2] \in Deployments
      /\ pair[2] \in ToSet(program.deployments[pair[1]]) /\ specification[pair[2]] # Unresolved
  BY DEF ResolvedPairs
<1>2. specification[pair[2]] \in Settled
  BY <1>1 DEF Core, DeployInv, IsSettled
<1> QED
  BY <1>1, <1>2, RecordsKept DEF Core, Frame

LEMMA SameDoneElements ==
    ASSUME Core, Frame, DoneDeployments' = DoneDeployments
    PROVE  DoneElements' = DoneElements
<1>1. \A i \in DOMAIN DoneDeployments : DoneDeployments[i] \in ResolvedPairs
  BY DoneType, ListType
<1>2. \A pair \in ResolvedPairs : Records(pair)' = Records(pair)
  BY SameRecords
<1>3. \A i \in DOMAIN DoneDeployments : Records(DoneDeployments[i])' = Records(DoneDeployments[i])
  BY <1>1, <1>2
<1>4. [i \in DOMAIN DoneDeployments |-> Records(DoneDeployments[i])]'
         = [i \in DOMAIN DoneDeployments |-> Records(DoneDeployments[i])]
  BY <1>3
<1> QED
  BY <1>4 DEF DoneElements

LEMMA NoPart == \A S : \A s \in Seq(S) : SubSeq(s, 1, 0) = <<>>
BY WholePart

LEMMA AppendToLast ==
    ASSUME NEW S, NEW s \in Seq(S), NEW t \in Seq(S), NEW x \in S
    PROVE  s \o Append(t, x) = Append(s \o t, x)
<1> DEFINE u == Append(t, x)
           v == s \o t
           a == s \o u
           b == Append(v, x)
<1>1. /\ u \in Seq(S) /\ Len(u) = Len(t) + 1 /\ u[Len(t) + 1] = x /\ Len(t) \in Nat /\ Len(s) \in Nat
      /\ \A i \in 1..Len(t) : u[i] = t[i]
  OBVIOUS
<1>2. /\ v \in Seq(S) /\ Len(v) = Len(s) + Len(t)
      /\ \A i \in 1..(Len(s) + Len(t)) : v[i] = IF i <= Len(s) THEN s[i] ELSE t[i - Len(s)]
  BY ConcatProperties
<1> HIDE DEF u, v
<1>3. /\ a \in Seq(S) /\ Len(a) = Len(s) + Len(u)
      /\ \A i \in 1..(Len(s) + Len(u)) : a[i] = IF i <= Len(s) THEN s[i] ELSE u[i - Len(s)]
  BY <1>1, ConcatProperties
<1>4. /\ b \in Seq(S) /\ Len(b) = Len(v) + 1 /\ b[Len(v) + 1] = x
      /\ \A i \in 1..Len(v) : b[i] = v[i]
  BY <1>2
<1> HIDE DEF a, b
<1>5. Len(a) = Len(b) /\ Len(a) = Len(s) + Len(t) + 1
  BY <1>1, <1>2, <1>3, <1>4
<1>6. ASSUME NEW i \in 1..Len(a) PROVE a[i] = b[i]
  <2>1. CASE i = Len(s) + Len(t) + 1
    <3>1. ~(i <= Len(s)) /\ i - Len(s) = Len(t) + 1 /\ i \in 1..(Len(s) + Len(u)) /\ i = Len(v) + 1
      BY <1>1, <1>2, <2>1
    <3> QED
      BY <1>1, <1>3, <1>4, <3>1
  <2>2. CASE i <= Len(s)
    <3>1. i \in 1..(Len(s) + Len(u)) /\ i \in 1..Len(v) /\ i \in 1..(Len(s) + Len(t))
      BY <1>1, <1>2, <2>2
    <3> QED
      BY <1>2, <1>3, <1>4, <2>2, <3>1
  <2>3. CASE ~(i <= Len(s)) /\ i # Len(s) + Len(t) + 1
    <3>1. \A m, n \in Nat : \A k \in 1..(m + n + 1) : ~(k <= m) /\ k # m + n + 1 =>
             k \in 1..(m + n) /\ k - m \in 1..n
      OBVIOUS
    <3>2. i \in 1..(Len(s) + Len(t)) /\ i - Len(s) \in 1..Len(t)
      BY <1>1, <1>5, <2>3, <3>1
    <3>3. i \in 1..(Len(s) + Len(u)) /\ i \in 1..Len(v) /\ i \in 1..(Len(s) + Len(t)) /\ i - Len(s) \in 1..Len(t)
      BY <1>1, <1>2, <1>3, <1>5, <3>2
    <3> QED
      BY <1>1, <1>2, <1>3, <1>4, <2>3, <3>3
  <2> QED
    BY <2>1, <2>2, <2>3
<1>7. a = b
  BY <1>3, <1>4, <1>5, <1>6, SeqEqual
<1> QED
  BY <1>7 DEF a, b, u, v

LEMMA StartFileApplies ==
    ASSUME Core, NEW f \in Files, StartFile(f)
    PROVE  Applied' = Applied
<1>1. /\ file = <<>> /\ file' = <<f>> /\ transformed_files' = transformed_files
      /\ program' = program /\ host_order' = host_order /\ specification' = specification
      /\ todo' = program.deployments[f]
  BY DEF StartFile, IsNext
<1>2. ~InHand' /\ \A s \in Settled : base_specifications'[s] = base_specifications[s]
  BY StartFileCore
<1>3. ~InHand
  BY <1>1 DEF Core, FileInv, InHand
<1>4. Frame
  BY <1>1, <1>2 DEF Frame
<1>5. DoneFiles' = DoneFiles
  BY <1>1, SameInput DEF DoneFiles, Count
<1>6. DoneDeployments = DoneFiles
  BY <1>1 DEF DoneDeployments
<1>7. DoneDeployments' = DoneFiles \o SubSeq(Pairs(f), 1, 0)
  <2>1. /\ file' # <<>> /\ Owner' = f /\ Own' = program.deployments[f]
    BY <1>1 DEF Owner, Own
  <2>2. Turn' - 1 = 0
    <3>1. Turn' = Len(program.deployments[f]) - Len(program.deployments[f]) + 1
      BY <1>1, <2>1 DEF Turn
    <3>2. Len(program.deployments[f]) \in Nat
      <4>1. program.deployments[f] \in Seq(Deployments)
        BY ProgramType DEF Core
      <4> QED
        BY <4>1
    <3> QED
      BY <3>1, <3>2
  <2>3. Pairs(f)' = Pairs(f)
    BY <1>1, SameInput
  <2> QED
    BY <1>5, <2>1, <2>2, <2>3 DEF DoneDeployments
<1>8. SubSeq(Pairs(f), 1, 0) = <<>>
  BY PairsType, NoPart DEF Core
<1>9. DoneFiles \o <<>> = DoneFiles
  BY DoneFilesType, ConcatEmptySeq
<1>10. DoneElements' = DoneElements
  BY <1>4, <1>6, <1>7, <1>8, <1>9, SameDoneElements
<1> QED
  BY <1>2, <1>3, <1>10 DEF Applied

(* Steps within a file do not change which deployments are done.           *)
LEMMA SameDone ==
    ASSUME Core, Frame, UNCHANGED <<transformed_files, file, todo>>
    PROVE  DoneElements' = DoneElements
<1>1. /\ transformed_files' = transformed_files /\ file' = file /\ todo' = todo /\ program' = program
      /\ host_order' = host_order
  BY DEF Frame
<1>2. DoneFiles' = DoneFiles
  BY <1>1, SameInput DEF DoneFiles, Count
<1>3. Pairs(Owner)' = Pairs(Owner) /\ Turn' = Turn
  BY <1>1, SameInput DEF Owner, Turn, Own
<1>4. DoneDeployments' = DoneDeployments
  BY <1>1, <1>2, <1>3 DEF DoneDeployments
<1> QED
  BY <1>4, SameDoneElements

LEMMA CurrentRecords == Core /\ InHand => Records(Current) \in Seq(ElementRecord)
BY CurrentIsResolved

LEMMA NextRecords == (Core /\ InHand => Records(Current) \in Seq(ElementRecord))'
BY CurrentRecords, PTL

LEMMA ResolveDeploymentApplies ==
    ASSUME Core, NEW d \in Deployments, ResolveDeployment(d)
    PROVE  Applied' = Applied
<1>1. /\ d = Head(todo) /\ specification[d] = Unresolved
      /\ specification' = [specification EXCEPT ![d] = Specification(Owner, program.specification[d])]
      /\ UNCHANGED <<program, host_order, transformed_files, file, todo, base_specifications>>
  BY DEF ResolveDeployment, IsNextDeployment
<1>2. Core' /\ InHand' /\ Step' = 0
  BY ResolveDeploymentCore
<1>3. ~InHand
  BY <1>1 DEF InHand
<1>4. Frame
  BY <1>1 DEF Frame, Core, TypeOK
<1>5. DoneElements' = DoneElements
  BY <1>1, <1>4, SameDone
<1>6. SubSeq(Records(Current), 1, Step)' = <<>>
  <2>1. Records(Current)' \in Seq(ElementRecord)
    BY <1>2, NextRecords
  <2> QED
    BY <1>2, <2>1, NoPart
<1>7. DoneElements \o <<>> = DoneElements
  BY DoneElementsType, ConcatEmptySeq
<1> QED
  BY <1>2, <1>3, <1>5, <1>6, <1>7 DEF Applied

LEMMA ApplyElementApplies ==
    ASSUME Core, NEW d \in Deployments, ApplyElement(d)
    PROVE  /\ Applied' = Append(Applied, Record(Owner, d, Head(elements)))
           /\ Record(Owner, d, Head(elements)) \in ElementRecord
<1> DEFINE x == Record(Owner, d, Head(elements))
           R == Records(Current)
<1>1. /\ Applying(d) /\ elements # <<>>
      /\ UNCHANGED <<program, host_order, transformed_files, file, todo, base_specifications,
                     specification>>
  BY DEF ApplyElement, bases
<1>2. InHand' /\ Step' = Step + 1
  BY ApplyElementCore
<1>3. /\ InHand /\ d = Head(todo) /\ Owner \in Files /\ d \in ToSet(program.deployments[Owner])
  BY <1>1, InTheHand
<1>4. /\ Step + 1 \in 1..Len(program.elements[d]) /\ Step \in Nat
      /\ Head(elements) = program.elements[d][Step + 1]
      /\ Head(elements) \in ToSet(program.elements[d])
  BY <1>1, NextElement
<1>5. /\ Current \in ResolvedPairs /\ Current[1] = Owner /\ Current[2] = d
      /\ R \in Seq(ElementRecord) /\ Len(R) = Len(program.elements[d])
  BY <1>3, CurrentIsResolved
<1>6. R[Step + 1] = x /\ x \in ElementRecord
  <2>1. R[Step + 1] = x
    BY <1>4, <1>5, RecordsType
  <2>2. x \in ElementRecord
    BY <1>1, <1>3, <1>4, RecordOf DEF Applying
  <2> QED
    BY <2>1, <2>2
<1>7. Frame
  BY <1>1 DEF Frame
<1>8. DoneElements' = DoneElements
  BY <1>1, <1>7, SameDone
<1>9. Current' = Current
  BY <1>1 DEF Current, Owner
<1>10. R' = R
  <2>1. \A pair \in ResolvedPairs : Records(pair)' = Records(pair)
    BY <1>7, SameRecords
  <2> QED
    BY <1>5, <1>9, <2>1
<1>11. SubSeq(R, 1, Step + 1) = Append(SubSeq(R, 1, Step), x)
  <2>1. Step < Len(R)
    BY <1>4, <1>5
  <2> HIDE DEF R, x
  <2> QED
    BY <1>4, <1>5, <1>6, <2>1, FirstPartGrows
<1>12. SubSeq(R, 1, Step) \in Seq(ElementRecord)
  <2>1. Step <= Len(R)
    BY <1>4, <1>5
  <2> HIDE DEF R, x
  <2> QED
    BY <1>4, <1>5, <2>1, FirstPart
<1>13. Applied = DoneElements \o SubSeq(R, 1, Step)
  BY <1>3 DEF Applied
<1>14. Applied' = DoneElements \o SubSeq(R, 1, Step + 1)
  BY <1>2, <1>8, <1>10 DEF Applied
<1>15. DoneElements \in Seq(ElementRecord)
  BY DoneElementsType
<1> HIDE DEF R, x
<1>16. \A s, t \in Seq(ElementRecord) : s \o Append(t, x) = Append(s \o t, x)
  BY <1>6, AppendToLast
<1>17. Applied' = Append(Applied, x)
  BY <1>11, <1>12, <1>13, <1>14, <1>15, <1>16
<1> QED
  BY <1>6, <1>17 DEF x

LEMMA EndDeploymentApplies ==
    ASSUME Core, NEW d \in Deployments, EndDeployment(d)
    PROVE  Applied' = Applied
<1> DEFINE R == Records(Current)
           D == DoneDeployments
           lists == [i \in DOMAIN D |-> Records(D[i])]
<1>1. /\ Applying(d) /\ elements = <<>>
      /\ UNCHANGED <<program, host_order, transformed_files, file, base_specifications, specification>>
  BY DEF EndDeployment, bases
<1>2. ~InHand' /\ Turn' = Turn + 1
  BY EndDeploymentCore
<1>3. /\ InHand /\ file # <<>> /\ d = Head(todo) /\ d = Own[Turn] /\ Turn \in 1..Len(Own)
      /\ Owner \in Files /\ Own \in Seq(Deployments)
      /\ Step = Len(program.elements[d]) - Len(elements) /\ program.elements[d] \in Seq(Element)
  BY <1>1, InTheHand
<1>4. /\ Current \in ResolvedPairs /\ Current = <<Owner, d>>
      /\ R \in Seq(ElementRecord) /\ Len(R) = Len(program.elements[d])
  BY <1>3, CurrentIsResolved
<1>5. Step = Len(R)
  <2>1. Len(program.elements[d]) \in Nat /\ Len(elements) = 0
    BY <1>1, <1>3
  <2> HIDE DEF R
  <2> QED
    BY <1>3, <1>4, <2>1
<1>6. Applied = DoneElements \o R
  <2>1. SubSeq(R, 1, Len(R)) = R
    BY <1>4, WholePart
  <2> QED
    BY <1>3, <1>5, <2>1 DEF Applied
<1>7. Frame
  BY <1>1 DEF Frame
<1>8. DoneDeployments' = Append(D, Current)
  <2>1. DoneFiles' = DoneFiles
    BY <1>1, SameInput DEF DoneFiles, Count
  <2>2. Pairs(Owner)' = Pairs(Owner)
    BY <1>1, SameInput DEF Owner
  <2>3. DoneDeployments' = DoneFiles \o SubSeq(Pairs(Owner), 1, (Turn + 1) - 1)
    BY <1>1, <1>2, <1>3, <2>1, <2>2 DEF DoneDeployments
  <2>4. /\ Pairs(Owner) \in Seq(Files \X Deployments) /\ Len(Pairs(Owner)) = Len(Own)
        /\ \A k \in 1..Len(Own) : Pairs(Owner)[k] = <<Owner, Own[k]>>
    BY <1>3, PairsType DEF Core, Own
  <2>5. /\ Turn - 1 \in Nat /\ Turn - 1 < Len(Pairs(Owner)) /\ Turn - 1 <= Len(Pairs(Owner))
        /\ (Turn - 1) + 1 = Turn /\ (Turn + 1) - 1 = Turn
    BY <1>3, <2>4
  <2>6. SubSeq(Pairs(Owner), 1, Turn) = Append(SubSeq(Pairs(Owner), 1, Turn - 1), Pairs(Owner)[Turn])
    <3>1. SubSeq(Pairs(Owner), 1, (Turn - 1) + 1)
             = Append(SubSeq(Pairs(Owner), 1, Turn - 1), Pairs(Owner)[(Turn - 1) + 1])
      BY <2>4, <2>5, FirstPartGrows
    <3> QED
      BY <2>5, <3>1
  <2>7. Pairs(Owner)[Turn] = Current
    BY <1>3, <1>4, <2>4
  <2>8. SubSeq(Pairs(Owner), 1, Turn - 1) \in Seq(Files \X Deployments)
    BY <2>4, <2>5, FirstPart
  <2>9. DoneFiles \in Seq(Files \X Deployments) /\ Current \in Files \X Deployments
    <3>1. ResolvedPairs \subseteq Files \X Deployments
      BY DEF ResolvedPairs
    <3>2. DoneFiles \in Seq(ResolvedPairs)
      BY DoneFilesType
    <3> HIDE DEF R
    <3> QED
      BY <1>4, <3>1, <3>2
  <2>10. D = DoneFiles \o SubSeq(Pairs(Owner), 1, Turn - 1)
    BY <1>3 DEF DoneDeployments
  <2>11. DoneFiles \o Append(SubSeq(Pairs(Owner), 1, Turn - 1), Current)
            = Append(DoneFiles \o SubSeq(Pairs(Owner), 1, Turn - 1), Current)
    BY <2>8, <2>9, AppendToLast
  <2> QED
    BY <2>3, <2>5, <2>6, <2>7, <2>10, <2>11
<1>9. DoneElements' = FlattenSeq(Append(lists, R))
  <2>1. D \in Seq(ResolvedPairs)
    BY DoneType
  <2>2. /\ DOMAIN D = 1..Len(D) /\ Len(D) \in Nat /\ \A i \in 1..Len(D) : D[i] \in ResolvedPairs
    BY <2>1, ListType
  <2>3. PICK more : more = Append(D, Current)
    OBVIOUS
  <2>4. /\ DOMAIN more = 1..(Len(D) + 1) /\ more[Len(D) + 1] = Current
        /\ \A i \in 1..Len(D) : more[i] = D[i]
    BY <1>4, <2>1, <2>3
  <2>5. \A pair \in ResolvedPairs : Records(pair)' = Records(pair)
    BY <1>7, SameRecords
  <2>6. DoneElements' = FlattenSeq([i \in DOMAIN more |-> Records(more[i])'])
    BY <1>8, <2>3 DEF DoneElements
  <2> HIDE DEF D
  <2>7. \A i \in DOMAIN more : more[i] \in ResolvedPairs
    BY <1>4, <2>2, <2>4
  <2>8. [i \in DOMAIN more |-> Records(more[i])'] = [i \in 1..(Len(D) + 1) |-> Records(more[i])]
    BY <2>4, <2>5, <2>7
  <2>9. lists \in Seq(Seq(ElementRecord)) /\ Len(lists) = Len(D) /\ \A i \in 1..Len(D) : lists[i] = Records(D[i])
    <3>1. lists \in Seq(Seq(ElementRecord))
      BY DoneElementsType DEF D
    <3>2. lists = [i \in 1..Len(D) |-> Records(D[i])]
      BY <2>2
    <3> HIDE DEF lists
    <3>3. Len(lists) = Len(D) /\ \A i \in 1..Len(D) : lists[i] = Records(D[i])
      BY <2>2, <3>1, <3>2
    <3> QED
      BY <3>1, <3>3
  <2> HIDE DEF lists
  <2>10. [i \in 1..(Len(D) + 1) |-> Records(more[i])] = Append(lists, R)
    <3> DEFINE longer == [i \in 1..(Len(D) + 1) |-> Records(more[i])]
    <3>1. \A i \in 1..(Len(D) + 1) : Records(more[i]) \in Seq(ElementRecord)
      BY <2>4, <2>7, RecordsType
    <3>2. longer \in [1..(Len(D) + 1) -> Seq(ElementRecord)]
      BY <3>1
    <3> HIDE DEF longer, R
    <3>3. longer \in Seq(Seq(ElementRecord)) /\ Len(longer) = Len(D) + 1
      BY <2>2, <3>2, ListByPosition
    <3>4. /\ Append(lists, R) \in Seq(Seq(ElementRecord)) /\ Len(Append(lists, R)) = Len(D) + 1
          /\ Append(lists, R)[Len(D) + 1] = R
          /\ \A i \in 1..Len(D) : Append(lists, R)[i] = lists[i]
      BY <1>4, <2>9
    <3>5. \A i \in 1..(Len(D) + 1) : longer[i] = Append(lists, R)[i]
      <4> TAKE i \in 1..(Len(D) + 1)
      <4>1. longer[i] = Records(more[i])
        BY DEF longer
      <4>2. CASE i = Len(D) + 1
        BY <2>4, <3>4, <4>1, <4>2 DEF R
      <4>3. CASE i # Len(D) + 1
        <5>1. i \in 1..Len(D)
          BY <2>2, <4>3
        <5> QED
          BY <2>4, <2>9, <3>4, <4>1, <5>1
      <4> QED
        BY <4>2, <4>3
    <3>6. longer = Append(lists, R)
      BY <3>3, <3>4, <3>5, SeqEqual
    <3> QED
      BY <3>6 DEF longer
  <2> QED
    BY <2>6, <2>8, <2>10
<1>10. lists \in Seq(Seq(ElementRecord)) /\ FlattenSeq(lists) = DoneElements
  BY DoneElementsType DEF DoneElements
<1>11. FlattenSeq(Append(lists, R)) = FlattenSeq(lists) \o R
  <2> HIDE DEF lists, R
  <2> QED
    BY <1>4, <1>10, FlattenAppend
<1>12. Applied' = DoneElements'
  BY <1>2 DEF Applied
<1> HIDE DEF lists, R
<1> QED
  BY <1>6, <1>9, <1>10, <1>11, <1>12

LEMMA EndFileApplies ==
    ASSUME Core, EndFile
    PROVE  Applied' = Applied
<1> DEFINE lists == [i \in 1..Count |-> Pairs(program.order[i])]
           P == Pairs(Owner)
<1>1. /\ file # <<>> /\ todo = <<>>
      /\ UNCHANGED <<program, host_order, todo, base_specifications, specification>>
  BY DEF EndFile, bases
<1>2. ~InHand' /\ file' = <<>> /\ Turn = Len(Own) + 1 /\ Count' = Count + 1
  BY EndFileCore
<1>3. ~InHand
  BY <1>1 DEF InHand
<1>4. Frame
  BY <1>1 DEF Frame
<1>5. Owner \in Files /\ Owner = program.order[Count + 1] /\ Own \in Seq(Deployments) /\ Count \in Nat
  BY <1>1, CurrentFile, NextFileIsNew DEF Core, FileInv
<1>6. P \in Seq(Files \X Deployments) /\ Len(P) = Len(Own)
  BY <1>5, PairsType DEF Core, Own
<1>7. DoneDeployments = DoneFiles \o P
  <2>1. Turn - 1 = Len(P)
    <3>1. Len(Own) \in Nat
      BY <1>5
    <3> HIDE DEF P
    <3> QED
      BY <1>2, <1>6, <3>1
  <2>2. SubSeq(P, 1, Len(P)) = P
    BY <1>6, WholePart
  <2> QED
    BY <1>1, <2>1, <2>2 DEF DoneDeployments
<1>8. lists \in Seq(Seq(Files \X Deployments)) /\ Len(lists) = Count
  <2>1. lists \in Seq(Seq(ResolvedPairs))
    BY DoneFilesType
  <2>2. Seq(ResolvedPairs) \subseteq Seq(Files \X Deployments)
    BY DEF ResolvedPairs
  <2>3. lists \in [1..Count -> Seq(Files \X Deployments)]
    <3>1. \A i \in 1..Count : lists[i] \in Seq(ResolvedPairs)
      <4>1. Len(lists) = Count
        BY <1>5, <2>1
      <4> HIDE DEF lists
      <4> QED
        BY <2>1, <4>1, ListType
    <3> QED
      BY <2>2, <3>1
  <2> HIDE DEF lists
  <2> QED
    BY <1>5, <2>3, ListByPosition
<1>9. DoneFiles' = FlattenSeq([i \in 1..(Count + 1) |-> Pairs(program.order[i])])
  BY <1>1, <1>2, SameInput DEF DoneFiles
<1>10. [i \in 1..(Count + 1) |-> Pairs(program.order[i])] = Append(lists, P)
  <2> DEFINE longer == [i \in 1..(Count + 1) |-> Pairs(program.order[i])]
  <2>1. \A i \in 1..(Count + 1) : longer[i] = IF i = Count + 1 THEN P ELSE lists[i]
    BY <1>5
  <2>2. \A i \in 1..Count : lists[i] \in Seq(Files \X Deployments)
    <3> HIDE DEF lists
    <3> QED
      BY <1>8, ListType
  <2>3. DOMAIN longer = 1..(Count + 1) /\ longer = [i \in 1..(Count + 1) |-> longer[i]]
    OBVIOUS
  <2> HIDE DEF longer, lists, P
  <2>4. longer \in [1..(Count + 1) -> Seq(Files \X Deployments)]
    <3>1. \A i \in 1..(Count + 1) : longer[i] \in Seq(Files \X Deployments)
      <4> TAKE i \in 1..(Count + 1)
      <4>1. i = Count + 1 \/ i \in 1..Count
        BY <1>5
      <4> QED
        BY <1>5, <1>6, <2>1, <2>2, <4>1
    <3> QED
      BY <2>3, <3>1
  <2>5. longer \in Seq(Seq(Files \X Deployments)) /\ Len(longer) = Count + 1
    <3>1. Count + 1 \in Nat
      BY <1>5
    <3> QED
      BY <2>4, <3>1, ListByPosition
  <2>6. /\ Append(lists, P) \in Seq(Seq(Files \X Deployments)) /\ Len(Append(lists, P)) = Count + 1
        /\ Append(lists, P)[Count + 1] = P /\ \A i \in 1..Count : Append(lists, P)[i] = lists[i]
    BY <1>6, <1>8
  <2>7. \A i \in 1..(Count + 1) : longer[i] = Append(lists, P)[i]
    <3> TAKE i \in 1..(Count + 1)
    <3>1. i = Count + 1 \/ (i \in 1..Count /\ i # Count + 1)
      BY <1>5
    <3> QED
      BY <2>1, <2>6, <3>1
  <2>8. longer = Append(lists, P)
    BY <2>5, <2>6, <2>7, SeqEqual
  <2> QED
    BY <2>8 DEF longer
<1>11. FlattenSeq(Append(lists, P)) = FlattenSeq(lists) \o P
  <2> HIDE DEF lists, P
  <2> QED
    BY <1>6, <1>8, FlattenAppend
<1>12. FlattenSeq(lists) = DoneFiles
  BY DEF DoneFiles
<1>13. DoneDeployments' = DoneDeployments
  <2>1. DoneDeployments' = DoneFiles'
    BY <1>2 DEF DoneDeployments
  <2> HIDE DEF lists, P
  <2> QED
    BY <1>7, <1>9, <1>10, <1>11, <1>12, <2>1
<1>14. DoneElements' = DoneElements
  BY <1>4, <1>13, SameDoneElements
<1> QED
  BY <1>2, <1>3, <1>14 DEF Applied

(* Any other step leaves alone what there is to apply.                     *)
LEMMA IdleApplies ==
    ASSUME Core, UNCHANGED <<program, host_order, progress, bases>>
    PROVE  Applied' = Applied
<1>1. UNCHANGED <<program, host_order, transformed_files, file, todo, elements,
                  base_specifications, specification>>
  BY DEF progress, bases
<1>2. Frame
  BY <1>1 DEF Frame
<1>3. DoneElements' = DoneElements
  BY <1>1, <1>2, SameDone
<1>4. (InHand' <=> InHand) /\ Step' = Step /\ Current' = Current
  BY <1>1 DEF InHand, Step, Current, Owner
<1>5. CASE ~InHand
  BY <1>3, <1>4, <1>5 DEF Applied
<1>6. CASE InHand
  <2>1. Current \in ResolvedPairs
    BY <1>6, CurrentIsResolved
  <2>2. \A pair \in ResolvedPairs : Records(pair)' = Records(pair)
    BY <1>2, SameRecords
  <2>3. Records(Current)' = Records(Current)
    BY <1>4, <2>1, <2>2
  <2> QED
    BY <1>3, <1>4, <1>6, <2>3 DEF Applied
<1> QED
  BY <1>5, <1>6

-----------------------------------------------------------------------------
(* Properties.                                                             *)

Satisfied(all, t, p, value) ==
    IF value = Unset
    THEN \A i \in About(all, t, p) : Optional \in ToSet(all[i].declared[p].liabilities)
    ELSE \E i \in About(all, t, p) : Fits(value, all[i].declared[p])

ApplyInv ==
    \A t \in Types, p \in Properties :
        /\ deployment_properties[t][p] = Expected(Applied, t, p)
        /\ Satisfied(Applied, t, p, deployment_properties[t][p])

LEMMA ExpectedType ==
    ASSUME NEW all \in Seq(ElementRecord), NEW x \in ElementRecord, NEW p
    PROVE  /\ Assigned(x.declared, x, p) # {} => SetValue(x, p) # Unset
           /\ p \in DOMAIN x.declared /\ Defaults(x.declared[p]) # {} => DefaultValue(x, p) # Unset
BY RecordType, DeploymentAssumption DEF DeploymentAssumption

LEMMA SatisfiedAppend ==
    ASSUME NEW all \in Seq(ElementRecord), NEW x \in ElementRecord, NEW t, NEW p,
           Satisfied(all, t, p, Expected(all, t, p)),
           IsAbout(x, t, p) =>
              /\ IsAcceptable(x.declared, x)
              /\ p \in Required(x.declared) /\ Assigned(x.declared, x, p) = {}
                    => Expected(all, t, p) # Unset
    PROVE  Satisfied(Append(all, x), t, p, Expected(Append(all, x), t, p))
<1> DEFINE more == Append(all, x)
           n == Len(all) + 1
           old == Expected(all, t, p)
           new == Expected(more, t, p)
<1>1. /\ more[n] = x /\ \A i \in 1..Len(all) : more[i] = all[i]
      /\ \A i : i \in About(more, t, p) <=> i \in About(all, t, p) \/ (i = n /\ IsAbout(x, t, p))
  <2>1. Extends(more, all, x, t, p)
    BY IndicesOfMore
  <2> HIDE DEF more
  <2> QED
    BY <2>1 DEF Extends
<1>2. new = Updated(old, x, t, p)
  <2>1. IsUpdated(more, all, x, t, p)
    BY ExpectedAppend
  <2> QED
    BY <2>1 DEF IsUpdated
<1>3. \A i \in About(all, t, p) : i \in About(more, t, p) /\ more[i] = all[i]
  <2>1. About(all, t, p) \subseteq 1..Len(all)
    BY Indices
  <2> HIDE DEF more, n
  <2> QED
    BY <1>1, <2>1
<1>4. /\ Satisfied(all, t, p, old)
      /\ IsAbout(x, t, p) /\ p \in Required(x.declared) /\ Assigned(x.declared, x, p) = {}
            => old # Unset
  OBVIOUS
<1> SUFFICES Satisfied(more, t, p, new)
  OBVIOUS
<1> HIDE DEF more, n, old, new
<1>5. ASSUME new = old, old # Unset PROVE Satisfied(more, t, p, new)
  BY <1>3, <1>4, <1>5 DEF Satisfied
<1>6. CASE ~IsAbout(x, t, p)
  <2>1. CASE old = Unset
    BY <1>1, <1>2, <1>3, <1>4, <1>6, <2>1 DEF Satisfied, Updated
  <2> QED
    BY <1>2, <1>5, <1>6, <2>1 DEF Updated
<1>7. CASE IsAbout(x, t, p)
  <2>1. p \in DOMAIN x.declared /\ n \in About(more, t, p) /\ more[n] = x
    BY <1>1, <1>7 DEF IsAbout
  <2>2. CASE Assigned(x.declared, x, p) # {}
    <3>1. new = SetValue(x, p) /\ new # Unset
      BY <1>2, <1>7, <2>2, ExpectedType DEF Updated
    <3>2. Fits(new, x.declared[p])
      BY <1>7, <2>2, <3>1, SetValueFits
    <3> QED
      BY <2>1, <3>1, <3>2 DEF Satisfied
  <2>3. CASE Assigned(x.declared, x, p) = {} /\ old = Unset /\ Defaults(x.declared[p]) # {}
    <3>1. new = DefaultValue(x, p) /\ new # Unset
      BY <1>2, <1>7, <2>1, <2>3, ExpectedType DEF Updated
    <3>2. Fits(new, x.declared[p])
      BY <2>1, <2>3, <3>1, DefaultValueFits
    <3> QED
      BY <2>1, <3>1, <3>2 DEF Satisfied
  <2>4. CASE Assigned(x.declared, x, p) = {} /\ old = Unset /\ Defaults(x.declared[p]) = {}
    <3>1. new = Unset
      BY <1>2, <1>7, <2>4 DEF Updated
    <3>2. p \notin Required(x.declared)
      BY <1>4, <1>7, <2>4
    <3>3. Optional \in ToSet(x.declared[p].liabilities)
      BY <2>1, <2>4, <3>2 DEF Required
    <3>4. \A i \in About(all, t, p) : Optional \in ToSet(all[i].declared[p].liabilities)
      BY <1>4, <2>4 DEF Satisfied
    <3> QED
      BY <1>1, <1>3, <3>1, <3>3, <3>4 DEF Satisfied
  <2>5. CASE Assigned(x.declared, x, p) = {} /\ old # Unset
    BY <1>2, <1>5, <1>7, <2>5 DEF Updated
  <2> QED
    BY <2>2, <2>3, <2>4, <2>5
<1> QED
  BY <1>6, <1>7

(* What ApplyElement stores.                                               *)
Stores(declared, e, properties, x, p) ==
    /\ Assigned(declared, e, p) = Assigned(x.declared, x, p)
    /\ WithParameters(declared, e, properties)[p]
          = IF Assigned(x.declared, x, p) = {} THEN properties[p] ELSE SetValue(x, p)
    /\ (SetValue(x, p) = Unset => Assigned(x.declared, x, p) = {})
          => WithDefaults(declared, WithParameters(declared, e, properties))[p]
                = Updated(properties[p], x, x.type, p)

LEMMA StoredIs ==
    ASSUME NEW declared, NEW e, NEW x, x.declared = declared, x.parameters = e.parameters,
           NEW properties, NEW p \in Properties
    PROVE  Stores(declared, e, properties, x, p)
<1> DEFINE stored == WithParameters(declared, e, properties)
<1>1. Assigned(declared, e, p) = Assigned(x.declared, x, p)
  BY DEF Assigned
<1>2. AssignedValue(declared, e, p) = SetValue(x, p)
  BY <1>1 DEF AssignedValue, SetValue
<1>3. stored[p] = IF Assigned(x.declared, x, p) = {} THEN properties[p] ELSE SetValue(x, p)
  BY <1>1, <1>2 DEF WithParameters
<1> HIDE DEF stored
<1>4. WithDefaults(declared, stored)[p]
         = IF p \in DOMAIN declared /\ Defaults(declared[p]) # {} /\ stored[p] = Unset
           THEN DefaultValue(x, p) ELSE stored[p]
  BY DEF WithDefaults, Defaulted, DefaultValue
<1>5. Assigned(x.declared, x, p) # {} => p \in DOMAIN declared
  BY DEF Assigned
<1> QED
  BY <1>1, <1>3, <1>4, <1>5 DEF stored, Stores, Updated, IsAbout

LEMMA ApplyElementInv ==
    ASSUME Core, ApplyInv, NEW d \in Deployments, ApplyElement(d)
    PROVE  ApplyInv'
<1> DEFINE e == Head(elements)
           type == DeployedType(Owner, d, e)
           declared == Declarations(specification[d], e.hosts)
           x == Record(Owner, d, e)
           old == deployment_properties[type]
           stored == WithDefaults(declared, WithParameters(declared, e, old))
<1>1. /\ Applying(d) /\ elements # <<>> /\ IsApplicable(declared, e, old)
      /\ deployment_properties' = [deployment_properties EXCEPT ![type] = stored]
  BY DEF ApplyElement
<1>2. Applied' = Append(Applied, x) /\ x \in ElementRecord
  BY ApplyElementApplies
<1>3. Applied \in Seq(ElementRecord)
  BY AppliedType
<1>4. type \in Types
  BY <1>1, NextElement
<1>5. x.type = type /\ x.parameters = e.parameters /\ x.declared = declared
  BY DEF Record
<1>6. /\ deployment_properties \in [Types -> [Properties -> Value \cup {Unset}]]
  BY DEF Core, TypeOK
<1>7. ASSUME NEW t \in Types, t # type
      PROVE  deployment_properties'[t] = deployment_properties[t]
  <2> HIDE DEF stored, type
  <2> QED
    BY <1>1, <1>6, <1>7
<1>8. deployment_properties'[type] = stored
  <2> HIDE DEF stored, type
  <2> QED
    BY <1>1, <1>4, <1>6
<1>9. /\ IsAcceptable(declared, e)
      /\ \A p \in Required(declared) : WithParameters(declared, e, old)[p] # Unset
  BY <1>1 DEF IsApplicable
<1>10. IsAcceptable(x.declared, x)
  BY <1>5, <1>9 DEF IsAcceptable
<1> HIDE DEF x, type, declared, e, old, stored
<1>11. ASSUME NEW t \in Types, NEW p \in Properties
       PROVE  /\ deployment_properties'[t][p] = Expected(Append(Applied, x), t, p)
              /\ Satisfied(Append(Applied, x), t, p, Expected(Append(Applied, x), t, p))
  <2>1. /\ deployment_properties[t][p] = Expected(Applied, t, p)
        /\ Satisfied(Applied, t, p, Expected(Applied, t, p))
    BY DEF ApplyInv
  <2>2. Expected(Append(Applied, x), t, p) = Updated(Expected(Applied, t, p), x, t, p)
    <3>1. IsUpdated(Append(Applied, x), Applied, x, t, p)
      BY <1>2, <1>3, ExpectedAppend
    <3> QED
      BY <3>1 DEF IsUpdated
  <2>3. /\ Assigned(declared, e, p) = Assigned(x.declared, x, p)
        /\ WithParameters(declared, e, old)[p]
              = IF Assigned(x.declared, x, p) = {} THEN old[p] ELSE SetValue(x, p)
        /\ stored[p] = Updated(old[p], x, x.type, p)
    <3>1. Stores(declared, e, old, x, p)
      BY <1>5, StoredIs
    <3>2. SetValue(x, p) = Unset => Assigned(x.declared, x, p) = {}
      BY <1>2, <1>3, ExpectedType
    <3> QED
      BY <3>1, <3>2 DEF Stores, stored
  <2>4. deployment_properties'[t][p] = Expected(Append(Applied, x), t, p)
    <3>1. CASE t # type
      BY <1>5, <1>7, <2>1, <2>2, <3>1 DEF IsAbout, Updated
    <3>2. CASE t = type
      <4>1. old[p] = Expected(Applied, t, p)
        BY <2>1, <3>2 DEF old
      <4> QED
        BY <1>5, <1>8, <2>2, <2>3, <3>2, <4>1
    <3> QED
      BY <3>1, <3>2
  <2>5. IsAbout(x, t, p) =>
           /\ IsAcceptable(x.declared, x)
           /\ p \in Required(x.declared) /\ Assigned(x.declared, x, p) = {}
                 => Expected(Applied, t, p) # Unset
    <3> SUFFICES ASSUME IsAbout(x, t, p), p \in Required(x.declared),
                        Assigned(x.declared, x, p) = {}
                 PROVE  Expected(Applied, t, p) # Unset
      BY <1>10
    <3>1. t = type
      BY <1>5 DEF IsAbout
    <3>2. old[p] # Unset
      BY <1>5, <1>9, <2>3, <3>1
    <3> QED
      BY <2>1, <3>1, <3>2 DEF old
  <2>6. Satisfied(Append(Applied, x), t, p, Expected(Append(Applied, x), t, p))
    BY <1>2, <1>3, <2>1, <2>5, SatisfiedAppend
  <2> QED
    BY <2>4, <2>6
<1> QED
  BY <1>2, <1>11 DEF ApplyInv

LEMMA ApplyKept ==
    ASSUME ApplyInv, Applied' = Applied, deployment_properties' = deployment_properties
    PROVE  ApplyInv'
BY DEF ApplyInv

LEMMA ApplyInit == Init => ApplyInv
<1> SUFFICES ASSUME Init PROVE ApplyInv
  OBVIOUS
<1>1. Core /\ todo = <<>> /\ file = <<>> /\ transformed_files = <<>>
      /\ deployment_properties = [t \in Types |-> [p \in Properties |-> Unset]]
  BY CoreInit DEF Init
<1>2. Applied = <<>>
  <2>1. Count = 0 /\ ~InHand
    BY <1>1 DEF Count, InHand
  <2>2. DoneFiles = FlattenSeq([i \in 1..0 |-> Pairs(program.order[i])])
    BY <2>1 DEF DoneFiles
  <2>3. [i \in 1..0 |-> Pairs(program.order[i])] = <<>>
    OBVIOUS
  <2>4. DoneDeployments = <<>>
    BY <1>1, <2>2, <2>3, FlattenNone DEF DoneDeployments
  <2>5. [i \in DOMAIN DoneDeployments |-> Records(DoneDeployments[i])] = <<>>
    BY <2>4
  <2> QED
    BY <2>1, <2>5, FlattenNone DEF Applied, DoneElements
<1>3. ASSUME NEW t \in Types, NEW p \in Properties
      PROVE  /\ deployment_properties[t][p] = Unset
             /\ Expected(<<>>, t, p) = Unset /\ Satisfied(<<>>, t, p, Unset)
  <2>1. About(<<>>, t, p) = {}
    BY DEF About
  <2>2. Setters(<<>>, t, p) = {} /\ Defaulters(<<>>, t, p) = {}
    BY <2>1 DEF Setters, Defaulters
  <2> QED
    BY <1>1, <2>1, <2>2, ExpectedIs DEF Satisfied
<1> QED
  BY <1>2, <1>3 DEF ApplyInv

LEMMA ApplyStep == ASSUME Core, ApplyInv, [Next]_vars PROVE ApplyInv'
<1>1. ASSUME NEW f \in Files, StartFile(f) PROVE ApplyInv'
  BY <1>1, StartFileApplies, ApplyKept DEF StartFile
<1>2. ASSUME NEW d \in Deployments, ResolveDeployment(d) PROVE ApplyInv'
  BY <1>2, ResolveDeploymentApplies, ApplyKept DEF ResolveDeployment
<1>3. ASSUME NEW d \in Deployments, ApplyElement(d) PROVE ApplyInv'
  BY <1>3, ApplyElementInv
<1>4. ASSUME NEW d \in Deployments, EndDeployment(d) PROVE ApplyInv'
  BY <1>4, EndDeploymentApplies, ApplyKept DEF EndDeployment
<1>5. CASE EndFile
  BY <1>5, EndFileApplies, ApplyKept DEF EndFile
<1>6. CASE EndTransforming
  BY <1>6, IdleApplies, ApplyKept DEF EndTransforming
<1>7. CASE ResolvePendingUse
  BY <1>7, IdleApplies, ApplyKept DEF ResolvePendingUse
<1>8. CASE EndResolving
  BY <1>8, IdleApplies, ApplyKept DEF EndResolving
<1>9. CASE Fail
  BY <1>9, IdleApplies, ApplyKept DEF Fail
<1>10. CASE UNCHANGED vars
  BY <1>10, IdleApplies, ApplyKept DEF vars
<1> QED
  BY Steps, <1>1, <1>2, <1>3, <1>4, <1>5, <1>6, <1>7, <1>8, <1>9, <1>10

(* In the end every element of every file is applied, in the order of the  *)
(* text.                                                                   *)
LEMMA AppliedIsAll ==
    ASSUME Core, phase = "done"
    PROVE  Applied = AllElements
<1>1. file = <<>> /\ Count = Len(program.order)
  BY AllResolved
<1>2. todo = <<>>
  BY <1>1 DEF Core, FileInv
<1>3. Applied = DoneElements /\ DoneDeployments = DoneFiles
  BY <1>1, <1>2 DEF Applied, InHand, DoneDeployments
<1>4. DOMAIN program.order = 1..Count
  BY <1>1, ProgramType DEF Core
<1>5. DoneDeployments = AllDeployments
  BY <1>3, <1>4 DEF DoneFiles, AllDeployments, Pairs
<1>6. DoneElements = AllElements
  BY <1>5 DEF DoneElements, AllElements, Records, Record
<1> QED
  BY <1>3, <1>6

LEMMA Transformed ==
    ASSUME Core, ApplyInv, phase = "done", NEW t \in Types, NEW p \in Properties
    PROVE  /\ deployment_properties[t][p] = Expected(AllElements, t, p)
           /\ Satisfied(AllElements, t, p, deployment_properties[t][p])
BY AppliedIsAll DEF ApplyInv

(* Each property of each datatype has the last value that a deployment     *)
(* sets for it, else the first default: no default replaces a set value.   *)
THEOREM AppliedAsDeployed == Spec => []PropertiesAsDeployed
<1>1. Init => Core /\ ApplyInv
  BY CoreInit, ApplyInit
<1>2. Core /\ ApplyInv /\ [Next]_vars => Core' /\ ApplyInv'
  BY CoreStep, ApplyStep
<1>3. Core /\ ApplyInv => PropertiesAsDeployed
  BY Transformed DEF PropertiesAsDeployed
<1> QED
  BY <1>1, <1>2, <1>3, PTL DEF Spec

(* A property that a specification requires is set, and what is set fits a *)
(* declaration of the property.                                            *)
THEOREM SetAsRequired == Spec => []RequiredAreSet
<1>1. Init => Core /\ ApplyInv
  BY CoreInit, ApplyInit
<1>2. Core /\ ApplyInv /\ [Next]_vars => Core' /\ ApplyInv'
  BY CoreStep, ApplyStep
<1>3. Core /\ ApplyInv => RequiredAreSet
  <2> SUFFICES ASSUME Core, ApplyInv, phase = "done", NEW t \in Types, NEW p \in Properties
               PROVE  LET all == AllElements
                          declarations ==
                             {all[i].declared[p] :
                                 i \in {k \in DOMAIN all : all[k].type = t /\ p \in DOMAIN all[k].declared}}
                          value == deployment_properties[t][p]
                      IN  IF value = Unset
                          THEN \A d \in declarations : Optional \in ToSet(d.liabilities)
                          ELSE \E d \in declarations : Fits(value, d)
    BY DEF RequiredAreSet
  <2>1. Satisfied(AllElements, t, p, deployment_properties[t][p])
    BY Transformed
  <2>2. About(AllElements, t, p) =
           {k \in DOMAIN AllElements : AllElements[k].type = t /\ p \in DOMAIN AllElements[k].declared}
    BY DEF About, IsAbout
  <2> QED
    BY <2>1, <2>2 DEF Satisfied
<1> QED
  BY <1>1, <1>2, <1>3, PTL DEF Spec
====
