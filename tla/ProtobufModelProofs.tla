--------------------------- MODULE ProtobufModelProofs ---------------------------
(***************************************************************************)
(* Proofs about ProtobufModel, for any files, declarations and programs.   *)
(* First what the operators compute that a single definition goes through: *)
(* lists, the layout of a struct, options, and the references of a message;*)
(* then the types; then one part of the inductive invariant at a time, in  *)
(* the order in which the parser gets there: the pool, the recursion over  *)
(* files and messages, definitions, references, resolution, and failures.  *)
(* The theorems are at the end.                                            *)
(***************************************************************************)
EXTENDS ProtobufModel, SequenceTheorems, FiniteSetTheorems, TLAPS

-----------------------------------------------------------------------------
(* Lists.                                                                  *)

(* A set of natural numbers has a least element.  Inductions below are by  *)
(* the least number that has no proof.                                     *)
LEMMA LeastNumber ==
    ASSUME NEW K, K \subseteq Nat, K # {}
    PROVE  Min(K) \in K /\ \A k \in K : Min(K) <= k
<1>1. PICK n \in K : TRUE
  OBVIOUS
<1> DEFINE below == {1..k : k \in {j \in K : j <= n}}
<1>2. n \in Nat /\ IsFiniteSet(1..n)
  BY FS_Interval
<1>3. IsWellFoundedOn(StrictSubsetOrdering(1..n), SUBSET (1..n))
  <2>1. FiniteSubsetsOf(1..n) = SUBSET (1..n)
    BY <1>2, FS_FiniteSubsetsOfFinite
  <2> QED
    BY <2>1, FS_StrictSubsetOrderingWellFounded
<1>4. below \subseteq SUBSET (1..n) /\ 1..n \in below
  <2>1. \A k \in K : k <= n => 1..k \subseteq 1..n
    BY <1>2
  <2> QED
    BY <2>1, <1>2
<1> HIDE DEF below
<1>5. PICK x \in below : \A y \in below : ~(<<y, x>> \in StrictSubsetOrdering(1..n))
  BY <1>3, <1>4, WFMin
<1>6. PICK m \in K : m <= n /\ x = 1..m
  BY <1>5 DEF below
<1>7. ASSUME NEW k \in K PROVE m <= k
  <2>1. SUFFICES ASSUME k < m PROVE FALSE
    OBVIOUS
  <2>2. 1..k \in below
    BY <1>2, <1>6, <2>1 DEF below
  <2>3. 1..k \subseteq 1..m /\ 1..k # 1..m
    <3>1. m \in 1..m /\ m \notin 1..k
      BY <2>1
    <3> QED
      BY <3>1, <2>1
  <2>4. <<1..k, 1..m>> \in StrictSubsetOrdering(1..n)
    BY <1>4, <1>5, <1>6, <2>2, <2>3 DEF StrictSubsetOrdering
  <2> QED
    BY <1>5, <1>6, <2>2, <2>4
<1>8. \E k \in K : \A j \in K : k <= j
  BY <1>6, <1>7
<1> QED
  BY <1>8 DEF Min

LEMMA ListType ==
    ASSUME NEW S, NEW s \in Seq(S)
    PROVE  Len(s) \in Nat /\ DOMAIN s = 1..Len(s) /\ \A i \in 1..Len(s) : s[i] \in S
OBVIOUS

LEMMA ToSetOfList ==
    ASSUME NEW S, NEW s \in Seq(S)
    PROVE  /\ ToSet(s) \subseteq S
           /\ \A i \in 1..Len(s) : s[i] \in ToSet(s)
           /\ \A x \in ToSet(s) : \E i \in 1..Len(s) : x = s[i]
BY DEF ToSet

LEMMA ToSetAppend ==
    ASSUME NEW S, NEW s \in Seq(S), NEW x \in S
    PROVE  ToSet(Append(s, x)) = ToSet(s) \cup {x}
<1> DEFINE t == Append(s, x)
<1>1. /\ t \in Seq(S) /\ Len(t) = Len(s) + 1 /\ t[Len(s) + 1] = x /\ Len(s) \in Nat
      /\ \A i \in 1..Len(s) : t[i] = s[i]
  OBVIOUS
<1> HIDE DEF t
<1>2. ASSUME NEW y \in ToSet(t) PROVE y \in ToSet(s) \cup {x}
  <2>1. PICK i \in 1..Len(t) : y = t[i]
    BY <1>1, ToSetOfList
  <2>2. i = Len(s) + 1 \/ i \in 1..Len(s)
    BY <1>1
  <2> QED
    BY <1>1, <2>1, <2>2, ToSetOfList
<1>3. ASSUME NEW y \in ToSet(s) PROVE y \in ToSet(t)
  <2>1. PICK i \in 1..Len(s) : y = s[i]
    BY ToSetOfList
  <2>2. i \in 1..Len(t) /\ t[i] = y
    BY <1>1, <2>1
  <2> QED
    BY <1>1, <2>2, ToSetOfList
<1>4. x \in ToSet(t)
  <2>1. Len(s) + 1 \in 1..Len(t)
    BY <1>1
  <2> QED
    BY <1>1, <2>1, ToSetOfList
<1> QED
  BY <1>2, <1>3, <1>4 DEF t

LEMMA ToSetConcat ==
    ASSUME NEW S, NEW s \in Seq(S), NEW t \in Seq(S)
    PROVE  ToSet(s \o t) = ToSet(s) \cup ToSet(t)
<1>1. /\ s \o t \in Seq(S) /\ Len(s \o t) = Len(s) + Len(t) /\ Len(s) \in Nat /\ Len(t) \in Nat
      /\ \A i \in 1..(Len(s) + Len(t)) : (s \o t)[i] = IF i <= Len(s) THEN s[i] ELSE t[i - Len(s)]
  BY ConcatProperties
<1>2. ASSUME NEW y \in ToSet(s \o t) PROVE y \in ToSet(s) \cup ToSet(t)
  <2>1. PICK i \in 1..(Len(s) + Len(t)) : y = (s \o t)[i]
    BY <1>1, ToSetOfList
  <2>2. CASE i <= Len(s)
    <3>1. i \in 1..Len(s) /\ y = s[i]
      BY <1>1, <2>1, <2>2
    <3> QED
      BY <3>1, ToSetOfList
  <2>3. CASE i > Len(s)
    <3>1. i - Len(s) \in 1..Len(t) /\ y = t[i - Len(s)]
      BY <1>1, <2>1, <2>3
    <3> QED
      BY <3>1, ToSetOfList
  <2> QED
    BY <1>1, <2>2, <2>3
<1>3. ASSUME NEW y \in ToSet(s) PROVE y \in ToSet(s \o t)
  <2>1. PICK i \in 1..Len(s) : y = s[i]
    BY ToSetOfList
  <2>2. i \in 1..Len(s \o t) /\ (s \o t)[i] = y
    BY <1>1, <2>1
  <2> QED
    BY <1>1, <2>2, ToSetOfList
<1>4. ASSUME NEW y \in ToSet(t) PROVE y \in ToSet(s \o t)
  <2>1. PICK i \in 1..Len(t) : y = t[i]
    BY ToSetOfList
  <2>2. i + Len(s) \in 1..(Len(s) + Len(t)) /\ ~(i + Len(s) <= Len(s)) /\ i + Len(s) - Len(s) = i
    BY <1>1, <2>1
  <2>3. i + Len(s) \in 1..Len(s \o t) /\ (s \o t)[i + Len(s)] = y
    BY <1>1, <2>1, <2>2
  <2> QED
    BY <1>1, <2>3, ToSetOfList
<1> QED
  BY <1>2, <1>3, <1>4

LEMMA FirstPart ==
    ASSUME NEW S, NEW s \in Seq(S), NEW k \in Nat, k <= Len(s)
    PROVE  /\ SubSeq(s, 1, k) \in Seq(S) /\ Len(SubSeq(s, 1, k)) = k
           /\ \A i \in 1..k : SubSeq(s, 1, k)[i] = s[i]
BY SubSeqProperties

(* A list that is not empty is its head and its tail.                      *)
LEMMA HeadAndTail ==
    ASSUME NEW S, NEW s \in Seq(S), s # <<>>
    PROVE  /\ Head(s) \in S /\ Head(s) = s[1] /\ Tail(s) \in Seq(S)
           /\ Len(s) \in Nat \ {0} /\ Len(Tail(s)) = Len(s) - 1
           /\ \A i \in 1..(Len(s) - 1) : Tail(s)[i] = s[i + 1]
           /\ ToSet(s) = {Head(s)} \cup ToSet(Tail(s))
<1>1. /\ Tail(s) \in Seq(S) /\ Len(Tail(s)) = Len(s) - 1 /\ Len(s) \in Nat \ {0}
      /\ Head(s) = s[1] /\ Head(s) \in S
      /\ \A i \in 1..(Len(s) - 1) : Tail(s)[i] = s[i + 1]
  BY HeadTailProperties, EmptySeq
<1> DEFINE t == Tail(s)
<1>2. /\ t \in Seq(S) /\ Len(t) = Len(s) - 1 /\ \A i \in 1..(Len(s) - 1) : t[i] = s[i + 1]
  BY <1>1
<1> HIDE DEF t
<1>3. ASSUME NEW x \in ToSet(t) PROVE x \in ToSet(s)
  <2>1. PICK i \in 1..Len(t) : x = t[i]
    BY <1>2, ToSetOfList
  <2>2. i + 1 \in 1..Len(s) /\ x = s[i + 1]
    BY <1>1, <1>2, <2>1
  <2> QED
    BY <2>2, ToSetOfList
<1>4. ASSUME NEW x \in ToSet(s), x # Head(s) PROVE x \in ToSet(t)
  <2>1. PICK i \in 1..Len(s) : x = s[i]
    BY ToSetOfList
  <2>2. i # 1
    BY <1>1, <1>4, <2>1
  <2>3. i - 1 \in 1..Len(t) /\ i - 1 \in 1..(Len(s) - 1) /\ (i - 1) + 1 = i
    BY <1>1, <1>2, <2>2
  <2>4. x = t[i - 1]
    BY <1>2, <2>1, <2>3
  <2> QED
    BY <1>2, <2>3, <2>4, ToSetOfList
<1>5. Head(s) \in ToSet(s)
  <2>1. 1 \in 1..Len(s)
    BY <1>1
  <2> QED
    BY <1>1, <2>1, ToSetOfList
<1> QED
  BY <1>1, <1>3, <1>4, <1>5 DEF t

(* Lists without repetition.                                               *)
LEMMA InjectiveTail ==
    ASSUME NEW S, NEW s \in Seq(S), s # <<>>, IsInjective(s)
    PROVE  Head(s) \notin ToSet(Tail(s)) /\ IsInjective(Tail(s))
<1>1. /\ Tail(s) \in Seq(S) /\ Len(Tail(s)) = Len(s) - 1 /\ Len(s) \in Nat \ {0}
      /\ Head(s) = s[1] /\ \A i \in 1..(Len(s) - 1) : Tail(s)[i] = s[i + 1]
  BY HeadAndTail
<1> DEFINE t == Tail(s)
<1>2. /\ t \in Seq(S) /\ Len(t) = Len(s) - 1 /\ \A i \in 1..Len(t) : t[i] = s[i + 1]
      /\ DOMAIN t = 1..Len(t) /\ DOMAIN s = 1..Len(s)
  BY <1>1
<1> HIDE DEF t
<1>3. \A i, j \in 1..Len(s) : s[i] = s[j] => i = j
  BY <1>2 DEF IsInjective
<1>4. Head(s) \notin ToSet(t)
  <2>1. SUFFICES ASSUME NEW i \in 1..Len(t), t[i] = Head(s) PROVE FALSE
    BY <1>2, ToSetOfList
  <2>2. i + 1 \in 1..Len(s) /\ 1 \in 1..Len(s) /\ s[i + 1] = s[1] /\ i + 1 # 1
    BY <1>1, <1>2, <2>1
  <2> QED
    BY <1>3, <2>2
<1>5. IsInjective(t)
  <2>1. SUFFICES ASSUME NEW i \in 1..Len(t), NEW j \in 1..Len(t), t[i] = t[j] PROVE i = j
    BY <1>2 DEF IsInjective
  <2>2. i + 1 \in 1..Len(s) /\ j + 1 \in 1..Len(s) /\ s[i + 1] = s[j + 1]
    BY <1>1, <1>2, <2>1
  <2>3. i + 1 = j + 1
    BY <1>3, <2>2
  <2> QED
    BY <2>3
<1> QED
  BY <1>4, <1>5 DEF t

LEMMA InjectiveConcat ==
    ASSUME NEW S, NEW s \in Seq(S), NEW t \in Seq(S), IsInjective(s), IsInjective(t),
           ToSet(s) \cap ToSet(t) = {}
    PROVE  IsInjective(s \o t)
<1> DEFINE u == s \o t
<1>1. /\ u \in Seq(S) /\ Len(u) = Len(s) + Len(t) /\ Len(s) \in Nat /\ Len(t) \in Nat
      /\ \A i \in 1..(Len(s) + Len(t)) : u[i] = IF i <= Len(s) THEN s[i] ELSE t[i - Len(s)]
  BY ConcatProperties
<1> HIDE DEF u
<1>2. DOMAIN u = 1..Len(u) /\ DOMAIN s = 1..Len(s) /\ DOMAIN t = 1..Len(t)
  BY <1>1
<1>3. /\ \A i \in 1..Len(s) : s[i] \in ToSet(s)
      /\ \A i \in 1..Len(t) : t[i] \in ToSet(t)
  BY ToSetOfList
<1>4. SUFFICES ASSUME NEW i \in 1..Len(u), NEW j \in 1..Len(u), u[i] = u[j] PROVE i = j
  BY <1>2 DEF IsInjective, u
<1>5. CASE i <= Len(s) /\ j <= Len(s)
  <2>1. i \in 1..Len(s) /\ j \in 1..Len(s) /\ s[i] = s[j]
    BY <1>1, <1>4, <1>5
  <2> QED
    BY <1>2, <2>1 DEF IsInjective
<1>6. CASE i > Len(s) /\ j > Len(s)
  <2>1. i - Len(s) \in 1..Len(t) /\ j - Len(s) \in 1..Len(t)
    BY <1>1, <1>6
  <2>2. t[i - Len(s)] = t[j - Len(s)]
    BY <1>1, <1>4, <1>6
  <2>3. i - Len(s) = j - Len(s)
    BY <1>2, <2>1, <2>2 DEF IsInjective
  <2> QED
    BY <1>1, <2>3
<1>7. CASE i <= Len(s) /\ j > Len(s)
  <2>1. i \in 1..Len(s) /\ j - Len(s) \in 1..Len(t)
    BY <1>1, <1>7
  <2>2. s[i] = t[j - Len(s)]
    BY <1>1, <1>4, <1>7
  <2> QED
    BY <1>3, <2>1, <2>2
<1>8. CASE i > Len(s) /\ j <= Len(s)
  <2>1. j \in 1..Len(s) /\ i - Len(s) \in 1..Len(t)
    BY <1>1, <1>8
  <2>2. s[j] = t[i - Len(s)]
    BY <1>1, <1>4, <1>8
  <2> QED
    BY <1>3, <2>1, <2>2
<1> QED
  BY <1>1, <1>5, <1>6, <1>7, <1>8

LEMMA InjectiveAppend ==
    ASSUME NEW S, NEW s \in Seq(S), NEW x \in S, IsInjective(s), x \notin ToSet(s)
    PROVE  IsInjective(Append(s, x))
<1>1. /\ Append(s, x) \in Seq(S) /\ Len(Append(s, x)) = Len(s) + 1 /\ Len(s) \in Nat
      /\ Append(s, x)[Len(s) + 1] = x /\ \A i \in 1..Len(s) : Append(s, x)[i] = s[i]
  OBVIOUS
<1> DEFINE t == Append(s, x)
<1>2. /\ DOMAIN t = 1..(Len(s) + 1) /\ DOMAIN s = 1..Len(s)
      /\ t[Len(s) + 1] = x /\ \A i \in 1..Len(s) : t[i] = s[i]
  BY <1>1
<1> HIDE DEF t
<1>3. \A i \in 1..Len(s) : s[i] # x
  BY ToSetOfList
<1>4. SUFFICES ASSUME NEW i \in 1..(Len(s) + 1), NEW j \in 1..(Len(s) + 1), t[i] = t[j] PROVE i = j
  BY <1>2 DEF IsInjective, t
<1>5. (i = Len(s) + 1 \/ i \in 1..Len(s)) /\ (j = Len(s) + 1 \/ j \in 1..Len(s))
  BY <1>1
<1> QED
  BY <1>2, <1>3, <1>4, <1>5 DEF IsInjective

LEMMA InjectiveCardinality ==
    ASSUME NEW S, NEW s \in Seq(S), IsInjective(s)
    PROVE  Len(s) = Cardinality(ToSet(s))
<1>1. Len(s) \in Nat /\ DOMAIN s = 1..Len(s) /\ s \in [1..Len(s) -> ToSet(s)]
  BY ToSetOfList
<1>2. s \in Bijection(1..Len(s), ToSet(s))
  <2>1. \A x \in ToSet(s) : \E i \in 1..Len(s) : s[i] = x
    BY ToSetOfList
  <2> QED
    BY <1>1, <2>1 DEF Bijection, Injection, Surjection, IsInjective
<1>3. IsFiniteSet(1..Len(s)) /\ Cardinality(1..Len(s)) = Len(s)
  BY <1>1, FS_Interval
<1> QED
  BY <1>2, <1>3, FS_Bijection DEF ExistsBijection

-----------------------------------------------------------------------------
(* The layout of a struct.  of[n] is the real oneof of field n, or 0.      *)

Entries == [oneof : Nat, members : Seq(Nat)]

IsLayout(layout, of, n) ==
    layout = [i \in 0..n |-> IF i = 0 THEN <<>> ELSE Placed(layout[i - 1], i, of[i])]

LEMMA LayoutExists ==
    ASSUME NEW of, NEW n \in Nat
    PROVE  \E layout : IsLayout(layout, of, n)
<1> DEFINE bad == {m \in 0..n : ~ \E layout : IsLayout(layout, of, m)}
<1>1. SUFFICES ASSUME bad # {} PROVE FALSE
  OBVIOUS
<1>2. bad \subseteq Nat
  OBVIOUS
<1>3. PICK m \in bad : \A k \in bad : m <= k
  <2> HIDE DEF bad
  <2> QED
    BY <1>1, <1>2, LeastNumber
<1>4. m \in 0..n /\ ~ \E layout : IsLayout(layout, of, m)
  BY <1>3
<1>5. CASE m = 0
  <2> DEFINE f == [i \in 0..0 |-> <<>>]
  <2>1. f = [i \in 0..0 |-> IF i = 0 THEN <<>> ELSE Placed(f[i - 1], i, of[i])]
    OBVIOUS
  <2>2. IsLayout(f, of, m)
    BY <1>5, <2>1 DEF IsLayout
  <2> QED
    BY <1>4, <2>2
<1>6. CASE m # 0
  <2>1. m - 1 \in 0..n /\ ~(m <= m - 1)
    BY <1>4, <1>6
  <2>2. PICK f : IsLayout(f, of, m - 1)
    BY <1>3, <2>1
  <2> DEFINE g == [i \in 0..m |-> IF i = m THEN Placed(f[m - 1], m, of[m]) ELSE f[i]]
  <2>3. ASSUME NEW i \in 0..m
        PROVE  g[i] = IF i = 0 THEN <<>> ELSE Placed(g[i - 1], i, of[i])
    <3>1. CASE i = m
      <4>1. m - 1 \in 0..m /\ m - 1 # m
        BY <1>4, <1>6
      <4>2. g[m - 1] = f[m - 1]
        BY <4>1
      <4> QED
        BY <1>6, <3>1, <4>2
    <3>2. CASE i # m
      <4>1. i \in 0..(m - 1) /\ (i # 0 => i - 1 \in 0..m /\ i - 1 # m)
        BY <1>4, <3>2
      <4>2. f[i] = IF i = 0 THEN <<>> ELSE Placed(f[i - 1], i, of[i])
        BY <2>2, <4>1 DEF IsLayout
      <4>3. i # 0 => g[i - 1] = f[i - 1]
        BY <4>1
      <4> QED
        BY <3>2, <4>2, <4>3
    <3> QED
      BY <3>1, <3>2
  <2>4. g = [i \in 0..m |-> g[i]]
    OBVIOUS
  <2> HIDE DEF g
  <2>5. IsLayout(g, of, m)
    BY <2>3, <2>4 DEF IsLayout
  <2> QED
    BY <1>4, <2>5
<1> QED
  BY <1>5, <1>6

(* An entry of a layout: a field that is in no oneof, or a union of fields *)
(* of its oneof in the order of the text.                                  *)
IsEntry(e, of, n) ==
    /\ e.members # <<>>
    /\ \A i \in ToSet(e.members) : i \in 1..n /\ of[i] = e.oneof
    /\ e.oneof = 0 => Len(e.members) = 1
    /\ \A i, j \in 1..Len(e.members) : i < j => e.members[i] < e.members[j]

LEMMA NewEntry ==
    ASSUME NEW of, NEW n \in Nat, of[n + 1] \in Nat
    PROVE  LET e == [oneof |-> of[n + 1], members |-> <<n + 1>>]
           IN  /\ e \in Entries /\ IsEntry(e, of, n + 1)
               /\ ToSet(e.members) = {n + 1} /\ Head(e.members) = n + 1
<1> DEFINE s == <<n + 1>>
<1>1. s \in Seq(Nat) /\ Len(s) = 1 /\ s[1] = n + 1 /\ s # <<>> /\ Head(s) = n + 1
  OBVIOUS
<1> HIDE DEF s
<1>2. ToSet(s) = {n + 1}
  <2>1. \A i \in 1..Len(s) : s[i] = n + 1
    BY <1>1
  <2>2. n + 1 \in ToSet(s)
    BY <1>1, ToSetOfList
  <2> QED
    BY <1>1, <2>1, <2>2, ToSetOfList
<1> DEFINE e == [oneof |-> of[n + 1], members |-> s]
<1>3. e \in Entries /\ e.oneof = of[n + 1] /\ e.members = s
  BY <1>1 DEF Entries
<1> HIDE DEF e
<1>4. IsEntry(e, of, n + 1)
  <2>1. \A i, j \in 1..Len(s) : ~(i < j)
    BY <1>1
  <2>2. n + 1 \in 1..(n + 1)
    OBVIOUS
  <2> QED
    BY <1>1, <1>2, <1>3, <2>1, <2>2 DEF IsEntry
<1> QED
  BY <1>1, <1>2, <1>3, <1>4 DEF e, s

LEMMA SameEntry ==
    ASSUME NEW of, NEW n \in Nat, NEW e \in Entries, IsEntry(e, of, n)
    PROVE  IsEntry(e, of, n + 1)
<1>1. \A i \in 1..n : i \in 1..(n + 1)
  OBVIOUS
<1> QED
  BY <1>1 DEF IsEntry

Longer(e, n) == [e EXCEPT !.members = Append(@, n)]

LEMMA LongerEntry ==
    ASSUME NEW of, NEW n \in Nat, NEW e \in Entries, IsEntry(e, of, n),
           of[n + 1] = e.oneof, e.oneof # 0
    PROVE  /\ Longer(e, n + 1) \in Entries /\ IsEntry(Longer(e, n + 1), of, n + 1)
           /\ Longer(e, n + 1).oneof = e.oneof
           /\ ToSet(Longer(e, n + 1).members) = ToSet(e.members) \cup {n + 1}
           /\ Head(Longer(e, n + 1).members) = Head(e.members)
<1> DEFINE s == e.members
           t == Append(s, n + 1)
<1>1. s \in Seq(Nat) /\ n + 1 \in Nat
  BY DEF Entries
<1>2. s # <<>> /\ \A i \in ToSet(s) : i \in 1..n /\ of[i] = e.oneof
  BY DEF IsEntry
<1>3. \A i, j \in 1..Len(s) : i < j => s[i] < s[j]
  BY DEF IsEntry
<1> HIDE DEF s
<1>4. /\ t \in Seq(Nat) /\ Len(s) \in Nat \ {0} /\ Len(t) = Len(s) + 1 /\ t[Len(s) + 1] = n + 1
      /\ \A i \in 1..Len(s) : t[i] = s[i]
  BY <1>1, <1>2
<1>5. ToSet(t) = ToSet(s) \cup {n + 1}
  BY <1>1, ToSetAppend
<1>6. t # <<>> /\ Head(t) = Head(s)
  BY <1>1, <1>2, <1>4
<1> HIDE DEF t
<1>7. ASSUME NEW i \in 1..Len(t), NEW j \in 1..Len(t), i < j
      PROVE  t[i] < t[j]
  <2>1. i \in 1..Len(s) /\ t[i] = s[i]
    BY <1>4, <1>7
  <2>2. CASE j \in 1..Len(s)
    BY <1>3, <1>4, <1>7, <2>1, <2>2
  <2>3. CASE j = Len(s) + 1
    <3>1. s[i] \in 1..n
      BY <1>1, <1>2, <2>1, ToSetOfList
    <3> QED
      BY <1>4, <2>1, <2>3, <3>1
  <2> QED
    BY <1>4, <2>2, <2>3
<1> DEFINE l == Longer(e, n + 1)
<1>8. l = [oneof |-> e.oneof, members |-> t]
  BY DEF Longer, Entries, s, t
<1>9. l \in Entries /\ l.oneof = e.oneof /\ l.members = t
  BY <1>4, <1>8 DEF Entries
<1> HIDE DEF l
<1>10. IsEntry(l, of, n + 1)
  <2>1. \A i \in ToSet(t) : i \in 1..(n + 1) /\ of[i] = e.oneof
    BY <1>2, <1>5
  <2> QED
    BY <1>6, <1>7, <1>9, <2>1 DEF IsEntry
<1> QED
  BY <1>5, <1>6, <1>9, <1>10 DEF l, s

(* The first n fields are in entries, each in one; a oneof has one union;  *)
(* entries keep the order of their first members.                          *)
IsWellPlaced(L, of, n) ==
    /\ L \in Seq(Entries)
    /\ \A k \in 1..Len(L) : IsEntry(L[k], of, n)
    /\ \A i \in 1..n : \E k \in 1..Len(L) : i \in ToSet(L[k].members)
    /\ \A i \in 1..n : \A j, k \in 1..Len(L) :
          i \in ToSet(L[j].members) /\ i \in ToSet(L[k].members) => j = k
    /\ \A j, k \in 1..Len(L) : L[j].oneof = L[k].oneof /\ L[j].oneof # 0 => j = k
    /\ \A j, k \in 1..Len(L) : j < k => Head(L[j].members) < Head(L[k].members)

LEMMA HeadOfEntry ==
    ASSUME NEW of, NEW n \in Nat, NEW e \in Entries, IsEntry(e, of, n)
    PROVE  Head(e.members) \in 1..n /\ Head(e.members) \in ToSet(e.members)
<1>1. e.members \in Seq(Nat) /\ e.members # <<>> /\ ToSet(e.members) \subseteq 1..n
  BY DEF Entries, IsEntry
<1> QED
  BY <1>1, HeadAndTail

LEMMA PlacedInUnion ==
    ASSUME NEW of, NEW n \in Nat, NEW L, IsWellPlaced(L, of, n), of[n + 1] \in Nat \ {0},
           NEW u \in 1..Len(L), L[u].oneof = of[n + 1]
    PROVE  IsWellPlaced(Placed(L, n + 1, of[n + 1]), of, n + 1)
<1> DEFINE o == of[n + 1]
           M == Placed(L, n + 1, o)
<1>1. L \in Seq(Entries) /\ Len(L) \in Nat /\ DOMAIN L = 1..Len(L) /\ \A k \in 1..Len(L) : L[k] \in Entries
  BY DEF IsWellPlaced
<1>2. M = [k \in 1..Len(L) |-> IF L[k].oneof = o THEN Longer(L[k], n + 1) ELSE L[k]]
  BY <1>1 DEF Placed, Longer
<1> HIDE DEF M
<1>3. \A k \in 1..Len(L) : /\ IsEntry(L[k], of, n) /\ IsEntry(L[k], of, n + 1)
                           /\ L[k].oneof = o <=> k = u
  BY <1>1, SameEntry DEF IsWellPlaced
<1>4. /\ Longer(L[u], n + 1) \in Entries /\ IsEntry(Longer(L[u], n + 1), of, n + 1)
      /\ Longer(L[u], n + 1).oneof = o
      /\ ToSet(Longer(L[u], n + 1).members) = ToSet(L[u].members) \cup {n + 1}
      /\ Head(Longer(L[u], n + 1).members) = Head(L[u].members)
  <2> DEFINE e == L[u]
  <2>1. e \in Entries /\ IsEntry(e, of, n) /\ of[n + 1] = e.oneof /\ e.oneof # 0
    BY <1>1, <1>3
  <2> HIDE DEF e
  <2>2. /\ Longer(e, n + 1) \in Entries /\ IsEntry(Longer(e, n + 1), of, n + 1)
        /\ Longer(e, n + 1).oneof = e.oneof
        /\ ToSet(Longer(e, n + 1).members) = ToSet(e.members) \cup {n + 1}
        /\ Head(Longer(e, n + 1).members) = Head(e.members)
    BY <2>1, LongerEntry
  <2> QED
    BY <2>1, <2>2 DEF e
<1>5. M[u] = Longer(L[u], n + 1) /\ \A k \in 1..Len(L) : k # u => M[k] = L[k]
  BY <1>2, <1>3
<1>6. M \in Seq(Entries) /\ Len(M) = Len(L)
  <2>1. M \in [1..Len(L) -> Entries]
    BY <1>1, <1>2, <1>3, <1>4
  <2> QED
    BY <1>1, <2>1, SeqDef
<1>7. \A k \in 1..Len(L) : /\ IsEntry(M[k], of, n + 1) /\ M[k].oneof = L[k].oneof
                           /\ Head(M[k].members) = Head(L[k].members)
                           /\ \A i : i \in ToSet(M[k].members) <=>
                                        i \in ToSet(L[k].members) \/ (i = n + 1 /\ k = u)
  BY <1>3, <1>4, <1>5
<1>8. \A k \in 1..Len(L) : n + 1 \notin ToSet(L[k].members)
  BY <1>3 DEF IsEntry
<1>9. \A i \in 1..(n + 1) : i \in 1..n \/ i = n + 1
  OBVIOUS
<1>10. \A i \in 1..(n + 1) : \E k \in 1..Len(M) : i \in ToSet(M[k].members)
  BY <1>6, <1>7, <1>9 DEF IsWellPlaced
<1>11. \A i \in 1..(n + 1) : \A j, k \in 1..Len(M) :
          i \in ToSet(M[j].members) /\ i \in ToSet(M[k].members) => j = k
  <2> SUFFICES ASSUME NEW i \in 1..(n + 1), NEW j \in 1..Len(L), NEW k \in 1..Len(L),
                      i \in ToSet(M[j].members), i \in ToSet(M[k].members)
               PROVE  j = k
    BY <1>6
  <2>1. CASE i = n + 1
    BY <1>7, <1>8, <2>1
  <2>2. CASE i \in 1..n
    <3>1. i # n + 1
      BY <2>2
    <3>2. i \in ToSet(L[j].members) /\ i \in ToSet(L[k].members)
      BY <1>7, <3>1
    <3> QED
      BY <2>2, <3>2 DEF IsWellPlaced
  <2> QED
    BY <1>9, <2>1, <2>2
<1>12. \A j, k \in 1..Len(M) : M[j].oneof = M[k].oneof /\ M[j].oneof # 0 => j = k
  BY <1>6, <1>7 DEF IsWellPlaced
<1>13. \A j, k \in 1..Len(M) : j < k => Head(M[j].members) < Head(M[k].members)
  BY <1>6, <1>7 DEF IsWellPlaced
<1>14. \A k \in 1..Len(M) : IsEntry(M[k], of, n + 1)
  BY <1>6, <1>7
<1>15. IsWellPlaced(M, of, n + 1)
  BY <1>6, <1>10, <1>11, <1>12, <1>13, <1>14 DEF IsWellPlaced
<1> QED
  BY <1>15 DEF M

LEMMA PlacedAlone ==
    ASSUME NEW of, NEW n \in Nat, NEW L, IsWellPlaced(L, of, n), of[n + 1] \in Nat,
           of[n + 1] # 0 => \A k \in 1..Len(L) : L[k].oneof # of[n + 1]
    PROVE  IsWellPlaced(Placed(L, n + 1, of[n + 1]), of, n + 1)
<1> DEFINE o == of[n + 1]
           e == [oneof |-> o, members |-> <<n + 1>>]
           M == Placed(L, n + 1, o)
           m == Len(L)
<1>1. L \in Seq(Entries) /\ m \in Nat /\ DOMAIN L = 1..m /\ \A k \in 1..m : L[k] \in Entries
  BY DEF IsWellPlaced
<1>2. /\ e \in Entries /\ IsEntry(e, of, n + 1) /\ e.oneof = o
      /\ ToSet(e.members) = {n + 1} /\ Head(e.members) = n + 1
  BY NewEntry
<1>3. M = Append(L, e)
  BY <1>1 DEF Placed
<1> HIDE DEF M, e
<1>4. M \in Seq(Entries) /\ Len(M) = m + 1 /\ M[m + 1] = e /\ \A k \in 1..m : M[k] = L[k]
  BY <1>1, <1>2, <1>3
<1> HIDE DEF m
<1>5. \A k \in 1..(m + 1) : k \in 1..m \/ k = m + 1
  BY <1>1
<1>6. \A k \in 1..m : /\ IsEntry(L[k], of, n) /\ IsEntry(L[k], of, n + 1)
                      /\ Head(L[k].members) \in 1..n
  BY <1>1, SameEntry, HeadOfEntry DEF IsWellPlaced, m
<1>7. \A k \in 1..m : n + 1 \notin ToSet(L[k].members)
  BY <1>6 DEF IsEntry
<1>8. \A k \in 1..(m + 1) : IsEntry(M[k], of, n + 1)
  BY <1>2, <1>4, <1>5, <1>6
<1>9. \A i \in 1..(n + 1) : \E k \in 1..(m + 1) : i \in ToSet(M[k].members)
  <2> TAKE i \in 1..(n + 1)
  <2>1. CASE i = n + 1
    <3>1. m + 1 \in 1..(m + 1) /\ i \in ToSet(M[m + 1].members)
      BY <1>1, <1>2, <1>4, <2>1
    <3> QED
      BY <3>1
  <2>2. CASE i \in 1..n
    <3>1. PICK k \in 1..m : i \in ToSet(L[k].members)
      BY <2>2 DEF IsWellPlaced, m
    <3>2. k \in 1..(m + 1) /\ i \in ToSet(M[k].members)
      BY <1>1, <1>4, <3>1
    <3> QED
      BY <3>2
  <2> QED
    BY <2>1, <2>2
<1>10. \A i \in 1..(n + 1) : \A j, k \in 1..(m + 1) :
          i \in ToSet(M[j].members) /\ i \in ToSet(M[k].members) => j = k
  <2> SUFFICES ASSUME NEW i \in 1..(n + 1), NEW j \in 1..(m + 1), NEW k \in 1..(m + 1),
                      i \in ToSet(M[j].members), i \in ToSet(M[k].members)
               PROVE  j = k
    OBVIOUS
  <2>1. CASE i = n + 1
    BY <1>4, <1>5, <1>7, <2>1
  <2>2. CASE i \in 1..n
    <3>1. i # n + 1
      BY <2>2
    <3>2. j \in 1..m /\ k \in 1..m
      BY <1>2, <1>4, <1>5, <3>1
    <3> QED
      BY <1>4, <2>2, <3>2 DEF IsWellPlaced, m
  <2> QED
    BY <2>1, <2>2
<1>11. \A j, k \in 1..(m + 1) : M[j].oneof = M[k].oneof /\ M[j].oneof # 0 => j = k
  <2>1. \A j, k \in 1..m : L[j].oneof = L[k].oneof /\ L[j].oneof # 0 => j = k
    BY DEF IsWellPlaced, m
  <2>2. o # 0 => \A k \in 1..m : L[k].oneof # o
    BY DEF m
  <2> HIDE DEF o
  <2> QED
    BY <1>2, <1>4, <1>5, <2>1, <2>2
<1>12. \A j, k \in 1..(m + 1) : j < k => Head(M[j].members) < Head(M[k].members)
  <2> SUFFICES ASSUME NEW j \in 1..(m + 1), NEW k \in 1..(m + 1), j < k
               PROVE  Head(M[j].members) < Head(M[k].members)
    OBVIOUS
  <2>1. j \in 1..m /\ M[j] = L[j]
    BY <1>1, <1>4
  <2>2. CASE k \in 1..m
    BY <1>4, <2>1, <2>2 DEF IsWellPlaced, m
  <2>3. CASE k = m + 1
    <3>1. Head(L[j].members) \in 1..n /\ Head(M[k].members) = n + 1
      BY <1>2, <1>4, <1>6, <2>1, <2>3
    <3> QED
      BY <2>1, <3>1
  <2> QED
    BY <1>5, <2>2, <2>3
<1>13. IsWellPlaced(M, of, n + 1)
  BY <1>4, <1>8, <1>9, <1>10, <1>11, <1>12 DEF IsWellPlaced
<1> QED
  BY <1>13 DEF M, e

LEMMA NothingPlaced == \A of : IsWellPlaced(<<>>, of, 0)
<1>1. <<>> \in Seq(Entries) /\ Len(<<>>) = 0 /\ 1..0 = {}
  BY EmptySeq
<1> QED
  BY <1>1 DEF IsWellPlaced

LEMMA WellPlaced ==
    ASSUME NEW of, NEW N \in Nat, \A i \in 1..N : of[i] \in Nat, NEW layout, IsLayout(layout, of, N)
    PROVE  \A n \in 0..N : IsWellPlaced(layout[n], of, n)
<1> DEFINE bad == {n \in 0..N : ~IsWellPlaced(layout[n], of, n)}
<1>1. SUFFICES ASSUME bad # {} PROVE FALSE
  OBVIOUS
<1>2. bad \subseteq Nat
  OBVIOUS
<1>3. PICK m \in bad : \A k \in bad : m <= k
  <2> HIDE DEF bad
  <2> QED
    BY <1>1, <1>2, LeastNumber
<1>4. m \in 0..N /\ ~IsWellPlaced(layout[m], of, m)
  BY <1>3
<1>5. layout[m] = IF m = 0 THEN <<>> ELSE Placed(layout[m - 1], m, of[m])
  BY <1>4 DEF IsLayout
<1>6. CASE m = 0
  BY <1>4, <1>5, <1>6, NothingPlaced
<1>7. CASE m # 0
  <2> DEFINE p == m - 1
  <2>1. p \in 0..N /\ p \in Nat /\ ~(m <= p) /\ m = p + 1 /\ of[p + 1] \in Nat
    BY <1>4, <1>7
  <2>2. IsWellPlaced(layout[p], of, p)
    BY <1>3, <2>1
  <2>3. layout[m] = Placed(layout[p], p + 1, of[p + 1])
    BY <1>5, <1>7, <2>1
  <2> HIDE DEF p
  <2> DEFINE L == layout[p]
  <2> HIDE DEF L
  <2>4. IsWellPlaced(L, of, p)
    BY <2>2 DEF L
  <2>5. CASE of[p + 1] # 0 /\ \E k \in 1..Len(L) : L[k].oneof = of[p + 1]
    BY <1>4, <2>1, <2>3, <2>4, <2>5, PlacedInUnion DEF L
  <2>6. CASE ~(of[p + 1] # 0 /\ \E k \in 1..Len(L) : L[k].oneof = of[p + 1])
    BY <1>4, <2>1, <2>3, <2>4, <2>6, PlacedAlone DEF L
  <2> QED
    BY <2>5, <2>6
<1> QED
  BY <1>6, <1>7

RealOneof(descriptor) ==
    [i \in 1..Len(descriptor.fields) |-> _real_oneof_index(descriptor.fields[i])]

LEMMA LayoutIs ==
    ASSUME NEW descriptor \in Descriptor
    PROVE  IsWellPlaced(Layout(descriptor), RealOneof(descriptor), Len(descriptor.fields))
<1> DEFINE N == Len(descriptor.fields)
           of == RealOneof(descriptor)
           f == CHOOSE g : g = [n \in 0..N |->
                    IF n = 0 THEN <<>> ELSE Placed(g[n - 1], n, _real_oneof_index(descriptor.fields[n]))]
<1>1. N \in Nat /\ \A i \in 1..N : descriptor.fields[i] \in Field
  BY DEF Descriptor
<1>2. \A i \in 1..N : of[i] = _real_oneof_index(descriptor.fields[i]) /\ of[i] \in Nat
  BY <1>1 DEF RealOneof, _real_oneof_index, Field
<1>3. Layout(descriptor) = f[N]
  BY DEF Layout
<1> HIDE DEF of
<1>4. ASSUME NEW g
      PROVE  [n \in 0..N |-> IF n = 0 THEN <<>> ELSE Placed(g[n - 1], n, of[n])]
               = [n \in 0..N |-> IF n = 0 THEN <<>>
                                 ELSE Placed(g[n - 1], n, _real_oneof_index(descriptor.fields[n]))]
  <2>1. \A n \in 0..N : n # 0 => n \in 1..N
    BY <1>1
  <2> HIDE DEF N
  <2> QED
    BY <1>2, <2>1
<1>5. f = [n \in 0..N |-> IF n = 0 THEN <<>>
                          ELSE Placed(f[n - 1], n, _real_oneof_index(descriptor.fields[n]))]
  <2>1. PICK g : g = [n \in 0..N |-> IF n = 0 THEN <<>> ELSE Placed(g[n - 1], n, of[n])]
    <3> HIDE DEF N
    <3> QED
      BY <1>1, LayoutExists DEF IsLayout
  <2>2. g = [n \in 0..N |-> IF n = 0 THEN <<>>
                            ELSE Placed(g[n - 1], n, _real_oneof_index(descriptor.fields[n]))]
    BY <1>4, <2>1
  <2> QED
    BY <2>2
<1> HIDE DEF f
<1>6. f = [n \in 0..N |-> IF n = 0 THEN <<>> ELSE Placed(f[n - 1], n, of[n])]
  BY <1>4, <1>5
<1> HIDE DEF N
<1>7. IsLayout(f, of, N)
  BY <1>6 DEF IsLayout
<1>8. IsWellPlaced(f[N], of, N)
  <2>1. N \in 0..N
    BY <1>1
  <2> QED
    BY <1>1, <1>2, <1>7, <2>1, WellPlaced
<1> QED
  BY <1>3, <1>8 DEF N, of

-----------------------------------------------------------------------------
(* Programs.                                                               *)

LEMMA ProgramType ==
    ASSUME program \in Programs
    PROVE  /\ program.order \in Seq(Files) /\ Len(program.order) \in Nat
           /\ \A i \in 1..Len(program.order) : program.order[i] \in Files
           /\ program.dependency \in [Files -> SUBSET Files]
           /\ \A f \in Files : program.options[f] \in Options
           /\ \A x \in Files \cup Definitions : program.members[x] \in Seq(Definitions)
           /\ DOMAIN program.members = Files \cup Definitions
           /\ \A d \in Definitions : /\ program.key[d] \in Keys
                                     /\ program.descriptor[d] \in Descriptor
           /\ IsForest(program.members)
           /\ Listed \subseteq Files
<1>1. program \in Program /\ IsForest(program.members)
  BY ProtobufModelAssumption
<1>2. program.order \in Seq(Files)
  BY <1>1 DEF Program
<1>3. /\ Len(program.order) \in Nat
      /\ \A i \in 1..Len(program.order) : program.order[i] \in Files
      /\ Listed \subseteq Files
  BY <1>2, ListType, ToSetOfList DEF Listed
<1>4. /\ program.dependency \in [Files -> SUBSET Files]
      /\ \A f \in Files : program.options[f] \in Options
  BY <1>1 DEF Program
<1>5. /\ \A x \in Files \cup Definitions : program.members[x] \in Seq(Definitions)
      /\ DOMAIN program.members = Files \cup Definitions
  BY <1>1 DEF Program
<1>6. \A d \in Definitions : program.key[d] \in Keys /\ program.descriptor[d] \in Descriptor
  BY <1>1 DEF Program
<1> QED
  BY <1>1, <1>2, <1>3, <1>4, <1>5, <1>6

(* A declaration is a member of one file or message, at one place.         *)
LEMMA OneParent ==
    ASSUME program \in Programs, NEW x \in Files \cup Definitions, NEW y \in Files \cup Definitions,
           NEW d, d \in ToSet(program.members[x]), d \in ToSet(program.members[y])
    PROVE  x = y
<1>1. /\ program.members[x] \in Seq(Definitions) /\ program.members[y] \in Seq(Definitions)
      /\ IsForest(program.members) /\ DOMAIN program.members = Files \cup Definitions
  BY ProgramType
<1>2. PICK i \in 1..Len(program.members[x]) : d = program.members[x][i]
  BY <1>1, ToSetOfList
<1>3. PICK j \in 1..Len(program.members[y]) : d = program.members[y][j]
  BY <1>1, ToSetOfList
<1>4. i \in DOMAIN program.members[x] /\ j \in DOMAIN program.members[y]
  BY <1>1, <1>2, <1>3, ListType
<1> QED
  BY <1>1, <1>2, <1>3, <1>4 DEF IsForest

LEMMA MembersDiffer ==
    ASSUME program \in Programs, NEW x \in Files \cup Definitions
    PROVE  IsInjective(program.members[x])
BY ProgramType DEF IsForest, IsInjective

-----------------------------------------------------------------------------
(* Options.                                                                *)

OptionValues == Texts \cup {"flag", "number"}

LEMMA OptionsType ==
    ASSUME NEW o \in Options
    PROVE  DOMAIN o \subseteq OptionNames /\ \A n \in DOMAIN o : o[n] \in OptionValues
<1>1. PICK N \in SUBSET OptionNames : o \in [N -> OptionValues]
  BY DEF Options, OptionValues
<1> QED
  BY <1>1

LEMMA MakeOptions ==
    ASSUME NEW N \in SUBSET OptionNames, NEW o \in [N -> OptionValues]
    PROVE  o \in Options
BY DEF Options, OptionValues

Keeps(n, o) == /\ n \in DOMAIN o /\ n # "max_count"
               /\ ~(n = "description" /\ o[n] \in Texts)

LEMMA PropertiesAre ==
    ASSUME NEW o \in Options
    PROVE  /\ deployment_properties(o) \in Options
           /\ \A n : n \in DOMAIN deployment_properties(o) <=> Keeps(n, o)
           /\ \A n \in DOMAIN deployment_properties(o) : deployment_properties(o)[n] = o[n]
<1> DEFINE N == {m \in DOMAIN o : m # "max_count" /\ (m = "description" => o[m] \notin Texts)}
           p == [n \in N |-> o[n]]
<1>1. deployment_properties(o) = p
  BY DEF deployment_properties
<1>2. N \in SUBSET OptionNames /\ p \in [N -> OptionValues]
  BY OptionsType
<1>3. p \in Options
  <2> HIDE DEF N, p
  <2> QED
    BY <1>2, MakeOptions
<1>4. DOMAIN p = N /\ \A n \in N : p[n] = o[n]
  OBVIOUS
<1>5. \A n : n \in N <=> Keeps(n, o)
  BY DEF Keeps
<1> HIDE DEF N, p
<1> QED
  BY <1>1, <1>3, <1>4, <1>5

LEMMA MergedIs ==
    ASSUME program \in Programs, NEW f \in Files, NEW o \in Options
    PROVE  Merged(f, o) \in Options /\ IsMergedFrom(f, o, Merged(f, o))
<1> DEFINE inherited == deployment_properties(program.options[f])
           local == deployment_properties(o)
           N == DOMAIN inherited \cup DOMAIN local
           m == [n \in N |-> IF n \in DOMAIN local THEN local[n] ELSE inherited[n]]
<1>1. Merged(f, o) = m
  BY DEF Merged
<1>2. program.options[f] \in Options
  BY ProgramType
<1>3. /\ local \in Options /\ \A n : n \in DOMAIN local <=> Keeps(n, o)
      /\ \A n \in DOMAIN local : local[n] = o[n]
  BY PropertiesAre
<1>4. /\ inherited \in Options /\ \A n : n \in DOMAIN inherited <=> Keeps(n, program.options[f])
      /\ \A n \in DOMAIN inherited : inherited[n] = program.options[f][n]
  BY <1>2, PropertiesAre
<1> HIDE DEF inherited, local
<1>5. /\ DOMAIN local \subseteq OptionNames /\ \A n \in DOMAIN local : local[n] \in OptionValues
      /\ DOMAIN inherited \subseteq OptionNames /\ \A n \in DOMAIN inherited : inherited[n] \in OptionValues
  BY <1>3, <1>4, OptionsType
<1>6. N \in SUBSET OptionNames /\ m \in [N -> OptionValues]
  BY <1>5
<1>7. /\ DOMAIN m = N /\ \A n \in DOMAIN local : m[n] = local[n]
      /\ \A n \in DOMAIN inherited : n \notin DOMAIN local => m[n] = inherited[n]
  OBVIOUS
<1>8. \A n : n \in DOMAIN m <=> n \in DOMAIN local \/ n \in DOMAIN inherited
  BY <1>7
<1> HIDE DEF N, m
<1>9. m \in Options
  BY <1>6, MakeOptions
<1>10. IsMergedFrom(f, o, m)
  <2>1. \A n : IF Keeps(n, o) THEN n \in DOMAIN m /\ m[n] = o[n]
               ELSE IF Keeps(n, program.options[f])
               THEN n \in DOMAIN m /\ m[n] = program.options[f][n]
               ELSE n \notin DOMAIN m
    BY <1>3, <1>4, <1>7, <1>8
  <2> QED
    BY <2>1 DEF IsMergedFrom, Keeps
<1> QED
  BY <1>1, <1>9, <1>10

-----------------------------------------------------------------------------
(* The references of a message.                                            *)

SlotsIn(d, n) ==
    UNION {{<<d, i, k>> : k \in NamedKinds(program.descriptor[d].fields[i])} : i \in 1..n}
SlotsOf(d) == SlotsIn(d, Len(program.descriptor[d].fields))

LEMMA KindsAre ==
    /\ Kinds[1] = "field_data_type" /\ Kinds[2] = "array_element_type"
    /\ Kinds[3] = "map_key_type" /\ Kinds[4] = "map_value_type"
    /\ ToSet(Kinds) = {Kinds[1], Kinds[2], Kinds[3], Kinds[4]}
<1>1. /\ Kinds[1] = "field_data_type" /\ Kinds[2] = "array_element_type"
      /\ Kinds[3] = "map_key_type" /\ Kinds[4] = "map_value_type"
      /\ DOMAIN Kinds = 1..4
  BY DEF Kinds
<1>2. 1..4 = {1, 2, 3, 4}
  OBVIOUS
<1> QED
  BY <1>1, <1>2 DEF ToSet

LEMMA NamedKindsType ==
    ASSUME NEW field \in Field
    PROVE  NamedKinds(field) \subseteq ToSet(Kinds) /\ \A k \in NamedKinds(field) : field.types[k] \in Keys
<1>1. PICK K \in SUBSET ToSet(Kinds) : field.types \in [K -> Keys \cup {Primitive}]
  BY DEF Field
<1> QED
  BY <1>1 DEF NamedKinds

(* One more place, if it holds a name.                                     *)
LEMMA RecordedIs ==
    ASSUME program \in Programs, NEW d \in Definitions,
           NEW i \in 1..Len(program.descriptor[d].fields), NEW k \in 1..4,
           NEW s \in Seq(Slots), IsInjective(s), <<d, i, Kinds[k]>> \notin ToSet(s)
    PROVE  /\ s \o Recorded(d, i, k) \in Seq(Slots) /\ IsInjective(s \o Recorded(d, i, k))
           /\ \A x : x \in ToSet(s \o Recorded(d, i, k)) <=>
                        \/ x \in ToSet(s)
                        \/ /\ x = <<d, i, Kinds[k]>>
                           /\ Kinds[k] \in NamedKinds(program.descriptor[d].fields[i])
<1> DEFINE slot == <<d, i, Kinds[k]>>
           isNamed == Kinds[k] \in NamedKinds(program.descriptor[d].fields[i])
<1>1. Recorded(d, i, k) = IF isNamed THEN <<slot>> ELSE <<>>
  BY DEF Recorded
<1>2. slot \in Slots
  <2>1. i \in Nat /\ Kinds[k] \in ToSet(Kinds)
    BY KindsAre
  <2> QED
    BY <2>1 DEF Slots
<1> HIDE DEF isNamed, slot
<1>3. CASE ~isNamed
  <2>1. s \o <<>> = s
    BY ConcatEmptySeq
  <2> QED
    BY <1>1, <1>3, <2>1 DEF isNamed
<1>4. CASE isNamed
  <2>1. s \o <<slot>> = Append(s, slot)
    BY <1>2, AppendIsConcat
  <2>2. Append(s, slot) \in Seq(Slots) /\ ToSet(Append(s, slot)) = ToSet(s) \cup {slot}
    BY <1>2, ToSetAppend
  <2>3. IsInjective(Append(s, slot))
    BY <1>2, InjectiveAppend DEF slot
  <2>4. \A x : x \in ToSet(Append(s, slot)) <=> x \in ToSet(s) \/ x = slot
    BY <2>2
  <2>5. s \o Recorded(d, i, k) = Append(s, slot)
    BY <1>1, <1>4, <2>1
  <2> QED
    BY <1>4, <2>2, <2>3, <2>4, <2>5 DEF slot, isNamed
<1> QED
  BY <1>3, <1>4

IsReferences(s, d, n) ==
    /\ s \in Seq(Slots) /\ IsInjective(s)
    /\ \A x : x \in ToSet(s) <=> x \in SlotsIn(d, n)

NextReferences(s, d, n) ==
    s \o Recorded(d, n, 1) \o Recorded(d, n, 2) \o Recorded(d, n, 3) \o Recorded(d, n, 4)

LEMMA SlotIn ==
    \A d, n, x : x \in SlotsIn(d, n) <=>
        \E i \in 1..n : \E k \in NamedKinds(program.descriptor[d].fields[i]) : x = <<d, i, k>>
BY DEF SlotsIn

LEMMA FieldRecorded ==
    ASSUME program \in Programs, NEW d \in Definitions, NEW p \in Nat,
           p + 1 \in 1..Len(program.descriptor[d].fields), NEW s, IsReferences(s, d, p)
    PROVE  IsReferences(NextReferences(s, d, p + 1), d, p + 1)
<1> DEFINE i == p + 1
           Named(k) == Kinds[k] \in NamedKinds(program.descriptor[d].fields[i])
           slot(k) == <<d, i, Kinds[k]>>
           s1 == s \o Recorded(d, i, 1)
           s2 == s1 \o Recorded(d, i, 2)
           s3 == s2 \o Recorded(d, i, 3)
           s4 == s3 \o Recorded(d, i, 4)
<1>1. slot(1) # slot(2) /\ slot(1) # slot(3) /\ slot(1) # slot(4) /\ slot(2) # slot(3)
      /\ slot(2) # slot(4) /\ slot(3) # slot(4)
  BY KindsAre
<1>2. \A k \in 1..4 : slot(k) \notin ToSet(s)
  <2>1. ASSUME NEW k \in 1..4, slot(k) \in SlotsIn(d, p) PROVE FALSE
    <3>1. PICK j \in 1..p : \E l \in NamedKinds(program.descriptor[d].fields[j]) : slot(k) = <<d, j, l>>
      BY <2>1, SlotIn
    <3>2. j = i
      BY <3>1
    <3> QED
      BY <3>1, <3>2
  <2> QED
    BY <2>1 DEF IsReferences
<1>3. i \in 1..Len(program.descriptor[d].fields) /\ s \in Seq(Slots) /\ IsInjective(s)
  BY DEF IsReferences
<1> HIDE DEF i, s1, s2, s3, s4
<1>4. /\ s1 \in Seq(Slots) /\ IsInjective(s1)
      /\ \A x : x \in ToSet(s1) <=> x \in ToSet(s) \/ (x = slot(1) /\ Named(1))
  BY <1>2, <1>3, RecordedIs DEF s1
<1>5. /\ s2 \in Seq(Slots) /\ IsInjective(s2)
      /\ \A x : x \in ToSet(s2) <=> x \in ToSet(s1) \/ (x = slot(2) /\ Named(2))
  <2>1. slot(2) \notin ToSet(s1)
    BY <1>1, <1>2, <1>4
  <2>2. s1 \in Seq(Slots) /\ 2 \in 1..4
    BY <1>4
  <2> QED
    BY <1>3, <1>4, <2>1, <2>2, RecordedIs DEF s2
<1>6. /\ s3 \in Seq(Slots) /\ IsInjective(s3)
      /\ \A x : x \in ToSet(s3) <=> x \in ToSet(s2) \/ (x = slot(3) /\ Named(3))
  <2>1. slot(3) \notin ToSet(s2)
    BY <1>1, <1>2, <1>4, <1>5
  <2>2. s2 \in Seq(Slots) /\ 3 \in 1..4
    BY <1>5
  <2> QED
    BY <1>3, <1>5, <2>1, <2>2, RecordedIs DEF s3
<1>7. /\ s4 \in Seq(Slots) /\ IsInjective(s4)
      /\ \A x : x \in ToSet(s4) <=> x \in ToSet(s3) \/ (x = slot(4) /\ Named(4))
  <2>1. slot(4) \notin ToSet(s3)
    BY <1>1, <1>2, <1>4, <1>5, <1>6
  <2>2. s3 \in Seq(Slots) /\ 4 \in 1..4
    BY <1>6
  <2> QED
    BY <1>3, <1>6, <2>1, <2>2, RecordedIs DEF s4
<1>8. \A x : x \in ToSet(s4) <=> x \in SlotsIn(d, p) \/ \E k \in 1..4 : x = slot(k) /\ Named(k)
  <2>1. 1..4 = {1, 2, 3, 4}
    OBVIOUS
  <2>2. \A x : x \in ToSet(s) <=> x \in SlotsIn(d, p)
    BY DEF IsReferences
  <2> HIDE DEF slot, Named
  <2> QED
    BY <1>4, <1>5, <1>6, <1>7, <2>1, <2>2
<1>9. \A x : (\E k \in 1..4 : x = slot(k) /\ Named(k)) <=>
              \E k \in NamedKinds(program.descriptor[d].fields[i]) : x = <<d, i, k>>
  <2>1. program.descriptor[d].fields[i] \in Field
    BY <1>3, ProgramType DEF Descriptor
  <2>2. \A k \in NamedKinds(program.descriptor[d].fields[i]) : \E l \in 1..4 : k = Kinds[l]
    BY <2>1, NamedKindsType, KindsAre
  <2> QED
    BY <2>2
<1>10. \A x : x \in SlotsIn(d, i) <=>
              x \in SlotsIn(d, p) \/ \E k \in NamedKinds(program.descriptor[d].fields[i]) : x = <<d, i, k>>
  <2> DEFINE Has(j, x) == \E k \in NamedKinds(program.descriptor[d].fields[j]) : x = <<d, j, k>>
  <2>1. \A j : j \in 1..i <=> j \in 1..p \/ j = i
    BY DEF i
  <2>2. \A n, x : x \in SlotsIn(d, n) <=> \E j \in 1..n : Has(j, x)
    BY SlotIn
  <2>3. SUFFICES \A x : x \in SlotsIn(d, i) <=> x \in SlotsIn(d, p) \/ Has(i, x)
    OBVIOUS
  <2> HIDE DEF Has
  <2> QED
    BY <2>1, <2>2
<1>11. \A x : x \in ToSet(s4) <=> x \in SlotsIn(d, i)
  BY <1>8, <1>9, <1>10
<1>12. IsReferences(s4, d, i)
  BY <1>7, <1>11 DEF IsReferences
<1>13. NextReferences(s, d, i) = s4
  BY DEF NextReferences, s1, s2, s3, s4
<1> QED
  BY <1>12, <1>13 DEF i

AreReferences(r, d, n) ==
    r = [i \in 0..n |-> IF i = 0 THEN <<>> ELSE NextReferences(r[i - 1], d, i)]

LEMMA ReferencesExist ==
    ASSUME NEW d, NEW n \in Nat
    PROVE  \E r : AreReferences(r, d, n)
<1> DEFINE bad == {m \in 0..n : ~ \E r : AreReferences(r, d, m)}
<1>1. SUFFICES ASSUME bad # {} PROVE FALSE
  OBVIOUS
<1>2. bad \subseteq Nat
  OBVIOUS
<1>3. PICK m \in bad : \A k \in bad : m <= k
  <2> HIDE DEF bad
  <2> QED
    BY <1>1, <1>2, LeastNumber
<1>4. m \in 0..n /\ ~ \E r : AreReferences(r, d, m)
  BY <1>3
<1>5. CASE m = 0
  <2> DEFINE f == [i \in 0..0 |-> <<>>]
  <2>1. f = [i \in 0..0 |-> IF i = 0 THEN <<>> ELSE NextReferences(f[i - 1], d, i)]
    OBVIOUS
  <2>2. AreReferences(f, d, m)
    BY <1>5, <2>1 DEF AreReferences
  <2> QED
    BY <1>4, <2>2
<1>6. CASE m # 0
  <2>1. m - 1 \in 0..n /\ ~(m <= m - 1)
    BY <1>4, <1>6
  <2>2. PICK f : AreReferences(f, d, m - 1)
    BY <1>3, <2>1
  <2> DEFINE g == [i \in 0..m |-> IF i = m THEN NextReferences(f[m - 1], d, m) ELSE f[i]]
  <2>3. ASSUME NEW i \in 0..m
        PROVE  g[i] = IF i = 0 THEN <<>> ELSE NextReferences(g[i - 1], d, i)
    <3>1. CASE i = m
      <4>1. m - 1 \in 0..m /\ m - 1 # m
        BY <1>4, <1>6
      <4>2. g[m - 1] = f[m - 1]
        BY <4>1
      <4> QED
        BY <1>6, <3>1, <4>2
    <3>2. CASE i # m
      <4>1. i \in 0..(m - 1) /\ (i # 0 => i - 1 \in 0..m /\ i - 1 # m)
        BY <1>4, <3>2
      <4>2. f[i] = IF i = 0 THEN <<>> ELSE NextReferences(f[i - 1], d, i)
        BY <2>2, <4>1 DEF AreReferences
      <4>3. i # 0 => g[i - 1] = f[i - 1]
        BY <4>1
      <4> QED
        BY <3>2, <4>2, <4>3
    <3> QED
      BY <3>1, <3>2
  <2>4. g = [i \in 0..m |-> g[i]]
    OBVIOUS
  <2> HIDE DEF g
  <2>5. AreReferences(g, d, m)
    BY <2>3, <2>4 DEF AreReferences
  <2> QED
    BY <1>4, <2>5
<1> QED
  BY <1>5, <1>6

LEMMA ReferencesAre ==
    ASSUME program \in Programs, NEW d \in Definitions
    PROVE  /\ References(d) \in Seq(Slots) /\ IsInjective(References(d))
           /\ \A x : x \in ToSet(References(d)) <=> x \in SlotsOf(d)
<1> DEFINE N == Len(program.descriptor[d].fields)
           r == CHOOSE g : g = [n \in 0..N |->
                    IF n = 0 THEN <<>>
                    ELSE g[n - 1] \o Recorded(d, n, 1) \o Recorded(d, n, 2)
                                  \o Recorded(d, n, 3) \o Recorded(d, n, 4)]
<1>1. N \in Nat
  BY ProgramType DEF Descriptor
<1>2. References(d) = r[N]
  BY DEF References
<1>3. \E g : AreReferences(g, d, N)
  <2> HIDE DEF N
  <2> QED
    BY <1>1, ReferencesExist
<1>4. AreReferences(r, d, N)
  BY <1>3 DEF AreReferences, NextReferences
<1> HIDE DEF r, N
<1> DEFINE bad == {n \in 0..N : ~IsReferences(r[n], d, n)}
<1>5. bad = {}
  <2>1. SUFFICES ASSUME bad # {} PROVE FALSE
    OBVIOUS
  <2>2. bad \subseteq Nat
    OBVIOUS
  <2>3. PICK m \in bad : \A k \in bad : m <= k
    <3> HIDE DEF bad
    <3> QED
      BY <2>1, <2>2, LeastNumber
  <2>4. m \in 0..N /\ ~IsReferences(r[m], d, m)
    BY <2>3
  <2>5. r[m] = IF m = 0 THEN <<>> ELSE NextReferences(r[m - 1], d, m)
    BY <2>4, <1>4 DEF AreReferences
  <2>6. CASE m = 0
    <3>1. <<>> \in Seq(Slots) /\ IsInjective(<<>>) /\ ToSet(<<>>) = {}
      BY DEF IsInjective, ToSet
    <3>2. \A x : x \notin SlotsIn(d, 0)
      BY SlotIn
    <3> QED
      BY <2>4, <2>5, <2>6, <3>1, <3>2 DEF IsReferences
  <2>7. CASE m # 0
    <3> DEFINE p == m - 1
    <3>1. p \in 0..N /\ p \in Nat /\ ~(m <= p) /\ m = p + 1 /\ p + 1 \in 1..N
      BY <1>1, <2>4, <2>7
    <3>2. IsReferences(r[p], d, p)
      BY <2>3, <3>1
    <3>3. r[m] = NextReferences(r[p], d, p + 1)
      BY <2>5, <2>7, <3>1
    <3> HIDE DEF p
    <3> QED
      BY <2>4, <3>1, <3>2, <3>3, FieldRecorded DEF N
  <2> QED
    BY <2>6, <2>7
<1>6. IsReferences(r[N], d, N)
  BY <1>1, <1>5
<1> QED
  BY <1>2, <1>6 DEF IsReferences, SlotsOf, N

-----------------------------------------------------------------------------
(* Types.                                                                  *)

Frames == [owner : Files \cup Definitions, rest : Seq(Definitions)]

LEMMA TopType ==
    ASSUME stack \in Seq(Frames), stack # <<>>
    PROVE  /\ Len(stack) \in Nat \ {0} /\ Top \in Frames /\ stack[1] \in Frames
           /\ Top.owner \in Files \cup Definitions /\ Top.rest \in Seq(Definitions)
           /\ Below \in Seq(Frames) /\ Len(Below) = Len(stack) - 1
           /\ \A i \in 1..(Len(stack) - 1) : Below[i] = stack[i]
<1>1. Len(stack) \in Nat \ {0} /\ \A i \in 1..Len(stack) : stack[i] \in Frames
  BY EmptySeq
<1>2. stack[1] \in Frames /\ stack[Len(stack)] \in Frames
  BY <1>1
<1>3. /\ Below \in Seq(Frames) /\ Len(Below) = Len(stack) - 1
      /\ \A i \in 1..(Len(stack) - 1) : Below[i] = stack[i]
  <2>1. Len(stack) - 1 \in Nat /\ Len(stack) - 1 <= Len(stack)
    BY <1>1
  <2> QED
    BY <2>1, FirstPart DEF Below
<1> QED
  BY <1>1, <1>2, <1>3 DEF Top, Frames

(* The stack after a member d of the frame on top has been begun.          *)
LEMMA PushedType ==
    ASSUME program \in Programs, stack \in Seq(Frames), stack # <<>>, Top.rest # <<>>,
           NEW d \in Definitions,
           NEW pushed, pushed = Below \o <<[Top EXCEPT !.rest = Tail(@)], Frame(d)>>
    PROVE  /\ pushed \in Seq(Frames) /\ Len(pushed) = Len(stack) + 1
           /\ \A i \in 1..(Len(stack) - 1) : pushed[i] = stack[i]
           /\ pushed[Len(stack)] = [owner |-> Top.owner, rest |-> Tail(Top.rest)]
           /\ pushed[Len(stack) + 1] = Frame(d)
<1> DEFINE n == Len(stack)
           t == [Top EXCEPT !.rest = Tail(@)]
           s == Below
<1>1. /\ n \in Nat \ {0} /\ Top \in Frames /\ s \in Seq(Frames) /\ Len(s) = n - 1
      /\ \A i \in 1..(n - 1) : s[i] = stack[i]
      /\ Top.owner \in Files \cup Definitions /\ Top.rest \in Seq(Definitions)
  BY TopType
<1>2. t = [owner |-> Top.owner, rest |-> Tail(Top.rest)]
  <2> DEFINE x == Top
  <2>1. x \in Frames
    BY <1>1
  <2> HIDE DEF x
  <2>2. PICK o, r0 : x = [owner |-> o, rest |-> r0]
    BY <2>1 DEF Frames
  <2>3. [x EXCEPT !.rest = Tail(@)] = [x EXCEPT !.rest = Tail(x.rest)]
    OBVIOUS
  <2>4. x.owner = o /\ x.rest = r0
    BY <2>2
  <2>5. \A v : [[owner |-> o, rest |-> r0] EXCEPT !.rest = v] = [owner |-> o, rest |-> v]
    OBVIOUS
  <2> QED
    BY <2>2, <2>3, <2>4, <2>5 DEF x
<1>3. t \in Frames
  <2>1. Tail(Top.rest) \in Seq(Definitions)
    BY <1>1, HeadAndTail
  <2> QED
    BY <1>1, <1>2, <2>1 DEF Frames
<1>4. Frame(d) \in Frames
  BY ProgramType DEF Frame, Frames
<1> HIDE DEF t, s, n
<1> DEFINE u == <<t, Frame(d)>>
<1>5. u \in Seq(Frames) /\ Len(u) = 2 /\ u[1] = t /\ u[2] = Frame(d)
  BY <1>3, <1>4
<1>6. pushed = s \o u
  BY DEF s, t
<1> HIDE DEF u
<1>7. /\ s \o u \in Seq(Frames) /\ Len(s \o u) = n + 1
      /\ \A i \in 1..(n + 1) : (s \o u)[i] = IF i <= n - 1 THEN s[i] ELSE u[i - (n - 1)]
  <2>1. /\ s \o u \in Seq(Frames) /\ Len(s \o u) = Len(s) + Len(u)
        /\ \A i \in 1..(Len(s) + Len(u)) :
              (s \o u)[i] = IF i <= Len(s) THEN s[i] ELSE u[i - Len(s)]
    BY <1>1, <1>5, ConcatProperties
  <2>2. Len(s) + Len(u) = n + 1
    BY <1>1, <1>5
  <2> QED
    BY <1>1, <2>1, <2>2
<1>8. /\ \A i \in 1..(n - 1) : (s \o u)[i] = s[i]
      /\ (s \o u)[n] = u[1] /\ (s \o u)[n + 1] = u[2]
  <2>1. \A i \in 1..(n - 1) : i \in 1..(n + 1) /\ i <= n - 1
    BY <1>1
  <2>2. n \in 1..(n + 1) /\ ~(n <= n - 1) /\ n - (n - 1) = 1
    BY <1>1
  <2>3. n + 1 \in 1..(n + 1) /\ ~(n + 1 <= n - 1) /\ n + 1 - (n - 1) = 2
    BY <1>1
  <2>4. \A i \in 1..(n - 1) : (s \o u)[i] = s[i]
    BY <1>7, <2>1
  <2>5. (s \o u)[n] = u[1]
    BY <1>7, <2>2
  <2>6. (s \o u)[n + 1] = u[2]
    <3> DEFINE m == n + 1
    <3>1. m \in 1..(n + 1) /\ ~(m <= n - 1) /\ m - (n - 1) = 2
      BY <1>1
    <3> HIDE DEF m
    <3>2. (s \o u)[m] = u[m - (n - 1)]
      BY <1>7, <3>1
    <3> QED
      BY <3>1, <3>2 DEF m
  <2> QED
    BY <2>4, <2>5, <2>6
<1> QED
  BY <1>1, <1>2, <1>5, <1>6, <1>7, <1>8 DEF n

LEMMA BlankType == Blank \in DefinitionRecord
<1>1. NoOptions \in Options
  <2>1. NoOptions \in [{} -> OptionValues] /\ {} \in SUBSET OptionNames
    BY DEF NoOptions
  <2> QED
    BY <2>1, MakeOptions
<1> QED
  BY <1>1 DEF Blank, DefinitionRecord

LEMMA DefinedType ==
    ASSUME program \in Programs, stack # <<>>, File \in Files, NEW d \in Definitions, CanDefine(d)
    PROVE  Defined(program.descriptor[d]) \in DefinitionRecord
<1> DEFINE said == program.descriptor[d]
           properties == Merged(File, said.options)
<1>1. said \in Descriptor /\ said.options \in Options
  BY ProgramType DEF Descriptor
<1>2. properties \in Options
  BY <1>1, MergedIs
<1>3. said.kind = "enum" => Size(said.options) \in {8, 16, 32}
  BY DEF CanDefine, IsEnum, HasSize, Size, Sizes
<1>4. said.kind = "message" \/ said.kind = "enum"
  BY <1>1 DEF Descriptor
<1> DEFINE signed == \E v \in ToSet(said.values) : v < 0
<1>5. signed \in BOOLEAN
  OBVIOUS
<1> HIDE DEF signed, properties
<1>6. \A z \in {8, 16, 32} :
         [Blank EXCEPT !.deployment_properties = properties, !.size = z, !.signed = signed]
            \in DefinitionRecord
  BY <1>2, <1>5, BlankType DEF DefinitionRecord
<1>7. [Blank EXCEPT !.deployment_properties = properties] \in DefinitionRecord
  BY <1>2, BlankType DEF DefinitionRecord
<1>8. CASE said.kind = "message"
  BY <1>7, <1>8 DEF Defined, properties
<1>9. CASE said.kind = "enum"
  BY <1>3, <1>6, <1>9 DEF Defined, properties, signed
<1> QED
  BY <1>4, <1>8, <1>9

Unions(f, descriptor) ==
    {[oneof |-> o, options |-> Merged(f, descriptor.oneofs[o])] : o \in RealOneofs(descriptor)}

LEMMA RealOneofsType ==
    ASSUME NEW descriptor \in Descriptor, IsMessage(descriptor)
    PROVE  \A o \in RealOneofs(descriptor) : o \in Nat /\ descriptor.oneofs[o] \in Options
<1>1. descriptor.oneofs \in Seq(Options)
  BY DEF Descriptor
<1>2. \A o \in RealOneofs(descriptor) : o \in DOMAIN descriptor.oneofs
  BY DEF RealOneofs, IsMessage
<1> QED
  BY <1>1, <1>2

LEMMA FieldsType ==
    ASSUME program \in Programs, NEW f \in Files, NEW d \in Definitions,
           IsMessage(program.descriptor[d]), definitions \in [Definitions -> DefinitionRecord],
           NEW after,
           after = [definitions EXCEPT ![d].fields = Layout(program.descriptor[d]),
                                       ![d].unions = Unions(f, program.descriptor[d])]
    PROVE  /\ after \in [Definitions -> DefinitionRecord]
           /\ \A e \in Definitions : e # d => after[e] = definitions[e]
           /\ after[d].fields = Layout(program.descriptor[d])
           /\ after[d].unions = Unions(f, program.descriptor[d])
           /\ after[d].deployment_properties = definitions[d].deployment_properties
           /\ after[d].size = definitions[d].size
<1> DEFINE said == program.descriptor[d]
           L == Layout(said)
           U == Unions(f, said)
<1>1. said \in Descriptor
  BY ProgramType
<1>2. L \in Seq([oneof : Nat, members : Seq(Nat)])
  BY <1>1, LayoutIs DEF IsWellPlaced, Entries
<1>3. U \in SUBSET [oneof : Nat, options : Options]
  <2>1. \A o \in RealOneofs(said) : o \in Nat /\ Merged(f, said.oneofs[o]) \in Options
    BY <1>1, RealOneofsType, MergedIs
  <2> QED
    BY <2>1 DEF Unions
<1>4. definitions[d] \in DefinitionRecord
  OBVIOUS
<1>5. after = [definitions EXCEPT ![d] = [[@ EXCEPT !.fields = L] EXCEPT !.unions = U]]
  <2> HIDE DEF L, U
  <2>1. after = [definitions EXCEPT ![d].fields = L, ![d].unions = U]
    BY DEF L, U, said
  <2> QED
    BY <2>1, <1>4 DEF DefinitionRecord
<1> DEFINE r == [[definitions[d] EXCEPT !.fields = L] EXCEPT !.unions = U]
<1> HIDE DEF L, U
<1>6. /\ r \in DefinitionRecord /\ r.fields = L /\ r.unions = U
      /\ r.deployment_properties = definitions[d].deployment_properties
      /\ r.size = definitions[d].size
  BY <1>2, <1>3, <1>4 DEF DefinitionRecord
<1>7. after = [definitions EXCEPT ![d] = r]
  BY <1>5
<1> HIDE DEF r
<1> QED
  BY <1>6, <1>7 DEF L, U, said

(* A stack begins with a file.                                             *)
TypeInv == TypeOK /\ (stack # <<>> => File \in Files)

LEMMA ProgramIsFixed == [Next]_vars => program' = program
BY DEF Next, vars, Validate, RejectSyntax, AddToPool, RejectFile, Defer, NextRound, RejectDependencies,
       EndPool, TransformFile, RejectMapEntry, EndFile, EndTransforming, AppendDefinition, RejectDefinition,
       TransformFields, RejectFields, Resolve, AppendIssue, EndResolving, Stopped, Fail

LEMMA TypeInit == Init => TypeInv
<1> SUFFICES ASSUME Init PROVE TypeInv
  OBVIOUS
<1>1. program \in Programs /\ program.order \in Seq(Files)
  BY ProgramType DEF Init
<1>2. <<>> \in Seq(Files) /\ <<>> \in Seq(Frames) /\ <<>> \in Seq(Slots)
  OBVIOUS
<1>3. definitions \in [Definitions -> DefinitionRecord]
  BY BlankType DEF Init
<1> QED
  BY <1>1, <1>2, <1>3 DEF Init, TypeInv, TypeOK, Frames

(* The three groups of actions each leave most of the state alone.         *)
Loading ==
    \/ Validate \/ RejectSyntax
    \/ AddToPool \/ RejectFile \/ Defer \/ NextRound \/ RejectDependencies \/ EndPool
Transforming ==
    \/ TransformFile \/ RejectMapEntry \/ EndFile \/ EndTransforming
    \/ \E d \in Definitions : AppendDefinition(d) \/ RejectDefinition(d)
    \/ TransformFields \/ RejectFields
Resolving == Resolve \/ AppendIssue \/ EndResolving

LEMMA NextIs == Next <=> Loading \/ Transforming \/ Resolving \/ Stopped
BY DEF Next, Loading, Transforming, Resolving

LEMMA FailType == TypeInv /\ Fail => TypeInv'
BY DEF TypeInv, TypeOK, Fail, pool, transformation, resolution, File

LEMMA LoadingType == TypeInv /\ Loading => TypeInv'
<1> SUFFICES ASSUME TypeInv, Loading PROVE TypeInv'
  OBVIOUS
<1> USE DEF TypeInv, TypeOK, pool, transformation, resolution, File
<1>1. CASE Validate
  BY <1>1 DEF Validate
<1>2. CASE RejectSyntax \/ RejectFile \/ RejectDependencies
  BY <1>2, FailType DEF RejectSyntax, RejectFile, RejectDependencies
<1>3. remaining_files # <<>> => /\ Head(remaining_files) \in Files /\ Tail(remaining_files) \in Seq(Files)
  BY HeadAndTail
<1>4. CASE AddToPool
  BY <1>3, <1>4 DEF AddToPool
<1>5. CASE Defer
  <2>1. Append(deferred_files, Head(remaining_files)) \in Seq(Files)
    BY <1>3, <1>5 DEF Defer
  <2> QED
    BY <1>3, <1>5, <2>1 DEF Defer
<1>6. CASE NextRound
  BY <1>6 DEF NextRound
<1>7. CASE EndPool
  BY <1>7, ProgramType DEF EndPool
<1> QED
  BY <1>1, <1>2, <1>4, <1>5, <1>6, <1>7 DEF Loading

LEMMA PushType == ASSUME TypeInv, NEW d \in Definitions, AppendDefinition(d) PROVE TypeInv'
<1>1. /\ program \in Programs /\ stack \in Seq(Frames) /\ definitions \in [Definitions -> DefinitionRecord]
      /\ definitions_by_key \subseteq Keys \X Definitions
  BY DEF TypeInv, TypeOK, Frames
<1>2. /\ stack # <<>> /\ Top.rest # <<>> /\ File \in Files /\ CanDefine(d)
      /\ stack' = Below \o <<[Top EXCEPT !.rest = Tail(@)], Frame(d)>>
  BY DEF AppendDefinition, Declares, TypeInv
<1>3. /\ stack' \in Seq(Frames) /\ Len(stack') = Len(stack) + 1
      /\ \A i \in 1..(Len(stack) - 1) : stack'[i] = stack[i]
      /\ stack'[Len(stack)] = [owner |-> Top.owner, rest |-> Tail(Top.rest)]
  BY <1>1, <1>2, PushedType
<1>4. stack'[1].owner = File
  <2>1. Len(stack) \in Nat \ {0}
    BY <1>1, <1>2, TopType
  <2>2. CASE Len(stack) = 1
    BY <1>3, <2>2 DEF Top, File
  <2>3. CASE Len(stack) # 1
    <3>1. \A n \in Nat \ {0} : n # 1 => 1 \in 1..(n - 1)
      OBVIOUS
    <3>2. 1 \in 1..(Len(stack) - 1)
      BY <2>1, <2>3, <3>1
    <3> QED
      BY <1>3, <3>2 DEF File
  <2> QED
    BY <2>2, <2>3
<1>5. definitions' \in [Definitions -> DefinitionRecord]
  <2>1. definitions' = [definitions EXCEPT ![d] = Defined(program.descriptor[d])]
    BY DEF AppendDefinition
  <2>2. Defined(program.descriptor[d]) \in DefinitionRecord
    BY <1>1, <1>2, DefinedType
  <2> QED
    BY <1>1, <2>1, <2>2
<1>6. definitions_by_key' \subseteq Keys \X Definitions
  <2>1. definitions_by_key' = definitions_by_key \cup {<<program.key[d], d>>}
    BY DEF AppendDefinition
  <2>2. program.key[d] \in Keys
    BY <1>1, ProgramType
  <2> QED
    BY <1>1, <2>1, <2>2
<1>7. /\ program' = program /\ phase' = phase /\ remaining_files' = remaining_files
      /\ deferred_files' = deferred_files /\ available_files' = available_files /\ added_file' = added_file
      /\ unresolved_references' = unresolved_references /\ bound' = bound
      /\ resolver_issues' = resolver_issues
  BY DEF AppendDefinition, pool, resolution
<1> QED
  BY <1>2, <1>3, <1>4, <1>5, <1>6, <1>7 DEF TypeInv, TypeOK, File, Frames

LEMMA FieldsStepType == TypeInv /\ TransformFields => TypeInv'
<1> SUFFICES ASSUME TypeInv, TransformFields PROVE TypeInv'
  OBVIOUS
<1>1. /\ program \in Programs /\ stack \in Seq(Frames) /\ definitions \in [Definitions -> DefinitionRecord]
      /\ unresolved_references \in Seq(Slots) /\ File \in Files
  BY DEF TypeInv, TypeOK, Frames, TransformFields
<1> DEFINE d == Top.owner
<1>2. /\ stack # <<>> /\ d \in Definitions /\ stack' = Below /\ IsMessage(program.descriptor[d])
      /\ definitions' = [definitions EXCEPT ![d].fields = Layout(program.descriptor[d]),
                                            ![d].unions = Unions(File, program.descriptor[d])]
      /\ unresolved_references' = unresolved_references \o References(d)
  BY DEF TransformFields, Unions
<1>3. /\ program' = program /\ phase' = phase /\ remaining_files' = remaining_files
      /\ deferred_files' = deferred_files /\ available_files' = available_files /\ added_file' = added_file
      /\ definitions_by_key' = definitions_by_key
      /\ bound' = bound /\ resolver_issues' = resolver_issues
  BY DEF TransformFields, pool, resolution
<1> HIDE DEF d
<1>4. definitions' \in [Definitions -> DefinitionRecord]
  BY <1>1, <1>2, FieldsType
<1>5. unresolved_references' \in Seq(Slots)
  BY <1>1, <1>2, ReferencesAre, ConcatProperties
<1>6. stack' \in Seq(Frames) /\ (stack' # <<>> => stack'[1] = stack[1])
  <2>1. /\ Len(stack) \in Nat \ {0} /\ Below \in Seq(Frames) /\ Len(Below) = Len(stack) - 1
        /\ \A i \in 1..(Len(stack) - 1) : Below[i] = stack[i]
    BY <1>1, <1>2, TopType
  <2>2. Below # <<>> => 1 \in 1..(Len(stack) - 1)
    BY <2>1
  <2> QED
    BY <1>2, <2>1, <2>2
<1> QED
  BY <1>1, <1>3, <1>4, <1>5, <1>6 DEF TypeInv, TypeOK, Frames, File

LEMMA TransformingType == TypeInv /\ Transforming => TypeInv'
<1> SUFFICES ASSUME TypeInv, Transforming PROVE TypeInv'
  OBVIOUS
<1>1. CASE TransformFile
  <2> DEFINE f == Head(remaining_files)
  <2>1. f \in Files /\ Tail(remaining_files) \in Seq(Files)
    BY <1>1, HeadAndTail DEF TransformFile, TypeInv, TypeOK
  <2> HIDE DEF f
  <2>2. Frame(f) \in Frames /\ Frame(f).owner = f
    BY <2>1, ProgramType DEF Frame, Frames, TypeInv, TypeOK
  <2>3. stack' = <<Frame(f)>>
    BY <1>1 DEF TransformFile, f
  <2>4. stack' \in Seq(Frames) /\ File' \in Files
    BY <2>1, <2>2, <2>3 DEF File
  <2>5. /\ program' = program /\ phase' = phase /\ remaining_files' = Tail(remaining_files)
        /\ deferred_files' = deferred_files /\ available_files' = available_files /\ added_file' = added_file
        /\ definitions_by_key' = definitions_by_key /\ definitions' = definitions
        /\ unresolved_references' = unresolved_references
        /\ bound' = bound /\ resolver_issues' = resolver_issues
    BY <1>1 DEF TransformFile, pool, resolution
  <2> QED
    BY <2>1, <2>4, <2>5 DEF TypeInv, TypeOK, Frames
<1>2. CASE RejectMapEntry \/ RejectFields \/ \E d \in Definitions : RejectDefinition(d)
  BY <1>2, FailType DEF RejectMapEntry, RejectFields, RejectDefinition
<1>3. CASE EndFile
  <2>1. <<>> \in Seq(Frames)
    OBVIOUS
  <2> QED
    BY <1>3, <2>1 DEF EndFile, TypeInv, TypeOK, Frames, pool, resolution
<1>4. CASE EndTransforming
  BY <1>4 DEF EndTransforming, TypeInv, TypeOK, File, pool, transformation, resolution
<1>5. CASE \E d \in Definitions : AppendDefinition(d)
  BY <1>5, PushType
<1>6. CASE TransformFields
  BY <1>6, FieldsStepType
<1> QED
  BY <1>1, <1>2, <1>3, <1>4, <1>5, <1>6 DEF Transforming

LEMMA ResolvingType == TypeInv /\ Resolving => TypeInv'
<1> SUFFICES ASSUME TypeInv, Resolving PROVE TypeInv'
  OBVIOUS
<1> USE DEF TypeInv, TypeOK, pool, transformation, resolution, File
<1>1. unresolved_references # <<>> => /\ Head(unresolved_references) \in Slots
                                      /\ Tail(unresolved_references) \in Seq(Slots)
  BY HeadAndTail
<1>2. CASE Resolve
  <2>1. PICK d \in Definitions : bound' = bound \cup {<<Head(unresolved_references), d>>}
    BY <1>2 DEF Resolve
  <2> QED
    BY <1>1, <1>2, <2>1 DEF Resolve
<1>3. CASE AppendIssue
  <2>1. resolver_issues' \in Seq(Slots)
    BY <1>1, <1>3 DEF AppendIssue
  <2> QED
    BY <1>1, <1>3, <2>1 DEF AppendIssue, RestAfterIssue
<1>4. CASE EndResolving
  BY <1>4 DEF EndResolving
<1> QED
  BY <1>2, <1>3, <1>4 DEF Resolving

LEMMA TypeStep == TypeInv /\ [Next]_vars => TypeInv'
<1> SUFFICES ASSUME TypeInv, [Next]_vars PROVE TypeInv'
  OBVIOUS
<1>1. CASE UNCHANGED vars
  BY <1>1 DEF TypeInv, TypeOK, vars, pool, transformation, resolution, File
<1> QED
  BY <1>1, NextIs, LoadingType, TransformingType, ResolvingType DEF Stopped

LEMMA TypeAlways == Spec => []TypeInv
BY TypeInit, TypeStep, PTL DEF Spec

(* Every variable keeps its type, the fields and unions that are laid out  *)
(* and the references that are recorded included.                          *)
THEOREM TypeCorrect == Spec => []TypeOK
<1>1. TypeInv => TypeOK
  BY DEF TypeInv
<1> QED
  BY <1>1, TypeAlways, PTL

-----------------------------------------------------------------------------
(* Declarations in files and in messages.                                  *)

IsClosed(roots, D) == \A x \in roots \cup D : ToSet(program.members[x]) \subseteq D

LEMMA DeclaredIs ==
    \A d : d \in Declared <=>
              d \in Definitions /\ \A D \in SUBSET Definitions : IsClosed(Listed, D) => d \in D
BY DEF Declared, IsClosed

LEMMA WithinIs ==
    \A x, d : d \in Within(x) <=>
                 d \in Definitions /\ \A D \in SUBSET Definitions : IsClosed({x}, D) => d \in D
BY DEF Within, IsClosed

LEMMA MembersType ==
    ASSUME program \in Programs, NEW x \in Files \cup Definitions
    PROVE  ToSet(program.members[x]) \subseteq Definitions
BY ProgramType, ToSetOfList

LEMMA DeclaredClosed ==
    ASSUME program \in Programs
    PROVE  IsClosed(Listed, Declared) /\ Declared \subseteq Definitions
<1>1. Declared \subseteq Definitions
  BY DeclaredIs
<1>2. ASSUME NEW x \in Listed \cup Declared, NEW d \in ToSet(program.members[x])
      PROVE  d \in Declared
  <2>1. x \in Files \cup Definitions
    BY <1>1, ProgramType
  <2>2. d \in Definitions
    BY <1>2, <2>1, MembersType
  <2>3. ASSUME NEW D \in SUBSET Definitions, IsClosed(Listed, D) PROVE d \in D
    <3>1. x \in Listed \cup D
      BY <1>2, <2>3, DeclaredIs
    <3> QED
      BY <1>2, <2>3, <3>1 DEF IsClosed
  <2> QED
    BY <2>2, <2>3, DeclaredIs
<1> QED
  BY <1>1, <1>2 DEF IsClosed

LEMMA DeclaredLeast ==
    ASSUME NEW D \in SUBSET Definitions, IsClosed(Listed, D)
    PROVE  Declared \subseteq D
BY DeclaredIs

LEMMA WithinClosed ==
    ASSUME program \in Programs, NEW x \in Files
    PROVE  IsClosed({x}, Within(x)) /\ Within(x) \subseteq Definitions
<1>1. Within(x) \subseteq Definitions
  BY WithinIs
<1>2. ASSUME NEW y \in {x} \cup Within(x), NEW d \in ToSet(program.members[y])
      PROVE  d \in Within(x)
  <2>1. y \in Files \cup Definitions
    BY <1>1
  <2>2. d \in Definitions
    BY <1>2, <2>1, MembersType
  <2>3. ASSUME NEW D \in SUBSET Definitions, IsClosed({x}, D) PROVE d \in D
    <3>1. y \in {x} \cup D
      BY <1>2, <2>3, WithinIs
    <3> QED
      BY <1>2, <2>3, <3>1 DEF IsClosed
  <2> QED
    BY <2>2, <2>3, WithinIs
<1> QED
  BY <1>1, <1>2 DEF IsClosed

LEMMA WithinDeclared ==
    ASSUME program \in Programs, NEW f \in Listed
    PROVE  Within(f) \subseteq Declared
<1>1. IsClosed({f}, Declared) /\ Declared \in SUBSET Definitions
  BY DeclaredClosed DEF IsClosed
<1> QED
  BY <1>1, WithinIs

(* What is within a file is a member of the file or of what is within it.  *)
LEMMA WithinParent ==
    ASSUME program \in Programs, NEW x \in Files, NEW e \in Within(x)
    PROVE  \E y \in {x} \cup Within(x) : e \in ToSet(program.members[y])
<1> SUFFICES ASSUME \A y \in {x} \cup Within(x) : e \notin ToSet(program.members[y])
             PROVE  FALSE
  OBVIOUS
<1> DEFINE D == Within(x) \ {e}
<1>1. IsClosed({x}, Within(x)) /\ Within(x) \subseteq Definitions
  BY WithinClosed
<1>2. IsClosed({x}, D) /\ D \in SUBSET Definitions
  BY <1>1 DEF IsClosed
<1>3. e \in D
  <2> HIDE DEF D
  <2> QED
    BY <1>2, WithinIs
<1> QED
  BY <1>3

(* A declaration is in one file.                                           *)
LEMMA OneFile ==
    ASSUME program \in Programs, NEW f \in Files, NEW g \in Files, NEW d,
           d \in Within(f), d \in Within(g)
    PROVE  f = g
<1> SUFFICES ASSUME f # g PROVE FALSE
  OBVIOUS
<1> DEFINE D == Within(f) \ Within(g)
<1>1. IsClosed({f}, Within(f)) /\ Within(f) \subseteq Definitions /\ Within(g) \subseteq Definitions
  BY WithinClosed
<1>2. f \notin Definitions /\ g \notin Definitions
  BY ProtobufModelAssumption
<1>3. ASSUME NEW y \in {f} \cup D, NEW e \in ToSet(program.members[y])
      PROVE  e \in D
  <2>1. e \in Within(f)
    BY <1>1, <1>3 DEF IsClosed
  <2>2. ASSUME e \in Within(g) PROVE FALSE
    <3>1. PICK z \in {g} \cup Within(g) : e \in ToSet(program.members[z])
      BY <2>2, WithinParent
    <3>2. y \in Files \cup Definitions /\ z \in Files \cup Definitions
      BY <1>1
    <3>3. y = z
      BY <1>3, <3>1, <3>2, OneParent
    <3> QED
      BY <1>1, <1>2, <3>1, <3>3
  <2> QED
    BY <2>1, <2>2
<1>4. IsClosed({f}, D) /\ D \in SUBSET Definitions
  BY <1>1, <1>3 DEF IsClosed
<1>5. d \in D
  <2> HIDE DEF D
  <2> QED
    BY <1>4, WithinIs
<1> QED
  BY <1>5

(* What is declared is in a listed file.                                   *)
LEMMA DeclaredWithin ==
    ASSUME program \in Programs, NEW d \in Declared
    PROVE  \E f \in Listed : d \in Within(f)
<1> DEFINE D == {e \in Definitions : \E f \in Listed : e \in Within(f)}
<1>1. Listed \subseteq Files
  BY ProgramType
<1>2. ASSUME NEW x \in Listed \cup D, NEW e \in ToSet(program.members[x]) PROVE e \in D
  <2>1. PICK f \in Listed : x \in {f} \cup Within(f)
    BY <1>2
  <2>2. e \in Within(f) /\ Within(f) \subseteq Definitions
    BY <1>1, <1>2, <2>1, WithinClosed DEF IsClosed
  <2> QED
    BY <2>2
<1>3. IsClosed(Listed, D) /\ D \in SUBSET Definitions
  BY <1>2 DEF IsClosed
<1>4. d \in D
  <2> HIDE DEF D
  <2> QED
    BY <1>3, DeclaredLeast
<1> QED
  BY <1>4

LEMMA AllSlotsAre ==
    ASSUME program \in Programs
    PROVE  \A x : x \in AllSlots <=> \E d \in Declared : x \in SlotsOf(d)
<1>1. \A d \in Declared : DOMAIN program.descriptor[d].fields = 1..Len(program.descriptor[d].fields)
  BY ProgramType, DeclaredIs DEF Descriptor
<1> QED
  BY <1>1 DEF AllSlots, SlotsOf, SlotsIn, NamedKinds

-----------------------------------------------------------------------------
(* What is said of the input does not change.                              *)

LEMMA SameInput ==
    ASSUME program' = program
    PROVE  /\ Listed' = Listed /\ Declared' = Declared /\ (HasPool <=> HasPool')
           /\ AllSlots' = AllSlots
           /\ \A x : Within(x)' = Within(x) /\ Frame(x)' = Frame(x)
           /\ \A k : Meant(k)' = Meant(k)
           /\ \A slot : KeyIn(slot)' = KeyIn(slot)
           /\ \A d : SlotsOf(d)' = SlotsOf(d)
           /\ \A f, o : Merged(f, o)' = Merged(f, o)
           /\ \A f, o : Unions(f, o)' = Unions(f, o)
           /\ \A f : KeysOf(f)' = KeysOf(f) /\ Imports(f)' = Imports(f)
           /\ (WellFormed' <=> WellFormed) /\ (ImportsWhatItNames' <=> ImportsWhatItNames)
<1>1. Listed' = Listed /\ (HasPool <=> HasPool')
  BY DEF Listed, HasPool
<1>2. Declared' = Declared
  BY <1>1 DEF Declared
<1>3. AllSlots' = AllSlots
  BY <1>2 DEF AllSlots
<1>4. \A x : Within(x)' = Within(x) /\ Frame(x)' = Frame(x)
  BY DEF Within, Frame
<1>5. \A k : Meant(k)' = Meant(k)
  BY <1>2 DEF Meant
<1>6. \A slot : KeyIn(slot)' = KeyIn(slot)
  BY DEF KeyIn
<1>7. \A d : SlotsOf(d)' = SlotsOf(d)
  BY DEF SlotsOf, SlotsIn
<1>8. \A f, o : Merged(f, o)' = Merged(f, o)
  BY DEF Merged
<1>9. \A f, o : Unions(f, o)' = Unions(f, o)
  BY <1>8 DEF Unions
<1>10. WellFormed' <=> WellFormed
  <2>1. HasUniqueKeys' <=> HasUniqueKeys
    BY <1>2 DEF HasUniqueKeys
  <2> QED
    BY <1>1, <1>2, <1>3, <1>5, <1>6, <2>1 DEF WellFormed
<1>11. \A f : KeysOf(f)' = KeysOf(f)
  BY <1>4 DEF KeysOf
<1>12. \A f : Imports(f)' = Imports(f)
  BY DEF Imports
<1>13. ImportsWhatItNames' <=> ImportsWhatItNames
  BY <1>1, <1>4, <1>11, <1>12 DEF ImportsWhatItNames
<1> QED
  BY <1>1, <1>2, <1>3, <1>4, <1>5, <1>6, <1>7, <1>8, <1>9, <1>10, <1>11, <1>12, <1>13

-----------------------------------------------------------------------------
(* Phases.                                                                 *)

Late == phase \in {"transforming", "resolving", "done"}

PhaseInv ==
    /\ phase \in {"loading", "pool"} =>
          stack = <<>> /\ definitions_by_key = {} /\ unresolved_references = <<>>
    /\ phase \in {"loading", "pool", "transforming"} => bound = {} /\ resolver_issues = <<>>
    /\ phase \in {"resolving", "done"} => stack = <<>> /\ remaining_files = <<>>
    /\ phase = "done" => unresolved_references = <<>> /\ resolver_issues = <<>>
    /\ phase \notin {"loading", "failed"} => Listed \subseteq program.proto3

LEMMA PhaseInit == Init => PhaseInv
BY DEF Init, PhaseInv

LEMMA PhaseStep == PhaseInv /\ [Next]_vars => PhaseInv'
<1> SUFFICES ASSUME PhaseInv, [Next]_vars PROVE PhaseInv'
  OBVIOUS
<1>1. program' = program /\ Listed' = Listed
  BY ProgramIsFixed, SameInput
<1> USE <1>1 DEF PhaseInv, pool, transformation, resolution
<1>2. CASE UNCHANGED vars
  BY <1>2 DEF vars
<1>3. Fail => PhaseInv'
  BY DEF Fail
<1>4. CASE Validate \/ AddToPool \/ Defer \/ NextRound \/ EndPool
  BY <1>4 DEF Validate, AddToPool, Defer, NextRound, EndPool, IsProto3, Listed
<1>5. CASE RejectSyntax \/ RejectFile \/ RejectDependencies \/ RejectMapEntry \/ RejectFields
             \/ \E d \in Definitions : RejectDefinition(d)
  BY <1>3, <1>5 DEF RejectSyntax, RejectFile, RejectDependencies, RejectMapEntry, RejectFields, RejectDefinition
<1>6. CASE TransformFile \/ EndFile \/ EndTransforming
  BY <1>6 DEF TransformFile, EndFile, EndTransforming
<1>7. CASE \E d \in Definitions : AppendDefinition(d)
  BY <1>7 DEF AppendDefinition, Declares
<1>8. CASE TransformFields
  BY <1>8 DEF TransformFields
<1>9. CASE Resolve \/ AppendIssue \/ EndResolving
  BY <1>9 DEF Resolve, AppendIssue, EndResolving
<1> QED
  BY <1>2, <1>4, <1>5, <1>6, <1>7, <1>8, <1>9 DEF Next, Stopped

-----------------------------------------------------------------------------
(* The descriptor pool.                                                    *)

(* A set of listed files that has members in the pool has one that depends *)
(* on files in the pool and outside of the set only: the first that came.  *)
IsGrounded ==
    \A F \in SUBSET Listed : F \cap available_files # {} =>
        \E f \in F \cap available_files : program.dependency[f] \subseteq available_files \ F

(* No file is lost between the rounds; what waits after a round that has   *)
(* added nothing waits for good.                                           *)
PoolInv ==
    /\ phase = "loading" => /\ remaining_files = program.order /\ deferred_files = <<>>
                            /\ available_files = {}
    /\ phase = "pool" =>
          /\ Listed = available_files \cup ToSet(remaining_files) \cup ToSet(deferred_files)
          /\ ~added_file => \A f \in ToSet(deferred_files) : ~HasDependencies(f)
    /\ phase \in {"loading", "pool"} => IsGrounded
    /\ Late => HasPool

LEMMA NoFiles == ToSet(<<>>) = {}
BY DEF ToSet

LEMMA PoolInit == Init => PoolInv
BY DEF Init, PoolInv, IsGrounded, Late

(* A pool that holds every file proves the dependencies to be in order.    *)
LEMMA FullPool ==
    ASSUME PoolInv, phase = "pool", remaining_files = <<>>, deferred_files = <<>>
    PROVE  HasPool
<1>1. Listed = available_files
  BY NoFiles DEF PoolInv
<1>2. ASSUME NEW F \in (SUBSET Listed) \ {{}} PROVE \E f \in F : program.dependency[f] \subseteq Listed \ F
  <2>1. F \cap available_files # {}
    BY <1>1
  <2> QED
    BY <1>1, <2>1 DEF PoolInv, IsGrounded
<1> QED
  BY <1>2 DEF HasPool

(* Files that are left over after a round that has added nothing are       *)
(* missing a file or in a cycle.                                           *)
LEMMA StuckPool ==
    ASSUME TypeInv, PoolInv, phase = "pool", remaining_files = <<>>, deferred_files # <<>>, ~added_file
    PROVE  ~HasPool
<1> DEFINE F == ToSet(deferred_files)
<1>1. /\ Listed = available_files \cup F /\ IsGrounded
      /\ \A f \in F : ~(program.dependency[f] \subseteq available_files)
  BY NoFiles DEF PoolInv, HasDependencies
<1>2. F # {}
  <2>1. deferred_files \in Seq(Files)
    BY DEF TypeInv, TypeOK
  <2> QED
    BY <2>1, HeadAndTail
<1> HIDE DEF F
<1>3. F \in (SUBSET Listed) \ {{}}
  BY <1>1, <1>2
<1>4. SUFFICES ASSUME NEW f \in F, program.dependency[f] \subseteq Listed \ F PROVE FALSE
  BY <1>3 DEF HasPool
<1> QED
  BY <1>1, <1>4

LEMMA PoolGrows ==
    ASSUME NEW f \in Files, HasDependencies(f), available_files' = available_files \cup {f}, program' = program,
           IsGrounded
    PROVE  IsGrounded'
<1>1. Listed' = Listed /\ program.dependency[f] \subseteq available_files
  BY SameInput DEF HasDependencies
<1>2. SUFFICES ASSUME NEW F \in SUBSET Listed, F \cap available_files' # {}
               PROVE  \E g \in F \cap available_files' : program.dependency[g] \subseteq available_files' \ F
  BY <1>1 DEF IsGrounded
<1>3. CASE F \cap available_files # {}
  BY <1>3 DEF IsGrounded
<1>4. CASE F \cap available_files = {}
  BY <1>1, <1>2, <1>4
<1> QED
  BY <1>3, <1>4

LEMMA PoolStep == TypeInv /\ PhaseInv /\ PoolInv /\ [Next]_vars => PoolInv'
<1> SUFFICES ASSUME TypeInv, PhaseInv, PoolInv, [Next]_vars PROVE PoolInv'
  OBVIOUS
<1>1. program' = program /\ Listed' = Listed /\ (HasPool <=> HasPool')
  BY ProgramIsFixed, SameInput
<1>2. remaining_files \in Seq(Files) /\ deferred_files \in Seq(Files)
  BY DEF TypeInv, TypeOK
<1>3. CASE phase' = "failed"
  BY <1>3 DEF PoolInv, Late
<1>4. CASE Late /\ Late'
  BY <1>1, <1>4 DEF PoolInv, Late
<1>5. CASE UNCHANGED <<phase, remaining_files, pool>>
  BY <1>1, <1>5 DEF PoolInv, pool, HasDependencies, IsGrounded, Late
<1>6. CASE Validate
  BY <1>1, <1>6, NoFiles DEF Validate, PoolInv, pool, IsGrounded, Listed, Late
<1>7. CASE AddToPool
  <2> DEFINE f == Head(remaining_files)
  <2>1. /\ f \in Files /\ HasDependencies(f) /\ phase = "pool" /\ phase' = "pool"
        /\ available_files' = available_files \cup {f} /\ added_file'
        /\ remaining_files' = Tail(remaining_files) /\ deferred_files' = deferred_files
        /\ ToSet(remaining_files) = {f} \cup ToSet(Tail(remaining_files))
    BY <1>2, <1>7, HeadAndTail DEF AddToPool
  <2> HIDE DEF f
  <2>2. IsGrounded'
    BY <1>1, <2>1, PoolGrows DEF PoolInv
  <2> QED
    BY <1>1, <2>1, <2>2 DEF PoolInv, Late
<1>8. CASE Defer
  <2> DEFINE f == Head(remaining_files)
  <2>1. /\ f \in Files /\ ~HasDependencies(f) /\ phase = "pool" /\ phase' = "pool"
        /\ available_files' = available_files /\ added_file' = added_file
        /\ remaining_files' = Tail(remaining_files) /\ deferred_files' = Append(deferred_files, f)
        /\ ToSet(remaining_files) = {f} \cup ToSet(Tail(remaining_files))
    BY <1>2, <1>8, HeadAndTail DEF Defer
  <2> HIDE DEF f
  <2>2. ToSet(deferred_files') = ToSet(deferred_files) \cup {f}
    BY <1>2, <2>1, ToSetAppend
  <2>3. IsGrounded' /\ \A g : HasDependencies(g)' <=> HasDependencies(g)
    BY <1>1, <2>1 DEF PoolInv, IsGrounded, HasDependencies
  <2> QED
    BY <1>1, <2>1, <2>2, <2>3 DEF PoolInv, Late
<1>9. CASE NextRound
  BY <1>1, <1>9, NoFiles DEF NextRound, PoolInv, IsGrounded, Late
<1>10. CASE EndPool
  BY <1>1, <1>10, FullPool DEF EndPool, PoolInv, Late
<1>11. CASE RejectSyntax \/ RejectFile \/ RejectDependencies
  BY <1>3, <1>11 DEF RejectSyntax, RejectFile, RejectDependencies, Fail
<1>12. CASE Transforming \/ Resolving
  <2>1. Late
    BY <1>12 DEF Transforming, Resolving, Late, TransformFile, RejectMapEntry, EndFile, EndTransforming,
          AppendDefinition, RejectDefinition, Declares, TransformFields, RejectFields,
          Resolve, AppendIssue, EndResolving
  <2>2. Late' \/ phase' = "failed"
    BY <1>12 DEF Transforming, Resolving, Late, TransformFile, RejectMapEntry, EndFile, EndTransforming,
          AppendDefinition, RejectDefinition, Declares, TransformFields, RejectFields,
          Resolve, AppendIssue, EndResolving, Fail
  <2> QED
    BY <1>3, <1>4, <2>1, <2>2
<1> QED
  BY <1>5, <1>6, <1>7, <1>8, <1>9, <1>10, <1>11, <1>12, NextIs DEF Loading, Stopped, vars

-----------------------------------------------------------------------------
(* What the pool has built.                                                *)

IsBuilt(f) ==
    /\ f \notin program.malformed /\ KeysOf(f) \cap Builtin = {}
    /\ \A d \in Within(f) : /\ IsDescriptor(program.descriptor[d])
                           /\ NamedTypes(program.descriptor[d]) \subseteq Known

(* Every file in the pool was built, after all that it depends on; later   *)
(* the pool holds every listed file.                                       *)
BuiltInv ==
    /\ phase = "pool" => \A f \in available_files : program.dependency[f] \subseteq available_files
    /\ \A f \in available_files : IsBuilt(f)
    /\ Late \/ resolver_issues # <<>> => available_files = Listed

LEMMA BuiltInit == Init => BuiltInv
BY DEF Init, BuiltInv, Late

LEMMA BuiltStep == TypeInv /\ PhaseInv /\ PoolInv /\ BuiltInv /\ [Next]_vars => BuiltInv'
<1> SUFFICES ASSUME TypeInv, PhaseInv, PoolInv, BuiltInv, [Next]_vars PROVE BuiltInv'
  OBVIOUS
<1>1. /\ program' = program /\ Listed' = Listed
      /\ \A x : Within(x)' = Within(x) /\ \A f : KeysOf(f)' = KeysOf(f)
  BY ProgramIsFixed, SameInput
<1>2. CASE AddToPool
  <2>1. PICK f : /\ HasDependencies(f) /\ CanBuild(f) /\ phase = "pool" /\ phase' = "pool"
                 /\ available_files' = available_files \cup {f} /\ resolver_issues' = resolver_issues
    BY <1>2 DEF AddToPool, resolution
  <2>2. Known' = Known \cup KeysOf(f)
    BY <1>1, <2>1 DEF Known
  <2>3. ASSUME NEW g \in available_files PROVE IsBuilt(g)'
    BY <1>1, <2>2, <2>3 DEF BuiltInv, IsBuilt
  <2>4. f \in available_files \/ IsBuilt(f)'
    <3>1. ASSUME f \notin available_files
          PROVE  /\ f \notin program.malformed /\ KeysOf(f) \cap Builtin = {}
                 /\ \A d \in Within(f) :
                       /\ IsDescriptor(program.descriptor[d])
                       /\ NamedTypes(program.descriptor[d]) \subseteq Known \cup KeysOf(f)
      BY <2>1, <3>1 DEF CanBuild, Known
    <3> QED
      BY <1>1, <2>2, <3>1 DEF IsBuilt
  <2>5. program.dependency[f] \subseteq available_files
    BY <2>1 DEF HasDependencies
  <2> QED
    BY <1>1, <2>1, <2>3, <2>4, <2>5 DEF BuiltInv, PhaseInv, Late
<1>3. CASE available_files' = available_files
  <2>1. Known' = Known
    BY <1>1, <1>3 DEF Known
  <2>2. \A f : IsBuilt(f)' <=> IsBuilt(f)
    BY <1>1, <2>1 DEF IsBuilt
  <2>3. phase' = "pool" => phase \in {"loading", "pool"}
    BY NextIs DEF Loading, Validate, RejectSyntax, AddToPool, RejectFile, Defer, NextRound, RejectDependencies,
       EndPool, Transforming, TransformFile, RejectMapEntry, EndFile, EndTransforming, AppendDefinition,
       RejectDefinition, TransformFields, RejectFields, Resolving, Resolve, AppendIssue, EndResolving,
       Fail, Stopped, vars, Declares
  <2>4. \/ EndPool
        \/ Late' \/ resolver_issues' # <<>> => Late \/ resolver_issues # <<>>
    BY NextIs DEF Loading, Validate, RejectSyntax, AddToPool, RejectFile, Defer, NextRound, RejectDependencies,
       EndPool, Transforming, TransformFile, RejectMapEntry, EndFile, EndTransforming, AppendDefinition,
       RejectDefinition, TransformFields, RejectFields, Resolving, Resolve, AppendIssue, EndResolving,
       Fail, Stopped, vars, Declares, Late, resolution
  <2>5. EndPool => available_files = Listed
    BY NoFiles DEF EndPool, PoolInv
  <2> QED
    BY <1>1, <1>3, <2>2, <2>3, <2>4, <2>5 DEF BuiltInv, PoolInv
<1>4. AddToPool \/ available_files' = available_files
  BY NextIs DEF Loading, Validate, RejectSyntax, AddToPool, RejectFile, Defer, NextRound, RejectDependencies,
     EndPool, Transforming, TransformFile, RejectMapEntry, EndFile, EndTransforming, AppendDefinition,
     RejectDefinition, TransformFields, RejectFields, Resolving, Resolve, AppendIssue, EndResolving,
     Fail, Stopped, vars, Declares, pool
<1> QED
  BY <1>2, <1>3, <1>4

(* A file that the pool does not take is ill-formed or does not import what*)
(* it names.                                                               *)
LEMMA UnbuiltFile ==
    ASSUME TypeInv, PoolInv, BuiltInv, RejectFile
    PROVE  ~(WellFormed /\ ImportsWhatItNames)
<1> DEFINE f == Head(remaining_files)
<1>1. SUFFICES ASSUME WellFormed, ImportsWhatItNames PROVE CanBuild(f)
  BY DEF RejectFile
<1>2. /\ phase = "pool" /\ remaining_files # <<>> /\ program.dependency[f] \subseteq available_files
      /\ program \in Programs /\ remaining_files \in Seq(Files) /\ available_files \subseteq Files
  BY DEF RejectFile, HasDependencies, TypeInv, TypeOK
<1>3. f \in Files /\ f \in ToSet(remaining_files)
  BY <1>2, HeadAndTail
<1> HIDE DEF f
<1>4. f \in Listed /\ available_files \subseteq Listed
  BY <1>2, <1>3 DEF PoolInv
<1>5. Within(f) \subseteq Declared /\ \A g \in available_files : Within(g) \subseteq Declared
  BY <1>2, <1>4, WithinDeclared
<1>6. /\ f \notin program.malformed
      /\ \A d \in Declared : program.key[d] \notin Builtin /\ IsDescriptor(program.descriptor[d])
      /\ \A d, e \in Declared : program.key[d] = program.key[e] => d = e
  BY <1>1, <1>4 DEF WellFormed, HasUniqueKeys
<1>7. SUFFICES ASSUME f \notin available_files PROVE CanBuild(f)
  BY DEF CanBuild
<1>8. KeysOf(f) \cap Known = {}
  <2>1. SUFFICES ASSUME NEW d \in Within(f), program.key[d] \in Known PROVE FALSE
    BY DEF KeysOf
  <2>2. PICK g \in available_files : program.key[d] \in KeysOf(g)
    BY <1>5, <1>6, <2>1 DEF Known
  <2>3. PICK e \in Within(g) : program.key[d] = program.key[e]
    BY <2>2 DEF KeysOf
  <2>4. d = e
    BY <1>5, <1>6, <2>1, <2>2, <2>3
  <2> QED
    BY <1>2, <1>3, <1>7, <2>1, <2>2, <2>3, <2>4, OneFile
<1>9. Imports(f) \subseteq available_files
  BY <1>2 DEF Imports, BuiltInv
<1>10. \A d \in Within(f) : NamedTypes(program.descriptor[d]) \subseteq Known \cup KeysOf(f)
  <2>1. ASSUME NEW d \in Within(f)
        PROVE  NamedTypes(program.descriptor[d]) \subseteq
                   Builtin \cup UNION {KeysOf(g) : g \in {f} \cup Imports(f)}
    BY <1>1, <1>4, <2>1 DEF ImportsWhatItNames
  <2>2. Builtin \cup UNION {KeysOf(g) : g \in {f} \cup Imports(f)} \subseteq Known \cup KeysOf(f)
    BY <1>9 DEF Known
  <2> QED
    BY <2>1, <2>2
<1> QED
  BY <1>5, <1>6, <1>8, <1>10 DEF CanBuild

-----------------------------------------------------------------------------
(* The recursion over files and messages.                                  *)

Registered == {d \in Definitions : <<program.key[d], d>> \in definitions_by_key}

(* What is registered and not on the stack has been transformed.           *)
Owners == {stack[k].owner : k \in 1..Len(stack)}
Completed == Registered \ Owners

(* The first Count files of the list have been begun, all of them but the  *)
(* one on the stack are finished.  A file that is listed twice is begun    *)
(* again.                                                                  *)
Count == Len(program.order) - Len(remaining_files)
FinishedCount == IF stack = <<>> THEN Count ELSE Count - 1
Started == {program.order[i] : i \in 1..Count}
Finished == {program.order[i] : i \in 1..FinishedCount}

(* Only files that declare nothing can have been listed twice so far.      *)
OrderInv ==
    Late =>
        /\ Count \in 0..Len(program.order)
        /\ \A i \in 1..Len(remaining_files) : remaining_files[i] = program.order[Count + i]
        /\ Started \cap program.map_entries = {}
        /\ \A i, j \in 1..FinishedCount :
              program.order[i] = program.order[j] =>
                  i = j \/ program.members[program.order[i]] = <<>>

(* Every member of what is on the stack is registered or yet to do, and    *)
(* none is both unless the file has been begun again.                      *)
IsPart(frame) ==
    /\ ToSet(frame.rest) \subseteq ToSet(program.members[frame.owner])
    /\ ToSet(program.members[frame.owner]) \subseteq Registered \cup ToSet(frame.rest)
    /\ IsInjective(frame.rest)

StackInv ==
    Late /\ stack # <<>> =>
        /\ Count >= 1 /\ File = program.order[Count]
        /\ File \in Finished => Len(stack) = 1 /\ stack[1] = Frame(File)
        /\ \A k \in 1..Len(stack) :
              /\ IsPart(stack[k])
              /\ k # 1 => stack[k].owner \in Registered /\ stack[k].owner \in Within(File)
              /\ (k = 1 => File \notin Finished) => ToSet(stack[k].rest) \cap Registered = {}
        /\ \A j, k \in 1..Len(stack) : stack[j].owner = stack[k].owner => j = k

(* What is registered has been begun from above, and what is finished is   *)
(* registered to its last member.                                          *)
TreeInv ==
    Late =>
        /\ \A x \in Files \cup Definitions : \A e \in ToSet(program.members[x]) :
              e \in Registered => x \in Registered \cup Started
        /\ \A x \in Finished \cup Completed : ToSet(program.members[x]) \subseteq Registered
        /\ Registered \subseteq Declared

KeyInv ==
    /\ \A z \in definitions_by_key : z[2] \in Definitions /\ z = <<program.key[z[2]], z[2]>>
    /\ \A d, e \in Registered : program.key[d] = program.key[e] => d = e

ForestInv == OrderInv /\ StackInv /\ TreeInv /\ KeyInv

LEMMA ForestInit == Init => ForestInv
BY DEF Init, ForestInv, OrderInv, StackInv, TreeInv, KeyInv, Late, Registered

LEMMA SameForest ==
    ASSUME ForestInv, UNCHANGED <<program, remaining_files, stack, definitions_by_key>>, Late' => Late
    PROVE  ForestInv'
<1>1. /\ Registered' = Registered /\ Owners' = Owners /\ Completed' = Completed /\ Count' = Count
      /\ FinishedCount' = FinishedCount /\ Started' = Started /\ Finished' = Finished
  BY DEF Registered, Owners, Completed, Count, FinishedCount, Started, Finished
<1>2. Declared' = Declared /\ File' = File /\ \A x : Within(x)' = Within(x) /\ Frame(x)' = Frame(x)
  BY SameInput DEF File
<1>3. OrderInv'
  BY <1>1 DEF ForestInv, OrderInv
<1>4. StackInv'
  BY <1>1, <1>2 DEF ForestInv, StackInv, IsPart
<1>5. TreeInv'
  BY <1>1, <1>2 DEF ForestInv, TreeInv
<1>6. KeyInv'
  BY <1>1 DEF ForestInv, KeyInv
<1> QED
  BY <1>3, <1>4, <1>5, <1>6 DEF ForestInv

LEMMA StartForest ==
    ASSUME TypeInv, PhaseInv, PoolInv, ForestInv, Loading
    PROVE  ForestInv'
<1>1. definitions_by_key = {} /\ stack = <<>> /\ stack' = stack /\ definitions_by_key' = definitions_by_key
      /\ program' = program
  BY DEF Loading, PhaseInv, Validate, RejectSyntax, AddToPool, RejectFile, Defer, NextRound, RejectDependencies,
         EndPool, Fail, transformation
<1>2. Registered' = {} /\ KeyInv'
  BY <1>1 DEF Registered, KeyInv
<1>3. CASE ~EndPool
  <2>1. ~Late'
    BY <1>3 DEF Loading, Validate, RejectSyntax, AddToPool, RejectFile, Defer, NextRound, RejectDependencies,
                Fail, Late
  <2> QED
    BY <1>2, <2>1 DEF ForestInv, OrderInv, StackInv, TreeInv
<1>4. CASE EndPool
  <2>1. remaining_files' = program.order /\ Len(program.order) \in Nat
    BY <1>4, ProgramType DEF EndPool, TypeInv, TypeOK
  <2>2. Count' = 0 /\ FinishedCount' = 0
    BY <1>1, <2>1 DEF Count, FinishedCount
  <2>3. Started' = {} /\ Finished' = {} /\ Completed' = {}
    BY <1>2, <2>2 DEF Started, Finished, Completed
  <2>4. OrderInv'
    BY <1>1, <2>1, <2>2, <2>3 DEF OrderInv
  <2> QED
    BY <1>1, <1>2, <2>3, <2>4 DEF ForestInv, StackInv, TreeInv
<1> QED
  BY <1>3, <1>4

LEMMA FileForest ==
    ASSUME TypeInv, PhaseInv, ForestInv, TransformFile
    PROVE  ForestInv' /\ Registered' = Registered /\ Completed' = Completed
<1> DEFINE N == Len(program.order)
<1>0. PICK f : f = Head(remaining_files)
  OBVIOUS
<1>1. /\ program \in Programs /\ remaining_files \in Seq(Files) /\ phase = "transforming" /\ phase' = phase
      /\ stack = <<>> /\ f \notin program.map_entries /\ stack' = <<Frame(f)>>
      /\ remaining_files # <<>> /\ remaining_files' = Tail(remaining_files)
      /\ program' = program /\ definitions_by_key' = definitions_by_key
  BY <1>0 DEF TypeInv, TypeOK, TransformFile
<1>2. /\ f \in Files /\ f = remaining_files[1] /\ Len(remaining_files) \in Nat \ {0}
      /\ Len(remaining_files') = Len(remaining_files) - 1
      /\ \A i \in 1..(Len(remaining_files) - 1) : remaining_files'[i] = remaining_files[i + 1]
  BY <1>0, <1>1, HeadAndTail
<1>3. N \in Nat /\ Late /\ Late'
  BY <1>1, ProgramType DEF Late
<1>4. /\ Count \in 0..N /\ Started \cap program.map_entries = {}
      /\ \A i \in 1..Len(remaining_files) : remaining_files[i] = program.order[Count + i]
      /\ \A i, j \in 1..FinishedCount : program.order[i] = program.order[j] =>
             i = j \/ program.members[program.order[i]] = <<>>
  BY <1>3 DEF ForestInv, OrderInv
<1>5. /\ Count = N - Len(remaining_files) /\ Count' = N - Len(remaining_files')
      /\ FinishedCount = Count /\ FinishedCount' = Count' - 1
  BY <1>1 DEF Count, FinishedCount
<1> HIDE DEF N
<1>6. /\ Count' = Count + 1 /\ Count' \in 0..N /\ FinishedCount' = FinishedCount
      /\ \A i \in 1..Len(remaining_files') : i \in 1..(Len(remaining_files) - 1)
                                             /\ i + 1 \in 1..Len(remaining_files)
                                             /\ Count + (i + 1) = Count' + i
  BY <1>2, <1>3, <1>4, <1>5
<1>7. program.order[Count'] = f
  <2>1. 1 \in 1..Len(remaining_files)
    BY <1>2
  <2> QED
    BY <1>2, <1>4, <1>6, <2>1
<1>8. /\ Started' = Started \cup {f} /\ Finished = Started /\ Finished' = Finished
      /\ Registered' = Registered
  <2>1. 1..(Count + 1) = 1..Count \cup {Count + 1}
    BY <1>4, <1>3
  <2>2. Started' = {program.order[i] : i \in 1..(Count + 1)}
    BY <1>1, <1>6 DEF Started
  <2>3. Finished' = Finished
    BY <1>1, <1>6 DEF Finished
  <2>4. Started' = Started \cup {f}
    BY <1>6, <1>7, <2>1, <2>2 DEF Started
  <2> QED
    BY <1>1, <1>5, <2>3, <2>4 DEF Started, Finished, Registered
<1>9. OrderInv'
  <2>1. \A i \in 1..Len(remaining_files') : remaining_files'[i] = program.order[Count' + i]
    BY <1>2, <1>4, <1>6
  <2>2. Started' \cap program.map_entries = {}
    BY <1>1, <1>4, <1>8
  <2> QED
    BY <1>1, <1>4, <1>6, <2>1, <2>2 DEF OrderInv, N
<1>10. /\ Frame(f).owner = f /\ Frame(f).rest = program.members[f]
       /\ stack'[1] = Frame(f) /\ Len(stack') = 1 /\ File' = f
  BY <1>1 DEF Frame, File
<1>11. f \notin Finished => ToSet(program.members[f]) \cap Registered = {}
  <2>1. f \notin Registered
    BY <1>2, ProtobufModelAssumption DEF Registered
  <2> QED
    BY <1>2, <1>3, <1>8, <2>1 DEF ForestInv, TreeInv
<1>12. StackInv'
  <2>1. stack'[1].owner = f /\ stack'[1].rest = program.members[f] /\ IsInjective(program.members[f])
    BY <1>1, <1>2, <1>10, MembersDiffer
  <2>2. 1..Len(stack') = {1}
    BY <1>10
  <2>3. Frame(f)' = Frame(f)
    BY <1>1, SameInput
  <2>4. Count' >= 1
    BY <1>3, <1>4, <1>6
  <2>5. IsPart(stack[1])'
    BY <1>1, <2>1 DEF IsPart
  <2> QED
    BY <1>1, <1>7, <1>8, <1>10, <1>11, <2>1, <2>2, <2>3, <2>4, <2>5 DEF StackInv
<1>13. Completed' = Completed
  <2>1. Owners = {} /\ Owners' = {f}
    BY <1>1, <1>10 DEF Owners
  <2> QED
    BY <1>2, <1>8, <2>1, ProtobufModelAssumption DEF Completed, Registered
<1>14. TreeInv'
  <2>1. Declared' = Declared
    BY <1>1, SameInput
  <2> QED
    BY <1>1, <1>3, <1>8, <1>13, <2>1 DEF ForestInv, TreeInv
<1>15. KeyInv'
  BY <1>1, <1>8 DEF ForestInv, KeyInv
<1> QED
  BY <1>8, <1>9, <1>12, <1>13, <1>14, <1>15 DEF ForestInv

(* A file is at the bottom of the stack, messages and enums are above it.  *)
LEMMA OnTop ==
    ASSUME TypeInv, ForestInv, Late, stack # <<>>
    PROVE  /\ Len(stack) \in Nat \ {0} /\ Top = stack[Len(stack)] /\ IsPart(Top)
           /\ File \in Files /\ Count >= 1 /\ File = program.order[Count]
           /\ \/ Len(stack) = 1 /\ Top.owner = File /\ Top.owner \in Files
              \/ Len(stack) # 1 /\ Top.owner \in Registered /\ Top.owner \in Within(File)
                 /\ Top.owner \in Definitions
           /\ Top.owner \notin Files \cap Definitions
<1>1. /\ Len(stack) \in Nat \ {0} /\ Top = stack[Len(stack)] /\ File \in Files
  BY TopType DEF TypeInv, TypeOK, Frames, Top
<1>2. Len(stack) \in 1..Len(stack)
  BY <1>1
<1> QED
  BY <1>1, <1>2, ProtobufModelAssumption DEF ForestInv, StackInv, File, Registered

LEMMA EndFileForest ==
    ASSUME TypeInv, PhaseInv, ForestInv, EndFile
    PROVE  ForestInv' /\ Registered' = Registered /\ Completed' = Completed
<1>1. /\ Late /\ Late' /\ stack # <<>> /\ stack' = <<>> /\ Top.rest = <<>> /\ Top.owner \in Files
      /\ program' = program /\ remaining_files' = remaining_files
      /\ definitions_by_key' = definitions_by_key
  BY DEF EndFile, Late
<1>2. /\ Len(stack) = 1 /\ Top = stack[1] /\ Top.owner = File /\ Count >= 1
      /\ File = program.order[Count] /\ IsPart(Top) /\ File \in Files
  BY <1>1, OnTop
<1>3. Registered' = Registered /\ Count' = Count /\ Started' = Started
  BY <1>1 DEF Registered, Count, Started
<1>4. Count \in Nat /\ FinishedCount = Count - 1 /\ FinishedCount' = Count
  BY <1>1, <1>2, <1>3, ProgramType DEF FinishedCount, ForestInv, OrderInv, TypeInv, TypeOK
<1>5. 1..Count = 1..(Count - 1) \cup {Count}
  BY <1>2, <1>4
<1>6. Finished' = Finished \cup {File}
  <2>1. Finished' = {program.order[i] : i \in 1..Count}
    BY <1>1, <1>4 DEF Finished
  <2>2. Finished = {program.order[i] : i \in 1..(Count - 1)}
    BY <1>4 DEF Finished
  <2> QED
    BY <1>2, <1>5, <2>1, <2>2
<1>7. Completed' = Completed
  <2>1. Owners = {File} /\ Owners' = {}
    BY <1>1, <1>2 DEF Owners
  <2> QED
    BY <1>2, <1>3, <2>1, ProtobufModelAssumption DEF Completed, Registered
<1>8. TreeInv'
  <2>1. ToSet(program.members[File]) \subseteq Registered
    BY <1>1, <1>2, NoFiles DEF IsPart
  <2>2. Declared' = Declared
    BY <1>1, SameInput
  <2> QED
    BY <1>1, <1>3, <1>6, <1>7, <2>1, <2>2 DEF ForestInv, TreeInv
<1>9. OrderInv'
  <2>1. File \in Finished => program.members[File] = <<>>
    BY <1>1, <1>2 DEF ForestInv, StackInv, Frame
  <2>2. ASSUME NEW i \in 1..Count, NEW j \in 1..Count, program.order[i] = program.order[j]
        PROVE  i = j \/ program.members[program.order[i]] = <<>>
    <3>1. CASE i \in 1..(Count - 1) /\ j \in 1..(Count - 1)
      BY <1>1, <1>4, <2>2, <3>1 DEF ForestInv, OrderInv
    <3>2. CASE i = Count /\ j \in 1..(Count - 1)
      BY <1>2, <1>4, <2>1, <2>2, <3>2 DEF Finished
    <3>3. CASE j = Count /\ i \in 1..(Count - 1)
      BY <1>2, <1>4, <2>1, <2>2, <3>3 DEF Finished
    <3> QED
      BY <1>5, <3>1, <3>2, <3>3
  <2> QED
    BY <1>1, <1>3, <1>4, <2>2 DEF ForestInv, OrderInv
<1>10. StackInv' /\ KeyInv'
  BY <1>1, <1>3 DEF ForestInv, StackInv, KeyInv
<1> QED
  BY <1>3, <1>7, <1>8, <1>9, <1>10 DEF ForestInv

LEMMA FieldsForest ==
    ASSUME TypeInv, PhaseInv, ForestInv, TransformFields
    PROVE  /\ ForestInv' /\ Registered' = Registered /\ Top.owner \in Registered
           /\ Top.owner \in Within(File) /\ Top.owner \notin Completed
           /\ Completed' = Completed \cup {Top.owner}
<1> DEFINE n == Len(stack)
           d == Top.owner
<1>1. /\ Late /\ Late' /\ stack # <<>> /\ stack' = Below /\ Top.rest = <<>> /\ d \in Definitions
      /\ program' = program /\ remaining_files' = remaining_files
      /\ definitions_by_key' = definitions_by_key
  BY DEF TransformFields, Late
<1>2. /\ n \in Nat \ {0} /\ n # 1 /\ Top = stack[n] /\ IsPart(Top)
      /\ d \in Registered /\ d \in Within(File)
  BY <1>1, OnTop
<1>3. /\ Len(stack') = n - 1 /\ stack' # <<>> /\ \A i \in 1..(n - 1) : stack'[i] = stack[i]
  <2>1. /\ Below \in Seq(Frames) /\ Len(Below) = n - 1 /\ \A i \in 1..(n - 1) : Below[i] = stack[i]
    BY <1>1, TopType DEF TypeInv, TypeOK, Frames
  <2> QED
    BY <1>1, <1>2, <2>1
<1>4. File' = File /\ Registered' = Registered /\ Count' = Count /\ Started' = Started
  <2>0. \A m \in Nat \ {0} : m # 1 => 1 \in 1..(m - 1)
    OBVIOUS
  <2>1. 1 \in 1..(n - 1)
    BY <1>2, <2>0
  <2> QED
    BY <1>1, <1>3, <2>1 DEF File, Registered, Count, Started
<1>5. Finished' = Finished /\ FinishedCount' = FinishedCount
  <2>1. FinishedCount' = FinishedCount
    BY <1>1, <1>3, <1>4 DEF FinishedCount
  <2> QED
    BY <1>1, <2>1 DEF Finished
<1>6. \A i, j \in 1..n : stack[i].owner = stack[j].owner => i = j
  BY <1>1 DEF ForestInv, StackInv
<1>7. Owners' = Owners \ {d} /\ d \in Owners
  <2>1. Owners' = {stack[k].owner : k \in 1..(n - 1)}
    BY <1>3 DEF Owners
  <2>2. 1..n = 1..(n - 1) \cup {n} /\ n \notin 1..(n - 1)
    BY <1>2
  <2> HIDE DEF n
  <2>3. Owners = {stack[k].owner : k \in 1..(n - 1)} \cup {d}
    BY <1>2, <2>2 DEF Owners, n
  <2>4. \A k \in 1..(n - 1) : stack[k].owner # d
    BY <1>2, <1>6, <2>2
  <2> QED
    BY <2>1, <2>3, <2>4
<1>8. Completed' = Completed \cup {d} /\ d \notin Completed
  BY <1>2, <1>4, <1>7 DEF Completed
<1>9. TreeInv'
  <2>1. ToSet(program.members[d]) \subseteq Registered
    BY <1>1, <1>2, NoFiles DEF IsPart
  <2>2. Declared' = Declared
    BY <1>1, SameInput
  <2> QED
    BY <1>1, <1>4, <1>5, <1>8, <2>1, <2>2 DEF ForestInv, TreeInv
<1>10. OrderInv' /\ KeyInv'
  BY <1>1, <1>4, <1>5 DEF ForestInv, OrderInv, KeyInv
<1>11. StackInv'
  <2>1. \A k \in 1..(n - 1) : k \in 1..n
    BY <1>2
  <2>2. \A x : Within(x)' = Within(x)
    BY <1>1, SameInput
  <2>3. File \notin Finished
    BY <1>1, <1>2 DEF ForestInv, StackInv
  <2>4. \A k \in 1..(n - 1) :
           /\ IsPart(stack[k])
           /\ k # 1 => stack[k].owner \in Registered /\ stack[k].owner \in Within(File)
           /\ (k = 1 => File \notin Finished) => ToSet(stack[k].rest) \cap Registered = {}
    BY <1>1, <2>1 DEF ForestInv, StackInv
  <2>5. \A k \in 1..(n - 1) : IsPart(stack[k])'
    BY <1>1, <1>3, <1>4, <2>4 DEF IsPart
  <2>6. Count >= 1 /\ File = program.order[Count]
    BY <1>1 DEF ForestInv, StackInv
  <2> HIDE DEF n
  <2> QED
    BY <1>1, <1>3, <1>4, <1>5, <1>6, <2>1, <2>2, <2>3, <2>4, <2>5, <2>6 DEF StackInv
<1> QED
  BY <1>2, <1>4, <1>8, <1>9, <1>10, <1>11 DEF ForestInv

(* A declaration that is begun is new, nothing in it has been begun, and   *)
(* its file was not finished before.                                       *)
LEMMA NewDeclaration ==
    ASSUME TypeInv, ForestInv, Late, stack # <<>>, Top.rest # <<>>,
           NEW d \in Definitions, d = Head(Top.rest), IsNewKey(d)
    PROVE  /\ d \notin Registered /\ File \notin Finished /\ d \in Within(File) /\ d \in Declared
           /\ d \in ToSet(program.members[Top.owner]) /\ d \notin ToSet(Tail(Top.rest))
           /\ ToSet(Top.rest) = {d} \cup ToSet(Tail(Top.rest))
           /\ IsInjective(Tail(Top.rest))
           /\ \A k \in 1..Len(stack) : stack[k].owner # d /\ (d \in ToSet(stack[k].rest) => k = Len(stack))
           /\ ToSet(program.members[d]) \cap (Registered \cup {d}) = {}
<1> DEFINE n == Len(stack)
<1>1. /\ program \in Programs /\ Top.rest \in Seq(Definitions) /\ Top.owner \in Files \cup Definitions
      /\ \A k \in 1..n : stack[k].owner \in Files \cup Definitions
  <2>1. program \in Programs /\ stack \in Seq(Frames)
    BY DEF TypeInv, TypeOK, Frames
  <2>2. \A k \in 1..Len(stack) : stack[k] \in Frames
    BY <2>1
  <2> QED
    BY <2>1, <2>2, TopType DEF Frames
<1>2. /\ n \in Nat \ {0} /\ Top = stack[n] /\ IsPart(Top) /\ File \in Files /\ Count >= 1
      /\ File = program.order[Count]
      /\ Top.owner = File \/ (Top.owner \in Registered /\ Top.owner \in Within(File))
  BY OnTop
<1>3. d \notin Registered
  BY DEF IsNewKey, Registered
<1>4. /\ d \in ToSet(Top.rest) /\ ToSet(Top.rest) = {d} \cup ToSet(Tail(Top.rest))
      /\ d \notin ToSet(Tail(Top.rest)) /\ IsInjective(Tail(Top.rest))
  BY <1>1, <1>2, HeadAndTail, InjectiveTail DEF IsPart
<1>5. d \in ToSet(program.members[Top.owner])
  BY <1>2, <1>4 DEF IsPart
<1>6. File \in Started
  <2>1. Count \in 1..Count
    BY <1>2, ProgramType, <1>1 DEF ForestInv, OrderInv
  <2> QED
    BY <1>2, <2>1 DEF Started
<1>7. File \notin Finished
  <2>1. SUFFICES ASSUME File \in Finished PROVE FALSE
    OBVIOUS
  <2>2. Top.owner = File
    BY <1>2, <2>1 DEF ForestInv, StackInv, Frame
  <2>3. ToSet(program.members[File]) \subseteq Registered
    BY <2>1 DEF ForestInv, TreeInv
  <2> QED
    BY <1>3, <1>5, <2>2, <2>3
<1>8. d \in Within(File)
  <2>1. IsClosed({File}, Within(File))
    BY <1>1, <1>2, WithinClosed
  <2> QED
    BY <1>2, <1>5, <2>1 DEF IsClosed
<1>9. d \in Declared
  <2>1. File \in Listed
    <3>1. Count \in 1..Len(program.order) /\ program.order \in Seq(Files)
      BY <1>1, <1>2, ProgramType DEF ForestInv, OrderInv
    <3> QED
      BY <1>2, <3>1, ToSetOfList DEF Listed
  <2> QED
    BY <1>1, <1>8, <2>1, WithinDeclared
<1>10. ASSUME NEW k \in 1..n
       PROVE  stack[k].owner # d /\ (d \in ToSet(stack[k].rest) => k = n)
  <2>1. /\ IsPart(stack[k]) /\ stack[k].owner \in Files \cup Definitions
        /\ k # 1 => stack[k].owner \in Registered
        /\ \A j \in 1..n : stack[j].owner = stack[k].owner => j = k
    BY <1>1, <1>10 DEF ForestInv, StackInv
  <2>2. stack[k].owner # d
    BY <1>2, <1>3, <2>1, ProtobufModelAssumption DEF File
  <2>3. n \in 1..n
    BY <1>2
  <2>4. ASSUME d \in ToSet(stack[k].rest) PROVE k = n
    <3>1. stack[k].owner = Top.owner
      BY <1>1, <1>5, <2>1, <2>4, OneParent DEF IsPart
    <3> QED
      BY <1>2, <2>1, <2>3, <3>1
  <2> QED
    BY <2>2, <2>4
<1>11. d \notin ToSet(program.members[d])
  <2>1. SUFFICES ASSUME d \in ToSet(program.members[d]) PROVE FALSE
    OBVIOUS
  <2>2. d = Top.owner
    BY <1>1, <1>5, <2>1, OneParent
  <2>3. n \in 1..n
    BY <1>2
  <2> QED
    BY <1>2, <1>10, <2>2, <2>3
<1>12. ToSet(program.members[d]) \cap Registered = {}
  <2>1. d \notin Started
    <3>1. \A i \in 1..Len(program.order) : program.order[i] \in Files
      BY <1>1, ProgramType
    <3>2. \A i \in 1..Count : i \in 1..Len(program.order)
      BY <1>1, ProgramType DEF ForestInv, OrderInv
    <3> QED
      BY <3>1, <3>2, ProtobufModelAssumption DEF Started
  <2> QED
    BY <1>3, <2>1 DEF ForestInv, TreeInv
<1> QED
  BY <1>3, <1>4, <1>5, <1>7, <1>8, <1>9, <1>10, <1>11, <1>12

LEMMA PushForest ==
    ASSUME TypeInv, PhaseInv, ForestInv, NEW d \in Definitions, AppendDefinition(d)
    PROVE  /\ ForestInv' /\ Registered' = Registered \cup {d} /\ d \notin Registered
           /\ Completed' = Completed /\ d \in Within(File) /\ File \in Files
<1>0. PICK n, o, t : n = Len(stack) /\ o = Top.owner /\ t = Tail(Top.rest)
  OBVIOUS
<1>1. /\ Late /\ Late' /\ stack # <<>> /\ Top.rest # <<>> /\ d = Head(Top.rest) /\ IsNewKey(d)
      /\ program' = program /\ remaining_files' = remaining_files /\ program \in Programs
      /\ definitions_by_key' = definitions_by_key \cup {<<program.key[d], d>>}
      /\ stack' = Below \o <<[Top EXCEPT !.rest = Tail(@)], Frame(d)>>
  BY DEF AppendDefinition, Declares, CanDefine, Late, TypeInv, TypeOK
<1>2. /\ d \notin Registered /\ File \notin Finished /\ d \in Within(File) /\ d \in Declared
      /\ d \in ToSet(program.members[o]) /\ d \notin ToSet(t)
      /\ ToSet(Top.rest) = {d} \cup ToSet(t) /\ IsInjective(t)
      /\ \A k \in 1..n : stack[k].owner # d /\ (d \in ToSet(stack[k].rest) => k = n)
      /\ ToSet(program.members[d]) \cap (Registered \cup {d}) = {}
  BY <1>0, <1>1, NewDeclaration
<1>3. /\ n \in Nat \ {0} /\ Top = stack[n] /\ IsPart(Top) /\ File \in Files /\ Count >= 1
      /\ File = program.order[Count] /\ (o = File \/ o \in Registered)
  BY <1>0, <1>1, OnTop
<1>4. /\ Len(stack') = n + 1 /\ \A i \in 1..(n - 1) : stack'[i] = stack[i]
      /\ stack'[n].owner = o /\ stack'[n].rest = t
      /\ stack'[n + 1].owner = d /\ stack'[n + 1].rest = program.members[d]
  <2>1. /\ Len(stack') = n + 1 /\ \A i \in 1..(n - 1) : stack'[i] = stack[i]
        /\ stack'[n] = [owner |-> Top.owner, rest |-> Tail(Top.rest)]
        /\ stack'[n + 1] = Frame(d)
    BY <1>0, <1>1, PushedType DEF TypeInv, TypeOK, Frames
  <2> QED
    BY <1>0, <2>1 DEF Frame
<1>5. Registered' = Registered \cup {d}
  BY <1>1 DEF Registered
<1>6. /\ Count' = Count /\ Started' = Started /\ FinishedCount' = FinishedCount /\ Finished' = Finished
      /\ stack' # <<>>
  <2>1. Count' = Count /\ stack' # <<>>
    BY <1>1, <1>3, <1>4 DEF Count
  <2>2. FinishedCount' = FinishedCount
    BY <1>1, <2>1 DEF FinishedCount
  <2> QED
    BY <1>1, <2>1, <2>2 DEF Started, Finished
<1>7. 1..(n + 1) = 1..(n - 1) \cup {n, n + 1} /\ 1..n = 1..(n - 1) \cup {n}
      /\ n \notin 1..(n - 1) /\ n + 1 \notin 1..(n - 1) /\ n + 1 # n /\ n + 1 # 1
  BY <1>3
<1>8. stack'[1].owner = stack[1].owner
  <2>1. CASE n = 1
    BY <1>0, <1>3, <1>4, <2>1
  <2>2. CASE n # 1
    <3>1. \A m \in Nat \ {0} : m # 1 => 1 \in 1..(m - 1)
      OBVIOUS
    <3> QED
      BY <1>3, <1>4, <2>2, <3>1
  <2> QED
    BY <2>1, <2>2
<1>9. File' = File
  BY <1>8 DEF File
<1>10. Owners' = Owners \cup {d}
  <2>1. Owners' = {stack'[k].owner : k \in 1..(n - 1)} \cup {o} \cup {d}
    BY <1>4, <1>7 DEF Owners
  <2>2. Owners = {stack[k].owner : k \in 1..(n - 1)} \cup {o}
    BY <1>0, <1>3, <1>7 DEF Owners
  <2>3. {stack'[k].owner : k \in 1..(n - 1)} = {stack[k].owner : k \in 1..(n - 1)}
    BY <1>4
  <2> QED
    BY <2>1, <2>2, <2>3
<1>11. Completed' = Completed
  <2>1. d \notin Registered
    BY <1>2
  <2> QED
    BY <1>5, <1>10, <2>1 DEF Completed
<1>12. Declared' = Declared /\ \A x : Within(x)' = Within(x)
  BY <1>1, SameInput
<1>13. TreeInv'
  <2>1. ASSUME NEW x \in Files \cup Definitions, d \in ToSet(program.members[x])
        PROVE  x \in Registered \cup Started
    <3>1. o \in Files \cup Definitions
      BY <1>3 DEF Registered
    <3>2. x = o
      BY <1>1, <1>2, <2>1, <3>1, OneParent
    <3>3. Count \in 1..Count
      BY <1>1, <1>3, ProgramType DEF ForestInv, OrderInv
    <3> QED
      BY <1>3, <3>2, <3>3 DEF Started
  <2> QED
    BY <1>1, <1>2, <1>5, <1>6, <1>11, <1>12, <2>1 DEF ForestInv, TreeInv
<1>14. OrderInv'
  BY <1>1, <1>6 DEF ForestInv, OrderInv
<1>15. KeyInv'
  <2>1. \A e \in Registered : program.key[e] # program.key[d]
    BY <1>1 DEF IsNewKey, Registered
  <2> QED
    BY <1>1, <1>5, <2>1 DEF ForestInv, KeyInv
<1>16. StackInv'
  <2>1. ASSUME NEW k \in 1..(n - 1)
        PROVE  /\ IsPart(stack[k])'
               /\ k # 1 => stack'[k].owner \in Registered' /\ stack'[k].owner \in Within(File)'
               /\ ToSet(stack'[k].rest) \cap Registered' = {}
    <3>1. k \in 1..n /\ stack'[k] = stack[k] /\ k # n
      BY <1>4, <1>7, <2>1
    <3>2. /\ IsPart(stack[k])
          /\ k # 1 => stack[k].owner \in Registered /\ stack[k].owner \in Within(File)
          /\ ToSet(stack[k].rest) \cap Registered = {}
      BY <1>0, <1>1, <1>2, <3>1 DEF ForestInv, StackInv
    <3>3. d \notin ToSet(stack[k].rest)
      BY <1>2, <3>1
    <3> QED
      BY <1>1, <1>5, <1>9, <1>12, <3>1, <3>2, <3>3 DEF IsPart
  <2>2. /\ IsPart(stack[n])'
        /\ n # 1 => stack'[n].owner \in Registered' /\ stack'[n].owner \in Within(File)'
        /\ ToSet(stack'[n].rest) \cap Registered' = {}
    <3>1. n \in 1..n
      BY <1>7
    <3>2. /\ IsPart(stack[n])
          /\ n # 1 => stack[n].owner \in Registered /\ stack[n].owner \in Within(File)
          /\ ToSet(stack[n].rest) \cap Registered = {}
      BY <1>0, <1>1, <1>2, <3>1 DEF ForestInv, StackInv
    <3>3. stack[n].owner = o /\ ToSet(stack[n].rest) = {d} \cup ToSet(t)
      BY <1>0, <1>2, <1>3
    <3>4. /\ ToSet(t) \subseteq ToSet(program.members[o])
          /\ ToSet(program.members[o]) \subseteq Registered' \cup ToSet(t)
          /\ ToSet(t) \cap Registered' = {}
      BY <1>2, <1>5, <3>2, <3>3 DEF IsPart
    <3>5. IsPart(stack[n])'
      BY <1>1, <1>2, <1>4, <3>4 DEF IsPart
    <3> QED
      BY <1>4, <1>5, <1>9, <1>12, <3>2, <3>3, <3>4, <3>5
  <2>3. /\ IsPart(stack[n + 1])'
        /\ stack'[n + 1].owner \in Registered' /\ stack'[n + 1].owner \in Within(File)'
        /\ ToSet(stack'[n + 1].rest) \cap Registered' = {}
    <3>1. IsInjective(program.members[d])
      BY <1>1, MembersDiffer
    <3> QED
      BY <1>1, <1>2, <1>4, <1>5, <1>9, <1>12, <3>1 DEF IsPart
  <2>4. ASSUME NEW j \in 1..(n + 1), NEW k \in 1..(n + 1), stack'[j].owner = stack'[k].owner
        PROVE  j = k
    <3>1. \A i, m \in 1..n : stack[i].owner = stack[m].owner => i = m
      BY <1>0, <1>1 DEF ForestInv, StackInv
    <3>2. \A i \in 1..n : stack'[i].owner = stack[i].owner
      BY <1>0, <1>3, <1>4, <1>7
    <3>3. (j \in 1..n \/ j = n + 1) /\ (k \in 1..n \/ k = n + 1)
      BY <1>7
    <3>4. \A i \in 1..n : stack'[i].owner # d
      BY <1>2, <3>2
    <3> QED
      BY <1>4, <2>4, <3>1, <3>2, <3>3, <3>4
  <2>5. \A k \in 1..(n + 1) :
           /\ IsPart(stack[k])'
           /\ k # 1 => stack'[k].owner \in Registered' /\ stack'[k].owner \in Within(File)'
           /\ ToSet(stack'[k].rest) \cap Registered' = {}
    BY <1>7, <2>1, <2>2, <2>3
  <2>6. /\ Count' >= 1 /\ File' = program'.order[Count'] /\ File' \notin Finished' /\ Len(stack') = n + 1
    BY <1>1, <1>2, <1>3, <1>4, <1>6, <1>9
  <2> QED
    BY <2>4, <2>5, <2>6 DEF StackInv
<1> QED
  BY <1>2, <1>3, <1>5, <1>11, <1>13, <1>14, <1>15, <1>16 DEF ForestInv

LEMMA ForestStep == TypeInv /\ PhaseInv /\ PoolInv /\ ForestInv /\ [Next]_vars => ForestInv'
<1> SUFFICES ASSUME TypeInv, PhaseInv, PoolInv, ForestInv, [Next]_vars PROVE ForestInv'
  OBVIOUS
<1>1. CASE UNCHANGED vars
  BY <1>1, SameForest DEF vars, transformation, Late
<1>2. CASE Loading
  BY <1>2, StartForest
<1>3. CASE TransformFile
  BY <1>3, FileForest
<1>4. CASE EndFile
  BY <1>4, EndFileForest
<1>5. CASE TransformFields
  BY <1>5, FieldsForest
<1>6. CASE \E d \in Definitions : AppendDefinition(d)
  BY <1>6, PushForest
<1>7. CASE RejectMapEntry \/ RejectFields \/ \E d \in Definitions : RejectDefinition(d)
  BY <1>7, SameForest DEF RejectMapEntry, RejectFields, RejectDefinition, Fail, transformation, Late
<1>8. CASE EndTransforming \/ Resolving
  BY <1>8, SameForest DEF EndTransforming, Resolving, Resolve, AppendIssue, EndResolving, transformation, Late
<1> QED
  BY <1>1, <1>2, <1>3, <1>4, <1>5, <1>6, <1>7, <1>8, NextIs DEF Transforming, Stopped

(* The two actions that change what is registered or completed.            *)
LEMMA OtherSteps ==
    ASSUME TypeInv, PhaseInv, ForestInv, [Next]_vars
    PROVE  \/ TransformFields \/ \E d \in Definitions : AppendDefinition(d)
           \/ Registered' = Registered /\ Completed' = Completed /\ definitions' = definitions
<1>1. UNCHANGED transformation /\ program' = program =>
         Registered' = Registered /\ Completed' = Completed /\ definitions' = definitions
  BY DEF transformation, Registered, Completed, Owners
<1>2. program' = program
  BY ProgramIsFixed
<1>3. CASE TransformFile
  BY <1>3, FileForest DEF TransformFile
<1>4. CASE EndFile
  BY <1>4, EndFileForest DEF EndFile
<1>5. CASE Loading
  BY <1>1, <1>2, <1>5 DEF Loading, Validate, RejectSyntax, AddToPool, RejectFile, Defer, NextRound,
                         RejectDependencies, EndPool, Fail
<1>6. CASE RejectMapEntry \/ RejectFields \/ EndTransforming \/ \E d \in Definitions : RejectDefinition(d)
  BY <1>1, <1>2, <1>6 DEF RejectMapEntry, RejectFields, EndTransforming, RejectDefinition, Fail
<1>7. CASE Resolving
  BY <1>1, <1>2, <1>7 DEF Resolving, Resolve, AppendIssue, EndResolving
<1>8. CASE UNCHANGED vars
  BY <1>1, <1>8 DEF vars
<1> QED
  BY <1>3, <1>4, <1>5, <1>6, <1>7, <1>8, NextIs DEF Transforming, Stopped

-----------------------------------------------------------------------------
(* What is known of a definition.                                          *)

IsBegun(d) ==
    LET said == program.descriptor[d]
    IN  /\ said.kind = "enum" => IsEnum(said)
        /\ \A f \in Files : d \in Within(f) =>
              definitions[d].deployment_properties = Merged(f, said.options)
        /\ said.kind = "enum" /\ "size" \notin DOMAIN said.options => definitions[d].size = 32

IsCompleted(d) ==
    LET said == program.descriptor[d]
    IN  /\ IsMessage(said)
        /\ definitions[d].fields = Layout(said)
        /\ \A f \in Files : d \in Within(f) => definitions[d].unions = Unions(f, said)

DefInv ==
    /\ \A d \in Registered : IsBegun(d)
    /\ \A d \in Completed : IsCompleted(d)

LEMMA DefInit == Init => DefInv
BY DEF Init, DefInv, Registered, Completed

LEMMA SameDefinition ==
    ASSUME program' = program, NEW d, definitions'[d] = definitions[d]
    PROVE  (IsBegun(d) => IsBegun(d)') /\ (IsCompleted(d) => IsCompleted(d)')
BY SameInput DEF IsBegun, IsCompleted

LEMMA DefinedIs ==
    ASSUME NEW descriptor, descriptor.kind = "message" \/ descriptor.kind = "enum"
    PROVE  /\ Defined(descriptor).deployment_properties = Merged(File, descriptor.options)
           /\ descriptor.kind = "enum" /\ "size" \notin DOMAIN descriptor.options =>
                 Defined(descriptor).size = 32
<1> DEFINE properties == Merged(File, descriptor.options)
           signed == \E v \in ToSet(descriptor.values) : v < 0
<1> HIDE DEF properties, signed
<1>1. CASE descriptor.kind = "message"
  <2>1. [Blank EXCEPT !.deployment_properties = properties].deployment_properties = properties
    BY DEF Blank
  <2> QED
    BY <1>1, <2>1 DEF Defined, properties
<1>2. CASE descriptor.kind = "enum"
  <2>1. \A z : LET r == [Blank EXCEPT !.deployment_properties = properties, !.size = z, !.signed = signed]
               IN  r.deployment_properties = properties /\ r.size = z
    BY DEF Blank
  <2>2. "size" \notin DOMAIN descriptor.options => Size(descriptor.options) = 32
    BY DEF Size
  <2> QED
    BY <1>2, <2>1, <2>2 DEF Defined, properties, signed
<1> QED
  BY <1>1, <1>2

LEMMA DefStep == TypeInv /\ PhaseInv /\ ForestInv /\ DefInv /\ [Next]_vars => DefInv'
<1> SUFFICES ASSUME TypeInv, PhaseInv, ForestInv, DefInv, [Next]_vars PROVE DefInv'
  OBVIOUS
<1>1. /\ program' = program /\ program \in Programs
      /\ definitions \in [Definitions -> DefinitionRecord]
  BY ProgramIsFixed DEF TypeInv, TypeOK
<1>2. CASE Registered' = Registered /\ Completed' = Completed /\ definitions' = definitions
  BY <1>1, <1>2, SameDefinition DEF DefInv
<1>3. ASSUME NEW d \in Definitions, AppendDefinition(d) PROVE DefInv'
  <2> DEFINE said == program.descriptor[d]
  <2>1. /\ Registered' = Registered \cup {d} /\ d \notin Registered /\ Completed' = Completed
        /\ d \in Within(File) /\ File \in Files
    BY <1>3, PushForest
  <2>2. /\ definitions'[d] = Defined(said) /\ (said.kind = "enum" => IsEnum(said))
        /\ \A e \in Definitions : e # d => definitions'[e] = definitions[e]
    BY <1>1, <1>3 DEF AppendDefinition, CanDefine
  <2>3. said.kind = "message" \/ said.kind = "enum"
    BY <1>1, ProgramType DEF Descriptor
  <2>4. IsBegun(d)'
    <3>1. \A f \in Files : d \in Within(f) => f = File
      BY <1>1, <2>1, OneFile
    <3>2. \A f \in Files : Within(f)' = Within(f) /\ Merged(f, said.options)' = Merged(f, said.options)
      BY <1>1, SameInput
    <3>3. /\ definitions'[d].deployment_properties = Merged(File, said.options)
          /\ said.kind = "enum" /\ "size" \notin DOMAIN said.options => definitions'[d].size = 32
      BY <2>2, <2>3, DefinedIs
    <3>4. said' = said
      BY <1>1
    <3>5. \A f \in Files : (d \in Within(f))' =>
             definitions'[d].deployment_properties = Merged(f, said.options)'
      BY <3>1, <3>2, <3>3
    <3> HIDE DEF said
    <3>6. said = program.descriptor[d]
      BY DEF said
    <3> QED
      BY <1>1, <2>2, <3>3, <3>4, <3>5, <3>6 DEF IsBegun
  <2>5. \A e \in Registered : IsBegun(e)'
    BY <1>1, <2>1, <2>2, SameDefinition DEF DefInv, Registered
  <2>6. \A e \in Completed : IsCompleted(e)'
    BY <1>1, <2>1, <2>2, SameDefinition DEF DefInv, Registered, Completed
  <2> QED
    BY <2>1, <2>4, <2>5, <2>6 DEF DefInv
<1>4. CASE TransformFields
  <2>1. PICK d : d = Top.owner
    OBVIOUS
  <2>2. /\ Registered' = Registered /\ d \in Registered /\ d \in Within(File)
        /\ Completed' = Completed \cup {d} /\ d \in Definitions /\ IsMessage(program.descriptor[d])
    BY <1>4, <2>1, FieldsForest DEF TransformFields
  <2>3. File \in Files
    BY <1>4 DEF TransformFields, TypeInv
  <2>4. definitions' = [definitions EXCEPT ![d].fields = Layout(program.descriptor[d]),
                                           ![d].unions = Unions(File, program.descriptor[d])]
    BY <1>4, <2>1 DEF TransformFields, Unions
  <2>5. /\ \A e \in Definitions : e # d => definitions'[e] = definitions[e]
        /\ definitions'[d].fields = Layout(program.descriptor[d])
        /\ definitions'[d].unions = Unions(File, program.descriptor[d])
        /\ definitions'[d].deployment_properties = definitions[d].deployment_properties
        /\ definitions'[d].size = definitions[d].size
    BY <1>1, <2>2, <2>3, <2>4, FieldsType
  <2>6. \A f \in Files : d \in Within(f) => f = File
    BY <1>1, <2>2, <2>3, OneFile
  <2>7. IsCompleted(d)'
    BY <1>1, <2>2, <2>5, <2>6, SameInput DEF IsCompleted
  <2>8. IsBegun(d)'
    BY <1>1, <2>2, <2>5, SameInput DEF IsBegun, DefInv
  <2>9. \A e \in Registered : e # d => IsBegun(e)'
    BY <1>1, <2>5, SameDefinition DEF DefInv, Registered
  <2>10. \A e \in Completed : e # d => IsCompleted(e)'
    BY <1>1, <2>5, SameDefinition DEF DefInv, Registered, Completed
  <2> QED
    BY <2>2, <2>7, <2>8, <2>9, <2>10 DEF DefInv
<1> QED
  BY <1>2, <1>3, <1>4, OtherSteps

-----------------------------------------------------------------------------
(* The references that are recorded.                                       *)

RefInv ==
    /\ IsInjective(unresolved_references)
    /\ phase = "transforming" =>
          \A x : x \in ToSet(unresolved_references) <=> \E d \in Completed : x \in SlotsOf(d)

LEMMA NothingRecorded == IsInjective(<<>>)
BY DEF IsInjective

LEMMA RefInit == Init => RefInv
BY NothingRecorded DEF Init, RefInv

LEMMA RefStep == TypeInv /\ PhaseInv /\ ForestInv /\ RefInv /\ [Next]_vars => RefInv'
<1> SUFFICES ASSUME TypeInv, PhaseInv, ForestInv, RefInv, [Next]_vars PROVE RefInv'
  OBVIOUS
<1>1. /\ program' = program /\ program \in Programs /\ unresolved_references \in Seq(Slots)
      /\ \A d : SlotsOf(d)' = SlotsOf(d)
  BY ProgramIsFixed, SameInput DEF TypeInv, TypeOK
<1>2. CASE TransformFields
  <2>1. PICK d : d = Top.owner
    OBVIOUS
  <2>2. /\ d \notin Completed /\ Completed' = Completed \cup {d} /\ d \in Definitions
        /\ phase = "transforming" /\ phase' = phase
        /\ unresolved_references' = unresolved_references \o References(d)
    BY <1>2, <2>1, FieldsForest DEF TransformFields
  <2>3. /\ References(d) \in Seq(Slots) /\ IsInjective(References(d))
        /\ \A x : x \in ToSet(References(d)) <=> x \in SlotsOf(d)
    BY <1>1, <2>2, ReferencesAre
  <2>4. \A e, x : x \in SlotsOf(e) => x[1] = e
    BY DEF SlotsOf, SlotsIn
  <2>5. ToSet(unresolved_references) \cap ToSet(References(d)) = {}
    BY <2>2, <2>3, <2>4 DEF RefInv
  <2>6. IsInjective(unresolved_references')
    BY <1>1, <2>2, <2>3, <2>5, InjectiveConcat DEF RefInv
  <2>7. ToSet(unresolved_references') = ToSet(unresolved_references) \cup ToSet(References(d))
    BY <1>1, <2>2, <2>3, ToSetConcat
  <2> QED
    BY <1>1, <2>2, <2>3, <2>6, <2>7 DEF RefInv
<1>3. CASE Resolving
  <2>1. phase' # "transforming"
    BY <1>3 DEF Resolving, Resolve, AppendIssue, EndResolving
  <2>2. CASE unresolved_references # <<>> /\ unresolved_references' = Tail(unresolved_references)
    BY <1>1, <2>1, <2>2, InjectiveTail DEF RefInv
  <2>3. CASE unresolved_references' = unresolved_references
    BY <2>1, <2>3 DEF RefInv
  <2> QED
    BY <1>3, <2>2, <2>3 DEF Resolving, Resolve, AppendIssue, EndResolving, RestAfterIssue
<1>4. CASE EndPool
  <2>1. Completed' = {} /\ unresolved_references = <<>> /\ unresolved_references' = <<>>
    BY <1>1, <1>4 DEF EndPool, PhaseInv, transformation, Completed, Registered
  <2> QED
    BY <2>1, NoFiles, NothingRecorded DEF RefInv
<1>5. CASE ((Registered' = Registered /\ Completed' = Completed) \/ \E d \in Definitions : AppendDefinition(d))
             /\ ~Resolving /\ ~EndPool /\ ~TransformFields
  <2>1. Completed' = Completed
    BY <1>5, PushForest
  <2>2. unresolved_references' = unresolved_references /\ (phase' = "transforming" => phase = "transforming")
    BY <1>5, NextIs DEF Loading, Validate, RejectSyntax, AddToPool, RejectFile, Defer, NextRound, RejectDependencies,
          Transforming, TransformFile, RejectMapEntry, EndFile, EndTransforming, AppendDefinition,
          RejectDefinition, RejectFields, Fail, Stopped, vars
  <2> QED
    BY <1>1, <2>1, <2>2 DEF RefInv
<1> QED
  BY <1>2, <1>3, <1>4, <1>5, OtherSteps

-----------------------------------------------------------------------------
(* Resolution.                                                             *)

(* At the end everything that is declared is registered and transformed.   *)
LEMMA EndOfForest ==
    ASSUME TypeInv, ForestInv, Late, stack = <<>>, remaining_files = <<>>
    PROVE  /\ Registered = Declared /\ Completed = Declared
           /\ Started = Listed /\ FinishedCount = Len(program.order)
           /\ \A k, d : d \in Meant(k) <=> d \in Definitions /\ <<k, d>> \in definitions_by_key
<1>1. program \in Programs /\ program.order \in Seq(Files) /\ Len(program.order) \in Nat
  BY ProgramType DEF TypeInv, TypeOK
<1>2. Count = Len(program.order) /\ FinishedCount = Count
  <2>1. Len(remaining_files) = 0
    OBVIOUS
  <2> QED
    BY <1>1, <2>1 DEF Count, FinishedCount
<1>3. Started = Listed /\ Finished = Listed
  <2>1. Listed = {program.order[i] : i \in 1..Len(program.order)}
    BY <1>1 DEF Listed, ToSet
  <2> QED
    BY <1>2, <2>1 DEF Started, Finished
<1>4. Completed = Registered
  <2>1. Owners = {}
    BY DEF Owners
  <2> QED
    BY <2>1 DEF Completed
<1>5. Registered = Declared
  <2>1. IsClosed(Listed, Registered) /\ Registered \in SUBSET Definitions
    BY <1>3, <1>4 DEF ForestInv, TreeInv, IsClosed, Registered
  <2>2. Declared \subseteq Registered
    BY <2>1, DeclaredLeast
  <2> QED
    BY <2>2 DEF ForestInv, TreeInv
<1>6. ASSUME NEW k, NEW d PROVE d \in Meant(k) <=> d \in Definitions /\ <<k, d>> \in definitions_by_key
  <2>1. <<k, d>> \in definitions_by_key => d \in Definitions /\ k = program.key[d]
    <3>1. SUFFICES ASSUME <<k, d>> \in definitions_by_key
                   PROVE  d \in Definitions /\ k = program.key[d]
      OBVIOUS
    <3> DEFINE z == <<k, d>>
    <3>2. z[2] \in Definitions /\ z = <<program.key[z[2]], z[2]>>
      BY <3>1 DEF ForestInv, KeyInv
    <3>3. z[1] = k /\ z[2] = d
      OBVIOUS
    <3> HIDE DEF z
    <3> QED
      BY <3>2, <3>3
  <2> QED
    BY <1>5, <2>1 DEF Meant, Registered
<1> QED
  BY <1>2, <1>3, <1>4, <1>5, <1>6

IsBound(slot, d) == slot \in AllSlots \ ToSet(unresolved_references) /\ d \in Meant(KeyIn(slot))

(* What has been taken from the list is bound to what its key means, or is *)
(* an issue if its key means nothing.                                      *)
ResolvedInv ==
    phase \in {"resolving", "done"} \/ resolver_issues # <<>> =>
        /\ ToSet(unresolved_references) \subseteq AllSlots
        /\ \A x : x \in bound <=> \E slot, d : IsBound(slot, d) /\ x = <<slot, d>>
        /\ \A slot : slot \in ToSet(resolver_issues) <=>
                        /\ slot \in AllSlots \ ToSet(unresolved_references)
                        /\ Meant(KeyIn(slot)) = {}
        /\ IsInjective(resolver_issues)
        /\ phase = "failed" => unresolved_references = <<>>

LEMMA ResolvedInit == Init => ResolvedInv
BY DEF Init, ResolvedInv

LEMMA SameResolved ==
    ASSUME ResolvedInv, UNCHANGED <<program, unresolved_references, bound, resolver_issues>>,
           phase' \in {"resolving", "done"} \/ resolver_issues # <<>> =>
               phase \in {"resolving", "done"} \/ resolver_issues # <<>>,
           phase' = "failed" => phase = "failed" \/ unresolved_references = <<>>
    PROVE  ResolvedInv'
<1>1. AllSlots' = AllSlots /\ \A slot : KeyIn(slot)' = KeyIn(slot) /\ \A k : Meant(k)' = Meant(k)
  BY SameInput
<1>2. \A slot : Meant(KeyIn(slot))' = Meant(KeyIn(slot))
  BY <1>1, SameInput DEF Meant, KeyIn
<1>3. \A slot, d : IsBound(slot, d)' <=> IsBound(slot, d)
  BY <1>1, <1>2 DEF IsBound
<1> QED
  BY <1>1, <1>2, <1>3 DEF ResolvedInv

(* The first of the list is taken from it.                                 *)
LEMMA TakeSlot ==
    ASSUME TypeInv, PhaseInv, ForestInv, RefInv, ResolvedInv, phase = "resolving",
           unresolved_references # <<>>, program' = program,
           unresolved_references' = Tail(unresolved_references)
    PROVE  LET slot == Head(unresolved_references)
           IN  /\ slot \in AllSlots /\ slot \in Slots /\ slot \in ToSet(unresolved_references)
               /\ ToSet(unresolved_references) = {slot} \cup ToSet(unresolved_references')
               /\ ToSet(unresolved_references') \subseteq AllSlots
               /\ \A x : x \in AllSlots \ ToSet(unresolved_references') <=>
                            x = slot \/ x \in AllSlots \ ToSet(unresolved_references)
               /\ \A d : d \in Meant(KeyIn(slot)) <=>
                            d \in Definitions /\ <<KeyIn(slot), d>> \in definitions_by_key
               /\ \A d, e \in Meant(KeyIn(slot)) : d = e
<1> DEFINE slot == Head(unresolved_references)
<1>1. /\ unresolved_references \in Seq(Slots) /\ IsInjective(unresolved_references)
      /\ ToSet(unresolved_references) \subseteq AllSlots
  BY DEF TypeInv, TypeOK, RefInv, ResolvedInv
<1>2. /\ slot \in Slots /\ slot \notin ToSet(unresolved_references')
      /\ ToSet(unresolved_references) = {slot} \cup ToSet(unresolved_references')
  BY <1>1, HeadAndTail, InjectiveTail
<1>3. /\ \A k, d : d \in Meant(k) <=> d \in Definitions /\ <<k, d>> \in definitions_by_key
      /\ Registered = Declared
  BY EndOfForest DEF PhaseInv, Late
<1>4. \A k : \A d, e \in Meant(k) : d = e
  BY <1>3 DEF Meant, ForestInv, KeyInv
<1> QED
  BY <1>1, <1>2, <1>3, <1>4

LEMMA ResolvedStep ==
    TypeInv /\ PhaseInv /\ ForestInv /\ RefInv /\ ResolvedInv /\ [Next]_vars => ResolvedInv'
<1> SUFFICES ASSUME TypeInv, PhaseInv, ForestInv, RefInv, ResolvedInv, [Next]_vars PROVE ResolvedInv'
  OBVIOUS
<1>1. /\ program' = program /\ program \in Programs /\ AllSlots' = AllSlots
      /\ resolver_issues \in Seq(Slots)
      /\ \A slot : Meant(KeyIn(slot))' = Meant(KeyIn(slot))
  BY ProgramIsFixed, SameInput DEF TypeInv, TypeOK, Meant, KeyIn
<1>2. CASE Resolve
  <2>1. PICK slot : slot = Head(unresolved_references)
    OBVIOUS
  <2>2. PICK d \in Definitions : /\ <<KeyIn(slot), d>> \in definitions_by_key
                                 /\ bound' = bound \cup {<<slot, d>>}
    BY <1>2, <2>1 DEF Resolve
  <2>3. /\ phase = "resolving" /\ phase' = phase /\ unresolved_references # <<>>
        /\ unresolved_references' = Tail(unresolved_references) /\ resolver_issues' = resolver_issues
    BY <1>2 DEF Resolve
  <2>4. /\ ToSet(unresolved_references') \subseteq AllSlots
        /\ \A x : x \in AllSlots \ ToSet(unresolved_references') <=>
                     x = slot \/ x \in AllSlots \ ToSet(unresolved_references)
        /\ \A e : e \in Meant(KeyIn(slot)) <=> e = d
    BY <1>1, <2>1, <2>2, <2>3, TakeSlot
  <2>5. \A s, e : IsBound(s, e)' <=> (IsBound(s, e) \/ (s = slot /\ e = d))
    BY <1>1, <2>4 DEF IsBound
  <2>6. \A x : x \in bound' <=> \E s, e : IsBound(s, e)' /\ x = <<s, e>>
    BY <2>2, <2>3, <2>5 DEF ResolvedInv
  <2>7. \A s : s \in ToSet(resolver_issues)' <=>
                  /\ s \in AllSlots' \ ToSet(unresolved_references')
                  /\ Meant(KeyIn(s))' = {}
    BY <1>1, <2>3, <2>4 DEF ResolvedInv
  <2> QED
    BY <1>1, <2>3, <2>4, <2>6, <2>7 DEF ResolvedInv
<1>3. CASE AppendIssue
  <2>1. PICK slot : slot = Head(unresolved_references)
    OBVIOUS
  <2>2. /\ phase = "resolving" /\ phase' = phase /\ unresolved_references # <<>>
        /\ \A d \in Definitions : <<KeyIn(slot), d>> \notin definitions_by_key
        /\ resolver_issues' = Append(resolver_issues, slot) /\ bound' = bound
        /\ unresolved_references' = Tail(unresolved_references)
    BY <1>3, <2>1 DEF AppendIssue, RestAfterIssue
  <2>3. /\ ToSet(unresolved_references') \subseteq AllSlots
        /\ \A x : x \in AllSlots \ ToSet(unresolved_references') <=>
                     x = slot \/ x \in AllSlots \ ToSet(unresolved_references)
        /\ slot \in Slots /\ slot \in ToSet(unresolved_references) /\ Meant(KeyIn(slot)) = {}
    BY <1>1, <2>1, <2>2, TakeSlot
  <2>4. \A s, e : IsBound(s, e)' <=> IsBound(s, e)
    BY <1>1, <2>3 DEF IsBound
  <2>5. ToSet(resolver_issues') = ToSet(resolver_issues) \cup {slot}
    BY <1>1, <2>2, <2>3, ToSetAppend
  <2>6. \A s : s \in ToSet(resolver_issues') <=>
                  /\ s \in AllSlots' \ ToSet(unresolved_references')
                  /\ Meant(KeyIn(s))' = {}
    BY <1>1, <2>2, <2>3, <2>5 DEF ResolvedInv
  <2>7. IsInjective(resolver_issues')
    BY <1>1, <2>2, <2>3, InjectiveAppend DEF ResolvedInv
  <2>8. \A x : x \in bound' <=> \E s, e : IsBound(s, e)' /\ x = <<s, e>>
    BY <2>2, <2>4 DEF ResolvedInv
  <2> QED
    BY <1>1, <2>2, <2>3, <2>6, <2>7, <2>8 DEF ResolvedInv
<1>4. CASE EndTransforming
  <2>1. /\ stack = <<>> /\ remaining_files = <<>> /\ phase = "transforming" /\ phase' = "resolving"
        /\ unresolved_references' = unresolved_references
        /\ bound = {} /\ bound' = {} /\ resolver_issues = <<>> /\ resolver_issues' = <<>>
    BY <1>4 DEF EndTransforming, PhaseInv, resolution
  <2>2. Completed = Declared
    BY <2>1, EndOfForest DEF Late
  <2>3. ToSet(unresolved_references) = AllSlots
    BY <1>1, <2>1, <2>2, AllSlotsAre DEF RefInv
  <2>4. \A s, d : ~IsBound(s, d)'
    BY <1>1, <2>1, <2>3 DEF IsBound
  <2> QED
    BY <1>1, <2>1, <2>3, <2>4, NoFiles, NothingRecorded DEF ResolvedInv
<1>5. CASE EndResolving \/ UNCHANGED vars
  BY <1>1, <1>5, SameResolved DEF EndResolving, vars, resolution
<1>6. CASE Loading \/ (Transforming /\ ~EndTransforming)
  <2>1. resolver_issues' = <<>> /\ phase' \notin {"resolving", "done"}
    BY <1>6 DEF PhaseInv, Loading, Validate, RejectSyntax, AddToPool, RejectFile, Defer, NextRound, RejectDependencies,
          EndPool, Transforming, TransformFile, RejectMapEntry, EndFile, AppendDefinition,
          RejectDefinition, Declares, TransformFields, RejectFields, Fail, resolution
  <2> QED
    BY <2>1 DEF ResolvedInv
<1> QED
  BY <1>2, <1>3, <1>4, <1>5, <1>6, NextIs DEF Resolving, Stopped

-----------------------------------------------------------------------------
(* Failures.                                                               *)

FailInv == phase = "failed" => ~(WellFormed /\ ImportsWhatItNames)

LEMMA FailInit == Init => FailInv
BY DEF Init, FailInv

(* What is on the stack is declared.                                       *)
LEMMA OnStack ==
    ASSUME TypeInv, ForestInv, Late, stack # <<>>
    PROVE  /\ File \in Listed
           /\ Top.owner \in Definitions => Top.owner \in Declared
           /\ ToSet(Top.rest) \subseteq ToSet(program.members[Top.owner])
           /\ ToSet(program.members[Top.owner]) \subseteq Declared
<1>1. program \in Programs
  BY DEF TypeInv, TypeOK
<1>2. /\ IsPart(Top) /\ File \in Files /\ Count >= 1 /\ File = program.order[Count]
      /\ Top.owner = File \/ (Top.owner \in Registered /\ Top.owner \in Within(File))
      /\ Top.owner \notin Files \cap Definitions
  BY OnTop
<1>3. File \in Listed
  <2>1. Count \in 1..Len(program.order) /\ program.order \in Seq(Files)
    BY <1>1, <1>2, ProgramType DEF ForestInv, OrderInv
  <2> QED
    BY <1>2, <2>1, ToSetOfList DEF Listed
<1>4. Top.owner = File \/ Top.owner \in Declared
  BY <1>1, <1>2, <1>3, WithinDeclared
<1>5. IsClosed(Listed, Declared)
  BY <1>1, DeclaredClosed
<1> QED
  BY <1>2, <1>3, <1>4, <1>5 DEF IsClosed, IsPart

(* A key that is in use already is that of another declaration, or that of *)
(* the same in a file that is listed twice.                                *)
LEMMA UsedKey ==
    ASSUME TypeInv, ForestInv, Late, stack # <<>>, Top.rest # <<>>,
           NEW d \in Definitions, d = Head(Top.rest), ~IsNewKey(d)
    PROVE  ~HasUniqueKeys
<1>1. program \in Programs /\ Top.rest \in Seq(Definitions) /\ Len(program.order) \in Nat
      /\ DOMAIN program.order = 1..Len(program.order)
  <2>1. program \in Programs /\ stack \in Seq(Frames)
    BY DEF TypeInv, TypeOK, Frames
  <2> QED
    BY <2>1, ProgramType, TopType
<1>2. d \in ToSet(Top.rest) /\ d \in ToSet(program.members[Top.owner]) /\ d \in Declared
  BY <1>1, HeadAndTail, OnStack
<1>3. PICK e \in Definitions : <<program.key[d], e>> \in definitions_by_key
  BY DEF IsNewKey
<1>4. e \in Registered /\ program.key[e] = program.key[d]
  <2> DEFINE z == <<program.key[d], e>>
  <2>1. z = <<program.key[z[2]], z[2]>>
    BY <1>3 DEF ForestInv, KeyInv
  <2>2. z[1] = program.key[d] /\ z[2] = e
    OBVIOUS
  <2> HIDE DEF z
  <2>3. program.key[e] = program.key[d]
    BY <2>1, <2>2
  <2> QED
    BY <1>3, <2>3 DEF Registered
<1>5. e \in Declared
  BY <1>4 DEF ForestInv, TreeInv
<1>6. CASE e # d
  BY <1>2, <1>4, <1>5, <1>6 DEF HasUniqueKeys
<1>7. CASE e = d
  <2>1. Len(stack) \in 1..Len(stack) /\ Top = stack[Len(stack)] /\ Count >= 1
        /\ File = program.order[Count]
    BY OnTop
  <2>2. Len(stack) = 1 /\ File \in Finished
    BY <1>2, <1>4, <1>7, <2>1 DEF ForestInv, StackInv
  <2>3. Top.owner = File
    BY <2>1, <2>2 DEF File
  <2>4. PICK i \in 1..(Count - 1) : File = program.order[i]
    BY <2>2 DEF Finished, FinishedCount
  <2>5. Count \in 0..Len(program.order)
    BY DEF ForestInv, OrderInv
  <2>6. i \in DOMAIN program.order /\ Count \in DOMAIN program.order /\ i # Count
    BY <1>1, <2>1, <2>4, <2>5
  <2>7. program.members[File] # <<>>
    BY <1>2, <2>3, NoFiles
  <2> QED
    BY <2>1, <2>4, <2>6, <2>7 DEF HasUniqueKeys
<1> QED
  BY <1>6, <1>7

LEMMA FailStep ==
    TypeInv /\ PhaseInv /\ PoolInv /\ BuiltInv /\ ForestInv /\ ResolvedInv /\ FailInv /\ [Next]_vars
        => FailInv'
<1> SUFFICES ASSUME TypeInv, PhaseInv, PoolInv, BuiltInv, ForestInv, ResolvedInv, FailInv, [Next]_vars
             PROVE  FailInv'
  OBVIOUS
<1>1. /\ program \in Programs /\ (WellFormed' <=> WellFormed)
      /\ (ImportsWhatItNames' <=> ImportsWhatItNames)
  BY ProgramIsFixed, SameInput DEF TypeInv, TypeOK
<1>2. CASE RejectSyntax
  BY <1>1, <1>2 DEF RejectSyntax, IsProto3, WellFormed, Listed, FailInv
<1>3. CASE RejectDependencies
  BY <1>1, <1>3, StuckPool DEF RejectDependencies, CanGoOn, WellFormed, FailInv
<1>4. CASE RejectMapEntry
  <2>1. /\ Late /\ remaining_files # <<>> /\ Head(remaining_files) \in program.map_entries
        /\ remaining_files \in Seq(Files)
    BY <1>4 DEF RejectMapEntry, Late, TypeInv, TypeOK
  <2>2. /\ Head(remaining_files) = remaining_files[1] /\ Len(remaining_files) \in Nat \ {0}
    BY <2>1, HeadAndTail
  <2>3. /\ Count \in 0..Len(program.order) /\ remaining_files[1] = program.order[Count + 1]
    BY <2>1, <2>2 DEF ForestInv, OrderInv
  <2>4. Count + 1 \in 1..Len(program.order) /\ program.order \in Seq(Files)
    BY <1>1, <2>2, <2>3, ProgramType DEF Count
  <2>5. Head(remaining_files) \in Listed
    BY <2>2, <2>3, <2>4, ToSetOfList DEF Listed
  <2> QED
    BY <1>1, <2>1, <2>5 DEF WellFormed, FailInv
<1>5. ASSUME NEW d \in Definitions, RejectDefinition(d) PROVE FailInv'
  <2>1. Late /\ stack # <<>> /\ Top.rest # <<>> /\ d = Head(Top.rest) /\ ~CanDefine(d)
    BY <1>5 DEF RejectDefinition, Declares, Late
  <2>2. Top.rest \in Seq(Definitions)
    <3>1. stack \in Seq(Frames)
      BY DEF TypeInv, TypeOK, Frames
    <3> QED
      BY <2>1, <3>1, TopType
  <2>3. d \in Declared
    BY <2>1, <2>2, HeadAndTail, OnStack
  <2>4. CASE ~IsNewKey(d)
    BY <1>1, <2>1, <2>4, UsedKey DEF WellFormed, FailInv
  <2>5. CASE program.descriptor[d].kind = "enum" /\ ~IsEnum(program.descriptor[d])
    BY <1>1, <2>3, <2>5 DEF WellFormed, FailInv
  <2> QED
    BY <2>1, <2>4, <2>5 DEF CanDefine
<1>6. CASE RejectFields
  <2>1. Late /\ stack # <<>> /\ Top.owner \in Definitions /\ ~IsMessage(program.descriptor[Top.owner])
    BY <1>6 DEF RejectFields, Late
  <2>2. Top.owner \in Declared
    BY <2>1, OnStack
  <2> QED
    BY <1>1, <2>1, <2>2 DEF WellFormed, FailInv
<1>7. CASE EndResolving
  <2>1. CASE resolver_issues = <<>>
    BY <1>7, <2>1 DEF EndResolving, FailInv
  <2>2. CASE resolver_issues # <<>>
    <3>1. resolver_issues \in Seq(Slots)
      BY DEF TypeInv, TypeOK
    <3>2. Head(resolver_issues) \in ToSet(resolver_issues)
      BY <2>2, <3>1, HeadAndTail
    <3>3. \E slot \in AllSlots : Meant(KeyIn(slot)) = {}
      BY <2>2, <3>2 DEF ResolvedInv
    <3> QED
      BY <1>1, <3>3 DEF WellFormed, FailInv
  <2> QED
    BY <2>1, <2>2
<1>8. CASE UNCHANGED vars
  BY <1>1, <1>8 DEF FailInv, vars
<1>9. CASE \/ Validate \/ AddToPool \/ Defer \/ NextRound \/ EndPool \/ TransformFile \/ EndFile
           \/ EndTransforming \/ TransformFields \/ Resolve \/ AppendIssue
           \/ \E d \in Definitions : AppendDefinition(d)
  BY <1>9 DEF Validate, AddToPool, Defer, NextRound, EndPool, TransformFile, EndFile, EndTransforming,
     TransformFields, Resolve, AppendIssue, AppendDefinition, Declares, FailInv
<1>10. CASE RejectFile
  BY <1>1, <1>10, UnbuiltFile DEF FailInv
<1> QED
  BY <1>2, <1>3, <1>4, <1>5, <1>6, <1>7, <1>8, <1>9, <1>10 DEF Next, Stopped

-----------------------------------------------------------------------------
(* The inductive invariant.                                                *)

IInv ==
    TypeInv /\ PhaseInv /\ PoolInv /\ BuiltInv /\ ForestInv /\ DefInv /\ RefInv /\ ResolvedInv /\ FailInv

LEMMA Invariance == Spec => []IInv
<1>1. Init => IInv
  BY TypeInit, PhaseInit, PoolInit, BuiltInit, ForestInit, DefInit, RefInit, ResolvedInit, FailInit DEF IInv
<1>2. IInv /\ [Next]_vars => IInv'
  BY TypeStep, PhaseStep, PoolStep, BuiltStep, ForestStep, DefStep, RefStep, ResolvedStep, FailStep
     DEF IInv
<1> QED
  BY <1>1, <1>2, PTL DEF Spec

(* When the parser is done.                                                *)
LEMMA AtTheEnd ==
    ASSUME IInv, phase = "done"
    PROVE  /\ program \in Programs /\ Late /\ unresolved_references = <<>> /\ resolver_issues = <<>>
           /\ Registered = Declared /\ Completed = Declared /\ Started = Listed
           /\ FinishedCount = Len(program.order)
           /\ \A d \in Declared : IsBegun(d) /\ IsCompleted(d)
<1>1. /\ program \in Programs /\ Late /\ unresolved_references = <<>> /\ resolver_issues = <<>>
      /\ stack = <<>> /\ remaining_files = <<>>
  BY DEF IInv, TypeInv, TypeOK, PhaseInv, Late
<1>2. /\ Registered = Declared /\ Completed = Declared /\ Started = Listed
      /\ FinishedCount = Len(program.order)
  BY <1>1, EndOfForest DEF IInv
<1> QED
  BY <1>1, <1>2 DEF IInv, DefInv

(* The parser succeeds with well-formed inputs only: the files have a pool,*)
(* no key is used twice, every message and enum is what it must be and     *)
(* every name means something.  It fails with none of them in which every  *)
(* file imports what it names, whatever the order of the files.            *)
THEOREM AcceptsWellFormedAlways == Spec => []AcceptsWellFormed
<1>1. ASSUME IInv PROVE AcceptsWellFormed
  <2>1. phase = "failed" => ~(WellFormed /\ ImportsWhatItNames)
    BY <1>1 DEF IInv, FailInv
  <2>2. ASSUME phase = "done" PROVE WellFormed
    <3>1. /\ program \in Programs /\ Late /\ unresolved_references = <<>> /\ resolver_issues = <<>>
          /\ Registered = Declared /\ Completed = Declared /\ Started = Listed
          /\ FinishedCount = Len(program.order)
          /\ \A d \in Declared : IsBegun(d) /\ IsCompleted(d)
      BY <1>1, <2>2, AtTheEnd
    <3>2. Listed \subseteq program.proto3 /\ HasPool
      BY <1>1, <2>2, <3>1 DEF IInv, PhaseInv, PoolInv
    <3>3. HasUniqueKeys
      <4>1. DOMAIN program.order = 1..FinishedCount
        BY <3>1, ProgramType
      <4> QED
        BY <1>1, <3>1, <4>1 DEF IInv, ForestInv, OrderInv, KeyInv, HasUniqueKeys
    <3>4. Listed \cap program.map_entries = {}
      BY <1>1, <3>1 DEF IInv, ForestInv, OrderInv
    <3>5. \A d \in Declared : /\ IsMessage(program.descriptor[d])
                              /\ program.descriptor[d].kind = "enum" => IsEnum(program.descriptor[d])
      BY <3>1 DEF IsBegun, IsCompleted
    <3>6. \A slot \in AllSlots : Meant(KeyIn(slot)) # {}
      BY <1>1, <2>2, <3>1, NoFiles DEF IInv, ResolvedInv
    <3>7. \A f \in Listed : IsBuilt(f)
      BY <1>1, <3>1 DEF IInv, BuiltInv
    <3>8. ASSUME NEW d \in Declared
          PROVE  program.key[d] \notin Builtin /\ IsDescriptor(program.descriptor[d])
      BY <3>1, <3>7, <3>8, DeclaredWithin DEF IsBuilt, KeysOf
    <3> QED
      BY <3>2, <3>3, <3>4, <3>5, <3>6, <3>7, <3>8 DEF WellFormed, IsBuilt
  <2> QED
    BY <2>1, <2>2 DEF AcceptsWellFormed
<1> QED
  BY <1>1, Invariance, PTL

(* After a successful parse every place that names a type is bound, and to *)
(* nothing but the one definition with that key.                           *)
THEOREM EverySlotBoundAlways == Spec => []EverySlotBound
<1>1. ASSUME IInv PROVE EverySlotBound
  <2>1. SUFFICES ASSUME phase = "done"
                 PROVE  bound = UNION {{slot} \X Meant(KeyIn(slot)) : slot \in AllSlots}
    BY DEF EverySlotBound
  <2>2. \A x : x \in bound <=> \E slot, d : IsBound(slot, d) /\ x = <<slot, d>>
    BY <1>1, <2>1 DEF IInv, ResolvedInv
  <2>3. \A slot, d : IsBound(slot, d) <=> slot \in AllSlots /\ d \in Meant(KeyIn(slot))
    BY <1>1, <2>1, AtTheEnd, NoFiles DEF IsBound
  <2>4. \A x : x \in bound <=> \E slot \in AllSlots : x \in {slot} \X Meant(KeyIn(slot))
    BY <2>2, <2>3
  <2> QED
    BY <2>4
<1> QED
  BY <1>1, Invariance, PTL

(* After a successful parse each field of a message is found once in its   *)
(* struct, in the one union of its oneof or alone, in the order of the     *)
(* text, whatever lies between the members of a oneof.                     *)
THEOREM FieldsInPlaceAlways == Spec => []FieldsInPlace
<1>1. ASSUME IInv PROVE FieldsInPlace
  <2>1. SUFFICES ASSUME phase = "done", NEW d \in Declared
        PROVE  LET said == program.descriptor[d].fields
                   found == definitions[d].fields
               IN  /\ \A i \in DOMAIN said :
                         \E k \in DOMAIN found :
                             /\ \A j \in DOMAIN found : i \in ToSet(found[j].members) <=> j = k
                             /\ IF said[i].oneof = 0 \/ said[i].proto3_optional
                                THEN found[k] = [oneof |-> 0, members |-> <<i>>]
                                ELSE /\ found[k].oneof = said[i].oneof
                                     /\ \A j \in DOMAIN found : found[j].oneof = found[k].oneof => j = k
                   /\ {u.oneof : u \in definitions[d].unions}
                         = {found[k].oneof : k \in DOMAIN found} \ {0}
                   /\ \A k \in DOMAIN found : \A m, n \in DOMAIN found[k].members :
                         m < n => found[k].members[m] < found[k].members[n]
                   /\ \A j, k \in DOMAIN found : j < k => Head(found[j].members) < Head(found[k].members)
    BY DEF FieldsInPlace
  <2> DEFINE descriptor == program.descriptor[d]
             said == descriptor.fields
             found == definitions[d].fields
             of == RealOneof(descriptor)
             N == Len(said)
  <2>2. /\ program \in Programs /\ IsCompleted(d) /\ d \in Definitions
    BY <1>1, <2>1, AtTheEnd, DeclaredIs
  <2>3. descriptor \in Descriptor
    BY <2>2, ProgramType
  <2>4. DOMAIN said = 1..N /\ N \in Nat /\ \A i \in 1..N : said[i] \in Field
    BY <2>3 DEF Descriptor
  <2>5. IsWellPlaced(found, of, N)
    BY <2>2, <2>3, LayoutIs DEF IsCompleted
  <2>6. \A i \in 1..N : of[i] = _real_oneof_index(said[i])
    BY DEF RealOneof
  <2>7. \A i \in 1..N : /\ said[i].oneof \in Nat /\ said[i].proto3_optional \in BOOLEAN
                        /\ of[i] = IF said[i].proto3_optional THEN 0 ELSE said[i].oneof
    BY <2>4, <2>6 DEF Field, _real_oneof_index
  <2>8. PICK f \in Files : definitions[d].unions = Unions(f, descriptor)
    BY <2>1, <2>2, DeclaredWithin, ProgramType DEF IsCompleted
  <2>9. RealOneofs(descriptor) = {of[i] : i \in 1..N} \ {0}
    BY <2>4, <2>6 DEF RealOneofs
  <2>10. {u.oneof : u \in definitions[d].unions} = RealOneofs(descriptor)
    <3> HIDE DEF descriptor
    <3>1. ASSUME NEW u \in Unions(f, descriptor) PROVE u.oneof \in RealOneofs(descriptor)
      BY <3>1 DEF Unions
    <3>2. ASSUME NEW o \in RealOneofs(descriptor) PROVE \E u \in Unions(f, descriptor) : u.oneof = o
      <4> DEFINE u == [oneof |-> o, options |-> Merged(f, descriptor.oneofs[o])]
      <4>1. u \in Unions(f, descriptor)
        BY DEF Unions
      <4>2. u.oneof = o
        OBVIOUS
      <4> QED
        BY <4>1, <4>2
    <3> QED
      BY <2>8, <3>1, <3>2
  <2> HIDE DEF said, found, of, N, descriptor
  <2>11. /\ found \in Seq(Entries) /\ DOMAIN found = 1..Len(found)
         /\ \A k \in 1..Len(found) : IsEntry(found[k], of, N) /\ found[k] \in Entries
    BY <2>5 DEF IsWellPlaced
  <2>12. ASSUME NEW i \in 1..N
         PROVE  \E k \in DOMAIN found :
                    /\ \A j \in DOMAIN found : i \in ToSet(found[j].members) <=> j = k
                    /\ IF said[i].oneof = 0 \/ said[i].proto3_optional
                       THEN found[k] = [oneof |-> 0, members |-> <<i>>]
                       ELSE /\ found[k].oneof = said[i].oneof
                            /\ \A j \in DOMAIN found : found[j].oneof = found[k].oneof => j = k
    <3>1. PICK k \in 1..Len(found) : i \in ToSet(found[k].members)
      BY <2>5 DEF IsWellPlaced
    <3>2. \A j \in 1..Len(found) : i \in ToSet(found[j].members) <=> j = k
      BY <2>5, <3>1 DEF IsWellPlaced
    <3>3. found[k].oneof = of[i]
      BY <2>11, <3>1 DEF IsEntry
    <3>4. CASE said[i].oneof = 0 \/ said[i].proto3_optional
      <4>1. found[k].oneof = 0
        BY <2>7, <3>3, <3>4
      <4>2. Len(found[k].members) = 1 /\ found[k].members \in Seq(Nat)
        BY <2>11, <4>1 DEF IsEntry, Entries
      <4>3. found[k].members = <<i>>
        <5>1. PICK m \in 1..1 : i = found[k].members[m]
          BY <3>1, <4>2, ToSetOfList
        <5> QED
          BY <4>2, <5>1
      <4>4. found[k] = [oneof |-> 0, members |-> <<i>>]
        BY <2>11, <4>1, <4>3 DEF Entries
      <4> QED
        BY <2>11, <3>2, <3>4, <4>4
    <3>5. CASE ~(said[i].oneof = 0 \/ said[i].proto3_optional)
      <4>1. found[k].oneof = said[i].oneof /\ found[k].oneof # 0
        BY <2>7, <3>3, <3>5
      <4>2. \A j \in 1..Len(found) : found[j].oneof = found[k].oneof => j = k
        BY <2>5, <4>1 DEF IsWellPlaced
      <4> QED
        BY <2>11, <3>2, <3>5, <4>1, <4>2
    <3> QED
      BY <3>4, <3>5
  <2>13. {of[i] : i \in 1..N} = {found[k].oneof : k \in DOMAIN found}
    <3>1. \A i \in 1..N : \E k \in 1..Len(found) : found[k].oneof = of[i]
      BY <2>5, <2>11 DEF IsWellPlaced, IsEntry
    <3>2. ASSUME NEW k \in 1..Len(found) PROVE \E i \in 1..N : found[k].oneof = of[i]
      <4>1. found[k].members \in Seq(Nat) /\ found[k].members # <<>>
        BY <2>11 DEF IsEntry, Entries
      <4>2. Head(found[k].members) \in ToSet(found[k].members)
        BY <4>1, HeadAndTail
      <4> QED
        BY <2>11, <4>2 DEF IsEntry
    <3>3. \A x : x \in {of[i] : i \in 1..N} <=> x \in {found[k].oneof : k \in 1..Len(found)}
      BY <3>1, <3>2
    <3> QED
      BY <2>11, <3>3
  <2>14. \A k \in DOMAIN found : DOMAIN found[k].members = 1..Len(found[k].members)
    BY <2>11 DEF Entries
  <2>15. \A k \in DOMAIN found : \A m, n \in DOMAIN found[k].members :
            m < n => found[k].members[m] < found[k].members[n]
    BY <2>11, <2>14 DEF IsEntry
  <2>16. \A j, k \in DOMAIN found : j < k => Head(found[j].members) < Head(found[k].members)
    BY <2>5, <2>11 DEF IsWellPlaced
  <2>17. {u.oneof : u \in definitions[d].unions} = {found[k].oneof : k \in DOMAIN found} \ {0}
    BY <2>9, <2>10, <2>13
  <2> QED
    BY <2>4, <2>12, <2>15, <2>16, <2>17 DEF said, found, descriptor, N
<1> QED
  BY <1>1, Invariance, PTL

(* After a successful parse a declaration at any depth has the options of  *)
(* its file and its own, which count more; so has each of its unions.      *)
THEOREM OptionsReachDefinitionsAlways == Spec => []OptionsReachDefinitions
<1>1. ASSUME IInv PROVE OptionsReachDefinitions
  <2>1. SUFFICES ASSUME phase = "done", NEW f \in Listed, NEW d \in Within(f)
        PROVE  LET said == program.descriptor[d]
               IN  /\ IsMergedFrom(f, said.options, definitions[d].deployment_properties)
                   /\ \A u \in definitions[d].unions :
                         IsMergedFrom(f, said.oneofs[u.oneof], u.options)
                   /\ said.kind = "enum" /\ "size" \notin DOMAIN said.options =>
                         definitions[d].size = 32
    BY DEF OptionsReachDefinitions
  <2> DEFINE said == program.descriptor[d]
  <2>2. program \in Programs /\ f \in Files
    BY <1>1, <2>1, AtTheEnd, ProgramType
  <2>3. d \in Declared /\ d \in Definitions
    BY <2>2, WithinDeclared, DeclaredIs
  <2>4. IsBegun(d) /\ IsCompleted(d) /\ said \in Descriptor
    BY <1>1, <2>1, <2>2, <2>3, AtTheEnd, ProgramType
  <2>5. /\ definitions[d].deployment_properties = Merged(f, said.options)
        /\ definitions[d].unions = Unions(f, said) /\ IsMessage(said)
        /\ said.kind = "enum" /\ "size" \notin DOMAIN said.options => definitions[d].size = 32
    BY <2>2, <2>4 DEF IsBegun, IsCompleted
  <2>6. IsMergedFrom(f, said.options, definitions[d].deployment_properties)
    <3>1. said.options \in Options
      BY <2>4 DEF Descriptor
    <3> QED
      BY <2>2, <2>5, <3>1, MergedIs
  <2>7. ASSUME NEW u \in definitions[d].unions
        PROVE  IsMergedFrom(f, said.oneofs[u.oneof], u.options)
    <3>1. PICK o \in RealOneofs(said) : u = [oneof |-> o, options |-> Merged(f, said.oneofs[o])]
      BY <2>5, <2>7 DEF Unions
    <3>2. said.oneofs[o] \in Options
      BY <2>4, <2>5, <3>1, RealOneofsType
    <3> HIDE DEF said
    <3>3. u.oneof = o /\ u.options = Merged(f, said.oneofs[o])
      BY <3>1
    <3> QED
      BY <2>2, <3>2, <3>3, MergedIs
  <2> QED
    BY <2>5, <2>6, <2>7
<1> QED
  BY <1>1, Invariance, PTL

(* A parse that fails because of references names all that cannot be       *)
(* resolved, each once, and none that can: those to descriptor.proto.      *)
THEOREM ReportsEveryIssueAlways == Spec => []ReportsEveryIssue
<1>1. ASSUME IInv PROVE ReportsEveryIssue
  <2>1. SUFFICES ASSUME phase = "failed", resolver_issues # <<>>
        PROVE  /\ ToSet(resolver_issues) = {slot \in AllSlots : Meant(KeyIn(slot)) = {}}
               /\ ToSet(resolver_issues) = {slot \in AllSlots : KeyIn(slot) \in Builtin}
               /\ Len(resolver_issues) = Cardinality(ToSet(resolver_issues))
    BY DEF ReportsEveryIssue
  <2>2. /\ resolver_issues \in Seq(Slots) /\ IsInjective(resolver_issues)
        /\ unresolved_references = <<>>
        /\ \A slot : slot \in ToSet(resolver_issues) <=>
                        /\ slot \in AllSlots \ ToSet(unresolved_references)
                        /\ Meant(KeyIn(slot)) = {}
    BY <1>1, <2>1 DEF IInv, ResolvedInv, TypeInv, TypeOK
  <2>3. ToSet(resolver_issues) = {slot \in AllSlots : Meant(KeyIn(slot)) = {}}
    BY <2>2, NoFiles
  <2>4. ASSUME NEW slot \in AllSlots
        PROVE  Meant(KeyIn(slot)) = {} <=> KeyIn(slot) \in Builtin
    <3>1. program \in Programs /\ available_files = Listed /\ \A f \in Listed : IsBuilt(f)
      BY <1>1, <2>1 DEF IInv, TypeInv, TypeOK, BuiltInv
    <3>2. \A d \in Declared : program.key[d] \notin Builtin
      BY <3>1, DeclaredWithin DEF IsBuilt, KeysOf
    <3>3. PICK d \in Declared : KeyIn(slot) \in NamedTypes(program.descriptor[d])
      <4>1. PICK d \in Declared : \E i \in DOMAIN program.descriptor[d].fields :
                \E k \in NamedKinds(program.descriptor[d].fields[i]) : slot = <<d, i, k>>
        BY DEF AllSlots, NamedKinds
      <4>2. PICK i \in DOMAIN program.descriptor[d].fields :
                \E k \in NamedKinds(program.descriptor[d].fields[i]) : slot = <<d, i, k>>
        BY <4>1
      <4>3. PICK k \in NamedKinds(program.descriptor[d].fields[i]) : slot = <<d, i, k>>
        BY <4>2
      <4>4. KeyIn(slot) = program.descriptor[d].fields[i].types[k]
        BY <4>3 DEF KeyIn
      <4> QED
        BY <4>4 DEF NamedTypes
    <3>4. KeyIn(slot) \in Known
      BY <3>1, <3>3, DeclaredWithin DEF IsBuilt
    <3>5. KeyIn(slot) \in Builtin \/ \E d2 \in Declared : program.key[d2] = KeyIn(slot)
      BY <3>1, <3>4, WithinDeclared DEF Known, KeysOf
    <3> QED
      BY <3>2, <3>5 DEF Meant
  <2>5. ToSet(resolver_issues) = {slot \in AllSlots : KeyIn(slot) \in Builtin}
    BY <2>3, <2>4
  <2> QED
    BY <2>2, <2>3, <2>5, InjectiveCardinality
<1> QED
  BY <1>1, Invariance, PTL
=============================================================================
