-------------------------- MODULE ModelPipelineProofs --------------------------
(***************************************************************************)
(* Proofs about the way of model elements from the parsers to the merged   *)
(* model, for any parsers, identifiers and input lists and any number of   *)
(* runs and merges.                                                        *)
(***************************************************************************)
EXTENDS ModelPipeline, SequenceTheorems, TLAPS

-----------------------------------------------------------------------------
(* Registries.                                                             *)

(* A registry maps some identifiers to elements.                           *)
LEMMA RegistryType ==
    ASSUME NEW r \in Registries
    PROVE  /\ DOMAIN r \in SUBSET Ids
           /\ r \in [DOMAIN r -> Elements]
           /\ \A id \in DOMAIN r : /\ r[id] \in Elements
                                   /\ r[id].refs \in SUBSET Ids /\ r[id].accepted \in BOOLEAN
<1>1. PICK D \in SUBSET Ids : r \in [D -> Elements]
  BY DEF Registries
<1>2. \A e \in Elements : e.refs \in SUBSET Ids /\ e.accepted \in BOOLEAN
  BY DEF Elements
<1>3. QED
  BY <1>1, <1>2

LEMMA IsRegistry ==
    ASSUME NEW D \in SUBSET Ids, NEW r \in [D -> Elements]
    PROVE  r \in Registries
BY DEF Registries

LEMMA EmptyType == Empty \in Registries /\ DOMAIN Empty = {}
<1>1. Empty \in [{} -> Elements] /\ DOMAIN Empty = {}
  BY DEF Empty
<1>2. QED
  BY <1>1, IsRegistry

(* An update is a registry of both; what is new wins.                      *)
LEMMA UpdateType ==
    ASSUME NEW r \in Registries, NEW s \in Registries
    PROVE  /\ Update(r, s) \in Registries
           /\ DOMAIN Update(r, s) = DOMAIN r \cup DOMAIN s
           /\ \A id \in DOMAIN s : Update(r, s)[id] = s[id]
           /\ \A id \in DOMAIN r \ DOMAIN s : Update(r, s)[id] = r[id]
<1>1. /\ DOMAIN r \in SUBSET Ids /\ \A id \in DOMAIN r : r[id] \in Elements
      /\ DOMAIN s \in SUBSET Ids /\ \A id \in DOMAIN s : s[id] \in Elements
  BY RegistryType
<1>2. /\ DOMAIN Update(r, s) = DOMAIN r \cup DOMAIN s
      /\ Update(r, s) \in [DOMAIN r \cup DOMAIN s -> Elements]
      /\ \A id \in DOMAIN s : Update(r, s)[id] = s[id]
      /\ \A id \in DOMAIN r \ DOMAIN s : Update(r, s)[id] = r[id]
  BY <1>1 DEF Update
<1>3. QED
  BY <1>1, <1>2, IsRegistry

(* What a reader of a registry relies on.                                  *)
AllAccepted(r) == \A id \in DOMAIN r : r[id].accepted

Good(r) == IsClosed(r) /\ AllAccepted(r)

LEMMA EmptyGood == Good(Empty)
BY EmptyType DEF Good, IsClosed, AllAccepted

LEMMA UpdateGood ==
    ASSUME NEW r \in Registries, NEW s \in Registries, Good(r), Good(s)
    PROVE  Good(Update(r, s))
<1> DEFINE u == Update(r, s)
<1>1. /\ DOMAIN u = DOMAIN r \cup DOMAIN s
      /\ \A id \in DOMAIN s : u[id] = s[id]
      /\ \A id \in DOMAIN r \ DOMAIN s : u[id] = r[id]
  BY UpdateType
<1> HIDE DEF u
<1>2. IsClosed(u)
  BY <1>1 DEF Good, IsClosed
<1>3. AllAccepted(u)
  BY <1>1 DEF Good, AllAccepted
<1>4. QED
  BY <1>2, <1>3 DEF Good, u

-----------------------------------------------------------------------------
(* The steps of a parser on its own registry.                              *)

(* model_post_init adds one element and leaves the others alone.           *)
LEMMA TrackStep ==
    ASSUME TypeOK, NEW p \in Parsers, NEW id \in Ids, NEW refs \in SUBSET Ids,
           NEW accepted \in BOOLEAN, Track(p, id, refs, accepted)
    PROVE  /\ elements' \in [Parsers -> Registries]
           /\ \A q \in Parsers : q # p => elements'[q] = elements[q]
           /\ DOMAIN elements'[p] = DOMAIN elements[p] \cup {id}
           /\ elements'[p][id] = [refs |-> refs, accepted |-> accepted]
           /\ \A i \in DOMAIN elements[p] \ {id} : elements'[p][i] = elements[p][i]
<1> DEFINE element == [refs |-> refs, accepted |-> accepted]
           single == [i \in {id} |-> element]
<1>1. element \in Elements
  BY DEF Elements
<1>2. single \in Registries /\ DOMAIN single = {id} /\ single[id] = element
  <2>1. single \in [{id} -> Elements] /\ DOMAIN single = {id} /\ single[id] = element
    BY <1>1
  <2>2. QED
    BY <2>1, IsRegistry
<1>3. elements' = [elements EXCEPT ![p] = Update(elements[p], single)]
  BY DEF Track
<1>4. elements \in [Parsers -> Registries]
  BY DEF TypeOK
<1> HIDE DEF single, element
<1>5. /\ Update(elements[p], single) \in Registries
      /\ DOMAIN Update(elements[p], single) = DOMAIN elements[p] \cup {id}
      /\ Update(elements[p], single)[id] = element
      /\ \A i \in DOMAIN elements[p] \ {id} : Update(elements[p], single)[i] = elements[p][i]
  <2>1. elements[p] \in Registries
    BY <1>4
  <2> DEFINE u == Update(elements[p], single)
  <2>2. /\ u \in Registries
        /\ DOMAIN u = DOMAIN elements[p] \cup DOMAIN single
        /\ \A i \in DOMAIN single : u[i] = single[i]
        /\ \A i \in DOMAIN elements[p] \ DOMAIN single : u[i] = elements[p][i]
    BY <1>2, <2>1, UpdateType
  <2> HIDE DEF u
  <2>3. QED
    BY <1>2, <2>2 DEF u
<1>6. QED
  BY <1>3, <1>4, <1>5 DEF element

(* A resolver adds one reference to one element.                           *)
LEMMA BindStep ==
    ASSUME TypeOK, NEW p \in Parsers, NEW id \in Ids, NEW ref \in Ids, Bind(p, id, ref)
    PROVE  /\ elements' \in [Parsers -> Registries]
           /\ \A q \in Parsers : q # p => elements'[q] = elements[q]
           /\ DOMAIN elements'[p] = DOMAIN elements[p]
           /\ {id, ref} \subseteq DOMAIN elements[p]
           /\ \A i \in DOMAIN elements[p] :
                 /\ elements'[p][i].refs = elements[p][i].refs \cup (IF i = id THEN {ref} ELSE {})
                 /\ elements'[p][i].accepted = elements[p][i].accepted
<1> DEFINE r == elements[p]
           e == [r[id] EXCEPT !.refs = @ \cup {ref}]
           s == [r EXCEPT ![id] = e]
<1>1. elements \in [Parsers -> Registries] /\ {id, ref} \subseteq DOMAIN r
  BY DEF TypeOK, Bind
<1>2. DOMAIN r \in SUBSET Ids /\ r \in [DOMAIN r -> Elements] /\ r[id] \in Elements
  BY <1>1, RegistryType
<1>3. e \in Elements /\ e.refs = r[id].refs \cup {ref} /\ e.accepted = r[id].accepted
  BY <1>2 DEF Elements
<1>4. elements' = [elements EXCEPT ![p] = s]
  BY DEF Bind
<1> HIDE DEF e
<1>5. /\ s \in [DOMAIN r -> Elements] /\ DOMAIN s = DOMAIN r /\ s[id] = e
      /\ \A i \in DOMAIN r : i # id => s[i] = r[i]
  BY <1>1, <1>2, <1>3
<1>6. s \in Registries
  BY <1>2, <1>5, IsRegistry
<1> HIDE DEF s, r
<1>7. /\ elements' \in [Parsers -> Registries] /\ elements'[p] = s
      /\ \A q \in Parsers : q # p => elements'[q] = elements[q]
  BY <1>1, <1>4, <1>6
<1>8. \A i \in DOMAIN r : /\ s[i].refs = r[i].refs \cup (IF i = id THEN {ref} ELSE {})
                          /\ s[i].accepted = r[i].accepted
  BY <1>3, <1>5
<1>9. QED
  BY <1>1, <1>5, <1>7, <1>8 DEF r

-----------------------------------------------------------------------------
(* Type correctness.                                                       *)

LEMMA PayloadType ==
    ASSUME NEW r \in Registries, NEW k \in {"registry", "result"}
    PROVE  /\ [kind |-> k, elements |-> r] \in Payloads
           /\ [kind |-> k, elements |-> r] # NoFile
           /\ [kind |-> k, elements |-> r].elements = r
BY DEF Payloads, NoFile

(* What a pickle that is there holds.                                      *)
LEMMA PickleType ==
    ASSUME TypeOK, NEW p \in Pickles
    PROVE  /\ files[p] = NoFile \/ files[p] \in Payloads
           /\ p \in Written => files[p].elements \in Registries
           /\ files[p].kind \in {"registry", "result"} => p \in Written
<1>1. files[p] \in Payloads \cup {NoFile}
  BY DEF TypeOK
<1>2. \A x \in Payloads : x.elements \in Registries
  BY DEF Payloads
<1>3. NoFile.kind = "no file"
  BY DEF NoFile
<1>4. QED
  BY <1>1, <1>2, <1>3 DEF Written

(* The pickle that is loaded next.                                         *)
LEMMA InputType ==
    ASSUME TypeOK, Loading
    PROVE  /\ Head(todo) \in Pickles /\ Tail(todo) \in Seq(Pickles)
           /\ Input.kind = "registry" => Head(todo) \in Written /\ Input.elements \in Registries
<1>1. todo \in Seq(Pickles) /\ todo # <<>>
  BY DEF TypeOK, Loading
<1>2. Head(todo) \in Pickles /\ Tail(todo) \in Seq(Pickles)
  BY <1>1
<1>3. QED
  BY <1>2, PickleType DEF Input

LEMMA ParserType ==
    ASSUME TypeOK, NEW p \in Parsers, Parser(p)
    PROVE  TypeOK'
<1>1. UNCHANGED mergerVars
  BY DEF Parser, StartParser, Construct, RejectTracked, Bind, FailParser, WritePickle
<1>2. /\ UNCHANGED <<merger, error, todo, registry, merged, merges, loaded>>
      /\ parser \in [Parsers -> {"idle", "building", "written", "failed"}]
      /\ elements \in [Parsers -> Registries] /\ files \in [Pickles -> Payloads \cup {NoFile}]
      /\ runs \in 0..MaxRuns /\ MaxRuns \in Nat
  BY <1>1, ModelPipelineAssumption DEF mergerVars, TypeOK
<1>3. CASE StartParser(p)
  <2>1. runs' \in 0..MaxRuns
    BY <1>2, <1>3 DEF StartParser
  <2>2. elements' \in [Parsers -> Registries]
    BY <1>2, <1>3, EmptyType DEF StartParser
  <2>3. parser' \in [Parsers -> {"idle", "building", "written", "failed"}]
    BY <1>2, <1>3 DEF StartParser
  <2>4. UNCHANGED files
    BY <1>3 DEF StartParser
  <2>5. QED
    BY <1>2, <2>1, <2>2, <2>3, <2>4 DEF TypeOK
<1>4. ASSUME NEW id \in Ids, NEW refs \in SUBSET Ids, Construct(p, id, refs) \/ RejectTracked(p, id, refs)
      PROVE  TypeOK'
  <2>1. elements' \in [Parsers -> Registries]
    BY <1>4, TrackStep DEF Construct, RejectTracked
  <2>2. QED
    BY <1>2, <1>4, <2>1 DEF Construct, RejectTracked, TypeOK
<1>5. ASSUME NEW id \in Ids, NEW ref \in Ids, Bind(p, id, ref)
      PROVE  TypeOK'
  <2>1. elements' \in [Parsers -> Registries]
    BY <1>5, BindStep
  <2>2. QED
    BY <1>2, <1>5, <2>1 DEF Bind, TypeOK
<1>6. CASE FailParser(p)
  BY <1>2, <1>6 DEF FailParser, TypeOK
<1>7. CASE WritePickle(p)
  <2>1. Serialize(elements[p]) \in Payloads
    BY <1>2, PayloadType DEF Serialize
  <2>2. QED
    BY <1>2, <1>7, <2>1 DEF WritePickle, TypeOK
<1>8. QED
  BY <1>3, <1>4, <1>5, <1>6, <1>7 DEF Parser

LEMMA MergerType ==
    ASSUME TypeOK, Merger
    PROVE  TypeOK'
<1>1. UNCHANGED parserVars
  BY DEF Merger, StartMerge, Load, FailDuplicate, FailMissing, FailPayload, FailMerge, EndMerge,
         WriteAggregate
<1>2. /\ UNCHANGED <<parser, elements, runs>>
      /\ files \in [Pickles -> Payloads \cup {NoFile}] /\ registry \in Registries
      /\ merged \in Registries /\ merges \in 0..MaxMerges /\ MaxMerges \in Nat
      /\ loaded \in Seq(Registries) /\ todo \in Seq(Pickles)
  BY <1>1, ModelPipelineAssumption DEF parserVars, TypeOK
<1>3. ASSUME NEW inputs \in InputLists, StartMerge(inputs)
      PROVE  TypeOK'
  <2>1. inputs \in Seq(Pickles)
    BY ModelPipelineAssumption
  <2>2. merges' \in 0..MaxMerges
    BY <1>2, <1>3 DEF StartMerge
  <2>3. registry' \in Registries /\ merged' \in Registries
    BY <1>2, <1>3, EmptyType DEF StartMerge
  <2>4. loaded' \in Seq(Registries) /\ todo' \in Seq(Pickles)
    BY <1>3, <2>1 DEF StartMerge
  <2>5. merger' = "loading" /\ error' = "none" /\ UNCHANGED files
    BY <1>3 DEF StartMerge
  <2>6. QED
    BY <1>2, <2>2, <2>3, <2>4, <2>5 DEF TypeOK
<1>4. CASE Load
  <2>1. Loading /\ Input.kind = "registry" /\ registry' = Input.elements
    BY <1>4 DEF Load, Deserialize
  <2>2. Input.elements \in Registries /\ Tail(todo) \in Seq(Pickles)
    BY <2>1, InputType
  <2>3. Update(merged, Input.elements) \in Registries
    BY <1>2, <2>2, UpdateType
  <2>4. Append(loaded, Input.elements) \in Seq(Registries)
    BY <1>2, <2>2
  <2>5. QED
    BY <1>2, <1>4, <2>1, <2>2, <2>3, <2>4 DEF Load, TypeOK
<1>5. CASE FailDuplicate
  <2>1. Loading /\ Input.kind = "registry" /\ registry' = Input.elements
    BY <1>5 DEF FailDuplicate, Deserialize
  <2>2. Input.elements \in Registries
    BY <2>1, InputType
  <2>3. Append(loaded, Input.elements) \in Seq(Registries)
    BY <1>2, <2>2
  <2>4. QED
    BY <1>2, <1>5, <2>1, <2>2, <2>3 DEF FailDuplicate, FailMerge, TypeOK
<1>6. CASE FailMissing \/ FailPayload
  BY <1>2, <1>6 DEF FailMissing, FailPayload, FailMerge, TypeOK
<1>7. CASE EndMerge
  BY <1>2, <1>7 DEF EndMerge, TypeOK
<1>8. CASE WriteAggregate
  <2>1. [kind |-> "result", elements |-> merged] \in Payloads
    BY <1>2, PayloadType
  <2>2. QED
    BY <1>2, <1>8, <2>1 DEF WriteAggregate, TypeOK, Pickles
<1>9. QED
  BY <1>3, <1>4, <1>5, <1>6, <1>7, <1>8 DEF Merger

(* Every variable keeps its type, pickles that are rewritten included.     *)
THEOREM TypeCorrect == Spec => []TypeOK
<1>1. Init => TypeOK
  BY ModelPipelineAssumption, EmptyType DEF Init, TypeOK
<1>2. TypeOK /\ [Next]_vars => TypeOK'
  <2> SUFFICES ASSUME TypeOK, [Next]_vars PROVE TypeOK'
    OBVIOUS
  <2>1. CASE UNCHANGED vars
    BY <2>1 DEF vars, parserVars, mergerVars, TypeOK
  <2>2. QED
    BY <2>1, ParserType, MergerType DEF Next
<1>3. QED
  BY <1>1, <1>2, PTL DEF Spec

-----------------------------------------------------------------------------
(* Pickles hold accepted elements and what these refer to.                 *)

(* The registry of a parser at work is closed and has accepted elements    *)
(* only: the step that registers a rejected one also ends the process.     *)
BuildInv == \A p \in Parsers : parser[p] = "building" => Good(elements[p])

FilesInv == \A p \in Written : Good(files[p].elements)

GoodInv == BuildInv /\ FilesInv /\ Good(merged)

LEMMA ConstructGood ==
    ASSUME TypeOK, NEW p \in Parsers, NEW id \in Ids, NEW refs \in SUBSET Ids,
           Construct(p, id, refs), Good(elements[p])
    PROVE  Good(elements'[p])
<1>1. Track(p, id, refs, TRUE) /\ id \notin DOMAIN elements[p] /\ refs \subseteq DOMAIN elements[p]
  BY DEF Construct, Track
<1> DEFINE r == elements[p]
           s == elements'[p]
<1>2. /\ DOMAIN s = DOMAIN r \cup {id}
      /\ s[id] = [refs |-> refs, accepted |-> TRUE]
      /\ \A i \in DOMAIN r \ {id} : s[i] = r[i]
  BY <1>1, TrackStep
<1> HIDE DEF r, s
<1>3. s[id].refs = refs /\ s[id].accepted
  BY <1>2
<1>4. IsClosed(r) /\ AllAccepted(r) /\ refs \subseteq DOMAIN r
  BY <1>1 DEF Good, r
<1>5. IsClosed(s)
  BY <1>2, <1>3, <1>4 DEF IsClosed
<1>6. AllAccepted(s)
  BY <1>2, <1>3, <1>4 DEF AllAccepted
<1>7. QED
  BY <1>5, <1>6 DEF Good, s

LEMMA BindGood ==
    ASSUME TypeOK, NEW p \in Parsers, NEW id \in Ids, NEW ref \in Ids, Bind(p, id, ref),
           Good(elements[p])
    PROVE  Good(elements'[p])
<1> DEFINE r == elements[p]
           s == elements'[p]
<1>1. /\ DOMAIN s = DOMAIN r
      /\ {id, ref} \subseteq DOMAIN r
      /\ \A i \in DOMAIN r : /\ s[i].refs = r[i].refs \cup (IF i = id THEN {ref} ELSE {})
                             /\ s[i].accepted = r[i].accepted
  BY BindStep
<1>2. IsClosed(r) /\ AllAccepted(r)
  BY DEF Good
<1> HIDE DEF r, s
<1>3. IsClosed(s)
  BY <1>1, <1>2 DEF IsClosed
<1>4. AllAccepted(s)
  BY <1>1, <1>2 DEF AllAccepted
<1>5. QED
  BY <1>3, <1>4 DEF Good, s

(* A pickle that is replaced by a good one leaves all of them good.        *)
LEMMA WriteGood ==
    ASSUME TypeOK, FilesInv, NEW p \in Pickles, NEW r \in Registries, Good(r),
           NEW k \in {"registry", "result"},
           files' = [files EXCEPT ![p] = [kind |-> k, elements |-> r]]
    PROVE  FilesInv'
<1>1. files'[p].elements = r /\ \A q \in Pickles : q # p => files'[q] = files[q]
  BY PayloadType DEF TypeOK
<1>2. SUFFICES ASSUME NEW q \in Pickles, files'[q] # NoFile
               PROVE  Good(files'[q].elements)
  BY DEF FilesInv, Written
<1>3. CASE q = p
  BY <1>1, <1>3
<1>4. CASE q # p
  BY <1>1, <1>2, <1>4 DEF FilesInv, Written
<1>5. QED
  BY <1>3, <1>4

LEMMA ParserGood ==
    ASSUME TypeOK, GoodInv, NEW p \in Parsers, Parser(p)
    PROVE  GoodInv'
<1>1. UNCHANGED merged
  BY DEF Parser, StartParser, Construct, RejectTracked, Bind, FailParser, WritePickle, mergerVars
<1>2. /\ parser \in [Parsers -> {"idle", "building", "written", "failed"}]
      /\ elements \in [Parsers -> Registries]
  BY DEF TypeOK
<1>3. CASE StartParser(p)
  <2>1. BuildInv'
    BY <1>2, <1>3, EmptyGood DEF StartParser, GoodInv, BuildInv
  <2>2. FilesInv'
    BY <1>3 DEF StartParser, GoodInv, FilesInv, Written
  <2>3. QED
    BY <1>1, <2>1, <2>2 DEF GoodInv
<1>4. ASSUME NEW id \in Ids, NEW refs \in SUBSET Ids, Construct(p, id, refs)
      PROVE  GoodInv'
  <2>1. parser[p] = "building" /\ Track(p, id, refs, TRUE)
    BY <1>4 DEF Construct, Track
  <2>2. Good(elements'[p])
    BY <1>4, <2>1, ConstructGood DEF GoodInv, BuildInv
  <2>3. \A q \in Parsers : q # p => elements'[q] = elements[q]
    BY <2>1, TrackStep
  <2>4. UNCHANGED <<parser, files>>
    BY <1>4 DEF Construct
  <2>5. BuildInv'
    BY <2>2, <2>3, <2>4 DEF GoodInv, BuildInv
  <2>6. FilesInv'
    BY <2>4 DEF GoodInv, FilesInv, Written
  <2>7. QED
    BY <1>1, <2>5, <2>6 DEF GoodInv
<1>5. ASSUME NEW id \in Ids, NEW refs \in SUBSET Ids, RejectTracked(p, id, refs)
      PROVE  GoodInv'
  <2>1. Track(p, id, refs, FALSE) /\ parser' = [parser EXCEPT ![p] = "failed"] /\ UNCHANGED files
    BY <1>5 DEF RejectTracked
  <2>2. \A q \in Parsers : q # p => elements'[q] = elements[q]
    BY <2>1, TrackStep
  <2>3. BuildInv'
    BY <1>2, <2>1, <2>2 DEF GoodInv, BuildInv
  <2>4. FilesInv'
    BY <2>1 DEF GoodInv, FilesInv, Written
  <2>5. QED
    BY <1>1, <2>3, <2>4 DEF GoodInv
<1>6. ASSUME NEW id \in Ids, NEW ref \in Ids, Bind(p, id, ref)
      PROVE  GoodInv'
  <2>1. parser[p] = "building" /\ UNCHANGED <<parser, files>>
    BY <1>6 DEF Bind
  <2>2. Good(elements'[p])
    BY <1>6, <2>1, BindGood DEF GoodInv, BuildInv
  <2>3. \A q \in Parsers : q # p => elements'[q] = elements[q]
    BY <1>6, BindStep
  <2>4. BuildInv'
    BY <2>1, <2>2, <2>3 DEF GoodInv, BuildInv
  <2>5. FilesInv'
    BY <2>1 DEF GoodInv, FilesInv, Written
  <2>6. QED
    BY <1>1, <2>4, <2>5 DEF GoodInv
<1>7. CASE FailParser(p)
  <2>1. BuildInv'
    BY <1>2, <1>7 DEF FailParser, GoodInv, BuildInv
  <2>2. FilesInv'
    BY <1>7 DEF FailParser, GoodInv, FilesInv, Written
  <2>3. QED
    BY <1>1, <2>1, <2>2 DEF GoodInv
<1>8. CASE WritePickle(p)
  <2>1. parser[p] = "building" /\ parser' = [parser EXCEPT ![p] = "written"] /\ UNCHANGED elements
    BY <1>8 DEF WritePickle
  <2>2. files' = [files EXCEPT ![p] = [kind |-> "registry", elements |-> elements[p]]]
    BY <1>8 DEF WritePickle, Serialize
  <2>3. Good(elements[p]) /\ elements[p] \in Registries /\ p \in Pickles
    BY <1>2, <2>1 DEF GoodInv, BuildInv, Pickles
  <2>4. FilesInv'
    BY <2>2, <2>3, WriteGood DEF GoodInv
  <2>5. BuildInv'
    BY <1>2, <2>1 DEF GoodInv, BuildInv
  <2>6. QED
    BY <1>1, <2>4, <2>5 DEF GoodInv
<1>9. QED
  BY <1>3, <1>4, <1>5, <1>6, <1>7, <1>8 DEF Parser

LEMMA MergerGood ==
    ASSUME TypeOK, GoodInv, Merger
    PROVE  GoodInv'
<1>1. BuildInv'
  <2>1. UNCHANGED <<parser, elements>>
    BY DEF Merger, StartMerge, Load, FailDuplicate, FailMissing, FailPayload, FailMerge, EndMerge,
           WriteAggregate, parserVars
  <2>2. QED
    BY <2>1 DEF GoodInv, BuildInv
<1>2. Good(merged')
  <2>1. CASE Load
    <3>1. Loading /\ Input.kind = "registry" /\ merged' = Update(merged, Input.elements)
      BY <2>1 DEF Load, Deserialize
    <3>2. Head(todo) \in Written /\ Input.elements \in Registries /\ merged \in Registries
      BY <3>1, InputType DEF TypeOK
    <3>3. Good(Input.elements)
      BY <3>2 DEF GoodInv, FilesInv, Input
    <3>4. QED
      BY <3>1, <3>2, <3>3, UpdateGood DEF GoodInv
  <2>2. CASE merged' = Empty
    BY <2>2, EmptyGood
  <2>3. CASE UNCHANGED merged
    BY <2>3 DEF GoodInv
  <2>4. QED
    BY <2>1, <2>2, <2>3 DEF Merger, StartMerge, FailDuplicate, FailMissing, FailPayload, FailMerge,
                            EndMerge, WriteAggregate
<1>3. FilesInv'
  <2>1. CASE WriteAggregate
    BY <2>1, WriteGood DEF WriteAggregate, GoodInv, TypeOK, Pickles
  <2>2. CASE UNCHANGED files
    BY <2>2 DEF GoodInv, FilesInv, Written
  <2>3. QED
    BY <2>1, <2>2 DEF Merger, StartMerge, Load, FailDuplicate, FailMissing, FailPayload, FailMerge,
                      EndMerge
<1>4. QED
  BY <1>1, <1>2, <1>3 DEF GoodInv

(* Whatever parsers and merges run, and in whatever order, what a parser   *)
(* is building, what is on disk and what is being merged is closed under   *)
(* reference and holds accepted elements only.                             *)
THEOREM GoodInvariant == Spec => []GoodInv
<1>1. Init => GoodInv
  BY EmptyGood DEF Init, GoodInv, BuildInv, FilesInv, Written
<1>2. TypeOK /\ GoodInv /\ [Next]_vars => GoodInv'
  <2> SUFFICES ASSUME TypeOK, GoodInv, [Next]_vars PROVE GoodInv'
    OBVIOUS
  <2>1. CASE UNCHANGED vars
    BY <2>1 DEF vars, parserVars, mergerVars, GoodInv, BuildInv, FilesInv, Written
  <2>2. QED
    BY <2>1, ParserGood, MergerGood DEF Next
<1>3. QED
  BY <1>1, <1>2, TypeCorrect, PTL DEF Spec

(* For any parsers, failures and reruns: no pickle, the aggregate          *)
(* included, ever holds an element that a validator rejected.              *)
THEOREM NoRejectedElement == Spec => []OnlyAcceptedElements
<1>1. GoodInv => OnlyAcceptedElements
  BY DEF GoodInv, FilesInv, Good, AllAccepted, OnlyAcceptedElements
<1>2. QED
  BY <1>1, GoodInvariant, PTL

(* For any parsers and merges: what an element of a pickle refers to is in *)
(* the same pickle.                                                        *)
THEOREM PicklesAreClosed == Spec => []ReferencesStayInside
<1>1. GoodInv => ReferencesStayInside
  BY DEF GoodInv, FilesInv, Good, ReferencesStayInside
<1>2. QED
  BY <1>1, GoodInvariant, PTL

-----------------------------------------------------------------------------
(* A merge and the registry of its process.                                *)

LEMMA LoadUnion ==
    ASSUME TypeOK, MergedIsDisjointUnion, Load
    PROVE  MergedIsDisjointUnion'
<1> DEFINE new == Input.elements
           n == Len(loaded)
<1>1. /\ Loading /\ Input.kind = "registry" /\ DOMAIN merged \cap DOMAIN new = {}
      /\ merged' = Update(merged, new) /\ loaded' = Append(loaded, new)
  BY DEF Load, Deserialize
<1>2. new \in Registries /\ merged \in Registries /\ loaded \in Seq(Registries)
  BY <1>1, InputType DEF TypeOK
<1> HIDE DEF new
<1>3. /\ DOMAIN merged' = DOMAIN merged \cup DOMAIN new
      /\ \A id \in DOMAIN new : merged'[id] = new[id]
      /\ \A id \in DOMAIN merged \ DOMAIN new : merged'[id] = merged[id]
  BY <1>1, <1>2, UpdateType
<1>4. /\ n \in Nat /\ DOMAIN loaded = 1..n /\ DOMAIN loaded' = 1..(n + 1)
      /\ loaded'[n + 1] = new /\ \A i \in 1..n : loaded'[i] = loaded[i]
  BY <1>1, <1>2
<1>13. Combined = 1..n /\ Combined' = 1..(n + 1)
  <2>1. merger = "loading" /\ merger' = "loading" /\ Len(loaded') = n + 1
    BY <1>1, <1>2 DEF Load, Loading, n
  <2>2. QED
    BY <2>1 DEF Combined, n
<1> HIDE DEF n
<1>5. /\ DOMAIN merged = UNION {DOMAIN loaded[i] : i \in 1..n}
      /\ \A i \in 1..n : \A id \in DOMAIN loaded[i] : merged[id] = loaded[i][id]
      /\ \A i, j \in 1..n : i # j => DOMAIN loaded[i] \cap DOMAIN loaded[j] = {}
  BY <1>13 DEF MergedIsDisjointUnion
<1>6. \A i \in 1..n : DOMAIN loaded[i] \subseteq DOMAIN merged
  BY <1>5
<1>7. \A i \in 1..(n + 1) : i \in 1..n \/ i = n + 1
  BY <1>4
<1>8. 1..n \subseteq 1..(n + 1) /\ n + 1 \in 1..(n + 1) /\ n + 1 \notin 1..n
  BY <1>4
<1>9. DOMAIN merged' = UNION {DOMAIN loaded'[i] : i \in 1..(n + 1)}
  <2>1. \A x : x \in DOMAIN merged <=> \E i \in 1..n : x \in DOMAIN loaded[i]
    BY <1>5
  <2>2. \A x : x \in DOMAIN merged' <=> \E i \in 1..(n + 1) : x \in DOMAIN loaded'[i]
    BY <1>3, <1>4, <1>7, <1>8, <2>1
  <2>3. QED
    BY <2>2
<1>10. \A i \in 1..(n + 1) : \A id \in DOMAIN loaded'[i] : merged'[id] = loaded'[i][id]
  <2>1. \A i \in 1..n : \A id \in DOMAIN loaded[i] : id \in DOMAIN merged \ DOMAIN new
    BY <1>1, <1>6
  <2>2. QED
    BY <1>3, <1>4, <1>5, <1>7, <2>1
<1>11. \A i, j \in 1..(n + 1) : i # j => DOMAIN loaded'[i] \cap DOMAIN loaded'[j] = {}
  BY <1>1, <1>4, <1>5, <1>6, <1>7
<1>12. QED
  BY <1>13, <1>9, <1>10, <1>11 DEF MergedIsDisjointUnion

(* A clashing pickle adds nothing.                                         *)
LEMMA ClashUnion ==
    ASSUME TypeOK, MergedIsDisjointUnion, FailDuplicate
    PROVE  MergedIsDisjointUnion'
<1> DEFINE n == Len(loaded)
<1>1. Input.elements \in Registries /\ loaded \in Seq(Registries)
  BY InputType DEF FailDuplicate, Deserialize, Loading, TypeOK
<1>2. /\ merger = "loading" /\ merger' = "failed" /\ error' = "duplicate" /\ merged' = merged
      /\ loaded' = Append(loaded, Input.elements)
  BY DEF FailDuplicate, FailMerge, Deserialize, Loading
<1> HIDE DEF Input
<1>3. n \in Nat /\ Len(loaded') = n + 1 /\ \A i \in 1..n : loaded'[i] = loaded[i]
  BY <1>1, <1>2
<1>4. Combined = 1..n /\ Combined' = 1..n
  BY <1>2, <1>3 DEF Combined
<1> HIDE DEF n
<1>5. {DOMAIN loaded'[i] : i \in 1..n} = {DOMAIN loaded[i] : i \in 1..n}
  BY <1>3
<1>6. QED
  BY <1>2, <1>3, <1>4, <1>5 DEF MergedIsDisjointUnion

(* For any lists of pickles: at every moment of every merge the merged     *)
(* elements are the disjoint union of the pickles loaded so far, none      *)
(* changed and none missing.                                               *)
THEOREM MergeIsExact == Spec => []MergedIsDisjointUnion
<1>1. ASSUME merged = Empty, loaded = <<>>
      PROVE  MergedIsDisjointUnion
  <2>1. Combined = {}
    BY <1>1 DEF Combined
  <2>2. QED
    BY <1>1, <2>1, EmptyType DEF MergedIsDisjointUnion
<1>2. Init => MergedIsDisjointUnion
  BY <1>1 DEF Init
<1>3. TypeOK /\ MergedIsDisjointUnion /\ [Next]_vars => MergedIsDisjointUnion'
  <2> SUFFICES ASSUME TypeOK, MergedIsDisjointUnion, [Next]_vars PROVE MergedIsDisjointUnion'
    OBVIOUS
  <2>1. CASE /\ UNCHANGED <<merged, loaded>>
             /\ \/ UNCHANGED <<merger, error>>
                \/ merger # "failed" /\ (merger' # "failed" \/ error' # "duplicate")
    <3>1. Combined' = Combined
      BY <2>1 DEF Combined
    <3>2. QED
      BY <2>1, <3>1 DEF MergedIsDisjointUnion
  <2>2. CASE Load \/ FailDuplicate
    BY <2>2, LoadUnion, ClashUnion
  <2>3. CASE \E inputs \in InputLists : StartMerge(inputs)
    <3>1. merged' = Empty /\ loaded' = <<>>
      BY <2>3 DEF StartMerge
    <3>2. Combined' = {}
      BY <3>1 DEF Combined
    <3>3. QED
      BY <3>1, <3>2, EmptyType DEF MergedIsDisjointUnion
  <2>4. CASE FailMissing \/ FailPayload \/ EndMerge \/ WriteAggregate
    <3>1. /\ UNCHANGED <<merged, loaded>>
          /\ merger # "failed" /\ (merger' # "failed" \/ error' # "duplicate")
      BY <2>4 DEF FailMissing, FailPayload, FailMerge, EndMerge, WriteAggregate, Loading
    <3>2. QED
      BY <2>1, <3>1
  <2>5. CASE UNCHANGED mergerVars
    BY <2>1, <2>5 DEF mergerVars
  <2>6. QED
    BY <2>2, <2>3, <2>4, <2>5
       DEF Next, Merger, Parser, StartParser, Construct, RejectTracked, Bind, FailParser,
           WritePickle, vars
<1>4. QED
  BY <1>2, <1>3, TypeCorrect, PTL DEF Spec

(* For any lists of pickles: after a merge the registry is the union, and  *)
(* while one is running or after it has failed it is the pickle that was   *)
(* loaded last, the one that clashes if the merge failed on duplicates.    *)
THEOREM RegistryIsKept == Spec => []RegistryFollowsMerge
<1>1. Init => RegistryFollowsMerge
  BY DEF Init, RegistryFollowsMerge
<1>2. TypeOK /\ RegistryFollowsMerge /\ [Next]_vars => RegistryFollowsMerge'
  <2> SUFFICES ASSUME TypeOK, RegistryFollowsMerge, [Next]_vars PROVE RegistryFollowsMerge'
    OBVIOUS
  <2>1. CASE UNCHANGED <<merger, error, registry, merged, loaded>>
    BY <2>1 DEF RegistryFollowsMerge
  <2>2. CASE Load \/ FailDuplicate
    <3>1. registry' = Input.elements /\ loaded' = Append(loaded, Input.elements)
      BY <2>2 DEF Load, FailDuplicate, Deserialize
    <3>2. Input.elements \in Registries /\ loaded \in Seq(Registries)
      BY <2>2, InputType DEF Load, FailDuplicate, Deserialize, TypeOK
    <3>3. \/ merger' = "loading"
          \/ merger' = "failed" /\ merged' = merged /\ DOMAIN merged \cap DOMAIN Input.elements # {}
      BY <2>2 DEF Load, FailDuplicate, FailMerge, Deserialize, Loading
    <3> HIDE DEF Input
    <3>4. loaded'[Len(loaded')] = Input.elements
      BY <3>1, <3>2
    <3>5. QED
      BY <3>1, <3>3, <3>4 DEF RegistryFollowsMerge
  <2>3. CASE FailMissing \/ FailPayload
    BY <2>3 DEF FailMissing, FailPayload, FailMerge, Loading, RegistryFollowsMerge
  <2>4. CASE EndMerge \/ WriteAggregate
    BY <2>4 DEF EndMerge, WriteAggregate, RegistryFollowsMerge
  <2>5. CASE \E inputs \in InputLists : StartMerge(inputs)
    BY <2>5 DEF StartMerge, RegistryFollowsMerge
  <2>6. QED
    BY <2>1, <2>2, <2>3, <2>4, <2>5
       DEF Next, Merger, Parser, StartParser, Construct, RejectTracked, Bind, FailParser,
           WritePickle, mergerVars, vars
<1>3. QED
  BY <1>1, <1>2, TypeCorrect, PTL DEF Spec

-----------------------------------------------------------------------------
(* Elements stay what they are.                                            *)

LEMMA StepKeepsElements ==
    ASSUME TypeOK, [Next]_vars, NEW p \in Parsers, parser[p] = "building", NEW i \in DOMAIN elements[p]
    PROVE  /\ i \in DOMAIN elements'[p]
           /\ elements[p][i].refs \subseteq elements'[p][i].refs
           /\ elements[p][i].accepted = elements'[p][i].accepted
<1>1. CASE elements'[p] = elements[p]
  BY <1>1
<1>2. ASSUME NEW id \in Ids, NEW refs \in SUBSET Ids, Construct(p, id, refs) \/ RejectTracked(p, id, refs)
      PROVE  i \in DOMAIN elements'[p] /\ elements'[p][i] = elements[p][i]
  <2>1. Track(p, id, refs, TRUE) \/ Track(p, id, refs, FALSE)
    BY <1>2 DEF Construct, RejectTracked
  <2>2. id \notin DOMAIN elements[p]
    BY <1>2 DEF Construct, RejectTracked
  <2>3. i \in DOMAIN elements[p] \ {id}
    BY <2>2
  <2>4. /\ DOMAIN elements'[p] = DOMAIN elements[p] \cup {id}
        /\ \A j \in DOMAIN elements[p] \ {id} : elements'[p][j] = elements[p][j]
    <3>1. CASE Track(p, id, refs, TRUE)
      BY <3>1, TrackStep
    <3>2. CASE Track(p, id, refs, FALSE)
      BY <3>2, TrackStep
    <3>3. QED
      BY <2>1, <3>1, <3>2
  <2>5. QED
    BY <2>3, <2>4
<1>3. ASSUME NEW id \in Ids, NEW ref \in Ids, Bind(p, id, ref)
      PROVE  /\ i \in DOMAIN elements'[p]
             /\ elements[p][i].refs \subseteq elements'[p][i].refs
             /\ elements[p][i].accepted = elements'[p][i].accepted
  BY <1>3, BindStep
<1>4. ASSUME NEW q \in Parsers, Parser(q), q # p
      PROVE  elements'[p] = elements[p]
  <2>1. ASSUME NEW id \in Ids, NEW refs \in SUBSET Ids, Construct(q, id, refs) \/ RejectTracked(q, id, refs)
        PROVE  elements'[p] = elements[p]
    <3>1. PICK accepted \in BOOLEAN : Track(q, id, refs, accepted)
      BY <2>1 DEF Construct, RejectTracked
    <3>2. QED
      BY <1>4, <3>1, TrackStep
  <2>2. ASSUME NEW id \in Ids, NEW ref \in Ids, Bind(q, id, ref)
        PROVE  elements'[p] = elements[p]
    BY <1>4, <2>2, BindStep
  <2>3. CASE StartParser(q)
    BY <1>4, <2>3 DEF StartParser, TypeOK
  <2>4. QED
    BY <1>4, <2>1, <2>2, <2>3 DEF Parser, FailParser, WritePickle
<1>5. ASSUME Parser(p)
      PROVE  \/ elements'[p] = elements[p]
             \/ \E id \in Ids : \E refs \in SUBSET Ids : Construct(p, id, refs) \/ RejectTracked(p, id, refs)
             \/ \E id, ref \in Ids : Bind(p, id, ref)
  BY <1>5 DEF Parser, StartParser, FailParser, WritePickle
<1>6. ASSUME Merger \/ UNCHANGED vars
      PROVE  UNCHANGED elements
  BY <1>6 DEF Merger, StartMerge, Load, FailDuplicate, FailMissing, FailPayload, FailMerge, EndMerge,
              WriteAggregate, parserVars, vars
<1>7. QED
  BY <1>1, <1>2, <1>3, <1>4, <1>5, <1>6 DEF Next

(* For any parsers: while a parser works, an identifier keeps its element, *)
(* which never changes its verdict and only gains references, whatever the *)
(* other processes do.                                                     *)
THEOREM ElementsStay == Spec => TrackedForLife
<1>1. TypeOK /\ [Next]_vars =>
          [\A p \in Parsers : parser[p] = "building" =>
              \A id \in DOMAIN elements[p] :
                  /\ id \in DOMAIN elements'[p]
                  /\ elements[p][id].refs \subseteq elements'[p][id].refs
                  /\ elements[p][id].accepted = elements'[p][id].accepted]_vars
  BY StepKeepsElements
<1>2. QED
  BY <1>1, TypeCorrect, PTL DEF Spec, TrackedForLife
=============================================================================
