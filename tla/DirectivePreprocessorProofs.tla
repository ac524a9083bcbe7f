---------------------- MODULE DirectivePreprocessorProofs ----------------------
(***************************************************************************)
(* The preprocessor keeps the first true branch of every block, and        *)
(* rejects the files that are not well-formed, for any file and any set of *)
(* defined symbols.  The invariant says that in_if, active and taken are   *)
(* what the lines read so far mean for the next one.                       *)
(***************************************************************************)
EXTENDS DirectivePreprocessor, TLAPS

(* What the line that is about to be read stands in.                       *)
BlockInv ==
    /\ in_if <=> IsInside(lineno)
    /\ taken <=> \E j \in 1..(lineno - 1) : SameBlock(j, lineno) /\ Holds(j)
    /\ active <=> IsSelected(lineno)

(* Nothing that was read is misplaced.                                     *)
PrefixInv == \A i \in 1..(lineno - 1) : IsPlaced(i)

OutputInv ==
    /\ {output_lines[k] : k \in DOMAIN output_lines} =
          {i \in 1..(lineno - 1) : Kind(i) = "text" /\ IsSelected(i)}
    /\ \A k, l \in DOMAIN output_lines : k < l => output_lines[k] < output_lines[l]

VerdictInv ==
    /\ phase = "done" => lineno = Length + 1 /\ ~in_if
    /\ phase = "failed" => ~WellFormed

Inv == TypeOK /\ BlockInv /\ PrefixInv /\ OutputInv /\ VerdictInv

-----------------------------------------------------------------------------
(* How the meaning of a line follows from that of the line before it.      *)

LEMMA SameBlockStep ==
    ASSUME NEW i \in Nat \ {0}, NEW j \in 1..i
    PROVE  SameBlock(j, i + 1) <=>
              IF j = i THEN Kind(i) \in Heads
              ELSE SameBlock(j, i) /\ Kind(i) # "endif"
<1>1. CASE j = i
    <2>1. j..(i + 1 - 1) = {i}  BY <1>1
    <2>2. Kind(i) \in Heads => Kind(i) # "endif"  BY DEF Heads
    <2>3. QED BY <1>1, <2>1, <2>2 DEF SameBlock
<1>2. CASE j # i
    <2>1. j < i /\ j..(i + 1 - 1) = j..(i - 1) \cup {i}  BY <1>2
    <2>2. QED BY <1>2, <2>1 DEF SameBlock
<1>3. QED BY <1>1, <1>2

LEMMA InsideStep ==
    ASSUME NEW i \in Nat \ {0}
    PROVE  IsInside(i + 1) <=> Kind(i) = "if" \/ (IsInside(i) /\ Kind(i) # "endif")
<1>1. IsInside(i + 1) <=> \E j \in 1..i : Kind(j) = "if" /\ SameBlock(j, i + 1)
    BY DEF IsInside
<1>2. \A j \in 1..i : SameBlock(j, i + 1) <=>
            IF j = i THEN Kind(i) \in Heads ELSE SameBlock(j, i) /\ Kind(i) # "endif"
    BY SameBlockStep
<1>3. 1..i = 1..(i - 1) \cup {i} /\ i \notin 1..(i - 1)
    OBVIOUS
<1>4. QED BY <1>1, <1>2, <1>3 DEF IsInside, Heads

(* Where no #if is open there is no other directive before the line that   *)
(* no #endif has closed.                                                   *)
LEMMA NoHeadOutside ==
    ASSUME NEW i \in Nat \ {0}, \A k \in 1..(i - 1) : IsPlaced(k), ~IsInside(i),
           NEW j \in 1..(i - 1), SameBlock(j, i)
    PROVE  FALSE
<1>1. Kind(j) # "if"  BY DEF IsInside
<1>2. IsInside(j)  BY <1>1 DEF IsPlaced, SameBlock, Heads
<1>3. PICK k \in 1..(j - 1) : Kind(k) = "if" /\ SameBlock(k, j)  BY <1>2 DEF IsInside
<1>4. SameBlock(k, i)
    <2>1. k..(i - 1) = k..(j - 1) \cup j..(i - 1)  BY <1>3
    <2>2. QED BY <1>3, <2>1 DEF SameBlock
<1>5. QED BY <1>3, <1>4 DEF IsInside

LEMMA TextStep ==
    ASSUME NEW i \in Nat \ {0}, Kind(i) = "text"
    PROVE  IsSelected(i + 1) <=> IsSelected(i)
<1>1. IsInside(i + 1) <=> IsInside(i)  BY InsideStep
<1>2. \A j \in 1..(i - 1) : InBranch(j, i + 1) <=> InBranch(j, i)
    <2> TAKE j \in 1..(i - 1)
    <2>1. SameBlock(j, i + 1) <=> SameBlock(j, i)  BY SameBlockStep
    <2>2. (j + 1)..(i + 1 - 1) = (j + 1)..(i - 1) \cup {i}  OBVIOUS
    <2>3. Kind(i) \notin Heads  BY DEF Heads
    <2>4. QED BY <2>1, <2>2, <2>3 DEF InBranch
<1>3. ~InBranch(i, i + 1)
    <2>1. ~SameBlock(i, i + 1)  BY SameBlockStep DEF Heads
    <2>2. QED BY <2>1 DEF InBranch
<1>4. 1..(i + 1 - 1) = 1..(i - 1) \cup {i}  OBVIOUS
<1>5. QED BY <1>1, <1>2, <1>3, <1>4 DEF IsSelected

LEMMA HeadStep ==
    ASSUME NEW i \in Nat \ {0}, Kind(i) \in Heads, Kind(i) = "if" \/ IsInside(i)
    PROVE  IsSelected(i + 1) <=> IsFirstTrue(i)
<1>1. IsInside(i + 1)  BY InsideStep DEF Heads
<1>2. InBranch(i, i + 1)
    <2>1. SameBlock(i, i + 1)  BY SameBlockStep
    <2>2. (i + 1)..(i + 1 - 1) = {}  OBVIOUS
    <2>3. QED BY <2>1, <2>2 DEF InBranch
<1>3. \A j \in 1..(i - 1) : ~InBranch(j, i + 1)
    <2> TAKE j \in 1..(i - 1)
    <2>1. i \in (j + 1)..(i + 1 - 1)  OBVIOUS
    <2>2. QED BY <2>1 DEF InBranch
<1>4. 1..(i + 1 - 1) = 1..(i - 1) \cup {i}  OBVIOUS
<1>5. QED BY <1>1, <1>2, <1>3, <1>4 DEF IsSelected

-----------------------------------------------------------------------------

(* The meaning of a line depends on the input only.                        *)
LEMMA SameMeaning ==
    ASSUME input' = input
    PROVE  /\ Length' = Length /\ (WellFormed' <=> WellFormed)
           /\ \A i : /\ Kind(i)' = Kind(i)
                     /\ IsPlaced(i)' <=> IsPlaced(i)
                     /\ IsInside(i)' <=> IsInside(i)
                     /\ IsSelected(i)' <=> IsSelected(i)
           /\ \A i, j : (SameBlock(j, i) /\ Holds(j))' <=> SameBlock(j, i) /\ Holds(j)
<1>1. Length' = Length /\ \A i : Kind(i)' = Kind(i)
    BY DEF Length, Kind
<1>2. \A j : Holds(j)' <=> Holds(j)
    BY <1>1 DEF Holds
<1>3. \A i, j : SameBlock(j, i)' <=> SameBlock(j, i)
    BY <1>1 DEF SameBlock
<1>4. \A i : IsInside(i)' <=> IsInside(i)
    BY <1>1, <1>3 DEF IsInside
<1>5. \A i : IsPlaced(i)' <=> IsPlaced(i)
    BY <1>1, <1>4 DEF IsPlaced
<1>6. \A i, j : InBranch(j, i)' <=> InBranch(j, i)
    BY <1>1, <1>3 DEF InBranch
<1>7. \A j : IsFirstTrue(j)' <=> IsFirstTrue(j)
    BY <1>2, <1>3 DEF IsFirstTrue
<1>8. \A i : IsSelected(i)' <=> IsSelected(i)
    BY <1>4, <1>6, <1>7 DEF IsSelected
<1>9. WellFormed' <=> WellFormed
    BY <1>1, <1>4, <1>5 DEF WellFormed
<1>10. QED BY <1>1, <1>2, <1>3, <1>4, <1>5, <1>8, <1>9

(* The invariant of a step that reads no line.                             *)
LEMMA SameLine ==
    ASSUME Inv, UNCHANGED <<input, lineno, in_if, active, taken, output_lines>>
    PROVE  BlockInv' /\ PrefixInv' /\ OutputInv'
<1> USE DEF Inv
<1>1. BlockInv'  BY SameMeaning DEF BlockInv
<1>2. PrefixInv'  BY SameMeaning DEF PrefixInv
<1>3. {i \in 1..(lineno - 1) : Kind(i) = "text" /\ IsSelected(i)}
        = {i \in 1..(lineno' - 1) : (Kind(i) = "text" /\ IsSelected(i))'}
    BY SameMeaning
<1>4. OutputInv'  BY <1>3 DEF OutputInv
<1>5. QED BY <1>1, <1>2, <1>4

LEMMA InitInv == Init => Inv
<1> SUFFICES ASSUME Init PROVE Inv
    OBVIOUS
<1> USE DirectivePreprocessorAssumption DEF Init
<1>1. input \in Input  OBVIOUS
<1>2. input.lines \in Seq(Line)  BY <1>1 DEF Input
<1>3. TypeOK
    <2>1. Len(input.lines) \in Nat  BY <1>2
    <2>2. lineno \in 1..(Len(input.lines) + 1)  BY <2>1
    <2>3. output_lines \in Seq(Nat)  OBVIOUS
    <2>4. QED BY <2>2, <2>3 DEF TypeOK
<1>4. 1..(lineno - 1) = {}  OBVIOUS
<1>5. ~IsInside(lineno)  BY <1>4 DEF IsInside
<1>6. BlockInv  BY <1>4, <1>5 DEF BlockInv, IsSelected
<1>7. PrefixInv /\ OutputInv /\ VerdictInv  BY <1>4 DEF PrefixInv, OutputInv, VerdictInv
<1>8. QED BY <1>3, <1>6, <1>7 DEF Inv

(* What the next line means after one more line was accepted.              *)
LEMMA Advance ==
    ASSUME Inv, lineno' = lineno + 1, input' = input, phase' = phase, phase = "reading",
           lineno <= Length, ~(Kind(lineno) # "text" /\ Misplaced)
    PROVE  /\ lineno' \in 1..(Len(input'.lines) + 1)
           /\ PrefixInv'
           /\ VerdictInv'
           /\ IsInside(lineno)' <=> IsInside(lineno + 1)
           /\ IsSelected(lineno)' <=> IsSelected(lineno + 1)
           /\ (\E j \in 1..(lineno - 1) : SameBlock(j, lineno) /\ Holds(j))'
                 <=> \E j \in 1..lineno : SameBlock(j, lineno + 1) /\ Holds(j)
<1> USE DEF Inv
<1>1. lineno \in Nat \ {0} /\ Length \in Nat
    <2>1. input \in Input  BY DirectivePreprocessorAssumption DEF TypeOK
    <2>2. QED BY <2>1 DEF TypeOK, Input, Length
<1>2. lineno' \in 1..(Len(input'.lines) + 1)  BY <1>1 DEF Length
<1>3. IsPlaced(lineno)
    <2>1. Kind(lineno) = "if" => ~IsInside(lineno)  BY DEF Misplaced, BlockInv
    <2>2. Kind(lineno) \in {"elif", "else", "endif"} => IsInside(lineno)
        BY DEF Misplaced, BlockInv
    <2>3. QED BY <2>1, <2>2 DEF IsPlaced
<1>4. PrefixInv'
    <2>1. 1..(lineno' - 1) = 1..(lineno - 1) \cup {lineno}  BY <1>1
    <2>2. \A i \in 1..(lineno' - 1) : IsPlaced(i)  BY <2>1, <1>3 DEF PrefixInv
    <2>3. QED BY <2>2, SameMeaning DEF PrefixInv
<1>5. VerdictInv'  BY DEF VerdictInv
<1>6. IsInside(lineno)' <=> IsInside(lineno + 1)  BY DEF IsInside, SameBlock, Kind
<1>7. IsSelected(lineno)' <=> IsSelected(lineno + 1)
    BY <1>6 DEF IsSelected, IsInside, InBranch, IsFirstTrue, SameBlock, Holds, Kind
<1>8. (\E j \in 1..(lineno - 1) : SameBlock(j, lineno) /\ Holds(j))'
          <=> \E j \in 1..lineno : SameBlock(j, lineno + 1) /\ Holds(j)
    <2>1. lineno' - 1 = lineno  BY <1>1
    <2>2. QED BY <2>1 DEF SameBlock, Holds, Kind
<1>9. QED BY <1>2, <1>4, <1>5, <1>6, <1>7, <1>8

(* A line that keeps what was kept before.                                 *)
LEMMA NoOutput ==
    ASSUME Inv, lineno' = lineno + 1, input' = input, UNCHANGED output_lines,
           Kind(lineno) # "text" \/ ~IsSelected(lineno)
    PROVE  OutputInv'
<1> USE DEF Inv
<1>1. lineno \in Nat \ {0}
    BY DirectivePreprocessorAssumption DEF TypeOK
<1>2. 1..(lineno' - 1) = 1..(lineno - 1) \cup {lineno}  BY <1>1
<1>3. {i \in 1..(lineno' - 1) : Kind(i) = "text" /\ IsSelected(i)}
        = {i \in 1..(lineno - 1) : Kind(i) = "text" /\ IsSelected(i)}
    BY <1>2
<1>4. {i \in 1..(lineno' - 1) : Kind(i) = "text" /\ IsSelected(i)}
        = {i \in 1..(lineno' - 1) : (Kind(i) = "text" /\ IsSelected(i))'}
    BY SameMeaning
<1>5. QED BY <1>3, <1>4 DEF OutputInv

LEMMA IfStep == Inv /\ ReadIf => Inv'
<1> SUFFICES ASSUME Inv, ReadIf PROVE Inv'
    OBVIOUS
<1> USE DEF Inv
<1>1. /\ lineno' = lineno + 1 /\ input' = input /\ phase' = phase /\ phase = "reading"
      /\ lineno <= Length /\ Kind(lineno) = "if" /\ ~in_if
      /\ in_if' = TRUE /\ active' = Holds(lineno) /\ taken' = active'
      /\ UNCHANGED output_lines
    BY DEF ReadIf, Accepts, Reads, MayFail, Misplaced, Continue, Length
<1>2. lineno \in Nat \ {0}  BY DEF TypeOK
<1>3. /\ lineno' \in 1..(Len(input'.lines) + 1) /\ PrefixInv' /\ VerdictInv'
      /\ IsInside(lineno)' <=> IsInside(lineno + 1)
      /\ IsSelected(lineno)' <=> IsSelected(lineno + 1)
      /\ (\E j \in 1..(lineno - 1) : SameBlock(j, lineno) /\ Holds(j))'
            <=> \E j \in 1..lineno : SameBlock(j, lineno + 1) /\ Holds(j)
    BY <1>1, Advance DEF Misplaced
<1>4. IsInside(lineno + 1)  BY <1>1, <1>2, InsideStep
<1>5. \A j \in 1..(lineno - 1) : ~SameBlock(j, lineno)
    BY <1>1, <1>2, NoHeadOutside DEF BlockInv, PrefixInv
<1>6. (\E j \in 1..lineno : SameBlock(j, lineno + 1) /\ Holds(j)) <=> Holds(lineno)
    <2>1. \A j \in 1..lineno : SameBlock(j, lineno + 1) <=> j = lineno
        BY <1>1, <1>2, <1>5, SameBlockStep DEF Heads
    <2>2. QED BY <1>2, <2>1
<1>7. IsSelected(lineno + 1) <=> Holds(lineno)
    BY <1>1, <1>2, <1>5, HeadStep DEF Heads, IsFirstTrue
<1>8. BlockInv'  BY <1>1, <1>3, <1>4, <1>6, <1>7 DEF BlockInv
<1>9. OutputInv'  BY <1>1, NoOutput
<1>10. TypeOK'  BY <1>1, <1>3 DEF TypeOK, Holds
<1>11. QED BY <1>3, <1>8, <1>9, <1>10

(* An #elif, and then an #else, is active if no branch was.                *)
LEMMA ElifStep == Inv /\ ReadElif => Inv'
<1> SUFFICES ASSUME Inv, ReadElif PROVE Inv'
    OBVIOUS
<1> USE DEF Inv
<1>1. /\ lineno' = lineno + 1 /\ input' = input /\ phase' = phase /\ phase = "reading"
      /\ lineno <= Length /\ Kind(lineno) = "elif"
      /\ in_if /\ in_if' = in_if /\ active' = (~taken /\ Holds(lineno))
      /\ taken' = (taken \/ active') /\ UNCHANGED output_lines
    BY DEF ReadElif, Accepts, Reads, MayFail, Misplaced, Continue, IsUntaken, block, Length
<1>2. lineno \in Nat \ {0} /\ 1..lineno = 1..(lineno - 1) \cup {lineno}  BY DEF TypeOK
<1>3. /\ lineno' \in 1..(Len(input'.lines) + 1) /\ PrefixInv' /\ VerdictInv'
      /\ IsInside(lineno)' <=> IsInside(lineno + 1)
      /\ IsSelected(lineno)' <=> IsSelected(lineno + 1)
      /\ (\E j \in 1..(lineno - 1) : SameBlock(j, lineno) /\ Holds(j))'
            <=> \E j \in 1..lineno : SameBlock(j, lineno + 1) /\ Holds(j)
    BY <1>1, Advance DEF Misplaced
<1>4. IsInside(lineno)  BY <1>1 DEF BlockInv
<1>5. IsInside(lineno + 1)  BY <1>1, <1>2, <1>4, InsideStep
<1>6. taken' <=> \E j \in 1..lineno : SameBlock(j, lineno + 1) /\ Holds(j)
    <2>1. \A j \in 1..lineno :
             SameBlock(j, lineno + 1) <=> j = lineno \/ SameBlock(j, lineno)
        BY <1>1, <1>2, SameBlockStep DEF Heads, SameBlock
    <2>2. QED BY <1>1, <1>2, <2>1 DEF BlockInv
<1>7. IsSelected(lineno + 1) <=> Holds(lineno) /\ ~taken
    BY <1>1, <1>2, <1>4, HeadStep DEF Heads, IsFirstTrue, BlockInv
<1>8. BlockInv'  BY <1>1, <1>3, <1>4, <1>5, <1>6, <1>7 DEF BlockInv
<1>9. OutputInv'  BY <1>1, NoOutput
<1>10. TypeOK'  BY <1>1, <1>3 DEF TypeOK, Holds
<1>11. QED BY <1>3, <1>8, <1>9, <1>10

LEMMA ElseStep == Inv /\ ReadElse => Inv'
<1> SUFFICES ASSUME Inv, ReadElse PROVE Inv'
    OBVIOUS
<1> USE DEF Inv
<1>1. /\ lineno' = lineno + 1 /\ input' = input /\ phase' = phase /\ phase = "reading"
      /\ lineno <= Length /\ Kind(lineno) = "else"
      /\ in_if /\ in_if' = in_if /\ active' = ~taken
      /\ taken' = TRUE /\ UNCHANGED output_lines
    BY DEF ReadElse, Accepts, Reads, MayFail, Misplaced, Continue, IsUntaken, block, Length
<1>2. lineno \in Nat \ {0} /\ 1..lineno = 1..(lineno - 1) \cup {lineno}  BY DEF TypeOK
<1>3. /\ lineno' \in 1..(Len(input'.lines) + 1) /\ PrefixInv' /\ VerdictInv'
      /\ IsInside(lineno)' <=> IsInside(lineno + 1)
      /\ IsSelected(lineno)' <=> IsSelected(lineno + 1)
      /\ (\E j \in 1..(lineno - 1) : SameBlock(j, lineno) /\ Holds(j))'
            <=> \E j \in 1..lineno : SameBlock(j, lineno + 1) /\ Holds(j)
    BY <1>1, Advance DEF Misplaced
<1>4. IsInside(lineno)  BY <1>1 DEF BlockInv
<1>5. IsInside(lineno + 1)  BY <1>1, <1>2, <1>4, InsideStep
<1>6. taken' <=> \E j \in 1..lineno : SameBlock(j, lineno + 1) /\ Holds(j)
    <2>1. \A j \in 1..lineno :
             SameBlock(j, lineno + 1) <=> j = lineno \/ SameBlock(j, lineno)
        BY <1>1, <1>2, SameBlockStep DEF Heads, SameBlock
    <2>2. QED BY <1>1, <1>2, <2>1 DEF BlockInv, Holds
<1>7. IsSelected(lineno + 1) <=> Holds(lineno) /\ ~taken
    BY <1>1, <1>2, <1>4, HeadStep DEF Heads, IsFirstTrue, BlockInv
<1>8. BlockInv'  BY <1>1, <1>3, <1>4, <1>5, <1>6, <1>7 DEF BlockInv, Holds
<1>9. OutputInv'  BY <1>1, NoOutput
<1>10. TypeOK'  BY <1>1, <1>3 DEF TypeOK, Holds
<1>11. QED BY <1>3, <1>8, <1>9, <1>10

(* After an #endif nothing is open.                                        *)
LEMMA EndifStep == Inv /\ ReadEndif => Inv'
<1> SUFFICES ASSUME Inv, ReadEndif PROVE Inv'
    OBVIOUS
<1> USE DEF Inv
<1>1. /\ lineno' = lineno + 1 /\ input' = input /\ phase' = phase /\ phase = "reading"
      /\ lineno <= Length /\ Kind(lineno) = "endif"
      /\ in_if /\ in_if' = FALSE /\ active' = TRUE /\ taken' = FALSE
      /\ UNCHANGED output_lines
    BY DEF ReadEndif, Accepts, Reads, MayFail, Misplaced, Continue, IsUntaken, block, Length
<1>2. lineno \in Nat \ {0} /\ 1..lineno = 1..(lineno - 1) \cup {lineno}  BY DEF TypeOK
<1>3. /\ lineno' \in 1..(Len(input'.lines) + 1) /\ PrefixInv' /\ VerdictInv'
      /\ IsInside(lineno)' <=> IsInside(lineno + 1)
      /\ IsSelected(lineno)' <=> IsSelected(lineno + 1)
      /\ (\E j \in 1..(lineno - 1) : SameBlock(j, lineno) /\ Holds(j))'
            <=> \E j \in 1..lineno : SameBlock(j, lineno + 1) /\ Holds(j)
    BY <1>1, Advance DEF Misplaced
<1>4. ~IsInside(lineno + 1)  BY <1>1, <1>2, InsideStep
<1>5. \A j \in 1..lineno : ~SameBlock(j, lineno + 1)
    BY <1>1, <1>2, SameBlockStep DEF Heads
<1>6. IsSelected(lineno + 1)  BY <1>4 DEF IsSelected
<1>7. BlockInv'  BY <1>1, <1>3, <1>4, <1>5, <1>6 DEF BlockInv
<1>8. OutputInv'  BY <1>1, NoOutput
<1>9. TypeOK'  BY <1>1, <1>3 DEF TypeOK
<1>10. QED BY <1>3, <1>7, <1>8, <1>9

(* A line of text is kept if it is selected.                               *)
LEMMA ReadTextStep == Inv /\ ReadText => Inv'
<1> SUFFICES ASSUME Inv, ReadText PROVE Inv'
    OBVIOUS
<1> USE DEF Inv
<1>1. /\ lineno' = lineno + 1 /\ input' = input /\ phase' = phase /\ phase = "reading"
      /\ lineno <= Length /\ Kind(lineno) = "text"
      /\ UNCHANGED <<in_if, active, taken>>
      /\ output_lines' = IF active THEN Append(output_lines, lineno) ELSE output_lines
    BY DEF ReadText, Accepts, Reads, MayFail, Misplaced, Continue, IsUntaken, block, Length
<1>2. lineno \in Nat \ {0} /\ 1..lineno = 1..(lineno - 1) \cup {lineno}  BY DEF TypeOK
<1>3. /\ lineno' \in 1..(Len(input'.lines) + 1) /\ PrefixInv' /\ VerdictInv'
      /\ IsInside(lineno)' <=> IsInside(lineno + 1)
      /\ IsSelected(lineno)' <=> IsSelected(lineno + 1)
      /\ (\E j \in 1..(lineno - 1) : SameBlock(j, lineno) /\ Holds(j))'
            <=> \E j \in 1..lineno : SameBlock(j, lineno + 1) /\ Holds(j)
    BY <1>1, Advance DEF Misplaced
<1>4. IsInside(lineno + 1) <=> IsInside(lineno)  BY <1>1, <1>2, InsideStep
<1>5. IsSelected(lineno + 1) <=> IsSelected(lineno)  BY <1>1, <1>2, TextStep
<1>6. (\E j \in 1..lineno : SameBlock(j, lineno + 1) /\ Holds(j))
         <=> \E j \in 1..(lineno - 1) : SameBlock(j, lineno) /\ Holds(j)
    <2>1. \A j \in 1..lineno :
             SameBlock(j, lineno + 1) <=> j # lineno /\ SameBlock(j, lineno)
        BY <1>1, <1>2, SameBlockStep DEF Heads, SameBlock
    <2>2. QED BY <1>2, <2>1
<1>7. BlockInv'  BY <1>1, <1>3, <1>4, <1>5, <1>6 DEF BlockInv
<1>8. OutputInv'
    <2>1. CASE ~active
        BY <1>1, <2>1, NoOutput DEF BlockInv
    <2>2. CASE active
        <3>1. output_lines' = Append(output_lines, lineno)  BY <1>1, <2>2
        <3>2. output_lines \in Seq(Nat)  BY DEF TypeOK
        <3>3. {output_lines'[k] : k \in DOMAIN output_lines'}
                 = {output_lines[k] : k \in DOMAIN output_lines} \cup {lineno}
            BY <1>2, <3>1, <3>2
        <3>4. \A k \in DOMAIN output_lines : output_lines[k] < lineno
            BY <1>2 DEF OutputInv
        <3>5. \A k, l \in DOMAIN output_lines' :
                 k < l => output_lines'[k] < output_lines'[l]
            BY <1>2, <3>1, <3>2, <3>4 DEF OutputInv
        <3>6. {i \in 1..lineno : Kind(i) = "text" /\ IsSelected(i)}
                 = {i \in 1..(lineno - 1) : Kind(i) = "text" /\ IsSelected(i)} \cup {lineno}
            BY <1>1, <1>2, <2>2 DEF BlockInv
        <3>7. {i \in 1..lineno : Kind(i) = "text" /\ IsSelected(i)}
                 = {i \in 1..(lineno' - 1) : (Kind(i) = "text" /\ IsSelected(i))'}
            BY <1>1, <1>2, SameMeaning
        <3>8. QED BY <3>3, <3>5, <3>6, <3>7 DEF OutputInv
    <2>3. QED BY <2>1, <2>2
<1>9. TypeOK'  BY <1>1, <1>2, <1>3 DEF TypeOK
<1>10. QED BY <1>3, <1>7, <1>8, <1>9

(* The pass ends in a failure only if something is wrong.                  *)
LEMMA RejectStep == Inv /\ RejectDirective => Inv'
<1> SUFFICES ASSUME Inv, RejectDirective PROVE Inv'
    OBVIOUS
<1> USE DEF Inv
<1>1. /\ phase' = "failed" /\ UNCHANGED <<input, lineno, in_if, active, taken, output_lines>>
      /\ lineno \in 1..Length /\ Misplaced /\ Kind(lineno) \in Heads \cup {"endif"}
    BY DEF RejectDirective, Reads, block, Length, TypeOK
<1>2. ~IsPlaced(lineno)  BY <1>1 DEF Misplaced, IsPlaced, BlockInv, Heads
<1>3. ~WellFormed  BY <1>1, <1>2 DEF WellFormed
<1>4. ~WellFormed'  BY <1>1, <1>3, SameMeaning
<1>5. VerdictInv'  BY <1>1, <1>4 DEF VerdictInv
<1>6. TypeOK' /\ BlockInv' /\ PrefixInv' /\ OutputInv'
    BY <1>1, SameLine DEF TypeOK
<1>7. QED BY <1>5, <1>6

LEMMA EndStep == Inv /\ EndReading => Inv'
<1> SUFFICES ASSUME Inv, EndReading PROVE Inv'
    OBVIOUS
<1> USE DEF Inv
<1>1. /\ UNCHANGED <<input, lineno, in_if, active, taken, output_lines>>
      /\ phase' = IF in_if THEN "failed" ELSE "done"
      /\ lineno = Length + 1
    <2>1. lineno \in 1..(Length + 1) /\ lineno > Length  BY DEF EndReading, TypeOK, Length
    <2>2. Length \in Nat
        BY DirectivePreprocessorAssumption DEF TypeOK, Input, Length
    <2>3. QED BY <2>1, <2>2 DEF EndReading, block
<1>2. in_if => ~WellFormed  BY <1>1 DEF WellFormed, BlockInv
<1>3. Length' = Length /\ (WellFormed' <=> WellFormed)  BY <1>1, SameMeaning
<1>4. VerdictInv'  BY <1>1, <1>2, <1>3 DEF VerdictInv
<1>5. TypeOK' /\ BlockInv' /\ PrefixInv' /\ OutputInv'
    BY <1>1, SameLine DEF TypeOK
<1>6. QED BY <1>4, <1>5

(* The variables of the pass mean what they should.                        *)
THEOREM Correctness == Spec => []Inv
<1>1. Inv /\ UNCHANGED vars => Inv'
    <2> SUFFICES ASSUME Inv, UNCHANGED vars PROVE Inv'
        OBVIOUS
    <2>1. UNCHANGED <<input, phase, lineno, in_if, active, taken, output_lines>>
        BY DEF vars, block
    <2>2. TypeOK'  BY <2>1 DEF Inv, TypeOK
    <2>3. VerdictInv'  BY <2>1, SameMeaning DEF Inv, VerdictInv
    <2>4. QED BY <2>1, <2>2, <2>3, SameLine DEF Inv
<1>2. Inv /\ [Next]_vars => Inv'
    BY <1>1, IfStep, ElifStep, ElseStep, EndifStep, ReadTextStep, RejectStep, EndStep
       DEF Next, Stopped
<1>3. QED BY InitInv, <1>2, PTL DEF Spec

(* Every selected line of text is kept, nothing else is, and the order is  *)
(* that of the source (preprocess).                                        *)
THEOREM FirstTrueBranchIsKept == Spec => []KeepsFirstTrueBranch
<1>1. Inv => KeepsFirstTrueBranch
    <2> SUFFICES ASSUME Inv PROVE KeepsFirstTrueBranch
        OBVIOUS
    <2>1. Length \in Nat
        BY DirectivePreprocessorAssumption DEF Inv, TypeOK, Input, Length
    <2>2. phase = "done" => lineno - 1 = Length  BY <2>1 DEF Inv, VerdictInv
    <2>3. QED BY <2>2 DEF Inv, OutputInv, KeepsFirstTrueBranch
<1>2. QED BY Correctness, <1>1, PTL

(* The errors of preprocess are raised for malformed files, and for all of *)
(* them.                                                                   *)
THEOREM MalformedIsRejected == Spec => []RejectsMalformed
<1>1. Inv => RejectsMalformed
    <2> SUFFICES ASSUME Inv PROVE RejectsMalformed
        OBVIOUS
    <2>1. Length \in Nat
        BY DirectivePreprocessorAssumption DEF Inv, TypeOK, Input, Length
    <2>2. phase = "done" => lineno - 1 = Length /\ ~IsInside(Length + 1)
        BY <2>1 DEF Inv, VerdictInv, BlockInv
    <2>3. phase = "done" => WellFormed  BY <2>2 DEF Inv, PrefixInv, WellFormed
    <2>4. QED BY <2>3 DEF Inv, VerdictInv, RejectsMalformed
<1>2. QED BY Correctness, <1>1, PTL
=============================================================================
