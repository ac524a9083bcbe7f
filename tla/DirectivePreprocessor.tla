------------------------- MODULE DirectivePreprocessor -------------------------
(***************************************************************************)
(* The preprocessor of one Franca file (preprocessor/preprocess.py): one   *)
(* pass over its lines, which keeps those that the #if, #elif, #else and   *)
(* #endif directives select.  BatchRunner calls it for every file: its     *)
(* FileFails stands for the errors here.                                   *)
(***************************************************************************)
EXTENDS Naturals, Sequences

CONSTANTS
    Symbols,   \* what a directive can ask for
    Inputs     \* the inputs: see Input

(* What the regular expressions tell apart.  Everything that is no         *)
(* directive is text, directives in another spelling included; the symbol  *)
(* of a line that has none is never looked at.                             *)
Line == [kind : {"if", "elif", "else", "endif", "text"}, symbol : Symbols]

Input == [lines : Seq(Line), defines : SUBSET Symbols]

ASSUME DirectivePreprocessorAssumption == Inputs \subseteq Input

VARIABLES
    input,         \* lines and defined symbols; they never change
    phase,         \* "reading", "done" or "failed"
    lineno,        \* the line to be read
    in_if,         \* whether an #if is open
    active,        \* whether lines are kept
    taken,         \* whether a branch of the open #if has been active
    output_lines   \* the numbers of the lines kept

block == <<in_if, active, taken>>
vars == <<input, phase, lineno, block, output_lines>>

TypeOK ==
    /\ input \in Inputs
    /\ phase \in {"reading", "done", "failed"}
    /\ lineno \in 1..(Len(input.lines) + 1)
    /\ in_if \in BOOLEAN /\ active \in BOOLEAN /\ taken \in BOOLEAN
    /\ output_lines \in Seq(Nat)

Init ==
    /\ input \in Inputs
    /\ phase = "reading" /\ lineno = 1
    /\ in_if = FALSE /\ active = TRUE /\ taken = FALSE
    /\ output_lines = <<>>

-----------------------------------------------------------------------------

Heads == {"if", "elif", "else"}

Kind(i) == input.lines[i].kind

(* Whether the condition of a branch holds; that of #else always does.     *)
Holds(i) == Kind(i) = "else" \/ input.lines[i].symbol \in input.defines

Reads(kind) ==
    /\ phase = "reading" /\ lineno <= Len(input.lines)
    /\ Kind(lineno) = kind

Continue ==
    /\ lineno' = lineno + 1
    /\ UNCHANGED <<input, phase>>

(* #if inside of an #if, or another directive outside.                     *)
Misplaced == IF Kind(lineno) = "if" THEN in_if ELSE ~in_if

(* Mutant: an #endif may stand anywhere.                                   *)
MayFailButEndif(kind) == kind \notin {"text", "endif"}

MayFail(kind) == kind # "text"

RejectDirective ==
    /\ \E kind \in Heads \cup {"endif"} : Reads(kind) /\ MayFail(kind)
    /\ Misplaced
    /\ phase' = "failed"
    /\ UNCHANGED <<input, lineno, block, output_lines>>

Accepts(kind) == Reads(kind) /\ ~(MayFail(kind) /\ Misplaced)

(* Mutant: #else and #elif look at their own condition only.               *)
EveryBranchIsFirst == TRUE

(* No branch of this #if has been active so far.                           *)
IsUntaken == ~taken

ReadIf ==
    /\ Accepts("if")
    /\ in_if' = TRUE
    /\ active' = Holds(lineno) /\ taken' = active'
    /\ Continue /\ UNCHANGED output_lines

ReadElif ==
    /\ Accepts("elif")
    /\ active' = (IsUntaken /\ Holds(lineno))
    /\ taken' = (taken \/ active')
    /\ Continue /\ UNCHANGED <<in_if, output_lines>>

ReadElse ==
    /\ Accepts("else")
    /\ active' = IsUntaken /\ taken' = TRUE
    /\ Continue /\ UNCHANGED <<in_if, output_lines>>

ReadEndif ==
    /\ Accepts("endif")
    /\ in_if' = FALSE /\ active' = TRUE /\ taken' = FALSE
    /\ Continue /\ UNCHANGED output_lines

ReadText ==
    /\ Accepts("text")
    /\ output_lines' = IF active THEN Append(output_lines, lineno) ELSE output_lines
    /\ Continue /\ UNCHANGED block

(* The end of the file: an #if that is still open is an error.             *)
EndReading ==
    /\ phase = "reading" /\ lineno > Len(input.lines)
    /\ phase' = IF in_if THEN "failed" ELSE "done"
    /\ UNCHANGED <<input, lineno, block, output_lines>>

Stopped == phase \in {"done", "failed"} /\ UNCHANGED vars

Next ==
    \/ ReadIf \/ ReadElif \/ ReadElse \/ ReadEndif \/ ReadText
    \/ RejectDirective \/ EndReading
    \/ Stopped

Spec == Init /\ [][Next]_vars

-----------------------------------------------------------------------------
(* The meaning of the directives, without a state.                         *)

Length == Len(input.lines)

(* The line i is in the block that line j opens or continues: no #endif is *)
(* between the two.                                                        *)
SameBlock(j, i) == j < i /\ Kind(j) \in Heads /\ \A k \in j..(i - 1) : Kind(k) # "endif"

(* Line i comes after an #if that is not closed.                           *)
IsInside(i) == \E j \in 1..(i - 1) : Kind(j) = "if" /\ SameBlock(j, i)

IsPlaced(i) ==
    /\ Kind(i) = "if" => ~IsInside(i)
    /\ Kind(i) \in {"elif", "else", "endif"} => IsInside(i)

(* Blocks are not nested, other directives are in a block only, and the    *)
(* last block is closed.                                                   *)
WellFormed ==
    /\ \A i \in 1..Length : IsPlaced(i)
    /\ ~IsInside(Length + 1)

(* Line i belongs to the branch of which j is the head.                    *)
InBranch(j, i) == SameBlock(j, i) /\ \A k \in (j + 1)..(i - 1) : Kind(k) \notin Heads

(* j is the head of the first branch of its block whose condition holds.   *)
IsFirstTrue(j) == Holds(j) /\ \A k \in 1..(j - 1) : SameBlock(k, j) => ~Holds(k)

IsSelected(i) ==
    ~IsInside(i) \/ \E j \in 1..(i - 1) : InBranch(j, i) /\ IsFirstTrue(j)

(* "Keep only source lines selected by supported defined/elif/else         *)
(* directives": the output is the text outside of all blocks and that of   *)
(* the first branch of each block whose condition holds, in the order of   *)
(* the source, and nothing is left out, whatever follows an #else.         *)
KeepsFirstTrueBranch ==
    /\ phase = "done" =>
          {output_lines[k] : k \in DOMAIN output_lines} =
             {i \in 1..Length : Kind(i) = "text" /\ IsSelected(i)}
    /\ \A k, l \in DOMAIN output_lines : k < l => output_lines[k] < output_lines[l]

(* "Raised when a preprocessing directive is malformed or unsupported":    *)
(* a file is rejected if its directives do not match, and only then.       *)
RejectsMalformed ==
    /\ phase = "done" => WellFormed
    /\ phase = "failed" => ~WellFormed
=============================================================================
