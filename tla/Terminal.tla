------------------------------ MODULE Terminal ------------------------------
(***************************************************************************)
(* What the console promises to the programs that read from it: characters *)
(* are typed into a line, which can be edited until it is ended; then they *)
(* are there to be read, in the order in which they were typed.  A line    *)
(* that fills the buffer is ended as it is.                                *)
(***************************************************************************)
EXTENDS Sequences, Naturals

CONSTANTS
    Char,
    Ends,     \* the characters that end a line
    Size      \* of the buffer

VARIABLES
    ready,    \* what can be read
    line      \* what can still be edited

Init == ready = <<>> /\ line = <<>>

Type(ch) ==
    /\ Len(ready) + Len(line) < Size
    /\ LET typed == Append(line, ch) IN
       IF ch \in Ends \/ Len(ready) + Len(typed) = Size
       THEN ready' = ready \o typed /\ line' = <<>>
       ELSE line' = typed /\ UNCHANGED ready

\* Take back the last character.
Erase == /\ line # <<>>
         /\ line' = SubSeq(line, 1, Len(line) - 1) /\ UNCHANGED ready

\* Take back the line.
Kill == line' = <<>> /\ UNCHANGED ready

Read == /\ ready # <<>>
        /\ ready' = Tail(ready) /\ UNCHANGED line

Next == Kill \/ Erase \/ Read \/ \E ch \in Char : Type(ch)

Spec == Init /\ [][Next]_<<ready, line>>
=============================================================================
