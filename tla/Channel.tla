------------------------------- MODULE Channel -------------------------------
(***************************************************************************)
(* What a data path between host and guest promises: the items that went   *)
(* in come out in the same order, none lost on the way, none repeated.     *)
(* VhostCan implements it from can_in to the guest; VhostConsole for the   *)
(* guest's output and for the control messages.                            *)
(***************************************************************************)
EXTENDS Naturals, Sequences

CONSTANT Item

VARIABLES
    input,   \* the items that were put in, in order
    output   \* the items that have come out, in order

Init == input = <<>> /\ output = <<>>

Accept == \E x \in Item : input' = Append(input, x) /\ UNCHANGED output

\* The next one or more items come out.
Deliver ==
    \E n \in Len(output) + 1 .. Len(input) :
        output' = SubSeq(input, 1, n) /\ UNCHANGED input

Next == Accept \/ Deliver

Spec == Init /\ [][Next]_<<input, output>>
=============================================================================
