-------------------------------- MODULE Tty ---------------------------------
(* What the console promises its readers: keys are edited on a line that   *)
(* nobody sees until it ends, by newline, end of file or lack of room;     *)
(* then it is read, once, in order.                                        *)
EXTENDS Integers, Sequences

CONSTANTS Keys, Room

VARIABLES edit, ready

Init == edit = <<>> /\ ready = <<>>

Ends(l, c) == c \in {"nl", "^D"} \/ Len(ready) + Len(l) = Room

Store(c) ==
  LET l == Append(edit, c)
  IN /\ Len(ready) + Len(edit) < Room
     /\ IF Ends(l, c) THEN edit' = <<>> /\ ready' = ready \o l
        ELSE edit' = l /\ UNCHANGED ready

Erase == edit # <<>> /\ edit' = SubSeq(edit, 1, Len(edit) - 1) /\ UNCHANGED ready
Kill  == edit' = <<>> /\ UNCHANGED ready

(* A read takes no more than one line, and end of file only by itself.     *)
Take ==
  \E k \in 1..Len(ready) :
    /\ \A i \in 1..(k - 1) : ready[i] \notin {"nl", "^D"}
    /\ ready[k] = "^D" => k = 1
    /\ ready' = SubSeq(ready, k + 1, Len(ready)) /\ UNCHANGED edit

Next == Erase \/ Kill \/ Take \/ \E c \in Keys \ {"^H", "^U"} : Store(c)

Spec == Init /\ [][Next]_<<edit, ready>>
=============================================================================
