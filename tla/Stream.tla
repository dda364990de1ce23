------------------------------- MODULE Stream -------------------------------
(* What a pipe promises: a bounded first-in first-out stream of bytes with *)
(* an end-of-file that readers see only when every byte was read and no    *)
(* writer is left.                                                         *)
EXTENDS Integers, Sequences

CONSTANTS Bytes, Readers, Capacity

VARIABLES queue,  \* bytes written and not yet read
          got,    \* what each reader saw last
          wopen,  \* is there a writer left?
          ropen   \* is there a reader left?

vars == <<queue, got, wopen, ropen>>

Init ==
  /\ queue = <<>> /\ got = [r \in Readers |-> "nothing"]
  /\ wopen = TRUE /\ ropen = TRUE

Put(v) ==
  /\ wopen /\ ropen /\ Len(queue) < Capacity
  /\ queue' = Append(queue, v)
  /\ UNCHANGED <<got, wopen, ropen>>

Get(r) ==
  /\ queue # <<>>
  /\ got' = [got EXCEPT ![r] = Head(queue)]
  /\ queue' = Tail(queue)
  /\ UNCHANGED <<wopen, ropen>>

EndOfFile(r) ==
  /\ queue = <<>> /\ ~wopen
  /\ got' = [got EXCEPT ![r] = "eof"]
  /\ UNCHANGED <<queue, wopen, ropen>>

Close == /\ \/ wopen /\ wopen' = FALSE /\ UNCHANGED ropen
            \/ ropen /\ ropen' = FALSE /\ UNCHANGED wopen
         /\ UNCHANGED <<queue, got>>

Next == \/ \E v \in Bytes : Put(v)
        \/ \E r \in Readers : Get(r) \/ EndOfFile(r)
        \/ Close

Spec == Init /\ [][Next]_vars
=============================================================================
