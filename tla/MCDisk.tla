------------------------------- MODULE MCDisk -------------------------------
(* Instances of Bio and VirtioDisk for TLC. They have no state in common   *)
(* (a transfer is one step of Bio), so a behaviour is one of either, which *)
(* Init picks.                                                             *)
EXTENDS Bio, VirtioDisk, TLC

VARIABLE part

DriverSymmetry == Permutations(Requesters) \cup Permutations(Contents)

Init ==
  /\ binit /\ virtio_disk_init
  /\ \/ part = "bio" /\ \E c \in Contents : {bdata, store} = {[r \in Requesters |-> c]}
     \/ part = "virtio" /\ LET zero == CHOOSE v \in Values : TRUE
                           IN disk = [b \in Blocknos |-> zero] /\ data = [i \in Bufs |-> zero]

(* The cache may come to rest, out of buffers; the driver never does.      *)
Next ==
  \/ part = "bio" /\ BioNext /\ UNCHANGED <<part, virtiovars>>
  \/ part = "bio" /\ UNCHANGED <<part, biovars, virtiovars>>
  \/ part = "virtio" /\ VirtioNext /\ UNCHANGED <<part, biovars>>

Spec == Init /\ [][Next]_<<part, biovars, virtiovars>>
=============================================================================
