------------------------------ MODULE MCFiles -------------------------------
(* Instances of Fs and Mmap for TLC. They have no state in common (Mmap    *)
(* sees files, not inodes), so a behaviour is one of either, which Init    *)
(* picks.                                                                  *)
EXTENDS MCFs, Mmap

VARIABLE part

Init == FsInit /\ MmapInit /\ part \in {"fs", "mmap"}

Next ==
  \/ part = "fs" /\ FsNext /\ UNCHANGED <<part, mmapvars>>
  \/ part = "mmap" /\ MmapNext /\ UNCHANGED <<part, fsvars>>

Spec == Init /\ [][Next]_<<part, fsvars, mmapvars>>
=============================================================================
