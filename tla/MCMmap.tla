------------------------------- MODULE MCMmap -------------------------------
(* Instances of Mmap for TLC.                                              *)
EXTENDS Mmap
=============================================================================
