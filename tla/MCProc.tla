------------------------------- MODULE MCProc -------------------------------
(* Instances of Proc for TLC: init, a shell and one or two more processes. *)
EXTENDS Proc
=============================================================================
