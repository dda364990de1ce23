------------------------------- MODULE MCPipe -------------------------------
(* Instances of Pipe for TLC.                                              *)
EXTENDS Pipe, TLC

PipeSymmetry == Permutations(Writers) \cup Permutations(Readers) \cup Permutations(Bytes)
=============================================================================
