------------------------------- MODULE MCData -------------------------------
(* The sequential components for TLC: Vm, FileMap, Umalloc and ShParse     *)
(* have no state in common, so a behaviour is one of a single one of them, *)
(* which Init picks.                                                       *)
EXTENDS Vm, FileMap, Umalloc, ShParse

VARIABLE part

MCDeltas   == {-3, -2, 1, 3}
MCPrograms == {<<3>>, <<2, 5>>}
MCWrites   == {2, 4, 15}
MCAlphabet == {"a", "<", "|", "&", ";", "(", ")"}

Init ==
  /\ VmInit /\ FileMapInit /\ UmallocInit /\ line = <<>>
  /\ part \in {"vm", "fs", "heap", "sh"}

OnlyVm      == part = "vm"   /\ UNCHANGED <<part, fmvars, heapvars, line>>
OnlyFileMap == part = "fs"   /\ UNCHANGED <<part, vmvars, heapvars, line>>
OnlyUmalloc == part = "heap" /\ UNCHANGED <<part, vmvars, fmvars, line>>
OnlyShParse == part = "sh"   /\ UNCHANGED <<part, vmvars, fmvars, heapvars>>

Next ==
  \/ OnlyVm /\ VmNext
  \/ OnlyFileMap /\ FileMapNext
  \/ OnlyUmalloc /\ UmallocNext
  \/ OnlyShParse /\ Type

Spec == Init /\ [][Next]_<<vmvars, fmvars, heapvars, line, part>>
=============================================================================
