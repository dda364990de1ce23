-------------------------------- MODULE MCFs --------------------------------
(* Instances of Fs for TLC: calls on a directory sub, a file leaf and a    *)
(* file sub/leaf.                                                          *)
EXTENDS Fs, TLC

CONSTANTS sub, leaf, maker, remover

C(op, root, path) == [op |-> op, root |-> root, path |-> path, to |-> <<>>]

SafeCalls ==
  [p \in Procs |->
    IF p = maker
    THEN {C("create", FALSE, <<leaf>>), C("create", TRUE, <<sub, leaf>>), C("openw", TRUE, <<leaf>>),
          C("chdir", TRUE, <<sub>>), C("unlink", FALSE, <<leaf>>),
          [op |-> "link", root |-> TRUE, path |-> <<leaf>>, to |-> <<sub, leaf>>]}
    ELSE {C("mkdir", TRUE, <<sub>>), C("create", TRUE, <<leaf>>), C("unlink", TRUE, <<leaf>>),
          C("unlink", TRUE, <<sub, leaf>>), C("unlink", TRUE, <<sub>>)}]

(* Calls that refute NoStuck: a directory sub/leaf is somebody's current   *)
(* directory when it and then sub are removed, and .. is looked up.        *)
DotDotCalls ==
  [p \in Procs |->
    IF p = maker
    THEN {C("chdir", TRUE, <<sub, leaf>>), C("open", FALSE, <<DotDot>>)}
    ELSE {C("mkdir", TRUE, <<sub>>), C("mkdir", TRUE, <<sub, leaf>>), C("unlink", TRUE, <<sub, leaf>>),
          C("unlink", TRUE, <<sub>>)}]
=============================================================================
