------------------------------- MODULE Shell --------------------------------
(* The shell (user/sh.c) and programs it runs (user/cat.c, user/echo.c),   *)
(* as processes on the open files of File: pipelines, redirections, lists  *)
(* and background jobs, with fork, pipe and open able to fail.             *)
(*                                                                         *)
(* What a process has still to do is a sequence of calls; runcmd says what *)
(* they are for a command.  A process whose sequence is empty exits.       *)
EXTENDS File, ShParse

CONSTANTS RunLines,   \* the lines that are typed
          MaxLines,   \* how many, before end of file
          MaxCalls    \* calls of the program "any"

VARIABLES
  proc,      \* state, parent, the calls to make (todo), p[2] of runcmd (pfd), and as
             \* history: the files that 0 and 1 should be (std), background (bg)
  failed     \* history: a fork has failed

vars == <<filevars, proc, line, failed>>

InitProc == Min(Procs)
Unused == [state |-> "UNUSED", parent |-> InitProc, todo |-> <<>>, pfd |-> <<0, 0>>,
           std |-> <<>>, bg |-> FALSE]

Others == Procs \ {InitProc}

-----------------------------------------------------------------------------
(* Calls.  A descriptor is a number, or p[0] or p[1]; that of pipe is -1   *)
(* when its argument is not an address of the process.                     *)
Call(op, fd)  == [op |-> op, fd |-> fd]
P0            == NOFILE
P1            == NOFILE + 1
FD(p, x)      == IF x < NOFILE THEN x ELSE proc[p].pfd[x - NOFILE + 1]
Run(c)        == [op |-> "run", cmd |-> c]
Fork(code, std, bg) == [op |-> "fork", code |-> code, std |-> std, bg |-> bg]

(* nulterminate makes strings of the words of a command.                   *)
RECURSIVE nulterminate(_, _)
nulterminate(c, s) ==
  CASE c.type = "EXEC"  -> [c EXCEPT !.argv = [i \in DOMAIN @ |-> s[@[i]]]]
    [] c.type = "REDIR" -> [c EXCEPT !.cmd = nulterminate(@, s), !.file = s[@]]
    [] c.type \in {"PIPE", "LIST"} -> [c EXCEPT !.left = nulterminate(@, s), !.right = nulterminate(@, s)]
    [] c.type = "BACK"  -> [c EXCEPT !.cmd = nulterminate(@, s)]

(* Mutant of RightOf: the right command keeps the writer's end open.       *)
RightOf_keeps(c) == <<Call("close", 0), Call("dup", P0), Call("close", P0), Run(c)>>

LeftOf(c)  == <<Call("close", 1), Call("dup", P1), Call("close", P0), Call("close", P1), Run(c)>>
RightOf(c) == <<Call("close", 0), Call("dup", P0), Call("close", P0), Call("close", P1), Run(c)>>

(* Mutant of Await: the parent keeps the writer's end open.                *)
Await_open == <<Call("close", P0), Call("wait", 0), Call("wait", 0)>>

Await == <<Call("close", P0), Call("close", P1), Call("wait", 0), Call("wait", 0)>>

runcmd(c) ==
  CASE c.type = "EXEC"  -> IF c.argv = <<>> THEN <<>> ELSE <<[op |-> "exec", argv |-> c.argv]>>
    [] c.type = "REDIR" -> <<Call("close", c.fd), [op |-> "open", file |-> c.file, fd |-> c.fd],
                             Run(c.cmd)>>
    [] c.type = "LIST"  -> <<Fork(<<Run(c.left)>>, -1, FALSE), Call("wait", 0), Run(c.right)>>
    [] c.type = "PIPE"  -> <<Call("pipe", 0), Fork(LeftOf(c.left), 1, FALSE),
                             Fork(RightOf(c.right), 0, FALSE)>> \o Await
    [] c.type = "BACK"  -> <<Fork(<<Run(c.cmd)>>, -1, TRUE)>>

(* runcmd does not return: what comes after it is not reached.             *)
Code(seq) == IF seq # <<>> /\ Head(seq).op = "run" THEN runcmd(Head(seq).cmd) ELSE seq

(* The programs: cat copies descriptor 0, or each file; echo writes a word *)
(* and a space or newline for each; any makes some calls; a name that is   *)
(* not that of a program makes exec fail.                                  *)
cat_main(argv) ==
  IF Len(argv) = 1 THEN <<Call("cat", 0)>>
  ELSE LET file(i) == <<[op |-> "open", file |-> argv[i], fd |-> 2], Call("cat", 3), Call("close", 3)>>
       IN FoldLeft(LAMBDA code, i : code \o file(i), <<>>, [i \in 1..(Len(argv) - 1) |-> i + 1])

echo_main(argv) == [i \in 1..(2 * (Len(argv) - 1)) |-> Call("write", 1)]

Program(argv) ==
  CASE argv[1] = "cat"  -> cat_main(argv)
    [] argv[1] = "echo" -> echo_main(argv)
    [] argv[1] = "any"  -> <<[op |-> "any", n |-> MaxCalls]>>
    [] OTHER            -> <<>>

-----------------------------------------------------------------------------
(* The file behind a descriptor.                                           *)
What(p, fd) ==
  LET f == ofile[p][fd]
  IN IF f = 0 THEN <<"none">> ELSE <<ftable[f].type, ftable[f].name, ftable[f].pipe, ftable[f].writable>>

Console == [Free EXCEPT !.ref = 6, !.type = "INODE", !.name = "console"]
IsConsole == <<"INODE", "console", 0, FALSE>>

(* init has opened the console and forked a shell.                         *)
Init ==
  LET sh == Min(Others)
      three == [fd \in FDs |-> IF fd < 3 THEN 1 ELSE 0]
  IN /\ ftable = [f \in Files |-> IF f = 1 THEN Console ELSE Free]
     /\ ofile = [p \in Procs |-> IF p \in {InitProc, sh} THEN three ELSE [fd \in FDs |-> 0]]
     /\ pipes = [i \in 1..NPIPE |-> Gone]
     /\ hold = [p \in Procs |-> <<>>] /\ closing = [p \in Procs |-> <<>>]
     /\ proc = [p \in Procs |->
                  IF p = sh THEN [Unused EXCEPT !.state = "RUN", !.std = <<IsConsole, IsConsole>>,
                                                !.todo = <<Call("console", 0)>>]
                  ELSE Unused]
     /\ line = <<>> /\ failed = FALSE

Can(p, op) ==
  /\ proc[p].state = "RUN" /\ InUser(p)
  /\ proc[p].todo # <<>> /\ Head(proc[p].todo).op = op

Arg(p)      == Head(proc[p].todo)
Goto(p, code) == proc' = [proc EXCEPT ![p].todo = Code(code)]
Next1(p)    == Goto(p, Tail(proc[p].todo))
Quit(p)     == Goto(p, <<>>)                  \* panic, or exit after an error
NoFiles     == UNCHANGED filevars

(* The loop at the start of main: open the console until it is at 3 or     *)
(* more, and close that.                                                   *)
main_open(p) ==
  /\ Can(p, "console") /\ UNCHANGED <<line, failed>>
  /\ IF OpenFails(p) THEN NoFiles /\ Goto(p, <<[op |-> "prompt", n |-> MaxLines]>>)
     ELSE LET fd == fdalloc(ofile[p])
          IN /\ sys_open(p, "console")
             /\ IF fd < 3 THEN UNCHANGED proc
                ELSE Goto(p, <<Call("close", fd), [op |-> "prompt", n |-> MaxLines]>>)

(* Mutant of Reply: the shell does not wait for its child.                 *)
Reply_nowait(s, again) ==
  IF s[1] = "cd" THEN <<again>>
  ELSE LET r == parsecmd(s)
       IN <<Fork(IF r.ok THEN <<Run(nulterminate(r.cmd, s))>> ELSE <<>>, -1, FALSE), again>>

(* What main does with a line: cd is its own business, the rest its        *)
(* child's, which panics if the line cannot be parsed.                     *)
Reply(s, again) ==
  IF s[1] = "cd" THEN <<again>>
  ELSE LET r == parsecmd(s)
       IN <<Fork(IF r.ok THEN <<Run(nulterminate(r.cmd, s))>> ELSE <<>>, -1, FALSE),
            Call("wait", 0), again>>

getcmd(p) ==
  /\ Can(p, "prompt") /\ NoFiles /\ UNCHANGED failed
  /\ IF Arg(p).n = 0 THEN Quit(p) /\ UNCHANGED <<line, failed>>
     ELSE \E s \in RunLines :
            line' = s /\ Goto(p, Reply(s, [op |-> "prompt", n |-> Arg(p).n - 1]))

(* The system calls of runcmd and of the programs.  There is no file       *)
(* absent, but a > makes one.                                              *)
close(p) ==
  /\ Can(p, "close") /\ Next1(p) /\ UNCHANGED <<line, failed>>
  /\ LET fd == FD(p, Arg(p).fd) IN IF BadFd(p, fd) THEN NoFiles ELSE sys_close(p, fd)

dup(p) ==
  /\ Can(p, "dup") /\ Next1(p) /\ UNCHANGED <<line, failed>>
  /\ LET fd == FD(p, Arg(p).fd) IN IF DupFails(p, fd) THEN NoFiles ELSE sys_dup(p, fd)

open(p) ==
  /\ Can(p, "open") /\ UNCHANGED <<line, failed>>
  /\ IF OpenFails(p) \/ (Arg(p).file = "absent" /\ Arg(p).fd # 1) THEN Quit(p) /\ NoFiles
     ELSE /\ sys_open(p, Arg(p).file)
          /\ proc' = [proc EXCEPT ![p].todo = Code(Tail(@)),
                                  ![p].std = IF Arg(p).fd < 2
                                             THEN [@ EXCEPT ![Arg(p).fd + 1] =
                                                     <<"INODE", Arg(p).file, 0, FALSE>>]
                                             ELSE @]

pipe(p) ==
  /\ Can(p, "pipe") /\ UNCHANGED <<line, failed>>
  /\ IF PipeAllocFails THEN Quit(p) /\ NoFiles ELSE pipealloc(p) /\ UNCHANGED proc

pipe_return(p) ==
  /\ hold[p] # <<>> /\ pipe_fds(p, Arg(p).fd = -1) /\ UNCHANGED <<line, failed>>
  /\ IF PipeFails(p, Arg(p).fd = -1) THEN Quit(p)
     ELSE proc' = [proc EXCEPT ![p].pfd = <<fd0(p), fd1(p)>>, ![p].todo = Code(Tail(@))]

Slots == {np \in Others : proc[np].state = "UNUSED"}

(* fork1; allocproc takes the first free slot.  When it fails the shell    *)
(* panics.                                                                 *)
fork1(p) ==
  /\ Can(p, "fork") /\ UNCHANGED line
  /\ IF Slots = {} THEN failed' = TRUE /\ Quit(p) /\ NoFiles
     ELSE LET np == Min(Slots)
              call == Arg(p)
              end  == <<"PIPE", "", ftable[ofile[p][proc[p].pfd[1]]].pipe, call.std = 1>>
          IN /\ ForkFiles(p, np) /\ UNCHANGED failed
             /\ proc' = [proc EXCEPT
                  ![p].todo = Code(Tail(@)),
                  ![np] = [proc[p] EXCEPT !.parent = p, !.todo = Code(call.code),
                                          !.bg = @ \/ call.bg,
                                          !.std = IF call.std = -1 THEN @
                                                  ELSE [@ EXCEPT ![call.std + 1] = end]]]

Children(p) == {q \in Others : proc[q].parent = p /\ proc[q].state # "UNUSED"}
Zombies(p)  == {q \in Children(p) : proc[q].state = "ZOMBIE"}

wait(p) ==
  /\ Can(p, "wait") /\ NoFiles /\ UNCHANGED <<line, failed>>
  /\ \/ /\ Children(p) = {} /\ Next1(p)
     \/ \E q \in Zombies(p) :
          proc' = [proc EXCEPT ![q] = Unused, ![p].todo = Code(Tail(@))]

init_wait ==
  /\ \E q \in Zombies(InitProc) : proc' = [proc EXCEPT ![q] = Unused]
  /\ NoFiles /\ UNCHANGED <<line, failed>>

exec(p) == Can(p, "exec") /\ Goto(p, Program(Arg(p).argv)) /\ NoFiles /\ UNCHANGED <<line, failed>>

(* write of a byte: echo's, and cat's, which gives up when it fails.       *)
write(p) ==
  /\ Can(p, "write") \/ Can(p, "copy")
  /\ ~WriteBlocks(p, 1) /\ UNCHANGED <<line, failed>>
  /\ IF WriteFails(p, 1)
     THEN NoFiles /\ (IF Arg(p).op = "copy" THEN Quit(p) ELSE Next1(p))
     ELSE Bytes(p, 1, 1) /\ Next1(p)

(* cat's read; a byte is written to 1 before the next read.                *)
cat(p) ==
  LET fd == Arg(p).fd
  IN /\ Can(p, "cat") /\ ~ReadBlocks(p, fd) /\ UNCHANGED <<line, failed>>
     /\ IF BadFd(p, fd) THEN Quit(p) /\ NoFiles
        ELSE IF ReadGets(p, fd) THEN Bytes(p, fd, -1) /\ Goto(p, <<Call("copy", 1)>> \o proc[p].todo)
        ELSE Next1(p) /\ NoFiles

any(p) ==
  /\ Can(p, "any") /\ NoFiles /\ UNCHANGED <<line, failed>>
  /\ IF Arg(p).n = 0 THEN Quit(p)
     ELSE \E call \in {Call("pipe", 0), Call("pipe", -1), [op |-> "open", file |-> "f", fd |-> 2]}
                      \cup {Call(op, fd) : op \in {"close", "dup"}, fd \in FDs} :
            Goto(p, <<call, [op |-> "any", n |-> Arg(p).n - 1]>>)

(* exit: closes the descriptors one by one, then gives its children to     *)
(* init and is a zombie.                                                   *)
exit(p) ==
  /\ proc[p].state = "RUN" /\ InUser(p) /\ proc[p].todo = <<>> /\ UNCHANGED <<line, failed>>
  /\ LET fds == {fd \in FDs : ofile[p][fd] # 0}
     IN IF fds # {} THEN sys_close(p, Min(fds)) /\ UNCHANGED proc
        ELSE /\ NoFiles
             /\ proc' = [q \in Procs |->
                           IF q = p THEN [proc[q] EXCEPT !.state = "ZOMBIE"]
                           ELSE IF proc[q].parent = p THEN [proc[q] EXCEPT !.parent = InitProc]
                           ELSE proc[q]]

finish_close(p) == pipeclose(p) /\ UNCHANGED <<proc, line, failed>>

Next ==
  \/ init_wait
  \/ \E p \in Others :
       \/ main_open(p) \/ getcmd(p) \/ close(p) \/ dup(p) \/ open(p) \/ pipe(p) \/ pipe_return(p)
       \/ fork1(p) \/ wait(p) \/ exec(p) \/ write(p) \/ cat(p) \/ any(p) \/ exit(p)
       \/ finish_close(p)

(* Some process that can go on does: the scheduler is fair (see Sched),    *)
(* and no process of this module runs for ever.                            *)
Spec == Init /\ [][Next]_vars /\ WF_vars(Next)

-----------------------------------------------------------------------------
(* When a program starts, its descriptors 0 and 1 are the ends of the      *)
(* pipes and the files that the command line says, 2 is the console, and   *)
(* no other is open: in particular no end of a pipe of the pipeline.       *)
DescriptorsRight ==
  \A p \in Others : Can(p, "exec") =>
    /\ What(p, 0) = proc[p].std[1] /\ What(p, 1) = proc[p].std[2] /\ What(p, 2) = IsConsole
    /\ \A fd \in FDs : fd >= 3 => ofile[p][fd] = 0

(* The shell prompts again only when everything it started has exited, but *)
(* for background jobs (unless a fork failed in the middle of a command,   *)
(* which leaves the rest of that command to itself).                       *)
PromptRight ==
  \A p \in Others : Can(p, "prompt") /\ ~failed =>
    \A q \in Others \ {p} : proc[q].state = "RUN" => proc[q].bg

(* Every command comes to its end, whatever fails on the way: each reader  *)
(* gets its end of file and each waiting parent its children, until only   *)
(* init is left, with the console open and all other files and pipes free. *)
CommandsEnd ==
  <>(/\ \A p \in Others : proc[p].state = "UNUSED"
     /\ ftable = [f \in Files |-> IF f = 1 THEN [Console EXCEPT !.ref = 3] ELSE Free]
     /\ pipes = [i \in 1..NPIPE |-> Gone])
=============================================================================
