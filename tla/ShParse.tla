------------------------------- MODULE ShParse -------------------------------
(* The shell's parser (user/sh.c), over the tokens gettoken returns.  A    *)
(* token is one of the symbols or a word; a command keeps the positions of *)
(* its words in the line, as the code keeps pointers into buf.             *)
EXTENDS Integers, Sequences, SequencesExt, FiniteSets

CONSTANTS MAXARGS,
          Alphabet,   \* the tokens that are typed
          MaxLine     \* bound on the tokens of a line

VARIABLE line         \* what has been typed

Symbols == {"<", ">", "+", "|", "&", ";", "(", ")"}

execcmd(argv)         == [type |-> "EXEC", argv |-> argv]
redircmd(c, file, tok) ==
  [type |-> "REDIR", cmd |-> c, file |-> file, mode |-> tok, fd |-> IF tok = "<" THEN 0 ELSE 1]
pipecmd(left, right)  == [type |-> "PIPE", left |-> left, right |-> right]
listcmd(left, right)  == [type |-> "LIST", left |-> left, right |-> right]
backcmd(c)            == [type |-> "BACK", cmd |-> c]

(* A parsing function is given the line and the place it starts at, and    *)
(* returns the command and the place after it, or that it panicked.        *)
Parsed(c, at) == [ok |-> TRUE, cmd |-> c, at |-> at]
Panic         == [ok |-> FALSE]

(* peek and gettoken; past the end of the line they find the terminator.   *)
Tok(s, at)        == IF at > Len(s) THEN "0" ELSE s[at]
peek(s, at, toks) == Tok(s, at) \in toks
IsWord(t)         == t \notin Symbols \cup {"0"}

RECURSIVE parseredirs(_, _, _)
parseredirs(c, s, at) ==
  IF ~peek(s, at, {"<", ">", "+"}) THEN Parsed(c, at)
  ELSE IF ~IsWord(Tok(s, at + 1)) THEN Panic
  ELSE parseredirs(redircmd(c, at + 1, s[at]), s, at + 2)

(* ret is the execcmd with the redirections read so far around it, and     *)
(* argv of the execcmd is filled in as the words come.                     *)
RECURSIVE AddArg(_, _)
AddArg(c, i) ==
  IF c.type = "EXEC" THEN execcmd(Append(c.argv, i)) ELSE [c EXCEPT !.cmd = AddArg(@, i)]

(* parseexec's loop over the arguments.                                    *)
RECURSIVE parseargs(_, _, _)
parseargs(r, s, argc) ==
  LET at == r.at
      t  == Tok(s, at)
  IN IF ~r.ok \/ t \in {"|", ")", "&", ";", "0"} THEN r
     ELSE IF ~IsWord(t) THEN Panic
     ELSE IF argc + 1 >= MAXARGS THEN Panic
     ELSE parseargs(parseredirs(AddArg(r.cmd, at), s, at + 1), s, argc + 1)

RECURSIVE parseline(_, _)
RECURSIVE parsepipe(_, _)

parseblock(s, at) ==
  LET r == parseline(s, at + 1)
  IN IF ~r.ok \/ ~peek(s, r.at, {")"}) THEN Panic ELSE parseredirs(r.cmd, s, r.at + 1)

parseexec(s, at) ==
  IF peek(s, at, {"("}) THEN parseblock(s, at)
  ELSE parseargs(parseredirs(execcmd(<<>>), s, at), s, 0)

parsepipe(s, at) ==
  LET l == parseexec(s, at)
      r == parsepipe(s, l.at + 1)
  IN IF ~l.ok \/ ~peek(s, l.at, {"|"}) THEN l
     ELSE IF ~r.ok THEN Panic ELSE Parsed(pipecmd(l.cmd, r.cmd), r.at)

(* Mutant of Backs: one & at most.                                         *)
Backs_one(c, s, at) == IF peek(s, at, {"&"}) THEN Parsed(backcmd(c), at + 1) ELSE Parsed(c, at)

RECURSIVE Backs(_, _, _)
Backs(c, s, at) == IF peek(s, at, {"&"}) THEN Backs(backcmd(c), s, at + 1) ELSE Parsed(c, at)

parseline(s, at) ==
  LET p == parsepipe(s, at)
      l == Backs(p.cmd, s, p.at)
      r == parseline(s, l.at + 1)
  IN IF ~p.ok THEN p
     ELSE IF ~peek(s, l.at, {";"}) THEN l
     ELSE IF ~r.ok THEN Panic ELSE Parsed(listcmd(l.cmd, r.cmd), r.at)

(* The whole line must have been used.                                     *)
parsecmd(s) == LET r == parseline(s, 1) IN IF r.ok /\ r.at = Len(s) + 1 THEN r ELSE Panic

(* The user of the console types one more token.                           *)
Type == Len(line) < MaxLine /\ \E t \in Alphabet : line' = Append(line, t)

-----------------------------------------------------------------------------
(* The grammar the parser is for: the commands that the tokens from i up   *)
(* to, not including, j can stand for, by every way to split them.         *)
RECURSIVE Redirs(_, _, _, _)
Redirs(c, s, i, j) ==
  IF i = j THEN {c}
  ELSE IF j - i >= 2 /\ s[i] \in {"<", ">", "+"} /\ IsWord(s[i + 1])
       THEN Redirs(redircmd(c, i + 1, s[i]), s, i + 2, j) ELSE {}

(* The words of a command that are not files of redirections.              *)
Simple(s, i, j) ==
  LET file(k) == k > i /\ s[k - 1] \in {"<", ">", "+"}
      args == {k \in i..(j - 1) : IsWord(s[k]) /\ ~file(k)}
      reds == {k \in i..(j - 1) : s[k] \in {"<", ">", "+"}}
      argv == SetToSortSeq(args, <)
  IN IF /\ Cardinality(args) < MAXARGS
        /\ \A k \in i..(j - 1) : \/ k \in args
                                 \/ file(k) /\ IsWord(s[k])
                                 \/ k \in reds /\ k + 1 < j /\ ~file(k)
     THEN {FoldLeft(LAMBDA c, k : redircmd(c, k + 1, s[k]), execcmd(argv), SetToSortSeq(reds, <))}
     ELSE {}

RECURSIVE Lines(_, _, _)
RECURSIVE Pipes(_, _, _)
Execs(s, i, j) ==
  Simple(s, i, j)
  \cup UNION {UNION {Redirs(c, s, k + 1, j) : c \in Lines(s, i + 1, k)} :
              k \in {m \in (i + 1)..(j - 1) : s[i] = "(" /\ s[m] = ")"}}

Pipes(s, i, j) ==
  Execs(s, i, j)
  \cup UNION {{pipecmd(l, r) : l \in Execs(s, i, k), r \in Pipes(s, k + 1, j)} :
              k \in {m \in i..(j - 1) : s[m] = "|"}}

RECURSIVE Jobs(_, _, _)
Jobs(s, i, j) ==
  Pipes(s, i, j) \cup (IF j > i /\ s[j - 1] = "&" THEN {backcmd(c) : c \in Jobs(s, i, j - 1)} ELSE {})

Lines(s, i, j) ==
  Jobs(s, i, j)
  \cup UNION {{listcmd(l, r) : l \in Jobs(s, i, k), r \in Lines(s, k + 1, j)} :
              k \in {m \in i..(j - 1) : s[m] = ";"}}

(* parsecmd accepts exactly the lines of the grammar, none of which is     *)
(* ambiguous, and returns the command that the line stands for: one symbol *)
(* of lookahead is enough to find it.                                      *)
ParseRight ==
  LET r == parsecmd(line)
  IN Lines(line, 1, Len(line) + 1) = IF r.ok THEN {r.cmd} ELSE {}
=============================================================================
