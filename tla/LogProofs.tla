----------------------------- MODULE LogProofs -----------------------------
(* Proofs about Log, for every number of threads, blocks and log blocks:   *)
(* first that nothing in log.c panics, then that the log implements the    *)
(* atomic disk, which is its crash atomicity and durability.               *)
EXTENDS Log, FiniteSetTheorems, TLAPS

(* A leaf goes to Zenon, unless it names the SMT solver, which alone does   *)
(* arithmetic.                                                             *)
USE ZenonT(60)

Active == {t \in Threads : pc[t] \in InOp}

(* One token per log block that an operation in progress may still take.   *)
Reserved ==
  {x \in Threads \X (1..MAXOPBLOCKS) :
     pc[x[1]] \in InOp /\ x[2] > Cardinality(touched[x[1]])}

(* Accounting of log space: what is logged and what is still promised to   *)
(* the operations in progress fit in the LOGSIZE blocks shared out.        *)
SpaceInv ==
  /\ outstanding = Cardinality(Active)
  /\ Len(lh) + Cardinality(Reserved) <= LOGSIZE
  /\ Len(lh) <= Nlog - 1 /\ Len(dhead) <= Nlog - 1
  /\ Len(dhead) <= LOGSIZE

OpInv ==
  \A t \in Threads :
    /\ IsFiniteSet(touched[t]) /\ Cardinality(touched[t]) <= OpBlocks
    /\ touched[t] \subseteq Logged
    /\ pc[t] \notin InOp => touched[t] = {}
    /\ IF pc[t] \in {"check", "append"}
         THEN /\ wb[t] \in Blocks
              /\ Cardinality(touched[t] \cup {wb[t]}) <= OpBlocks
         ELSE wb[t] = NoBuf

CommitStages == {"write_log", "write_head", "install", "erase", "done"}

StageInv ==
  /\ committing <=> stage \in CommitStages
  /\ stage \in CommitStages \cup BootStages =>
       \A t \in Threads : pc[t] \notin InOp
  /\ stage \in BootStages => \A t \in Threads : pc[t] = "idle"
  /\ \A t \in Threads : pc[t] = "commit" => committing
  /\ \A t, u \in Threads : pc[t] = "commit" /\ pc[u] = "commit" => t = u
  /\ IF stage \in {"write_log", "install", "recover"}
       THEN tail < Len(lh) ELSE tail = 0
  /\ stage = "write_head" => lh # <<>>
  /\ stage \in {"idle", "write_log", "write_head", "done"} => dhead = <<>>
  /\ stage \in {"install", "erase", "recover", "clear"} => dhead = lh
  /\ stage \in {"read_head", "done"} => lh = <<>>

(* The buffers of logged blocks are pinned once, until they are installed. *)
PinInv ==
  /\ \A i, j \in 1..Len(lh) : lh[i] = lh[j] => i = j
  /\ \A i, j \in 1..Len(dhead) : dhead[i] = dhead[j] => i = j
  /\ stage = "install" => \A i \in 1..Len(lh) : i > tail => pin[lh[i]] > 0
  /\ stage \in {"idle", "write_log", "write_head"} =>
       \A i \in 1..Len(lh) : pin[lh[i]] > 0

IInv == TypeOK /\ ~panicked /\ SpaceInv /\ OpInv /\ StageInv /\ PinInv

(* What the configuration must provide: the log area holds the LOGSIZE     *)
(* blocks begin_op shares out, header included, and no operation writes    *)
(* more than MAXOPBLOCKS - 2 distinct blocks.                              *)
Provisioned == OpBlocks + 2 <= MAXOPBLOCKS /\ LOGSIZE <= Nlog

-----------------------------------------------------------------------------
(* The tokens and the operations in progress are finitely many.            *)
LEMMA FiniteTokens ==
  IsFiniteSet(Active) /\ IsFiniteSet(Reserved)
<1>1. Active \in SUBSET Threads
  BY DEF Active
<1>2. IsFiniteSet(1..MAXOPBLOCKS)
  BY SMTT(60), FS_Interval, LogAssumption
<1>3. IsFiniteSet(Threads \X (1..MAXOPBLOCKS))
  BY <1>2, FS_Product, LogAssumption
<1>4. Reserved \in SUBSET (Threads \X (1..MAXOPBLOCKS))
  BY DEF Reserved
<1>5. QED
  BY <1>1, <1>3, <1>4, FS_Subset, LogAssumption

(* A step that moves threads only within, or only outside, operations      *)
(* changes no reservation.                                                 *)
LEMMA SameTokens ==
  ASSUME \A t \in Threads : pc'[t] \in InOp <=> pc[t] \in InOp,
         touched' = touched
  PROVE  Active' = Active /\ Reserved' = Reserved
BY DEF Active, Reserved

(* n threads with a full reservation hold n * MAXOPBLOCKS tokens.          *)
LEMMA TokenProduct ==
  ASSUME NEW S, IsFiniteSet(S)
  PROVE  /\ IsFiniteSet(S \X (1..MAXOPBLOCKS))
         /\ Cardinality(S \X (1..MAXOPBLOCKS)) = Cardinality(S) * MAXOPBLOCKS
<1>1. IsFiniteSet(1..MAXOPBLOCKS) /\ Cardinality(1..MAXOPBLOCKS) = MAXOPBLOCKS
  BY SMTT(60), FS_Interval, LogAssumption
<1>2. QED
  BY <1>1, FS_Product

(* An operation in progress holds at least two tokens, so that the log is  *)
(* two blocks short of full.                                               *)
LEMMA RoomLeft ==
  ASSUME Provisioned, TypeOK, SpaceInv, OpInv,
         NEW t \in Threads, pc[t] \in InOp
  PROVE  Len(lh) + 2 <= LOGSIZE
<1> DEFINE x == <<t, MAXOPBLOCKS>>
           y == <<t, MAXOPBLOCKS - 1>>
<1>1. Cardinality(touched[t]) \in Nat /\ Cardinality(touched[t]) <= OpBlocks
  BY FS_CardinalityType DEF OpInv
<1>2. {x} \cup {y} \in SUBSET Reserved
  BY SMTT(60), <1>1, LogAssumption DEF Reserved, Provisioned
<1>3. IsFiniteSet({x}) /\ Cardinality({x}) = 1
  BY FS_Singleton
<1>4. y \notin {x}
  BY SMTT(60), LogAssumption
<1> HIDE DEF x, y
<1>5. Cardinality({x} \cup {y}) = 2
  <2>1. Cardinality({x} \cup {y}) = Cardinality({x}) + 1
    BY <1>3, <1>4, FS_AddElement
  <2>2. Cardinality({x} \cup {y}) = 1 + 1
    BY <2>1, <1>3
  <2> QED  BY SMTT(60), <2>2
<1>6. Cardinality(Reserved) \in Nat /\ 2 <= Cardinality(Reserved)
  BY <1>2, <1>5, FiniteTokens, FS_Subset, FS_CardinalityType
<1>7. QED
  BY SMTT(60), <1>6, LogAssumption DEF SpaceInv, TypeOK

(* The initial states satisfy the invariant.                               *)
LEMMA InitIInv == Init => IInv
<1> SUFFICES ASSUME Init PROVE IInv
  OBVIOUS
<1>1. TypeOK
  <2>1. dlog \in [1..(Nlog - 1) -> Values]
    BY DEF Init
  <2>2. /\ pc \in [Threads -> InOp \cup {"idle", "begin", "asleep", "commit"}]
        /\ wb \in [Threads -> Blocks \cup {NoBuf}]
    BY DEF Init
  <2>3. touched \in [Threads -> SUBSET Blocks]
    BY DEF Init
  <2>4. cache \in [Blocks -> Values \cup {NoBuf}]
    BY DEF Init
  <2>5. pin \in [Blocks -> Nat]
    BY DEF Init
  <2>6. stage \in Stages
    BY DEF Init, Stages, BootStages
  <2>7. committing \in BOOLEAN /\ panicked \in BOOLEAN
    BY DEF Init
  <2>8. dhead \in Seq(Blocks) /\ lh \in Seq(Blocks)
    BY SMTT(60) DEF Init
  <2>9. outstanding \in Nat /\ tail \in Nat /\ home \in [Blocks -> Values]
    BY DEF Init
  <2>10. QED
    BY <2>1, <2>2, <2>3, <2>4, <2>5, <2>6, <2>7, <2>8, <2>9 DEF TypeOK
<1>2. Active = {} /\ Reserved = {}
  BY DEF Init, Active, Reserved, InOp
<1>3. SpaceInv
  BY SMTT(60), <1>2, FS_EmptySet, LogAssumption DEF Init, SpaceInv
<1>4. OpInv
  BY SMTT(60), FS_EmptySet, LogAssumption DEF Init, OpInv, InOp
<1>5. StageInv
  BY DEF Init, StageInv, BootStages, CommitStages, InOp
<1>6. PinInv
  BY SMTT(60) DEF Init, PinInv
<1>7. QED
  BY <1>1, <1>3, <1>4, <1>5, <1>6 DEF IInv, Init

(* Typing of an update, whatever the index.                                *)
LEMMA ExceptType ==
  ASSUME NEW S, NEW D, NEW f \in [D -> S], NEW x, NEW e \in S
  PROVE  [f EXCEPT ![x] = e] \in [D -> S]
OBVIOUS

(* What Append returns.                                                    *)
LEMMA AppendFacts ==
  ASSUME NEW S, NEW s \in Seq(S), NEW e \in S
  PROVE  /\ Append(s, e) \in Seq(S)
         /\ Len(Append(s, e)) = Len(s) + 1
         /\ \A i \in 1..Len(s) + 1 :
              Append(s, e)[i] = IF i <= Len(s) THEN s[i] ELSE e
BY SMTT(60)

-----------------------------------------------------------------------------
(* A step that leaves the operations alone keeps what is known of them.    *)
LEMMA SameOps ==
  ASSUME OpInv, UNCHANGED <<lh, pc, wb, touched>>
  PROVE  OpInv'
<1>1. lh' = lh /\ pc' = pc /\ wb' = wb /\ touched' = touched
  OBVIOUS
<1>2. Logged' = Logged
  BY <1>1 DEF Logged
<1>3. QED
  BY <1>1, <1>2 DEF OpInv

(* A step that changes no stage and starts no operation outside "idle"     *)
(* keeps what is known of the stages.                                      *)
LEMMA SameStage ==
  ASSUME StageInv, UNCHANGED <<lh, dhead, committing, stage, tail>>,
         stage \notin BootStages,
         \A u \in Threads : pc'[u] \in InOp => pc[u] \in InOp \/ stage \notin CommitStages,
         \A u \in Threads : pc'[u] = "commit" => pc[u] = "commit"
  PROVE  StageInv'
<1>1. /\ lh' = lh /\ dhead' = dhead /\ committing' = committing
      /\ stage' = stage /\ tail' = tail
  OBVIOUS
<1>2. stage \in CommitStages \cup BootStages => \A u \in Threads : pc'[u] \notin InOp
  BY DEF StageInv
<1>3. \A u \in Threads : pc'[u] = "commit" => committing
  BY DEF StageInv
<1>4. \A u, w \in Threads : pc'[u] = "commit" /\ pc'[w] = "commit" => u = w
  BY DEF StageInv
<1>5. QED
  BY SMTT(60), <1>1, <1>2, <1>3, <1>4 DEF StageInv

(* While no operation is in progress nothing is reserved.                  *)
LEMMA NoTokens ==
  ASSUME \A t \in Threads : pc[t] \notin InOp
  PROVE  Active = {} /\ Reserved = {} /\ Cardinality(Active) = 0
         /\ Cardinality(Reserved) = 0
<1>1. Active = {} /\ Reserved = {}
  BY DEF Active, Reserved
<1>2. QED
  BY <1>1, FS_EmptySet

(* An operation in progress is counted in log.outstanding.                 *)
LEMMA Counted ==
  ASSUME SpaceInv, NEW t \in Threads, pc[t] \in InOp
  PROVE  outstanding \in Nat /\ outstanding > 0
<1>1. t \in Active
  BY DEF Active
<1>2. QED
  BY SMTT(60), <1>1, FiniteTokens, FS_EmptySet, FS_CardinalityType DEF SpaceInv

(* Preservation by read_head.                                              *)
LEMMA ReadHead ==
  ASSUME Provisioned, IInv, read_head
  PROVE  IInv'
<1> USE LogAssumption DEF disk, bufs, hdr, thr
<1>1. TypeOK /\ ~panicked /\ SpaceInv /\ OpInv /\ StageInv /\ PinInv
  BY DEF IInv
<1>2. \A t \in Threads : pc[t] \notin InOp
  BY <1>1 DEF read_head, StageInv, BootStages, CommitStages
<1>3. TypeOK'
  BY <1>1 DEF read_head, TypeOK, SpaceInv, OpInv, StageInv, PinInv, Stages, BootStages, View
<1>4. SpaceInv'
  <2>1. Cardinality(Active') = 0 /\ Cardinality(Reserved') = 0
    BY <1>2, NoTokens, SameTokens DEF read_head
  <2>2. QED
    BY SMTT(60), <1>1, <2>1, <1>2, NoTokens DEF read_head, SpaceInv, TypeOK, StageInv
<1>5. OpInv'
  BY <1>1 DEF read_head, OpInv, Logged, TypeOK, StageInv, BootStages, CommitStages, InOp
<1>6. StageInv'
  BY SMTT(60), <1>1 DEF read_head, StageInv, TypeOK, BootStages, CommitStages, Stages, InOp
<1>7. PinInv'
  BY SMTT(60), <1>1 DEF read_head, PinInv, TypeOK, StageInv
<1>8. QED
  BY <1>1, <1>3, <1>4, <1>5, <1>6, <1>7 DEF IInv, read_head

(* Preservation by write_log.                                              *)
LEMMA WriteLog ==
  ASSUME Provisioned, IInv, write_log
  PROVE  IInv'
<1> USE LogAssumption DEF disk, bufs, hdr, thr
<1>1. TypeOK /\ ~panicked /\ SpaceInv /\ OpInv /\ StageInv /\ PinInv
  BY DEF IInv
<1>2. Active' = Active /\ Reserved' = Reserved
  BY <1>1, SameTokens DEF write_log, TypeOK, InOp
<1>3. TypeOK'
  BY SMTT(60), <1>1 DEF write_log, TypeOK, SpaceInv, OpInv, StageInv, PinInv, Stages, BootStages, View
<1>4. SpaceInv'
  BY <1>1, <1>2 DEF write_log, SpaceInv, TypeOK, StageInv
<1>5. OpInv'
  BY <1>1, SameOps DEF write_log
<1>6. StageInv'
  BY SMTT(60), <1>1 DEF write_log, StageInv, TypeOK, BootStages, CommitStages, Stages, InOp
<1>7. PinInv'
  BY SMTT(60), <1>1 DEF write_log, PinInv, TypeOK, StageInv
<1>8. QED
  BY <1>1, <1>3, <1>4, <1>5, <1>6, <1>7 DEF IInv, write_log

(* Preservation by write_head.                                             *)
LEMMA WriteHead ==
  ASSUME Provisioned, IInv, write_head
  PROVE  IInv'
<1> USE LogAssumption DEF disk, bufs, hdr, thr
<1>1. TypeOK /\ ~panicked /\ SpaceInv /\ OpInv /\ StageInv /\ PinInv
  BY DEF IInv
<1>2. Active' = Active /\ Reserved' = Reserved
  BY <1>1, SameTokens DEF write_head, TypeOK, InOp
<1>3. TypeOK'
  BY <1>1 DEF write_head, TypeOK, SpaceInv, OpInv, StageInv, PinInv, Stages, BootStages, View
<1>4. SpaceInv'
  BY SMTT(60), <1>1, <1>2, NoTokens, FiniteTokens, FS_CardinalityType DEF write_head, SpaceInv, TypeOK, StageInv
<1>5. OpInv'
  BY <1>1, SameOps DEF write_head
<1>6. StageInv'
  BY SMTT(60), <1>1 DEF write_head, StageInv, TypeOK, BootStages, CommitStages, Stages, InOp
<1>7. PinInv'
  BY SMTT(60), <1>1 DEF write_head, PinInv, TypeOK, StageInv
<1>8. QED
  BY <1>1, <1>3, <1>4, <1>5, <1>6, <1>7 DEF IInv, write_head

(* Preservation by install_trans in commit().                              *)
LEMMA InstallCommit ==
  ASSUME Provisioned, IInv, install_trans(FALSE)
  PROVE  IInv'
<1> USE LogAssumption DEF disk, bufs, hdr, thr
<1>1. TypeOK /\ ~panicked /\ SpaceInv /\ OpInv /\ StageInv /\ PinInv
  BY DEF IInv
<1>2. Active' = Active /\ Reserved' = Reserved
  BY <1>1, SameTokens DEF install_trans, TypeOK, InOp
<1>3. TypeOK'
  <2>1. tail + 1 \in 1..Len(lh) /\ lh[tail + 1] \in Blocks /\ dlog[tail + 1] \in Values
    BY SMTT(60), <1>1 DEF install_trans, TypeOK, SpaceInv, StageInv
  <2>2. pin' \in [Blocks -> Nat]
    <3>1. pin[lh[tail + 1]] \in Nat /\ pin[lh[tail + 1]] > 0
      BY SMTT(60), <1>1, <2>1 DEF install_trans, TypeOK, PinInv
    <3>2. pin' = [pin EXCEPT ![lh[tail + 1]] = pin[lh[tail + 1]] - 1]
      BY DEF install_trans
    <3>3. QED
      BY SMTT(60), <1>1, <3>1, <3>2, ExceptType DEF TypeOK
  <2>3. home' \in [Blocks -> Values] /\ cache' \in [Blocks -> Values \cup {NoBuf}]
    BY <1>1, <2>1 DEF install_trans, TypeOK
  <2>4. stage' \in Stages /\ tail' \in Nat
    BY SMTT(60), <1>1 DEF install_trans, TypeOK, Stages, BootStages
  <2>5. QED
    BY <1>1, <2>2, <2>3, <2>4 DEF install_trans, TypeOK
<1>4. SpaceInv'
  BY <1>1, <1>2 DEF install_trans, SpaceInv, TypeOK, StageInv
<1>5. OpInv'
  BY <1>1, SameOps DEF install_trans
<1>6. StageInv'
  BY <1>1 DEF install_trans, StageInv, TypeOK, BootStages, CommitStages, Stages, InOp
<1>7. PinInv'
  BY SMTT(60), <1>1 DEF install_trans, PinInv, TypeOK, StageInv
<1>8. QED
  BY <1>1, <1>3, <1>4, <1>5, <1>6, <1>7 DEF IInv, install_trans

(* Preservation by install_trans in recovery.                              *)
LEMMA InstallRecover ==
  ASSUME Provisioned, IInv, install_trans(TRUE)
  PROVE  IInv'
<1> USE LogAssumption DEF disk, bufs, hdr, thr
<1>1. TypeOK /\ ~panicked /\ SpaceInv /\ OpInv /\ StageInv /\ PinInv
  BY DEF IInv
<1>2. Active' = Active /\ Reserved' = Reserved
  BY <1>1, SameTokens DEF install_trans, TypeOK, InOp
<1>3. TypeOK'
  BY SMTT(60), <1>1 DEF install_trans, TypeOK, SpaceInv, OpInv, StageInv, PinInv, Stages, BootStages, View
<1>4. SpaceInv'
  BY <1>1, <1>2 DEF install_trans, SpaceInv, TypeOK, StageInv
<1>5. OpInv'
  BY <1>1, SameOps DEF install_trans
<1>6. StageInv'
  BY <1>1 DEF install_trans, StageInv, TypeOK, BootStages, CommitStages, Stages, InOp
<1>7. PinInv'
  BY <1>1 DEF install_trans, PinInv, TypeOK, StageInv
<1>8. QED
  BY <1>1, <1>3, <1>4, <1>5, <1>6, <1>7 DEF IInv, install_trans

(* Preservation by erase.                                                  *)
LEMMA Erase ==
  ASSUME Provisioned, IInv, erase
  PROVE  IInv'
<1> USE LogAssumption DEF disk, bufs, hdr, thr
<1>1. TypeOK /\ ~panicked /\ SpaceInv /\ OpInv /\ StageInv /\ PinInv
  BY DEF IInv
<1>2. \A t \in Threads : pc[t] \notin InOp
  BY <1>1 DEF erase, StageInv, BootStages, CommitStages
<1>3. TypeOK'
  BY SMTT(60), <1>1 DEF erase, TypeOK, SpaceInv, OpInv, StageInv, PinInv, Stages, BootStages, View
<1>4. SpaceInv'
  <2>1. Cardinality(Active') = 0 /\ Cardinality(Reserved') = 0
    BY <1>2, NoTokens, SameTokens DEF erase
  <2>2. QED
    BY SMTT(60), <1>1, <2>1, <1>2, NoTokens DEF erase, SpaceInv, TypeOK, StageInv
<1>5. OpInv'
  <2>1. \A t \in Threads : touched[t] = {}
    BY <1>1, <1>2 DEF OpInv
  <2>2. QED
    BY <1>1, <2>1 DEF erase, OpInv, Logged
<1>6. StageInv'
  BY <1>1 DEF erase, StageInv, TypeOK, BootStages, CommitStages, Stages, InOp
<1>7. PinInv'
  BY SMTT(60), <1>1 DEF erase, PinInv, TypeOK, StageInv
<1>8. QED
  BY <1>1, <1>3, <1>4, <1>5, <1>6, <1>7 DEF IInv, erase

(* Preservation by bread.                                                  *)
LEMMA Bread ==
  ASSUME Provisioned, IInv, NEW b \in Blocks, bread(b)
  PROVE  IInv'
<1> USE LogAssumption DEF disk, bufs, hdr, thr
<1>1. TypeOK /\ ~panicked /\ SpaceInv /\ OpInv /\ StageInv /\ PinInv
  BY DEF IInv
<1>2. Active' = Active /\ Reserved' = Reserved
  BY <1>1, SameTokens DEF bread, TypeOK, InOp
<1>3. TypeOK'
  BY <1>1 DEF bread, TypeOK, SpaceInv, OpInv, StageInv, PinInv, Stages, BootStages, View
<1>4. SpaceInv'
  BY <1>1, <1>2 DEF bread, SpaceInv, TypeOK, StageInv
<1>5. OpInv'
  BY <1>1, SameOps DEF bread
<1>6. StageInv'
  BY <1>1 DEF bread, StageInv, TypeOK, BootStages, CommitStages, Stages, InOp
<1>7. PinInv'
  BY SMTT(60), <1>1 DEF bread, PinInv, TypeOK, StageInv
<1>8. QED
  BY <1>1, <1>3, <1>4, <1>5, <1>6, <1>7 DEF IInv, bread

(* Preservation by bget_recycle.                                           *)
LEMMA Recycle ==
  ASSUME Provisioned, IInv, NEW b \in Blocks, bget_recycle(b)
  PROVE  IInv'
<1> USE LogAssumption DEF disk, bufs, hdr, thr
<1>1. TypeOK /\ ~panicked /\ SpaceInv /\ OpInv /\ StageInv /\ PinInv
  BY DEF IInv
<1>2. Active' = Active /\ Reserved' = Reserved
  BY <1>1, SameTokens DEF bget_recycle, TypeOK, InOp
<1>3. TypeOK'
  BY <1>1 DEF bget_recycle, TypeOK, SpaceInv, OpInv, StageInv, PinInv, Stages, BootStages, View
<1>4. SpaceInv'
  BY <1>1, <1>2 DEF bget_recycle, SpaceInv, TypeOK, StageInv
<1>5. OpInv'
  BY <1>1, SameOps DEF bget_recycle
<1>6. StageInv'
  BY <1>1 DEF bget_recycle, StageInv, TypeOK, BootStages, CommitStages, Stages, InOp
<1>7. PinInv'
  BY SMTT(60), <1>1 DEF bget_recycle, PinInv, TypeOK, StageInv
<1>8. QED
  BY <1>1, <1>3, <1>4, <1>5, <1>6, <1>7 DEF IInv, bget_recycle

(* Preservation by bread and the change of the data.                       *)
LEMMA Modifies ==
  ASSUME Provisioned, IInv, NEW t \in Threads, NEW b \in Blocks,
         NEW v \in Values, Modify(t, b, v)
  PROVE  IInv'
<1> USE LogAssumption DEF disk, bufs, hdr, thr
<1>1. TypeOK /\ ~panicked /\ SpaceInv /\ OpInv /\ StageInv /\ PinInv
  BY DEF IInv
<1>2. Active' = Active /\ Reserved' = Reserved
  BY <1>1, SameTokens DEF Modify, TypeOK, InOp
<1>3. TypeOK'
  <2>1. /\ cache' \in [Blocks -> Values \cup {NoBuf}]
        /\ wb' \in [Threads -> Blocks \cup {NoBuf}]
        /\ pc' \in [Threads -> InOp \cup {"idle", "begin", "asleep", "commit"}]
    BY <1>1 DEF Modify, TypeOK, InOp
  <2>2. QED
    BY <1>1, <2>1 DEF Modify, TypeOK
<1>4. SpaceInv'
  BY <1>1, <1>2 DEF Modify, SpaceInv
<1>5. OpInv'
  <2> SUFFICES ASSUME NEW u \in Threads
               PROVE  /\ IsFiniteSet(touched[u]) /\ Cardinality(touched[u]) <= OpBlocks
                      /\ touched[u] \subseteq Logged
                      /\ pc'[u] \notin InOp => touched[u] = {}
                      /\ IF pc'[u] \in {"check", "append"}
                           THEN /\ wb'[u] \in Blocks
                                /\ Cardinality(touched[u] \cup {wb'[u]}) <= OpBlocks
                           ELSE wb'[u] = NoBuf
    BY DEF Modify, OpInv, Logged
  <2>1. CASE u = t
    BY <1>1, <2>1 DEF Modify, OpInv, TypeOK, InOp
  <2>2. CASE u # t
    BY <1>1, <2>2 DEF Modify, OpInv, TypeOK
  <2>3. QED
    BY <2>1, <2>2
<1>6. StageInv'
  BY <1>1 DEF Modify, StageInv, TypeOK, BootStages, CommitStages, InOp
<1>7. PinInv'
  BY <1>1 DEF Modify, PinInv
<1>8. QED
  BY <1>1, <1>3, <1>4, <1>5, <1>6, <1>7 DEF IInv, Modify

(* Preservation by the tests of log_write, which never panic.              *)
LEMMA LogCheck ==
  ASSUME Provisioned, IInv, NEW t \in Threads, log_write_check(t)
  PROVE  IInv'
<1> USE LogAssumption DEF disk, bufs, hdr, thr
<1>1. TypeOK /\ ~panicked /\ SpaceInv /\ OpInv /\ StageInv /\ PinInv
  BY DEF IInv
<1>2. /\ Len(lh) < LOGSIZE /\ Len(lh) < Nlog - 1 /\ outstanding >= 1
  <2>1. pc[t] \in InOp
    BY DEF log_write_check, InOp
  <2>2. Len(lh) + 2 <= LOGSIZE
    BY <1>1, <2>1, RoomLeft
  <2>3. outstanding \in Nat /\ outstanding > 0
    BY <1>1, <2>1, Counted
  <2>4. QED
    BY SMTT(60), <1>1, <2>2, <2>3 DEF Provisioned, TypeOK
<1>3. pc' = [pc EXCEPT ![t] = "append"] /\ panicked' = panicked
  BY SMTT(60), <1>1, <1>2 DEF log_write_check, TypeOK
<1>4. Active' = Active /\ Reserved' = Reserved
  BY <1>1, <1>3, SameTokens DEF log_write_check, TypeOK, InOp
<1>5. TypeOK'
  <2>1. pc' \in [Threads -> InOp \cup {"idle", "begin", "asleep", "commit"}]
    BY <1>1, <1>3 DEF TypeOK, InOp
  <2>2. QED
    BY <1>1, <1>3, <2>1 DEF log_write_check, TypeOK
<1>6. SpaceInv'
  BY <1>1, <1>4 DEF log_write_check, SpaceInv
<1>7. OpInv'
  <2>1. \A u \in Threads :
          /\ pc'[u] \in InOp <=> pc[u] \in InOp
          /\ pc'[u] \in {"check", "append"} <=> pc[u] \in {"check", "append"}
    BY <1>1, <1>3 DEF log_write_check, TypeOK, InOp
  <2>2. UNCHANGED <<lh, wb, touched>>
    BY DEF log_write_check
  <2>3. Logged' = Logged
    BY <2>2 DEF Logged
  <2>4. QED
    <3> SUFFICES ASSUME NEW u \in Threads
                 PROVE  /\ IsFiniteSet(touched[u]) /\ Cardinality(touched[u]) <= OpBlocks
                        /\ touched[u] \subseteq Logged
                        /\ pc'[u] \notin InOp => touched[u] = {}
                        /\ IF pc'[u] \in {"check", "append"}
                             THEN /\ wb[u] \in Blocks
                                  /\ Cardinality(touched[u] \cup {wb[u]}) <= OpBlocks
                             ELSE wb[u] = NoBuf
      BY <2>2, <2>3 DEF OpInv
    <3>1. QED
      BY <1>1, <2>1 DEF OpInv
<1>8. StageInv'
  BY <1>1, <1>3 DEF log_write_check, StageInv, TypeOK, BootStages, CommitStages, InOp
<1>9. PinInv'
  BY <1>1 DEF log_write_check, PinInv
<1>10. QED
  BY <1>1, <1>3, <1>5, <1>6, <1>7, <1>8, <1>9 DEF IInv

(* Preservation by the rest of log_write: a new block takes one token.     *)
LEMMA LogAppend ==
  ASSUME Provisioned, IInv, NEW t \in Threads, log_write_append(t)
  PROVE  IInv'
<1> USE LogAssumption DEF disk, bufs, hdr, thr
<1>1. TypeOK /\ ~panicked /\ SpaceInv /\ OpInv /\ StageInv /\ PinInv
  BY DEF IInv
<1>2. /\ pc[t] \in InOp /\ stage = "idle" /\ wb[t] \in Blocks
      /\ IsFiniteSet(touched[t]) /\ Cardinality(touched[t]) \in Nat
      /\ touched[t] \subseteq Logged
      /\ Cardinality(touched[t] \cup {wb[t]}) <= OpBlocks
  <2>1. pc[t] \in InOp /\ stage = "idle" /\ wb[t] \in Blocks
    BY <1>1 DEF log_write_append, InOp, StageInv, OpInv, TypeOK, Stages, BootStages, CommitStages
  <2>2. QED
    BY <1>1, <2>1, FS_CardinalityType DEF log_write_append, OpInv
<1>3. Len(lh) + 2 <= LOGSIZE
  BY <1>1, <1>2, RoomLeft
<1>4. /\ lh' \in Seq(Blocks) /\ Len(lh') \in Nat
      /\ Logged' = Logged \cup {wb[t]}
      /\ IF wb[t] \in Logged THEN lh' = lh ELSE lh' = Append(lh, wb[t])
  <2>1. CASE wb[t] \in Logged
    BY <1>1, <2>1, SMTT(30) DEF log_write_append, TypeOK, Logged
  <2>2. CASE wb[t] \notin Logged
    <3>1. lh' = Append(lh, wb[t])
      BY <2>2 DEF log_write_append
    <3>2. /\ lh' \in Seq(Blocks) /\ Len(lh') = Len(lh) + 1 /\ Len(lh) \in Nat
          /\ \A i \in 1..Len(lh) + 1 :
               lh'[i] = IF i <= Len(lh) THEN lh[i] ELSE wb[t]
      BY SMTT(60), <1>1, <1>2, <3>1, AppendFacts DEF TypeOK
    <3>3. Logged' = Logged \cup {wb[t]}
      BY SMTT(60), <3>2 DEF Logged
    <3>4. QED
      BY SMTT(60), <2>2, <3>1, <3>2, <3>3
  <2>3. QED
    BY <2>1, <2>2
<1>5. TypeOK'
  <2>1. pin' \in [Blocks -> Nat]
    <3>1. pin[wb[t]] + 1 \in Nat
      BY SMTT(60), <1>1, <1>2 DEF TypeOK
    <3>2. [pin EXCEPT ![wb[t]] = pin[wb[t]] + 1] \in [Blocks -> Nat]
      BY <1>1, <3>1, ExceptType DEF TypeOK
    <3>3. QED
      BY <1>1, <3>2 DEF log_write_append, TypeOK
  <2>2. /\ pc' \in [Threads -> InOp \cup {"idle", "begin", "asleep", "commit"}]
        /\ wb' \in [Threads -> Blocks \cup {NoBuf}]
    BY <1>1 DEF log_write_append, TypeOK, InOp
  <2>3. touched' \in [Threads -> SUBSET Blocks]
    BY <1>1, <1>2 DEF log_write_append, TypeOK
  <2>4. QED
    BY <1>1, <1>4, <2>1, <2>2, <2>3 DEF log_write_append, TypeOK
<1>6. Active' = Active
  BY <1>1 DEF log_write_append, TypeOK, InOp, Active
<1>7. Len(lh') + Cardinality(Reserved') <= LOGSIZE
  <2>1. CASE wb[t] \in touched[t]
    <3>1. touched' = touched
      BY SMTT(60), <1>1, <2>1 DEF log_write_append, TypeOK
    <3>2. Reserved' = Reserved
      BY <1>1, <3>1, SameTokens DEF log_write_append, TypeOK, InOp
    <3>3. QED
      BY <1>1, <1>2, <1>4, <2>1, <3>2 DEF SpaceInv
  <2>2. CASE wb[t] \notin touched[t]
    <3> DEFINE n == Cardinality(touched[t])
               x == <<t, n + 1>>
    <3>1. n \in Nat /\ n + 1 <= OpBlocks /\ Cardinality(touched'[t]) = n + 1
      <4>1. touched'[t] = touched[t] \cup {wb[t]}
        BY <1>1 DEF log_write_append, TypeOK
      <4>2. Cardinality(touched[t] \cup {wb[t]}) = n + 1
        BY <1>2, <2>2, FS_AddElement
      <4>3. QED
        BY <1>2, <4>1, <4>2
    <3>2. \A u \in Threads : u # t => touched'[u] = touched[u]
      BY <1>1 DEF log_write_append, TypeOK
    <3>3. \A u \in Threads : pc'[u] \in InOp <=> pc[u] \in InOp
      BY <1>1 DEF log_write_append, TypeOK, InOp
    <3>4. x \in Reserved
      BY SMTT(60), <1>2, <3>1 DEF Reserved, Provisioned
    <3>5. Reserved' = Reserved \ {x}
      BY SMTT(60), <1>2, <3>1, <3>2, <3>3 DEF Reserved
    <3> HIDE DEF x
    <3>6. /\ Cardinality(Reserved) \in Nat
          /\ Cardinality(Reserved') = Cardinality(Reserved) - 1
      BY <3>4, <3>5, FiniteTokens, FS_RemoveElement, FS_CardinalityType
    <3>7. Len(lh') <= Len(lh) + 1
      BY SMTT(60), <1>1, <1>2, <1>4 DEF TypeOK
    <3>8. QED
      BY SMTT(60), <1>1, <1>4, <3>6, <3>7 DEF SpaceInv, TypeOK
  <2>3. QED
    BY <2>1, <2>2
<1>8. SpaceInv'
  <2>1. Len(lh') <= Nlog - 1
    BY SMTT(60), <1>1, <1>2, <1>3, <1>4 DEF Provisioned, TypeOK
  <2>2. QED
    BY <1>1, <1>6, <1>7, <2>1 DEF log_write_append, SpaceInv
<1>9. OpInv'
  <2> SUFFICES ASSUME NEW u \in Threads
               PROVE  /\ IsFiniteSet(touched'[u]) /\ Cardinality(touched'[u]) <= OpBlocks
                      /\ touched'[u] \subseteq Logged'
                      /\ pc'[u] \notin InOp => touched'[u] = {}
                      /\ IF pc'[u] \in {"check", "append"}
                           THEN /\ wb'[u] \in Blocks
                                /\ Cardinality(touched'[u] \cup {wb'[u]}) <= OpBlocks
                           ELSE wb'[u] = NoBuf
    BY DEF OpInv
  <2>1. CASE u = t
    <3>1. touched'[t] = touched[t] \cup {wb[t]} /\ pc'[t] = "op" /\ wb'[t] = NoBuf
      BY <1>1 DEF log_write_append, TypeOK
    <3>2. IsFiniteSet(touched[t] \cup {wb[t]})
      BY <1>2, FS_AddElement
    <3>3. QED
      BY <1>2, <1>4, <2>1, <3>1, <3>2 DEF InOp
  <2>2. CASE u # t
    <3>1. touched'[u] = touched[u] /\ pc'[u] = pc[u] /\ wb'[u] = wb[u]
      BY <1>1, <2>2 DEF log_write_append, TypeOK
    <3>2. QED
      BY <1>1, <1>4, <3>1 DEF OpInv
  <2>3. QED
    BY <2>1, <2>2
<1>10. StageInv'
  BY <1>1, <1>2, <1>4 DEF log_write_append, StageInv, TypeOK, BootStages, CommitStages, InOp
<1>11. PinInv'
  <2>1. CASE wb[t] \in Logged
    BY <1>1, <2>1 DEF log_write_append, PinInv
  <2>2. CASE wb[t] \notin Logged
    <3>1. lh' = Append(lh, wb[t]) /\ pin' = [pin EXCEPT ![wb[t]] = @ + 1]
          /\ stage' = stage /\ dhead' = dhead
      BY <2>2 DEF log_write_append
    <3>2. \A i \in 1..Len(lh) : lh[i] \in Blocks /\ lh[i] # wb[t]
      BY SMTT(60), <1>1, <2>2 DEF Logged, TypeOK
    <3>3. Len(lh') = Len(lh) + 1
          /\ \A i \in 1..Len(lh') : lh'[i] = IF i <= Len(lh) THEN lh[i] ELSE wb[t]
      BY SMTT(60), <1>1, <1>2, <3>1, AppendFacts DEF TypeOK
    <3>4. \A i, j \in 1..Len(lh') : lh'[i] = lh'[j] => i = j
      <4> SUFFICES ASSUME NEW i \in 1..Len(lh'), NEW j \in 1..Len(lh'), lh'[i] = lh'[j]
                   PROVE  i = j
        OBVIOUS
      <4>1. Len(lh) \in Nat /\ i \in 1..Len(lh) + 1 /\ j \in 1..Len(lh) + 1
        <5>1. Len(lh) \in Nat
          BY SMTT(60), <1>1 DEF TypeOK
        <5>2. QED
          BY <3>3, <5>1
      <4>2. CASE i <= Len(lh) /\ j <= Len(lh)
        <5>1. i \in 1..Len(lh) /\ j \in 1..Len(lh)
          BY SMTT(60), <4>1, <4>2
        <5>2. lh[i] = lh[j]
          BY <3>3, <4>2
        <5>3. QED
          BY <1>1, <5>1, <5>2 DEF PinInv
      <4>3. CASE i > Len(lh) \/ j > Len(lh)
        BY SMTT(60), <3>2, <3>3, <4>1, <4>3
      <4>4. QED
        BY SMTT(60), <4>1, <4>2, <4>3
    <3>5. \A i \in 1..Len(lh') : pin'[lh'[i]] > 0
      <4> SUFFICES ASSUME NEW i \in 1..Len(lh')
                   PROVE  pin'[lh'[i]] > 0
        OBVIOUS
      <4>1. Len(lh) \in Nat /\ pin \in [Blocks -> Nat]
        BY SMTT(60), <1>1 DEF TypeOK
      <4>2. CASE i <= Len(lh)
        <5>1. i \in 1..Len(lh) /\ lh'[i] = lh[i]
          BY SMTT(60), <3>3, <4>1, <4>2
        <5>2. pin[lh[i]] > 0
          BY <1>1, <1>2, <5>1 DEF PinInv
        <5>3. QED
          BY <3>1, <3>2, <4>1, <5>1, <5>2
      <4>3. CASE ~(i <= Len(lh))
        <5>1. lh'[i] = wb[t]
          BY <3>3, <4>3
        <5>2. pin'[wb[t]] = pin[wb[t]] + 1
          BY <1>2, <3>1, <4>1
        <5>3. QED
          BY SMTT(60), <1>2, <4>1, <5>1, <5>2
      <4>4. QED
        BY <4>2, <4>3
    <3>6. QED
      BY <1>1, <1>2, <3>1, <3>4, <3>5 DEF PinInv
  <2>3. QED
    BY <2>1, <2>2
<1>12. QED
  BY <1>1, <1>5, <1>8, <1>9, <1>10, <1>11 DEF IInv, log_write_append

(* Preservation by begin_op: it sleeps or reserves MAXOPBLOCKS blocks.     *)
LEMMA BeginOp ==
  ASSUME Provisioned, IInv, NEW t \in Threads, begin_op(t)
  PROVE  IInv'
<1> USE LogAssumption DEF disk, bufs, hdr, thr
<1>1. TypeOK /\ ~panicked /\ SpaceInv /\ OpInv /\ StageInv /\ PinInv
  BY DEF IInv
<1>2. UNCHANGED <<lh, dhead, committing, pin, stage, tail, wb, touched, panicked>>
  BY DEF begin_op
<1>3. PinInv'
  BY <1>1, <1>2 DEF PinInv
<1>4. pc' \in [Threads -> InOp \cup {"idle", "begin", "asleep", "commit"}]
      /\ \A u \in Threads : u # t => pc'[u] = pc[u]
  BY <1>1 DEF begin_op, TypeOK, InOp
<1>5. CASE committing \/ NoSpace
  <2>1. pc' = [pc EXCEPT ![t] = "asleep"] /\ outstanding' = outstanding
    BY <1>5 DEF begin_op
  <2>2. TypeOK'
    BY <1>1, <1>4, <2>1 DEF begin_op, TypeOK
  <2>3. Active' = Active /\ Reserved' = Reserved
    BY <1>1, <2>1, SameTokens DEF begin_op, TypeOK, InOp
  <2>4. SpaceInv'
    BY <1>1, <1>2, <2>1, <2>3 DEF SpaceInv
  <2>5. OpInv'
    <3>1. Logged' = Logged
      BY <1>2 DEF Logged
    <3>2. \A u \in Threads : /\ pc'[u] \in InOp <=> pc[u] \in InOp
                             /\ pc'[u] \in {"check", "append"} <=> pc[u] \in {"check", "append"}
      BY <1>1, <2>1 DEF begin_op, TypeOK, InOp
    <3>3. QED
      BY <1>1, <1>2, <3>1, <3>2, Zenon DEF OpInv
  <2>6. StageInv'
    <3>1. stage \notin BootStages
      BY <1>1 DEF begin_op, StageInv
    <3>2. \A u \in Threads : /\ pc'[u] \in InOp => pc[u] \in InOp
                             /\ pc'[u] = "commit" => pc[u] = "commit"
      BY <1>1, <2>1 DEF TypeOK, InOp
    <3>3. QED
      BY <1>1, <1>2, <3>1, <3>2, SameStage
  <2>7. QED
    BY <1>1, <1>2, <1>3, <2>2, <2>4, <2>5, <2>6 DEF IInv
<1>6. CASE ~(committing \/ NoSpace)
  <2>1. pc' = [pc EXCEPT ![t] = "op"] /\ outstanding' = outstanding + 1
    BY <1>6 DEF begin_op
  <2>2. TypeOK'
    BY SMTT(60), <1>1, <1>4, <2>1 DEF begin_op, TypeOK
  <2>3. Active' = Active \cup {t} /\ t \notin Active
    BY SMTT(60), <1>1, <2>1 DEF begin_op, TypeOK, InOp, Active
  <2>4. outstanding' = Cardinality(Active')
    BY <1>1, <2>1, <2>3, FiniteTokens, FS_AddElement DEF SpaceInv
  <2>5. Len(lh) + (outstanding + 1) * MAXOPBLOCKS <= LOGSIZE
    BY SMTT(60), <1>1, <1>6 DEF NoSpace, TypeOK
  <2>6. Len(lh') + Cardinality(Reserved') <= LOGSIZE
    <3>1. IsFiniteSet(Active') /\ Cardinality(Active') = outstanding + 1
      BY <2>1, <2>3, <2>4, FiniteTokens, FS_AddElement
    <3>2. IsFiniteSet(Active' \X (1..MAXOPBLOCKS))
      BY <3>1, TokenProduct
    <3>3. Cardinality(Active' \X (1..MAXOPBLOCKS)) = (outstanding + 1) * MAXOPBLOCKS
      BY <3>1, TokenProduct
    <3>4. Reserved' \in SUBSET (Active' \X (1..MAXOPBLOCKS))
      BY DEF Reserved, Active
    <3>5. /\ Cardinality(Reserved') <= (outstanding + 1) * MAXOPBLOCKS
          /\ Cardinality(Reserved') \in Nat
      BY <3>2, <3>3, <3>4, FS_Subset, FS_CardinalityType
    <3>6. Len(lh) \in Nat /\ (outstanding + 1) * MAXOPBLOCKS \in Nat
      BY SMTT(60), <1>1 DEF TypeOK
    <3>7. QED
      BY SMTT(60), <1>2, <2>5, <3>5, <3>6
  <2>7. SpaceInv'
    BY <1>1, <1>2, <2>4, <2>6 DEF SpaceInv
  <2>8. OpInv'
    <3>1. Logged' = Logged
      BY <1>2 DEF Logged
    <3>2. pc[t] \notin InOp /\ pc'[t] = "op" /\ pc[t] \notin {"check", "append"}
      BY <1>1, <2>1 DEF begin_op, TypeOK, InOp
    <3>3. QED
      BY <1>1, <1>2, <1>4, <3>1, <3>2 DEF OpInv, InOp
  <2>9. StageInv'
    <3>1. stage \notin BootStages /\ stage \notin CommitStages
      BY <1>1, <1>6 DEF begin_op, StageInv
    <3>2. \A u \in Threads : pc'[u] = "commit" => pc[u] = "commit"
      BY <1>1, <2>1 DEF TypeOK
    <3>3. QED
      BY <1>1, <1>2, <3>1, <3>2, SameStage
  <2>10. QED
    BY <1>1, <1>2, <1>3, <2>2, <2>7, <2>8, <2>9 DEF IInv
<1>7. QED
  BY <1>5, <1>6

(* Preservation by end_op: the tokens of the operation are given back.     *)
LEMMA EndOp ==
  ASSUME Provisioned, IInv, NEW t \in Threads, end_op(t)
  PROVE  IInv'
<1> USE LogAssumption DEF disk, bufs, hdr, thr
<1>1. TypeOK /\ ~panicked /\ SpaceInv /\ OpInv /\ StageInv /\ PinInv
  BY DEF IInv
<1>2. UNCHANGED <<home, dlog, lh, dhead, cache, pin, tail, wb>>
  BY DEF end_op
<1>3. pc[t] \in InOp /\ pc[t] = "op" /\ ~committing /\ stage = "idle"
  BY <1>1 DEF end_op, InOp, StageInv, TypeOK, Stages, BootStages, CommitStages
<1>4. outstanding \in Nat /\ outstanding > 0
  BY <1>1, <1>3, Counted
<1>5. /\ panicked' = panicked
      /\ outstanding' = outstanding - 1
      /\ touched' = [touched EXCEPT ![t] = {}]
      /\ \/ /\ outstanding' = 0 /\ committing' = TRUE
            /\ pc' = [pc EXCEPT ![t] = "commit"]
            /\ stage' = IF Len(lh) > 0 THEN "write_log" ELSE "done"
         \/ /\ outstanding' # 0 /\ committing' = committing /\ stage' = stage
            /\ pc' = Awake([pc EXCEPT ![t] = "idle"])
  BY <1>3 DEF end_op
<1>6. /\ pc' \in [Threads -> InOp \cup {"idle", "begin", "asleep", "commit"}]
      /\ \A u \in Threads : u # t => /\ pc'[u] \in InOp <=> pc[u] \in InOp
                                     /\ pc'[u] \in {"check", "append"} <=> pc[u] \in {"check", "append"}
      /\ pc'[t] \notin InOp
  BY <1>1, <1>5 DEF TypeOK, InOp, Awake
<1>7. TypeOK'
  <2>1. touched' \in [Threads -> SUBSET Blocks]
    BY <1>1, <1>5 DEF TypeOK
  <2>2. stage' \in Stages /\ outstanding' \in Nat
    BY SMTT(60), <1>1, <1>4, <1>5 DEF TypeOK, Stages
  <2>3. committing' \in BOOLEAN /\ panicked' \in BOOLEAN
    BY <1>1, <1>5 DEF TypeOK
  <2>4. QED
    BY <1>1, <1>2, <1>6, <2>1, <2>2, <2>3 DEF TypeOK
<1>8. Active' = Active \ {t} /\ t \in Active
  BY <1>3, <1>6 DEF Active
<1>9. Reserved' \in SUBSET Reserved
  <2>1. \A u \in Threads : u # t => touched'[u] = touched[u]
    BY <1>1, <1>5 DEF TypeOK
  <2>2. QED
    BY <1>6, <2>1 DEF Reserved
<1>10. SpaceInv'
  <2>1. outstanding' = Cardinality(Active')
    BY <1>1, <1>5, <1>8, FiniteTokens, FS_RemoveElement DEF SpaceInv
  <2>2. /\ Cardinality(Reserved') <= Cardinality(Reserved)
        /\ Cardinality(Reserved') \in Nat /\ Cardinality(Reserved) \in Nat
    BY <1>9, FiniteTokens, FS_Subset, FS_CardinalityType
  <2>3. QED
    BY SMTT(60), <1>1, <1>2, <2>1, <2>2 DEF SpaceInv, TypeOK
<1>11. OpInv'
  <2> SUFFICES ASSUME NEW u \in Threads
               PROVE  /\ IsFiniteSet(touched'[u]) /\ Cardinality(touched'[u]) <= OpBlocks
                      /\ touched'[u] \subseteq Logged'
                      /\ pc'[u] \notin InOp => touched'[u] = {}
                      /\ IF pc'[u] \in {"check", "append"}
                           THEN /\ wb'[u] \in Blocks
                                /\ Cardinality(touched'[u] \cup {wb'[u]}) <= OpBlocks
                           ELSE wb'[u] = NoBuf
    BY DEF OpInv
  <2>1. Logged' = Logged
    BY <1>2 DEF Logged
  <2>2. CASE u = t
    <3>1. touched'[t] = {} /\ wb'[t] = NoBuf
      BY <1>1, <1>2, <1>3, <1>5 DEF TypeOK, OpInv
    <3>2. pc'[t] \notin {"check", "append"}
      BY <1>6 DEF InOp
    <3>3. IsFiniteSet({}) /\ Cardinality({}) <= OpBlocks
      BY SMTT(60), FS_EmptySet
    <3>4. QED
      BY <2>2, <3>1, <3>2, <3>3
  <2>3. CASE u # t
    <3>1. touched'[u] = touched[u] /\ wb'[u] = wb[u]
      BY <1>1, <1>2, <1>5, <2>3 DEF TypeOK
    <3>2. QED
      BY <1>1, <1>6, <2>1, <2>3, <3>1 DEF OpInv
  <2>4. QED
    BY <2>2, <2>3
<1>12. StageInv'
  <2>1. CASE outstanding' = 0
    <3>1. Active' = {}
      BY <1>8, <1>10, <2>1, FiniteTokens, FS_RemoveElement, FS_EmptySet DEF SpaceInv
    <3>2. \A u \in Threads : pc'[u] \notin InOp
      BY <3>1 DEF Active
    <3>3. pc' = [pc EXCEPT ![t] = "commit"] /\ committing'
          /\ stage' = (IF Len(lh) > 0 THEN "write_log" ELSE "done")
      BY <1>5, <2>1
    <3>4. Len(lh) > 0 \/ lh = <<>>
      BY SMTT(60), <1>1 DEF TypeOK
    <3>5. QED
      BY <1>1, <1>2, <1>3, <3>2, <3>3, <3>4, SMTT(30) DEF StageInv, TypeOK, BootStages, CommitStages
  <2>2. CASE outstanding' # 0
    <3>1. \A u \in Threads : pc'[u] = "commit" => pc[u] = "commit"
      BY <1>1, <1>5, <2>2 DEF TypeOK, Awake
    <3>2. QED
      BY <1>1, <1>2, <1>3, <1>5, <2>2, <3>1, SMTT(30) DEF StageInv, BootStages, CommitStages
  <2>3. QED
    BY <2>1, <2>2
<1>13. PinInv'
  BY <1>1, <1>2, <1>3, <1>5 DEF PinInv
<1>14. QED
  BY <1>1, <1>5, <1>7, <1>10, <1>11, <1>12, <1>13 DEF IInv

(* Preservation by the end of end_op after commit().                       *)
LEMMA EndCommit ==
  ASSUME Provisioned, IInv, NEW t \in Threads, end_commit(t)
  PROVE  IInv'
<1> USE LogAssumption DEF disk, bufs, hdr, thr
<1>1. TypeOK /\ ~panicked /\ SpaceInv /\ OpInv /\ StageInv /\ PinInv
  BY DEF IInv
<1>2. UNCHANGED <<home, dlog, dhead, lh, outstanding, cache, pin, tail, wb, touched, panicked>>
      /\ pc[t] = "commit" /\ stage = "done" /\ stage' = "idle" /\ ~committing'
      /\ pc' = Awake([pc EXCEPT ![t] = "idle"])
  BY DEF end_commit
<1>3. /\ pc' \in [Threads -> InOp \cup {"idle", "begin", "asleep", "commit"}]
      /\ \A u \in Threads :
           /\ pc'[u] \in InOp <=> pc[u] \in InOp
           /\ pc'[u] \in {"check", "append"} <=> pc[u] \in {"check", "append"}
  BY <1>1, <1>2 DEF TypeOK, InOp, Awake
<1>4. TypeOK'
  <2>1. committing' \in BOOLEAN /\ panicked' \in BOOLEAN
    BY <1>1, <1>2 DEF end_commit, TypeOK
  <2>2. stage' \in Stages
    BY <1>2 DEF Stages
  <2>3. QED
    BY <1>1, <1>2, <1>3, <2>1, <2>2 DEF TypeOK
<1>5. Active' = Active /\ Reserved' = Reserved
  BY <1>2, <1>3, SameTokens
<1>6. SpaceInv'
  BY <1>1, <1>2, <1>5 DEF SpaceInv
<1>7. OpInv'
  <2>1. Logged' = Logged
    BY <1>2 DEF Logged
  <2>2. QED
    BY <1>1, <1>2, <1>3, <2>1, ZenonT(60) DEF OpInv
<1>8. StageInv'
  <2>1. \A u \in Threads : pc'[u] = "commit" => pc[u] = "commit" /\ u # t
    BY <1>1, <1>2 DEF TypeOK, Awake
  <2>2. \A u, w \in Threads : pc[u] = "commit" /\ pc[w] = "commit" => u = w
    BY <1>1 DEF StageInv
  <2>3. QED
    BY <1>1, <1>2, <2>1, <2>2 DEF StageInv, BootStages, CommitStages
<1>9. PinInv'
  BY <1>1, <1>2, SMTT(30) DEF PinInv, StageInv
<1>10. QED
  BY <1>1, <1>2, <1>4, <1>6, <1>7, <1>8, <1>9 DEF IInv

(* Preservation by a crash.                                                *)
LEMMA Crashes ==
  ASSUME IInv, Crash
  PROVE  IInv'
<1> USE LogAssumption DEF disk
<1>1. TypeOK /\ SpaceInv /\ PinInv
  BY DEF IInv
<1>2. TypeOK'
  <2>0. committing' \in BOOLEAN /\ panicked' \in BOOLEAN
    BY DEF Crash
  <2>1. lh' \in Seq(Blocks) /\ outstanding' \in Nat /\ tail' \in Nat
    BY SMTT(60) DEF Crash
  <2>2. stage' \in Stages
    BY DEF Crash, Stages, BootStages
  <2>3. /\ cache' \in [Blocks -> Values \cup {NoBuf}]
        /\ wb' \in [Threads -> Blocks \cup {NoBuf}]
        /\ pc' \in [Threads -> InOp \cup {"idle", "begin", "asleep", "commit"}]
    BY DEF Crash
  <2>4. pin' \in [Blocks -> Nat]
    BY DEF Crash
  <2>5. touched' \in [Threads -> SUBSET Blocks]
    BY DEF Crash
  <2>6. QED
    BY <1>1, <2>0, <2>1, <2>2, <2>3, <2>4, <2>5 DEF Crash, TypeOK
<1>3. Active' = {} /\ Reserved' = {}
  BY DEF Crash, Active, Reserved, InOp
<1>4. SpaceInv'
  BY SMTT(60), <1>1, <1>3, FS_EmptySet DEF Crash, SpaceInv
<1>5. OpInv'
  BY SMTT(60), FS_EmptySet DEF Crash, OpInv, InOp
<1>6. StageInv'
  BY DEF Crash, StageInv, BootStages, CommitStages, InOp
<1>7. PinInv'
  BY <1>1, SMTT(30) DEF Crash, PinInv
<1>8. QED
  BY <1>2, <1>4, <1>5, <1>6, <1>7 DEF IInv, Crash

(* A step that changes nothing.                                            *)
LEMMA Stutters ==
  ASSUME IInv, UNCHANGED vars
  PROVE  IInv'
<1>1. Active' = Active /\ Reserved' = Reserved
  BY DEF vars, Active, Reserved
<1>2. Logged' = Logged
  BY DEF vars, Logged
<1>3. TypeOK' /\ ~panicked'
  BY DEF IInv, vars, TypeOK
<1>4. SpaceInv' /\ OpInv'
  BY <1>1, <1>2, SameOps DEF IInv, vars, SpaceInv
<1>5. StageInv' /\ PinInv'
  BY SMTT(30) DEF IInv, vars, StageInv, PinInv
<1>6. QED
  BY <1>3, <1>4, <1>5 DEF IInv

(* Every step preserves the invariant: one case per action of Next.        *)
LEMMA NextIInv ==
  ASSUME Provisioned, IInv, [Next]_vars
  PROVE  IInv'
<1>1. ASSUME NEW t \in Threads, OpStep(t) PROVE IInv'
  BY <1>1, BeginOp, Modifies, LogCheck, LogAppend, EndOp, EndCommit DEF OpStep
<1>2. CASE CommitStep
  BY <1>2, WriteLog, WriteHead, InstallCommit, Erase DEF CommitStep
<1>3. CASE BootStep
  BY <1>3, ReadHead, InstallRecover DEF BootStep
<1>4. ASSUME NEW b \in Blocks, bread(b) \/ bget_recycle(b) PROVE IInv'
  BY <1>4, Bread, Recycle
<1>5. CASE Crash
  BY <1>5, Crashes
<1>6. CASE UNCHANGED vars
  BY <1>6, Stutters
<1>7. QED
  BY <1>1, <1>2, <1>3, <1>4, <1>5, <1>6 DEF Next, Up

(* The inductive invariant holds in every reachable state.                 *)
THEOREM LogInvariant ==
  ASSUME Provisioned
  PROVE  Spec => []IInv
<1>1. Init => IInv
  BY InitIInv
<1>2. IInv /\ [Next]_vars => IInv'
  BY NextIInv
<1>3. QED
  BY <1>1, <1>2, PTL DEF Spec

(* Type correctness of the log: log.outstanding and the pin counts never   *)
(* go below zero, and the loops of commit() stay inside lh.block[].        *)
THEOREM LogTypeCorrect ==
  ASSUME Provisioned
  PROVE  Spec => []TypeOK
<1>1. IInv => TypeOK
  BY DEF IInv
<1>2. QED
  BY <1>1, LogInvariant, PTL

(* With at most MAXOPBLOCKS - 2 distinct blocks per operation no panic of  *)
(* log.c is reached, however many threads run and whatever they write.     *)
THEOREM LogNeverPanics ==
  ASSUME Provisioned
  PROVE  Spec => []NoPanic
<1>1. IInv => NoPanic
  BY DEF IInv, NoPanic
<1>2. QED
  BY <1>1, LogInvariant, PTL

(* write_log never writes past the log area although log_write tests the   *)
(* length without the lock.                                                *)
THEOREM LogAlwaysFits ==
  ASSUME Provisioned
  PROVE  Spec => []LogFits
<1>1. IInv => LogFits
  BY DEF IInv, SpaceInv, LogFits
<1>2. QED
  BY <1>1, LogInvariant, PTL

(* commit() runs while no operation is in progress.                        *)
THEOREM LogCommitAlone ==
  ASSUME Provisioned
  PROVE  Spec => []CommitExcludesOps
<1>1. IInv => CommitExcludesOps
  <2> SUFFICES ASSUME IInv, committing
               PROVE  outstanding = 0 /\ \A t \in Threads : pc[t] \notin InOp
    BY DEF CommitExcludesOps
  <2>1. \A t \in Threads : pc[t] \notin InOp
    BY DEF IInv, StageInv
  <2>2. QED
    BY <2>1, NoTokens DEF IInv, SpaceInv
<1>2. QED
  BY <1>1, LogInvariant, PTL

-----------------------------------------------------------------------------
(* The refinement of AtomicDisk.                                            *)

Mem == IF stage \in BootStages THEN Recovered ELSE [b \in Blocks |-> View(b)]

(* The blocks whose buffer may differ from their home location: until they *)
(* are installed, those logged and those that log_write is called for.     *)
Dirty(b) ==
  \/ stage \in {"idle", "write_log", "write_head"} /\ (b \in Logged \/ Held(b))
  \/ stage = "install" /\ \E i \in 1..Len(lh) : i > tail /\ lh[i] = b

CleanInv == \A b \in Blocks : ~Dirty(b) => View(b) = home[b]

(* write_log has put the buffer into the log, and it has not changed since.*)
Copied(i) ==
  \/ stage = "write_log" /\ i <= tail
  \/ stage = "write_head"
  \/ stage = "install" /\ i > tail

CopiedInv == \A i \in 1..Len(lh) : Copied(i) => dlog[i] = View(lh[i])

(* install_trans has put the log block where it belongs.                   *)
Installed(i) ==
  \/ stage \in {"install", "recover"} /\ i <= tail
  \/ stage \in {"erase", "clear"}

InstalledInv == \A i \in 1..Len(lh) : Installed(i) => home[lh[i]] = dlog[i]

ContentInv == CleanInv /\ CopiedInv /\ InstalledInv

-----------------------------------------------------------------------------
(* What bread() returns is a block's content, and which one it is.         *)
LEMMA ViewType ==
  ASSUME TypeOK, NEW b \in Blocks
  PROVE  View(b) \in Values
BY LogAssumption DEF TypeOK, View

(* Recovery takes the blocks the header names from the log.                *)
LEMMA RecoveredLogged ==
  ASSUME TypeOK, PinInv, NEW i \in 1..Len(dhead)
  PROVE  dhead[i] \in Blocks /\ Recovered[dhead[i]] = dlog[i]
<1> DEFINE c == CHOOSE j \in 1..Len(dhead) : dhead[j] = dhead[i]
<1>1. dhead[i] \in Blocks
  BY SMTT(60) DEF TypeOK
<1>2. c \in 1..Len(dhead) /\ dhead[c] = dhead[i]
  OBVIOUS
<1>3. c = i
  BY <1>2 DEF PinInv
<1>4. QED
  BY <1>1, <1>3 DEF Recovered

(* ... and leaves the others as they are.                                  *)
LEMMA RecoveredOther ==
  ASSUME NEW b \in Blocks, \A i \in 1..Len(dhead) : dhead[i] # b
  PROVE  Recovered[b] = home[b]
BY DEF Recovered

(* With an empty header the disk is what recovery finds.                   *)
LEMMA RecoveredEmpty ==
  ASSUME TypeOK, dhead = <<>>
  PROVE  Recovered = home
<1>1. \A b \in Blocks : Recovered[b] = home[b]
  BY SMTT(60), RecoveredOther
<1>2. Recovered = [b \in Blocks |-> Recovered[b]] /\ home = [b \in Blocks |-> home[b]]
  BY DEF Recovered, TypeOK
<1>3. QED
  BY <1>1, <1>2

(* A step that changes nothing the atomic disk can see.                    *)
LEMMA Invisible ==
  ASSUME Mem' = Mem, Recovered' = Recovered, Active' = Active
  PROVE  [AD!Next]_(AD!vars)
BY DEF AD!vars, Mem, Active

(* Outside boot, the memory image is what bread() returns.                 *)
LEMMA SameView ==
  ASSUME stage \notin BootStages, stage' \notin BootStages,
         \A b \in Blocks : View(b)' = View(b)
  PROVE  Mem' = Mem
BY DEF Mem

-----------------------------------------------------------------------------
(* The steps of the atomic disk, in terms of the log's state.              *)
LEMMA BeginStep ==
  ASSUME NEW t \in Threads, t \notin Active, Active' = Active \cup {t},
         Mem' = Mem, Recovered' = Recovered
  PROVE  [AD!Next]_(AD!vars)
BY DEF AD!Next, AD!Begin, Mem, Active

(* An operation that ends is a step of AtomicDisk.                         *)
LEMMA EndStep ==
  ASSUME NEW t \in Threads, t \in Active, Active' = Active \ {t},
         Mem' = Mem, Recovered' = Recovered
  PROVE  [AD!Next]_(AD!vars)
BY DEF AD!Next, AD!End, Mem, Active

(* Writing a block within an operation is a step of AtomicDisk.            *)
LEMMA WriteStep ==
  ASSUME NEW t \in Threads, NEW b \in Blocks, NEW v \in Values, t \in Active,
         Mem' = [Mem EXCEPT ![b] = v], Recovered' = Recovered, Active' = Active
  PROVE  [AD!Next]_(AD!vars)
BY DEF AD!Next, AD!Write, Mem, Active

(* Making the whole image stable while no operation is in progress is a    *)
(* step of AtomicDisk.                                                     *)
LEMMA StableStep ==
  ASSUME Active = {}, Recovered' = Mem, Mem' = Mem, Active' = Active
  PROVE  [AD!Next]_(AD!vars)
BY DEF AD!Next, AD!Commit, Mem, Active

(* Going back to the stable image is a crash of AtomicDisk.                *)
LEMMA CrashStep ==
  ASSUME Mem' = Recovered, Active' = {}, Recovered' = Recovered
  PROVE  [AD!Next]_(AD!vars)
BY DEF AD!Next, AD!Crash, Mem, Active

(* The initial states of the log are initial states of the atomic disk.    *)
LEMMA InitRefines == Init => AD!Init /\ ContentInv
<1> SUFFICES ASSUME Init PROVE AD!Init /\ ContentInv
  OBVIOUS
<1>1. IInv
  BY InitIInv
<1>2. Recovered = home
  BY <1>1, RecoveredEmpty DEF IInv, Init
<1>3. AD!Init
  BY <1>2 DEF Init, AD!Init, BootStages, InOp
<1>4. CleanInv
  BY DEF Init, CleanInv, View
<1>5. CopiedInv /\ InstalledInv
  BY SMTT(60) DEF Init, CopiedInv, InstalledInv
<1>6. QED
  BY <1>3, <1>4, <1>5 DEF ContentInv

-----------------------------------------------------------------------------
(* Steps of a call in progress leave the disk and, outside Modify, what    *)
(* bread() returns alone.                                                  *)
LEMMA SameDisk ==
  ASSUME UNCHANGED disk
  PROVE  Recovered' = Recovered
BY DEF disk, Recovered

(* A crash throws away what is not on disk.                                *)
LEMMA CrashRefines ==
  ASSUME IInv, ContentInv, Crash
  PROVE  ContentInv' /\ [AD!Next]_(AD!vars)
<1>1. Recovered' = Recovered
  BY SameDisk DEF Crash
<1>2. Mem' = Recovered'
  BY DEF Crash, Mem, BootStages
<1>3. Active' = {}
  BY DEF Crash, Active, InOp
<1>4. CleanInv'
  BY DEF Crash, CleanInv, View
<1>5. CopiedInv' /\ InstalledInv'
  BY SMTT(60) DEF Crash, CopiedInv, InstalledInv
<1>6. QED
  BY <1>1, <1>2, <1>3, <1>4, <1>5, CrashStep DEF ContentInv

(* read_head finds the header of a committed transaction, or an empty one. *)
LEMMA ReadHeadRefines ==
  ASSUME IInv, ContentInv, read_head
  PROVE  ContentInv' /\ [AD!Next]_(AD!vars)
<1>1. Recovered' = Recovered
  BY SameDisk DEF read_head
<1>2. Mem' = Mem
  BY <1>1 DEF read_head, Mem, BootStages
<1>3. Active' = Active
  BY DEF read_head, thr, Active
<1>4. CleanInv'
  <2>1. \A b \in Blocks : View(b) = home[b]
    BY DEF ContentInv, CleanInv, Dirty, read_head
  <2>2. QED
    BY <2>1 DEF read_head, CleanInv, View, disk, bufs
<1>5. CopiedInv' /\ InstalledInv'
  <2>1. tail' = 0
    BY DEF read_head, IInv, StageInv
  <2>2. stage' \in {"recover", "clear"} /\ (stage' = "clear" => Len(lh') = 0)
    BY SMTT(60) DEF read_head, IInv, TypeOK
  <2>3. QED
    BY SMTT(60), <2>1, <2>2 DEF CopiedInv, InstalledInv, Copied, Installed
<1>6. QED
  BY <1>1, <1>2, <1>3, <1>4, <1>5, Invisible DEF ContentInv

-----------------------------------------------------------------------------
(* A step of a thread that changes no buffer, no header and no stage.      *)
LEMMA ThreadStep ==
  ASSUME ContentInv, UNCHANGED <<disk, lh, cache, stage, tail>>,
         \A b \in Blocks : Dirty(b) => Dirty(b)'
  PROVE  ContentInv' /\ Recovered' = Recovered /\ Mem' = Mem
<1>1. /\ home' = home /\ dlog' = dlog /\ dhead' = dhead /\ lh' = lh
      /\ cache' = cache /\ stage' = stage /\ tail' = tail
  BY DEF disk
<1>2. \A b : View(b)' = View(b)
  BY <1>1 DEF View
<1>3. Recovered' = Recovered
  BY SameDisk
<1>4. Mem' = Mem
  BY <1>1, <1>2, <1>3 DEF Mem
<1>5. CleanInv'
  BY <1>1, <1>2 DEF ContentInv, CleanInv
<1>6. CopiedInv' /\ InstalledInv'
  BY <1>1, <1>2 DEF ContentInv, CopiedInv, InstalledInv, Copied, Installed
<1>7. QED
  BY <1>3, <1>4, <1>5, <1>6 DEF ContentInv

(* begin_op starts an operation or puts the thread to sleep.               *)
LEMMA BeginOpRefines ==
  ASSUME IInv, ContentInv, NEW t \in Threads, begin_op(t)
  PROVE  ContentInv' /\ [AD!Next]_(AD!vars)
<1>1. ContentInv' /\ Recovered' = Recovered /\ Mem' = Mem
  <2>1. \A b \in Blocks : Dirty(b) => Dirty(b)'
    BY DEF begin_op, Dirty, Logged, Held
  <2>2. QED
    BY <2>1, ThreadStep DEF begin_op, bufs
<1>2. pc \in [Threads -> InOp \cup {"idle", "begin", "asleep", "commit"}]
  BY DEF IInv, TypeOK
<1>3. t \notin Active
  BY DEF begin_op, Active, InOp
<1>4. CASE committing \/ NoSpace
  <2>1. Active' = Active
    BY <1>2, <1>4 DEF begin_op, Active, InOp
  <2>2. QED
    BY <1>1, <2>1, Invisible
<1>5. CASE ~(committing \/ NoSpace)
  <2>1. Active' = Active \cup {t}
    BY <1>2, <1>5 DEF begin_op, Active, InOp
  <2>2. QED
    BY <1>1, <1>3, <2>1, BeginStep
<1>6. QED
  BY <1>4, <1>5

(* A modification of a buffer is a write of the atomic disk.               *)
LEMMA ModifyRefines ==
  ASSUME IInv, ContentInv, NEW t \in Threads, NEW b \in Blocks, NEW v \in Values,
         Modify(t, b, v)
  PROVE  ContentInv' /\ [AD!Next]_(AD!vars)
<1>1. /\ home' = home /\ dlog' = dlog /\ dhead' = dhead /\ lh' = lh
      /\ stage' = stage /\ tail' = tail /\ UNCHANGED disk
      /\ cache' = [cache EXCEPT ![b] = v] /\ wb' = [wb EXCEPT ![t] = b]
      /\ pc' = [pc EXCEPT ![t] = "check"]
  BY DEF Modify, disk, hdr
<1>2. TypeOK /\ pc[t] = "op" /\ v # NoBuf
  BY LogAssumption DEF IInv, Modify
<1>3. stage = "idle"
  BY <1>2 DEF IInv, TypeOK, Stages, StageInv, CommitStages, InOp
<1>4. \A c \in Blocks : View(c)' = IF c = b THEN v ELSE View(c)
  BY <1>1, <1>2 DEF View, TypeOK
<1>5. Mem' = [Mem EXCEPT ![b] = v]
  BY <1>1, <1>3, <1>4 DEF Mem, BootStages
<1>6. Active' = Active /\ t \in Active
  BY <1>1, <1>2 DEF Active, InOp, TypeOK
<1>7. CleanInv'
  <2> SUFFICES ASSUME NEW c \in Blocks, ~Dirty(c)' PROVE View(c)' = home'[c]
    BY DEF CleanInv
  <2>1. Held(b)'
    BY <1>1, <1>2 DEF Held, TypeOK
  <2>2. c # b
    BY <1>1, <1>3, <2>1 DEF Dirty
  <2>3. wb[t] = NoBuf
    BY <1>2 DEF IInv, OpInv
  <2>4. Held(c) => Held(c)'
    BY <1>1, <1>2, <2>3, LogAssumption DEF Held, TypeOK
  <2>5. ~Dirty(c)
    BY <1>1, <1>3, <2>4 DEF Dirty, Logged
  <2>6. QED
    BY <1>1, <1>4, <2>2, <2>5 DEF ContentInv, CleanInv
<1>8. CopiedInv' /\ InstalledInv'
  BY <1>1, <1>3 DEF CopiedInv, InstalledInv, Copied, Installed
<1>9. QED
  BY <1>1, <1>5, <1>6, <1>7, <1>8, SameDisk, WriteStep DEF ContentInv

(* The tests of log_write.                                                 *)
LEMMA LogCheckRefines ==
  ASSUME IInv, ContentInv, NEW t \in Threads, log_write_check(t)
  PROVE  ContentInv' /\ [AD!Next]_(AD!vars)
<1>1. ContentInv' /\ Recovered' = Recovered /\ Mem' = Mem
  <2>1. \A b \in Blocks : Dirty(b) => Dirty(b)'
    BY DEF log_write_check, Dirty, Logged, Held, hdr
  <2>2. QED
    BY <2>1, ThreadStep DEF log_write_check, bufs, hdr
<1>2. Active' = Active
  BY DEF log_write_check, Active, InOp, IInv, TypeOK
<1>3. QED
  BY <1>1, <1>2, Invisible

(* log_write records the block: it stays dirty when its buffer is given up.*)
LEMMA LogAppendRefines ==
  ASSUME IInv, ContentInv, NEW t \in Threads, log_write_append(t)
  PROVE  ContentInv' /\ [AD!Next]_(AD!vars)
<1>1. TypeOK /\ wb[t] \in Blocks /\ lh \in Seq(Blocks)
  BY DEF IInv, OpInv, TypeOK, log_write_append
<1>2. stage = "idle"
  BY DEF IInv, TypeOK, Stages, StageInv, CommitStages, InOp, log_write_append
<1>3. /\ home' = home /\ dlog' = dlog /\ dhead' = dhead /\ UNCHANGED disk
      /\ cache' = cache /\ stage' = stage /\ tail' = tail
      /\ wb' = [wb EXCEPT ![t] = NoBuf]
  BY DEF log_write_append, disk
<1>4. Logged \cup {wb[t]} \subseteq Logged'
  <2>1. CASE wb[t] \in Logged
    BY <2>1 DEF log_write_append, Logged
  <2>2. CASE wb[t] \notin Logged
    <3>1. lh' = Append(lh, wb[t])
      BY <2>2 DEF log_write_append
    <3>2. /\ Len(lh') = Len(lh) + 1
          /\ \A i \in 1..Len(lh) + 1 : lh'[i] = IF i <= Len(lh) THEN lh[i] ELSE wb[t]
      BY <1>1, <3>1, AppendFacts
    <3>3. Len(lh) \in Nat
      BY SMTT(60), <1>1
    <3>4. QED
      BY SMTT(60), <3>2, <3>3 DEF Logged
  <2>3. QED
    BY <2>1, <2>2
<1>5. \A b : View(b)' = View(b)
  BY <1>3 DEF View
<1>6. Recovered' = Recovered
  BY <1>3, SameDisk
<1>7. Mem' = Mem
  BY <1>3, <1>5, <1>6 DEF Mem
<1>8. Active' = Active
  BY <1>1 DEF log_write_append, Active, InOp, TypeOK
<1>9. CleanInv'
  <2> SUFFICES ASSUME NEW b \in Blocks, ~Dirty(b)' PROVE View(b)' = home'[b]
    BY DEF CleanInv
  <2>1. b \notin Logged' /\ ~Held(b)'
    BY <1>2, <1>3 DEF Dirty
  <2>2. b \notin Logged /\ ~Held(b)
    BY <2>1, <1>1, <1>3, <1>4 DEF Held, TypeOK
  <2>3. ~Dirty(b)
    BY <1>2, <2>2 DEF Dirty
  <2>4. QED
    BY <1>3, <1>5, <2>3 DEF ContentInv, CleanInv
<1>10. CopiedInv' /\ InstalledInv'
  BY <1>2, <1>3 DEF CopiedInv, InstalledInv, Copied, Installed
<1>11. QED
  BY <1>6, <1>7, <1>8, <1>9, <1>10, Invisible DEF ContentInv

-----------------------------------------------------------------------------
(* end_op ends the operation; the last one starts a commit, when the dirty *)
(* blocks are exactly those logged.                                        *)
LEMMA EndOpRefines ==
  ASSUME IInv, ContentInv, NEW t \in Threads, end_op(t)
  PROVE  ContentInv' /\ [AD!Next]_(AD!vars)
<1>1. TypeOK /\ pc[t] = "op" /\ stage = "idle" /\ ~committing
  BY DEF IInv, TypeOK, Stages, StageInv, CommitStages, BootStages, InOp, end_op
<1>2. /\ home' = home /\ dlog' = dlog /\ dhead' = dhead /\ UNCHANGED disk
      /\ lh' = lh /\ cache' = cache /\ tail' = tail /\ wb' = wb
  BY DEF end_op, disk, bufs
<1>3. tail = 0 /\ lh \in Seq(Blocks)
  BY <1>1 DEF IInv, StageInv, TypeOK
<1>4. stage' = "idle" \/ stage' = "write_log" \/ (stage' = "done" /\ Len(lh) = 0)
  BY SMTT(60), <1>1, <1>3 DEF end_op
<1>5. \A b : View(b)' = View(b)
  BY <1>2 DEF View
<1>6. Recovered' = Recovered
  BY <1>2, SameDisk
<1>7. Mem' = Mem
  BY <1>1, <1>4, <1>5 DEF Mem, BootStages
<1>8. t \in Active /\ Active' = Active \ {t}
  BY <1>1 DEF end_op, Active, InOp, TypeOK, Awake
<1>9. CleanInv'
  <2> SUFFICES ASSUME NEW b \in Blocks, ~Dirty(b)' PROVE View(b)' = home'[b]
    BY DEF CleanInv
  <2>1. CASE stage' \in {"idle", "write_log"}
    <3>1. ~Dirty(b)
      BY <1>1, <1>2, <2>1 DEF Dirty, Logged, Held
    <3>2. QED
      BY <1>2, <1>5, <3>1 DEF ContentInv, CleanInv
  <2>2. CASE stage' = "done" /\ Len(lh) = 0
    <3>1. \A u \in Threads : pc[u] \in {"check", "append"} => u # t /\ u \in Active
      BY <1>1 DEF Active, InOp
    <3>2. Active' = {}
      <4>1. \A u \in Threads : u \in Active => u = t
        <5>1. outstanding = 1
          BY SMTT(60), <1>1, <2>2 DEF end_op, IInv, TypeOK
        <5>2. Cardinality(Active) = 1 /\ IsFiniteSet(Active)
          BY <5>1, FiniteTokens DEF IInv, SpaceInv
        <5>3. Cardinality(Active \ {t}) = 0 /\ IsFiniteSet(Active \ {t})
          BY SMTT(60), <1>8, <5>2, FS_RemoveElement
        <5>4. Active \ {t} = {}
          BY <5>3, FS_EmptySet
        <5>5. QED
          BY <5>4
      <4>2. QED
        BY <1>8, <4>1 DEF Active
    <3>3. \A u \in Threads : wb[u] = NoBuf
      BY <1>8, <3>1, <3>2 DEF IInv, OpInv
    <3>4. ~Dirty(b)
      BY SMTT(60), <1>1, <1>3, <2>2, <3>3, LogAssumption DEF Dirty, Logged, Held
    <3>5. QED
      BY <1>2, <1>5, <3>4 DEF ContentInv, CleanInv
  <2>3. QED
    BY <1>4, <2>1, <2>2
<1>10. CopiedInv' /\ InstalledInv'
  BY SMTT(60), <1>2, <1>3, <1>4 DEF CopiedInv, InstalledInv, Copied, Installed
<1>11. QED
  BY <1>6, <1>7, <1>8, <1>9, <1>10, EndStep DEF ContentInv

(* end_op after commit().                                                  *)
LEMMA EndCommitRefines ==
  ASSUME IInv, ContentInv, NEW t \in Threads, end_commit(t)
  PROVE  ContentInv' /\ [AD!Next]_(AD!vars)
<1>1. /\ home' = home /\ dlog' = dlog /\ dhead' = dhead /\ UNCHANGED disk
      /\ cache' = cache /\ stage = "done" /\ stage' = "idle"
  BY DEF end_commit, disk, bufs
<1>2. \A b : View(b)' = View(b)
  BY <1>1 DEF View
<1>3. Recovered' = Recovered
  BY <1>1, SameDisk
<1>4. Mem' = Mem
  BY <1>1, <1>2 DEF Mem, BootStages
<1>5. Active' = Active
  BY DEF end_commit, Active, InOp, Awake, IInv, TypeOK
<1>6. CleanInv'
  BY <1>1, <1>2 DEF ContentInv, CleanInv, Dirty
<1>7. CopiedInv' /\ InstalledInv'
  BY <1>1 DEF CopiedInv, InstalledInv, Copied, Installed
<1>8. QED
  BY <1>3, <1>4, <1>5, <1>6, <1>7, Invisible DEF ContentInv

(* While commit() runs nobody holds a buffer for log_write.                *)
LEMMA NoneHeld ==
  ASSUME IInv, stage \in CommitStages
  PROVE  \A b \in Blocks : ~Held(b)
<1>1. \A t \in Threads : wb[t] = NoBuf
  BY DEF IInv, StageInv, OpInv, InOp
<1>2. QED
  BY <1>1, LogAssumption DEF Held

(* bread and the recycling of buffers change nothing that bread returns: a *)
(* dirty buffer is held or pinned.                                         *)
LEMMA CacheRefines ==
  ASSUME IInv, ContentInv, NEW b \in Blocks, bread(b) \/ bget_recycle(b)
  PROVE  ContentInv' /\ [AD!Next]_(AD!vars)
<1>1. /\ home' = home /\ dlog' = dlog /\ dhead' = dhead /\ UNCHANGED disk
      /\ lh' = lh /\ stage' = stage /\ tail' = tail /\ wb' = wb /\ pc' = pc
      /\ stage \notin BootStages
  BY DEF bread, bget_recycle, disk, hdr, thr
<1>2. TypeOK
  BY DEF IInv
<1>3. \A c \in Blocks : View(c)' = View(c)
  <2>1. CASE bread(b)
    BY <1>1, <1>2, <2>1 DEF bread, View, TypeOK
  <2>2. CASE bget_recycle(b)
    <3>1. ~Dirty(b)
      <4>1. pin[b] = 0 /\ ~Held(b)
        BY <2>2 DEF bget_recycle
      <4>2. QED
        BY SMTT(60), <4>1 DEF IInv, PinInv, Dirty, Logged
    <3>2. View(b) = home[b]
      BY <3>1 DEF ContentInv, CleanInv
    <3>3. QED
      BY <1>1, <1>2, <2>2, <3>2 DEF bget_recycle, View, TypeOK
  <2>3. QED
    BY <2>1, <2>2
<1>4. \A c \in Blocks : Dirty(c)' <=> Dirty(c)
  BY <1>1 DEF Dirty, Logged, Held
<1>5. lh \in Seq(Blocks)
  BY <1>2 DEF TypeOK
<1>6. CleanInv'
  BY <1>1, <1>3, <1>4 DEF ContentInv, CleanInv
<1>7. CopiedInv' /\ InstalledInv'
  <2>1. \A i \in 1..Len(lh) : lh[i] \in Blocks
    BY SMTT(60), <1>5
  <2>2. QED
    BY <1>1, <1>3, <2>1 DEF ContentInv, CopiedInv, InstalledInv, Copied, Installed
<1>8. QED
  BY <1>1, <1>3, <1>6, <1>7, SameDisk, SameView, Invisible DEF ContentInv, Active

-----------------------------------------------------------------------------
(* write_log copies a buffer into the log, which nobody reads yet.         *)
LEMMA WriteLogRefines ==
  ASSUME IInv, ContentInv, write_log
  PROVE  ContentInv' /\ [AD!Next]_(AD!vars)
<1>1. TypeOK /\ stage = "write_log" /\ tail < Len(lh) /\ dhead = <<>>
  BY DEF write_log, IInv, StageInv
<1>2. tail \in Nat /\ Len(lh) \in Nat /\ tail + 1 \in (1..Len(lh)) \cap (1..(Nlog - 1))
  BY SMTT(60), <1>1, LogAssumption DEF TypeOK, IInv, SpaceInv
<1>3. \A i \in 1..Len(lh) : lh[i] \in Blocks
  BY SMTT(60), <1>1 DEF TypeOK
<1>4. /\ home' = home /\ dhead' = dhead /\ lh' = lh /\ wb' = wb /\ pc' = pc
      /\ dlog' = [dlog EXCEPT ![tail + 1] = View(lh[tail + 1])]
      /\ cache' = [cache EXCEPT ![lh[tail + 1]] = View(lh[tail + 1])]
  BY DEF write_log, hdr, thr
<1>5. \/ stage' = "write_log" /\ tail' = tail + 1
      \/ stage' = "write_head" /\ tail' = 0 /\ tail + 1 = Len(lh)
  BY SMTT(60), <1>1, <1>2 DEF write_log
<1>6. \A b \in Blocks : View(b)' = View(b)
  <2>1. View(lh[tail + 1]) \in Values
    BY <1>1, <1>2, <1>3, ViewType
  <2>2. View(lh[tail + 1]) # NoBuf
    BY <2>1, LogAssumption
  <2>3. QED
    BY <1>1, <1>2, <1>3, <1>4, <2>2 DEF View, TypeOK
<1>7. Mem' = Mem
  BY <1>1, <1>5, <1>6, SameView DEF BootStages
<1>8. Recovered' = Recovered
  <2>1. Recovered = home
    BY <1>1, RecoveredEmpty
  <2>2. \A b \in Blocks : Recovered'[b] = home[b]
    BY SMTT(60), <1>1, <1>4 DEF Recovered
  <2>3. Recovered' = [b \in Blocks |-> Recovered'[b]] /\ home = [b \in Blocks |-> home[b]]
    BY <1>1 DEF Recovered, TypeOK
  <2>4. QED
    BY <2>1, <2>2, <2>3
<1>9. Active' = Active
  BY <1>4 DEF Active
<1>10. CleanInv'
  <2>1. \A b \in Blocks : Dirty(b) => Dirty(b)'
    BY <1>1, <1>4, <1>5 DEF Dirty, Logged, Held
  <2>2. QED
    BY <1>4, <1>6, <2>1 DEF ContentInv, CleanInv
<1>11. CopiedInv'
  <2> SUFFICES ASSUME NEW i \in 1..Len(lh), Copied(i)' PROVE dlog'[i] = View(lh[i])
    BY <1>3, <1>4, <1>6 DEF CopiedInv
  <2>1. i <= tail + 1
    BY SMTT(60), <1>2, <1>5 DEF Copied
  <2>2. CASE i = tail + 1
    BY <1>1, <1>2, <1>4, <2>2 DEF TypeOK
  <2>3. CASE i <= tail
    <3>1. dlog[i] = View(lh[i])
      BY <1>1, <2>3 DEF ContentInv, CopiedInv, Copied
    <3>2. QED
      BY SMTT(60), <1>1, <1>2, <1>4, <2>3, <3>1 DEF TypeOK
  <2>4. QED
    BY SMTT(60), <1>2, <2>1, <2>2, <2>3
<1>12. InstalledInv'
  BY <1>5 DEF InstalledInv, Installed
<1>13. QED
  BY <1>7, <1>8, <1>9, <1>10, <1>11, <1>12, Invisible DEF ContentInv

(* write_head is the commit point: the image that recovery would build     *)
(* becomes the memory image, in one step.                                  *)
LEMMA WriteHeadRefines ==
  ASSUME IInv, ContentInv, write_head
  PROVE  ContentInv' /\ [AD!Next]_(AD!vars)
<1>1. TypeOK /\ stage = "write_head" /\ stage' = "install" /\ dhead' = lh /\ tail = 0
  BY DEF write_head, IInv, StageInv
<1>2. /\ home' = home /\ dlog' = dlog /\ lh' = lh /\ cache' = cache /\ tail' = tail
      /\ wb' = wb /\ pc' = pc
  BY DEF write_head, hdr, bufs, thr
<1>3. Active = {} /\ Active' = {}
  BY <1>1, <1>2 DEF Active, IInv, StageInv, CommitStages
<1>4. \A b \in Blocks : View(b)' = View(b)
  BY <1>2 DEF View
<1>5. Mem' = Mem
  BY <1>1, <1>4, SameView DEF BootStages
<1>6. \A i \in 1..Len(lh) : lh[i] \in Blocks /\ dlog[i] = View(lh[i])
  BY SMTT(60), <1>1 DEF TypeOK, ContentInv, CopiedInv, Copied
<1>7. \A b \in Blocks : b \notin Logged => View(b) = home[b]
  <2>1. \A b \in Blocks : ~Held(b)
    BY <1>1, NoneHeld DEF CommitStages
  <2>2. QED
    BY <1>1, <2>1 DEF ContentInv, CleanInv, Dirty
<1>8. Recovered' = Mem
  <2>1. ASSUME NEW b \in Blocks PROVE Recovered'[b] = View(b)
    <3>1. CASE \E i \in 1..Len(lh) : lh[i] = b
      <4> DEFINE c == CHOOSE i \in 1..Len(lh) : lh[i] = b
      <4>1. c \in 1..Len(lh) /\ lh[c] = b
        BY <3>1
      <4>2. Recovered'[b] = dlog[c]
        BY <1>1, <1>2, <3>1 DEF Recovered
      <4>3. QED
        BY <1>6, <4>1, <4>2
    <3>2. CASE ~\E i \in 1..Len(lh) : lh[i] = b
      <4>1. Recovered'[b] = home[b]
        BY <1>1, <1>2, <3>2 DEF Recovered
      <4>2. b \notin Logged
        BY <3>2 DEF Logged
      <4>3. QED
        BY <1>7, <4>1, <4>2
    <3>3. QED
      BY <3>1, <3>2
  <2>2. Recovered' = [b \in Blocks |-> Recovered'[b]]
    BY DEF Recovered
  <2>3. Mem = [b \in Blocks |-> View(b)]
    BY <1>1 DEF Mem, BootStages
  <2>4. QED
    BY <2>1, <2>2, <2>3
<1>9. CleanInv'
  <2>1. ASSUME NEW b \in Blocks, ~Dirty(b)' PROVE b \notin Logged
    BY SMTT(60), <1>1, <1>2, <2>1 DEF Dirty, Logged
  <2>2. QED
    BY <1>2, <1>4, <1>7, <2>1 DEF CleanInv
<1>10. CopiedInv'
  BY <1>2, <1>4, <1>6 DEF CopiedInv
<1>11. InstalledInv'
  BY SMTT(60), <1>1, <1>2 DEF InstalledInv, Installed
<1>12. QED
  BY <1>3, <1>5, <1>8, <1>9, <1>10, <1>11, StableStep DEF ContentInv

-----------------------------------------------------------------------------
(* install_trans writes to a home location what recovery would put there,  *)
(* be it run by commit() or by recovery, and once or several times.        *)
LEMMA InstallKeepsImage ==
  ASSUME IInv, NEW r \in BOOLEAN, install_trans(r)
  PROVE  Recovered' = Recovered
<1>1. TypeOK /\ PinInv /\ dhead = lh /\ tail < Len(lh)
  BY DEF install_trans, IInv, StageInv
<1>2. tail + 1 \in 1..Len(dhead)
  BY SMTT(60), <1>1 DEF TypeOK
<1>3. dhead' = dhead /\ dlog' = dlog /\ home' = [home EXCEPT ![dhead[tail + 1]] = dlog[tail + 1]]
  BY <1>1 DEF install_trans
<1>4. ASSUME NEW b \in Blocks PROVE Recovered'[b] = Recovered[b]
  <2>1. CASE \E i \in 1..Len(dhead) : dhead[i] = b
    BY <1>3, <2>1 DEF Recovered
  <2>2. CASE ~\E i \in 1..Len(dhead) : dhead[i] = b
    <3>1. b # dhead[tail + 1]
      BY <1>2, <2>2
    <3>2. home'[b] = home[b]
      BY <1>1, <1>3, <3>1 DEF TypeOK
    <3>3. QED
      BY <1>3, <2>2, <3>2 DEF Recovered
  <2>3. QED
    BY <2>1, <2>2
<1>5. Recovered' = [b \in Blocks |-> Recovered'[b]] /\ Recovered = [b \in Blocks |-> Recovered[b]]
  BY DEF Recovered
<1>6. QED
  BY <1>4, <1>5

(* install_trans, in commit() and in recovery: what it writes is what      *)
(* recovery would write anyway.                                            *)
LEMMA InstallRefines ==
  ASSUME IInv, ContentInv, NEW r \in BOOLEAN, install_trans(r)
  PROVE  ContentInv' /\ [AD!Next]_(AD!vars)
<1>1. /\ TypeOK /\ PinInv /\ dhead = lh /\ tail < Len(lh)
      /\ stage = IF r THEN "recover" ELSE "install"
  BY DEF install_trans, IInv, StageInv
<1>2. tail \in Nat /\ Len(lh) \in Nat /\ tail + 1 \in (1..Len(lh)) \cap (1..(Nlog - 1))
  BY SMTT(60), <1>1, LogAssumption DEF TypeOK, IInv, SpaceInv
<1>3. \A i \in 1..Len(lh) : lh[i] \in Blocks /\ (lh[i] = lh[tail + 1] => i = tail + 1)
  BY SMTT(60), <1>1, <1>2 DEF TypeOK, PinInv
<1>4. /\ home' = [home EXCEPT ![lh[tail + 1]] = dlog[tail + 1]]
      /\ cache' = [cache EXCEPT ![lh[tail + 1]] = dlog[tail + 1]]
      /\ dlog' = dlog /\ dhead' = dhead /\ lh' = lh /\ pc' = pc /\ wb' = wb
  BY DEF install_trans, hdr, thr
<1>5. \/ stage' = stage /\ tail' = tail + 1
      \/ tail' = 0 /\ tail + 1 = Len(lh) /\ stage' = IF r THEN "clear" ELSE "erase"
  BY SMTT(60), <1>1, <1>2 DEF install_trans
<1>6. dlog[tail + 1] \in Values /\ dlog[tail + 1] # NoBuf
  BY SMTT(60), <1>1, <1>2, LogAssumption DEF TypeOK
<1>7. \A b \in Blocks : /\ home'[b] = IF b = lh[tail + 1] THEN dlog[tail + 1] ELSE home[b]
                        /\ View(b)' = IF b = lh[tail + 1] THEN dlog[tail + 1] ELSE View(b)
  BY <1>1, <1>4, <1>6 DEF TypeOK, View
<1>8. Recovered' = Recovered
  BY InstallKeepsImage
<1>9. Mem' = Mem
  <2>1. CASE r
    BY <1>1, <1>5, <1>8, <2>1 DEF Mem, BootStages
  <2>2. CASE ~r
    <3>1. dlog[tail + 1] = View(lh[tail + 1])
      BY SMTT(60), <1>1, <1>2, <2>2 DEF ContentInv, CopiedInv, Copied
    <3>2. QED
      BY <1>1, <1>5, <1>7, <2>2, <3>1, SameView DEF BootStages
  <2>3. QED
    BY <2>1, <2>2
<1>10. Active' = Active
  BY <1>4 DEF Active
<1>11. CleanInv'
  <2> SUFFICES ASSUME NEW b \in Blocks, ~Dirty(b)' PROVE View(b)' = home'[b]
    BY DEF CleanInv
  <2>1. CASE b = lh[tail + 1]
    BY <1>7, <2>1
  <2>2. CASE b # lh[tail + 1]
    <3>1. ASSUME Dirty(b) PROVE FALSE
      <4>1. stage = "install" /\ ~r
        BY <1>1, <3>1 DEF Dirty
      <4>2. PICK i \in 1..Len(lh) : i > tail /\ lh[i] = b
        BY <1>1, <3>1, <4>1 DEF Dirty
      <4>3. i > tail + 1
        BY SMTT(60), <1>2, <2>2, <4>2
      <4>4. stage' = stage /\ tail' = tail + 1
        BY SMTT(60), <1>2, <1>5, <4>3
      <4>5. QED
        BY <1>4, <4>1, <4>2, <4>3, <4>4 DEF Dirty
    <3>2. QED
      BY <1>7, <2>2, <3>1 DEF ContentInv, CleanInv
  <2>3. QED
    BY <2>1, <2>2
<1>12. CopiedInv'
  <2> SUFFICES ASSUME NEW i \in 1..Len(lh), Copied(i)' PROVE dlog[i] = View(lh[i])'
    BY <1>4 DEF CopiedInv
  <2>1. stage = "install" /\ i > tail + 1
    BY <1>1, <1>5 DEF Copied
  <2>2. dlog[i] = View(lh[i])
    BY SMTT(60), <1>2, <2>1 DEF ContentInv, CopiedInv, Copied
  <2>3. lh[i] # lh[tail + 1] /\ lh[i] \in Blocks
    BY SMTT(60), <1>2, <1>3, <2>1
  <2>4. QED
    BY <1>4, <1>7, <2>2, <2>3 DEF View
<1>13. InstalledInv'
  <2> SUFFICES ASSUME NEW i \in 1..Len(lh), Installed(i)' PROVE home'[lh[i]] = dlog[i]
    BY <1>4 DEF InstalledInv
  <2>1. i <= tail + 1
    BY SMTT(60), <1>1, <1>2, <1>5 DEF Installed
  <2>2. i <= tail => home[lh[i]] = dlog[i]
    BY <1>1 DEF ContentInv, InstalledInv, Installed
  <2>3. QED
    BY SMTT(60), <1>2, <1>3, <1>7, <2>1, <2>2
<1>14. QED
  BY <1>8, <1>9, <1>10, <1>11, <1>12, <1>13, Invisible DEF ContentInv

(* Everything is installed when the header is erased, so that nothing is   *)
(* lost with it.                                                           *)
LEMMA EraseRefines ==
  ASSUME IInv, ContentInv, erase
  PROVE  ContentInv' /\ [AD!Next]_(AD!vars)
<1>1. TypeOK /\ PinInv /\ dhead = lh /\ stage \in {"erase", "clear"}
  BY DEF erase, IInv, StageInv
<1>2. /\ home' = home /\ dlog' = dlog /\ cache' = cache /\ pc' = pc
      /\ lh' = <<>> /\ dhead' = <<>> /\ stage' = IF stage = "clear" THEN "idle" ELSE "done"
  BY DEF erase, bufs, thr
<1>3. \A b \in Blocks : View(b)' = View(b)
  BY <1>2 DEF View
<1>4. \A b \in Blocks : View(b) = home[b]
  BY <1>1 DEF ContentInv, CleanInv, Dirty
<1>5. \A b \in Blocks : Recovered[b] = home[b]
  <2> SUFFICES ASSUME NEW b \in Blocks PROVE Recovered[b] = home[b]
    OBVIOUS
  <2>1. CASE \E i \in 1..Len(dhead) : dhead[i] = b
    <3>1. PICK i \in 1..Len(dhead) : dhead[i] = b
      BY <2>1
    <3>2. Recovered[b] = dlog[i]
      BY <1>1, <3>1, RecoveredLogged
    <3>3. home[b] = dlog[i]
      BY <1>1, <3>1 DEF ContentInv, InstalledInv, Installed
    <3>4. QED
      BY <3>2, <3>3
  <2>2. CASE ~\E i \in 1..Len(dhead) : dhead[i] = b
    BY <2>2, RecoveredOther
  <2>3. QED
    BY <2>1, <2>2
<1>6. Recovered = [b \in Blocks |-> home[b]]
  BY <1>5 DEF Recovered
<1>7. Recovered' = [b \in Blocks |-> home[b]]
  <2>1. Len(dhead') = 0
    BY <1>2
  <2>2. \A i \in 1..Len(dhead') : FALSE
    BY SMTT(60), <2>1
  <2>3. QED
    BY <1>2, <2>2 DEF Recovered
<1>8. Mem' = Mem
  <2>1. Mem' = [b \in Blocks |-> home[b]]
    BY <1>1, <1>2, <1>3, <1>4 DEF Mem, BootStages
  <2>2. Mem = [b \in Blocks |-> home[b]]
    BY <1>4, <1>6 DEF Mem
  <2>3. QED
    BY <2>1, <2>2
<1>9. Active' = Active
  BY <1>2 DEF Active
<1>10. CleanInv'
  BY <1>2, <1>3, <1>4 DEF CleanInv
<1>11. CopiedInv' /\ InstalledInv'
  BY SMTT(60), <1>2 DEF CopiedInv, InstalledInv
<1>12. QED
  BY <1>6, <1>7, <1>8, <1>9, <1>10, <1>11, Invisible DEF ContentInv

-----------------------------------------------------------------------------
(* A step that changes nothing.                                            *)
LEMMA StutterRefines ==
  ASSUME ContentInv, UNCHANGED vars
  PROVE  ContentInv' /\ [AD!Next]_(AD!vars)
<1>1. \A b \in Blocks : Dirty(b) => Dirty(b)'
  BY DEF vars, Dirty, Logged, Held
<1>2. UNCHANGED <<disk, lh, cache, stage, tail>> /\ pc' = pc
  BY DEF vars, disk
<1>3. ContentInv' /\ Recovered' = Recovered /\ Mem' = Mem
  BY <1>1, <1>2, ThreadStep
<1>4. QED
  BY <1>2, <1>3, Invisible DEF Active

(* Every step of the log is a step of the atomic disk, or none.            *)
LEMMA NextRefines ==
  ASSUME IInv, ContentInv, [Next]_vars
  PROVE  ContentInv' /\ [AD!Next]_(AD!vars)
<1>1. ASSUME NEW t \in Threads, OpStep(t) PROVE ContentInv' /\ [AD!Next]_(AD!vars)
  BY <1>1, BeginOpRefines, ModifyRefines, LogCheckRefines, LogAppendRefines, EndOpRefines,
     EndCommitRefines DEF OpStep
<1>2. CASE CommitStep
  BY <1>2, WriteLogRefines, WriteHeadRefines, InstallRefines, EraseRefines DEF CommitStep
<1>3. CASE BootStep
  BY <1>3, ReadHeadRefines, InstallRefines DEF BootStep
<1>4. ASSUME NEW b \in Blocks, bread(b) \/ bget_recycle(b)
      PROVE  ContentInv' /\ [AD!Next]_(AD!vars)
  BY <1>4, CacheRefines
<1>5. CASE Crash
  BY <1>5, CrashRefines
<1>6. CASE UNCHANGED vars
  BY <1>6, StutterRefines
<1>7. QED
  BY <1>1, <1>2, <1>3, <1>4, <1>5, <1>6 DEF Next, Up

(* What the disk, the log and the buffers hold at each stage of commit()   *)
(* and of recovery.                                                        *)
THEOREM LogContents ==
  ASSUME Provisioned
  PROVE  Spec => []ContentInv
<1>1. Init => ContentInv
  BY InitRefines
<1>2. IInv /\ ContentInv /\ [Next]_vars => ContentInv'
  BY NextRefines
<1>3. QED
  BY <1>1, <1>2, LogInvariant, PTL DEF Spec

(* Crash atomicity: whatever threads write and whenever the machine goes   *)
(* down, also during recovery, what a crash leaves is the memory image of  *)
(* a moment at which no operation was in progress.                         *)
THEOREM LogImplementsAtomicDisk ==
  ASSUME Provisioned
  PROVE  Spec => ImplementsAtomicDisk
<1>1. Init => AD!Init
  BY InitRefines
<1>2. IInv /\ ContentInv /\ [Next]_vars => [AD!Next]_(AD!vars)
  BY NextRefines
<1>3. QED
  BY <1>1, <1>2, LogInvariant, LogContents, PTL DEF Spec, ImplementsAtomicDisk, AD!Spec

(* Durability: once commit() has returned, a crash loses nothing of what   *)
(* the operations of the transaction wrote.                                *)
THEOREM LogDurable ==
  ASSUME Provisioned
  PROVE  Spec => []DurableAfterCommit
<1>1. IInv /\ ContentInv => DurableAfterCommit
  <2> SUFFICES ASSUME IInv, ContentInv, stage = "done"
               PROVE  Recovered = [b \in Blocks |-> View(b)]
    BY DEF DurableAfterCommit
  <2>1. TypeOK /\ dhead = <<>>
    BY DEF IInv, StageInv
  <2>2. Recovered = home
    BY <2>1, RecoveredEmpty
  <2>3. \A b \in Blocks : View(b) = home[b]
    BY DEF ContentInv, CleanInv, Dirty
  <2>4. QED
    BY <2>1, <2>2, <2>3 DEF TypeOK
<1>2. QED
  BY <1>1, LogInvariant, LogContents, PTL
=============================================================================
