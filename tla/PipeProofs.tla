----------------------------- MODULE PipeProofs -----------------------------
(* Theorems about Pipe, for any number of readers and writers, any size of *)
(* the buffer and any width of the counters that the size divides.         *)
EXTENDS Pipe, RingFacts, SequenceTheorems, TLAPS

(* A leaf goes to Zenon, unless it names the SMT solver, which alone does   *)
(* arithmetic.                                                             *)
USE ZenonT(60)

(* Who has passed acquire(&pi->lock) holds it.                             *)
Inside(p) == pc[p] \in {"loop", "copy", "end"}

LockInv == \A p \in Procs : Inside(p) => lock = p

(* readopen and writeopen say whether an end is open, and the page is      *)
(* freed with the last of them; nobody is in a call without an open end.   *)
OpenInv ==
  /\ writeopen <=> open \cap Writers # {}
  /\ readopen <=> open \cap Readers # {}
  /\ freed => open = {}
  /\ \A p \in Procs : pc[p] # "idle" => p \in open

RingInv == Count <= PIPESIZE

(* SleepJustified while the lock is held: the one who holds it and makes   *)
(* the reason to sleep go away is on the way to a wakeup.                  *)
SleepInv ==
  /\ \A w \in Writers : pc[w] = "asleep" =>
       readopen /\ (Full \/ \E r \in Readers : pc[r] \in {"copy", "end"})
  /\ \A r \in Readers : pc[r] = "asleep" =>
       writeopen /\ (\/ Empty \/ Writers \cap killed # {}
                     \/ \E w \in Writers : pc[w] \in {"loop", "end"})

PInv == TypeOK /\ LockInv /\ OpenInv /\ RingInv /\ SleepInv

-----------------------------------------------------------------------------
(* How far one counter is ahead of another, and what comes after one.      *)
LEMMA Distance ==
  ASSUME NEW a \in 0..(UintMod - 1), NEW b \in 0..(UintMod - 1)
  PROVE  (b - a) % UintMod = IF a <= b THEN b - a ELSE b - a + UintMod
BY SMTT(60), PipeAssumption, RingDistance

(* What the counters mean.                                                 *)
LEMMA Counters ==
  ASSUME TypeOK
  PROVE  /\ Count = IF nread <= nwrite THEN nwrite - nread ELSE nwrite - nread + UintMod
         /\ Count \in 0..(UintMod - 1)
         /\ Empty <=> Count = 0
         /\ Full <=> Count = PIPESIZE
         /\ Inc(nread) = IF nread + 1 = UintMod THEN 0 ELSE nread + 1
         /\ Inc(nwrite) = IF nwrite + 1 = UintMod THEN 0 ELSE nwrite + 1
<1> DEFINE M == UintMod
           a == nread
           b == nwrite
<1>1. M \in Nat \ {0} /\ PIPESIZE \in Nat \ {0} /\ PIPESIZE < M
      /\ a \in 0..(M - 1) /\ b \in 0..(M - 1)
  BY SMTT(60), PipeAssumption DEF TypeOK
<1>2. (b - a) % M = IF a <= b THEN b - a ELSE b - a + M
  BY <1>1, Distance
<1> HIDE DEF M, a, b
<1>3. \A r \in 0..(M - 1) : r % M = r /\ (r + M) % M = r /\ (r - M) % M = r
  BY <1>1, ModRound
<1>4. \A n \in 0..(M - 1) : (n + 1) % M = IF n + 1 = M THEN 0 ELSE n + 1
  <2> SUFFICES ASSUME NEW n \in 0..(M - 1)
               PROVE  (n + 1) % M = IF n + 1 = M THEN 0 ELSE n + 1
    OBVIOUS
  <2>1. CASE n + 1 = M
    <3>1. n + 1 = 0 + M /\ 0 \in 0..(M - 1)
      BY SMTT(60), <1>1, <2>1
    <3>2. QED
      BY <1>3, <2>1, <3>1
  <2>2. CASE n + 1 # M
    BY SMTT(60), <1>1, <1>3, <2>2
  <2>3. QED
    BY <2>1, <2>2
<1>5. (a + PIPESIZE) % M = IF a + PIPESIZE < M THEN a + PIPESIZE ELSE a + PIPESIZE - M
  <2>1. CASE a + PIPESIZE < M
    BY SMTT(60), <1>1, <1>3, <2>1
  <2>2. CASE ~(a + PIPESIZE < M)
    <3>1. a + PIPESIZE - M \in 0..(M - 1) /\ (a + PIPESIZE - M) + M = a + PIPESIZE
      BY SMTT(60), <1>1, <2>2
    <3>2. QED
      BY <1>3, <2>2, <3>1
  <2>3. QED
    BY <2>1, <2>2
<1>6. /\ (b - a) % M \in 0..(M - 1)
      /\ a = b <=> (b - a) % M = 0
      /\ b = (a + PIPESIZE) % M <=> (b - a) % M = PIPESIZE
  BY SMTT(60), <1>1, <1>5, <1>2
<1>7. QED
  BY <1>1, <1>4, <1>2, <1>6 DEF M, a, b, Count, Empty, Full, Inc

-----------------------------------------------------------------------------
(* The stream the buffer holds.                                            *)
Slot(k) == (nread + k - 1) % PIPESIZE

Queue == [k \in 1..Count |-> data[Slot(k)]]

(* The bytes between nread and nwrite are a sequence of Count bytes.       *)
LEMMA QueueIsSeq ==
  ASSUME TypeOK
  PROVE  /\ Queue \in Seq(Bytes) /\ Len(Queue) = Count
         /\ Count \in Nat /\ (Queue = <<>> <=> Count = 0)
<1>1. Count \in Nat
  BY SMTT(60), Counters
<1>2. \A k \in 1..Count : Slot(k) \in 0..(PIPESIZE - 1)
  <2> SUFFICES ASSUME NEW k \in 1..Count PROVE Slot(k) \in 0..(PIPESIZE - 1)
    OBVIOUS
  <2>1. PIPESIZE \in Nat \ {0} /\ nread + k - 1 \in Int
    BY SMTT(60), <1>1, PipeAssumption DEF TypeOK
  <2>2. QED
    BY <2>1, ModRange DEF Slot
<1>3. \A k \in 1..Count : data[Slot(k)] \in Bytes
  BY <1>2 DEF TypeOK
<1>4. QED
  BY SMTT(60), <1>1, <1>3 DEF Queue

(* The size divides the width, so that wrapping a counter keeps its slot.  *)
LEMMA WrapKeepsSlot ==
  ASSUME NEW n \in Int
  PROVE  (n + UintMod) % PIPESIZE = n % PIPESIZE
BY PipeAssumption, SlotWraps

(* Storing a byte at data[nwrite % PIPESIZE] appends it.                   *)
LEMMA StoreAppends ==
  ASSUME TypeOK, TypeOK', RingInv, ~Full, NEW v \in Bytes, nread' = nread,
         nwrite' = Inc(nwrite), data' = [data EXCEPT ![nwrite % PIPESIZE] = v]
  PROVE  Queue' = Append(Queue, v) /\ Count' = Count + 1 /\ Count < PIPESIZE
<1>1. PIPESIZE \in Nat \ {0} /\ UintMod \in Nat /\ PIPESIZE < UintMod
      /\ nread \in 0..(UintMod - 1) /\ nwrite \in 0..(UintMod - 1)
  BY PipeAssumption DEF TypeOK
<1>2. Count \in Nat /\ Count < PIPESIZE
  BY SMTT(60), <1>1, Counters DEF RingInv
<1>3. Count' = IF nread' <= nwrite' THEN nwrite' - nread' ELSE nwrite' - nread' + UintMod
  <2>1. nread' \in 0..(UintMod - 1) /\ nwrite' \in 0..(UintMod - 1)
    BY DEF TypeOK
  <2>2. QED
    BY <2>1, Distance DEF Count
<1>4. Count' = Count + 1
  BY SMTT(60), <1>1, <1>2, <1>3, Counters
<1>5. nwrite % PIPESIZE = (nread + Count) % PIPESIZE
  <2>1. nread + Count = nwrite \/ nread + Count = nwrite + UintMod
    BY SMTT(60), <1>1, Counters
  <2>2. (nwrite + UintMod) % PIPESIZE = nwrite % PIPESIZE
    BY SMTT(60), <1>1, WrapKeepsSlot
  <2>3. QED
    BY <2>1, <2>2
<1>6. nwrite % PIPESIZE \in 0..(PIPESIZE - 1)
  BY SMTT(60), <1>1, ModRange
<1>7. ASSUME NEW k \in 1..Count PROVE data'[Slot(k)] = data[Slot(k)]
  <2>1. nread + k - 1 \in Int /\ nread + Count \in Int
        /\ nread + k - 1 < nread + Count /\ (nread + Count) - (nread + k - 1) < PIPESIZE
    BY SMTT(60), <1>1, <1>2
  <2>2. Slot(k) # nwrite % PIPESIZE
    BY <1>1, <1>5, <2>1, ModApart DEF Slot
  <2>3. QED
    BY SMTT(60), <2>2 DEF TypeOK
<1>8. data'[Slot(Count + 1)] = v
  <2>1. nread + (Count + 1) - 1 = nread + Count
    BY SMTT(60), <1>1, <1>2
  <2>2. Slot(Count + 1) = nwrite % PIPESIZE
    BY <1>5, <2>1 DEF Slot
  <2>3. QED
    BY <1>6, <2>2 DEF TypeOK
<1>9. Queue' = [k \in 1..(Count + 1) |-> data'[Slot(k)]]
  BY SMTT(60), <1>4 DEF Queue, Slot
<1>10. Queue \in Seq(Bytes) /\ Len(Queue) = Count /\ \A k \in 1..Count : Queue[k] = data[Slot(k)]
  BY QueueIsSeq DEF Queue
<1>11. /\ Append(Queue, v) \in Seq(Bytes) /\ Len(Append(Queue, v)) = Count + 1
       /\ \A k \in 1..Count : Append(Queue, v)[k] = data[Slot(k)]
       /\ Append(Queue, v)[Count + 1] = v
  BY SMTT(60), <1>10, AppendProperties
<1>12. \A k \in 1..(Count + 1) : data'[Slot(k)] = Append(Queue, v)[k]
  BY SMTT(60), <1>2, <1>7, <1>8, <1>11
<1>13. \A k \in 1..(Count + 1) : data'[Slot(k)] \in Bytes
  BY <1>2, <1>11, <1>12, ElementOfSeq
<1>14. Queue' \in Seq(Bytes) /\ Len(Queue') = Count + 1
       /\ \A k \in 1..(Count + 1) : Queue'[k] = data'[Slot(k)]
  BY SMTT(60), <1>2, <1>9, <1>13
<1>15. Queue' = Append(Queue, v)
  BY <1>11, <1>12, <1>14, SeqEqual
<1>16. QED
  BY <1>2, <1>4, <1>15

(* Taking a byte from data[nread % PIPESIZE] removes the oldest.           *)
LEMMA TakeRemovesHead ==
  ASSUME TypeOK, TypeOK', ~Empty, data' = data, nwrite' = nwrite, nread' = Inc(nread)
  PROVE  /\ Queue # <<>> /\ data[nread % PIPESIZE] = Head(Queue)
         /\ Queue' = Tail(Queue) /\ Count' = Count - 1
<1>1. PIPESIZE \in Nat \ {0} /\ UintMod \in Nat /\ PIPESIZE < UintMod
      /\ nread \in 0..(UintMod - 1) /\ nwrite \in 0..(UintMod - 1)
  BY PipeAssumption DEF TypeOK
<1>2. Count \in Nat /\ Count > 0
  BY SMTT(60), <1>1, Counters
<1>3. Count' = IF nread' <= nwrite' THEN nwrite' - nread' ELSE nwrite' - nread' + UintMod
  <2>1. nread' \in 0..(UintMod - 1) /\ nwrite' \in 0..(UintMod - 1)
    BY DEF TypeOK
  <2>2. QED
    BY <2>1, Distance DEF Count
<1>4. Count' = Count - 1
  BY SMTT(60), <1>1, <1>2, <1>3, Counters
<1>5. Queue \in Seq(Bytes) /\ Len(Queue) = Count /\ Queue # <<>>
  BY SMTT(60), <1>2, QueueIsSeq
<1>6. \A k \in 1..Count : Queue[k] = data[Slot(k)]
  BY DEF Queue
<1>7. Head(Queue) = data[nread % PIPESIZE]
  <2>1. nread + 1 - 1 = nread
    BY SMTT(60), <1>1
  <2>2. Slot(1) = nread % PIPESIZE
    BY <2>1 DEF Slot
  <2>3. QED
    BY SMTT(60), <1>2, <1>5, <1>6, <2>2
<1>8. ASSUME NEW k \in 1..(Count - 1) PROVE Slot(k)' = Slot(k + 1)
  <2>1. nread' + k - 1 = nread + k \/ nread' + k - 1 = nread + k - UintMod
    BY SMTT(60), <1>1, <1>2, Counters
  <2>2. (nread + k - UintMod) % PIPESIZE = (nread + k) % PIPESIZE
    <3> DEFINE n == nread + k - UintMod
    <3>1. n \in Int /\ n + UintMod = nread + k
      BY SMTT(60), <1>1
    <3> HIDE DEF n
    <3>2. (n + UintMod) % PIPESIZE = n % PIPESIZE
      BY <3>1, WrapKeepsSlot
    <3>3. QED
      BY <3>1, <3>2 DEF n
  <2>3. nread + (k + 1) - 1 = nread + k
    BY SMTT(60), <1>1
  <2>4. QED
    BY <2>1, <2>2, <2>3 DEF Slot
<1>9. Queue' = [k \in 1..(Count - 1) |-> data[Slot(k + 1)]]
  BY <1>4, <1>8 DEF Queue
<1>10. /\ Tail(Queue) \in Seq(Bytes) /\ Len(Tail(Queue)) = Count - 1
       /\ \A k \in 1..(Count - 1) : Tail(Queue)[k] = Queue[k + 1]
  BY <1>5, HeadTailProperties
<1>11. \A k \in 1..(Count - 1) : data[Slot(k + 1)] = Tail(Queue)[k]
  BY SMTT(60), <1>2, <1>6, <1>10
<1>12. \A k \in 1..(Count - 1) : data[Slot(k + 1)] \in Bytes
  BY <1>2, <1>10, <1>11, ElementOfSeq
<1>13. Queue' \in Seq(Bytes) /\ Len(Queue') = Count - 1
       /\ \A k \in 1..(Count - 1) : Queue'[k] = data[Slot(k + 1)]
  BY SMTT(60), <1>2, <1>9, <1>12
<1>14. Queue' = Tail(Queue)
  BY <1>10, <1>11, <1>13, SeqEqual
<1>15. QED
  BY <1>4, <1>5, <1>7, <1>14

-----------------------------------------------------------------------------
(* pipealloc makes an empty pipe with both ends open.                      *)
LEMMA InitPInv == pipealloc => PInv
<1> SUFFICES ASSUME pipealloc PROVE PInv
  OBVIOUS
<1>1. TypeOK
  <2>1. nread \in 0..(UintMod - 1) /\ nwrite \in 0..(UintMod - 1)
    BY SMTT(60), PipeAssumption DEF pipealloc
  <2>2. data \in [0..(PIPESIZE - 1) -> Bytes]
    BY PipeAssumption DEF pipealloc
  <2>3. todo \in [Procs -> 0..MaxN]
    BY SMTT(60), PipeAssumption DEF pipealloc
  <2>4. QED
    BY <2>1, <2>2, <2>3 DEF pipealloc, TypeOK
<1>2. LockInv /\ SleepInv
  BY PipeAssumption DEF pipealloc, LockInv, SleepInv, Inside, Procs
<1>3. OpenInv
  BY PipeAssumption DEF pipealloc, OpenInv, Procs
<1>4. RingInv
  <2>1. Empty
    BY DEF pipealloc, Empty
  <2>2. QED
    BY SMTT(60), <1>1, <2>1, Counters, PipeAssumption DEF RingInv
<1>5. QED
  BY <1>1, <1>2, <1>3, <1>4 DEF PInv

(* Steps that leave buffer and counters alone.                             *)
LEMMA SameRing ==
  ASSUME UNCHANGED <<data, nread, nwrite>>
  PROVE  Queue' = Queue /\ Count' = Count /\ Full' = Full /\ Empty' = Empty
BY DEF Queue, Slot, Count, Full, Empty

(* A step that touches neither data nor ends is none of Stream.            *)
LEMMA QuietStep ==
  ASSUME UNCHANGED <<data, nread, nwrite, got, readopen, writeopen>>
  PROVE  [S!Next]_(S!vars)
BY DEF S!vars, Count

(* A call of read or write starts with all of its bytes to do.             *)
LEMMA CallStep ==
  ASSUME PInv, NEW p \in Procs, NEW n \in 1..MaxN, Call(p, n)
  PROVE  PInv' /\ [S!Next]_(S!vars)
<1>1. UNCHANGED <<data, nread, nwrite>>
  BY DEF Call, pipe
<1>2. TypeOK'
  BY SMTT(60), PipeAssumption DEF PInv, TypeOK, Procs, Call, Goto, pipe
<1>3. LockInv'
  BY PipeAssumption DEF PInv, TypeOK, LockInv, Inside, Procs, Call, Goto
<1>4. OpenInv'
  BY DEF PInv, TypeOK, OpenInv, Procs, Call, Goto, pipe
<1>5. RingInv'
  BY <1>1, SameRing DEF PInv, RingInv
<1>6. SleepInv'
  <2>1. UNCHANGED <<readopen, writeopen, killed>>
    BY DEF Call, pipe
  <2>2. /\ pc[p] \in {"idle", "acquire"} /\ pc'[p] # "asleep"
        /\ \A q \in Procs : q # p => pc'[q] = pc[q]
    BY DEF PInv, TypeOK, Call, Goto
  <2>3. QED
    BY SMTT(60), <1>1, <2>1, <2>2, SameRing DEF PInv, SleepInv, Procs
<1>7. [S!Next]_(S!vars)
  BY <1>1, QuietStep DEF Call, pipe
<1>8. QED
  BY <1>2, <1>3, <1>4, <1>5, <1>6, <1>7 DEF PInv

(* Taking pi->lock, on entry and on return from sleep.                     *)
LEMMA AcquireStep ==
  ASSUME PInv, NEW p \in Procs, Acquire(p)
  PROVE  PInv' /\ [S!Next]_(S!vars)
<1>1. UNCHANGED <<data, nread, nwrite>>
  BY DEF Acquire, pipe
<1>2. TypeOK'
  BY PipeAssumption DEF PInv, TypeOK, Procs, Acquire, Goto, pipe
<1>3. LockInv'
  BY PipeAssumption DEF PInv, TypeOK, LockInv, Inside, Procs, Acquire, Goto
<1>4. OpenInv'
  BY DEF PInv, TypeOK, OpenInv, Procs, Acquire, Goto, pipe
<1>5. RingInv'
  BY <1>1, SameRing DEF PInv, RingInv
<1>6. SleepInv'
  <2>1. UNCHANGED <<readopen, writeopen, killed>>
    BY DEF Acquire, pipe
  <2>2. /\ pc[p] \in {"idle", "acquire"} /\ pc'[p] # "asleep"
        /\ \A q \in Procs : q # p => pc'[q] = pc[q]
    BY DEF PInv, TypeOK, Acquire, Goto
  <2>3. QED
    BY SMTT(60), <1>1, <2>1, <2>2, SameRing DEF PInv, SleepInv, Procs
<1>7. [S!Next]_(S!vars)
  BY <1>1, QuietStep DEF Acquire, pipe
<1>8. QED
  BY <1>2, <1>3, <1>4, <1>5, <1>6, <1>7 DEF PInv

(* pipewrite returns -1 when the read end is closed or it was killed.      *)
LEMMA WriteAbortStep ==
  ASSUME PInv, NEW w \in Writers, write_abort(w)
  PROVE  PInv' /\ [S!Next]_(S!vars)
<1>1. UNCHANGED <<data, nread, nwrite>>
  BY DEF write_abort, pipe
<1>2. TypeOK'
  BY SMTT(60), PipeAssumption DEF PInv, TypeOK, Procs, write_abort, Goto, pipe
<1>3. LockInv'
  BY PipeAssumption DEF PInv, TypeOK, LockInv, Inside, Procs, write_abort, Goto
<1>4. OpenInv'
  BY DEF PInv, TypeOK, OpenInv, Procs, write_abort, Goto, pipe
<1>5. RingInv'
  BY <1>1, SameRing DEF PInv, RingInv
<1>6. SleepInv'
  BY SMTT(60), <1>1, SameRing, PipeAssumption DEF PInv, TypeOK, LockInv, Inside, OpenInv,
     SleepInv, Procs, write_abort, Goto, pipe
<1>7. [S!Next]_(S!vars)
  BY <1>1, QuietStep DEF write_abort, pipe
<1>8. QED
  BY <1>2, <1>3, <1>4, <1>5, <1>6, <1>7 DEF PInv

(* pipewrite finds the ring full: it wakes readers and sleeps on nwrite,   *)
(* which leaves no reader asleep beside data.                              *)
LEMMA WriteFullStep ==
  ASSUME PInv, NEW w \in Writers, write_full(w)
  PROVE  PInv' /\ [S!Next]_(S!vars)
<1>1. UNCHANGED <<data, nread, nwrite>>
  BY DEF write_full, pipe
<1>2. TypeOK'
  BY PipeAssumption DEF PInv, TypeOK, Procs, write_full, WakeReaders, WakeAnd, pipe
<1>3. LockInv'
  BY PipeAssumption DEF PInv, TypeOK, LockInv, Inside, Procs, write_full, WakeReaders, WakeAnd
<1>4. OpenInv'
  BY DEF PInv, TypeOK, OpenInv, Procs, write_full, WakeReaders, WakeAnd, pipe
<1>5. RingInv'
  BY <1>1, SameRing DEF PInv, RingInv
<1>6. SleepInv'
  BY <1>1, SameRing, PipeAssumption DEF PInv, TypeOK, LockInv, Inside, OpenInv,
     SleepInv, Procs, write_full, WakeReaders, WakeAnd, pipe
<1>7. [S!Next]_(S!vars)
  BY <1>1, QuietStep DEF write_full, pipe
<1>8. QED
  BY <1>2, <1>3, <1>4, <1>5, <1>6, <1>7 DEF PInv

(* pipewrite is done: its wakeup leaves no reader asleep.                  *)
LEMMA WriteEndStep ==
  ASSUME PInv, NEW w \in Writers, write_end(w)
  PROVE  PInv' /\ [S!Next]_(S!vars)
<1>1. UNCHANGED <<data, nread, nwrite>>
  BY DEF write_end, pipe
<1>2. TypeOK'
  BY SMTT(60), PipeAssumption DEF PInv, TypeOK, Procs, write_end, WakeReaders, WakeAnd, pipe
<1>3. LockInv'
  BY PipeAssumption DEF PInv, TypeOK, LockInv, Inside, Procs, write_end, WakeReaders, WakeAnd
<1>4. OpenInv'
  BY DEF PInv, TypeOK, OpenInv, Procs, write_end, WakeReaders, WakeAnd, pipe
<1>5. RingInv'
  BY <1>1, SameRing DEF PInv, RingInv
<1>6. SleepInv'
  BY SMTT(60), <1>1, SameRing, PipeAssumption DEF PInv, TypeOK, LockInv, Inside, OpenInv,
     SleepInv, Procs, write_end, WakeReaders, WakeAnd, pipe
<1>7. [S!Next]_(S!vars)
  BY <1>1, QuietStep DEF write_end, pipe
<1>8. QED
  BY <1>2, <1>3, <1>4, <1>5, <1>6, <1>7 DEF PInv

(* piperead finds the ring empty and sleeps, or leaves if killed.          *)
LEMMA ReadWaitStep ==
  ASSUME PInv, NEW r \in Readers, read_wait(r)
  PROVE  PInv' /\ [S!Next]_(S!vars)
<1>1. UNCHANGED <<data, nread, nwrite>>
  BY DEF read_wait, pipe
<1>2. TypeOK'
  <2>1. /\ pc' \in [Procs -> {"idle", "acquire", "asleep", "loop", "copy", "end"}]
        /\ todo' \in [Procs -> 0..MaxN]
    <3>1. CASE r \in killed
      <4>1. 0 \in 0..MaxN
        BY SMTT(60), PipeAssumption
      <4>2. /\ pc' = [pc EXCEPT ![r] = "idle"] /\ todo' = [todo EXCEPT ![r] = 0]
            /\ todo \in [Procs -> 0..MaxN]
            /\ pc \in [Procs -> {"idle", "acquire", "asleep", "loop", "copy", "end"}]
        BY <3>1 DEF read_wait, Goto, PInv, TypeOK
      <4>3. QED
        BY <4>1, <4>2
    <3>2. CASE r \notin killed
      BY <3>2 DEF PInv, TypeOK, Procs, read_wait, Goto
    <3>3. QED
      BY <3>1, <3>2
  <2>2. QED
    BY <2>1 DEF PInv, TypeOK, read_wait, pipe
<1>3. LockInv'
  BY PipeAssumption DEF PInv, TypeOK, LockInv, Inside, Procs, read_wait, Goto
<1>4. OpenInv'
  BY DEF PInv, TypeOK, OpenInv, Procs, read_wait, Goto, pipe
<1>5. RingInv'
  BY <1>1, SameRing DEF PInv, RingInv
<1>6. SleepInv'
  <2>1. UNCHANGED <<readopen, writeopen, killed>> /\ Empty /\ writeopen
    BY DEF read_wait, pipe
  <2>2. \A q \in Procs : q # r => pc'[q] = pc[q]
    BY DEF PInv, TypeOK, read_wait, Goto
  <2>3. \A q \in Readers : pc[q] \notin {"copy", "end"}
    BY DEF PInv, LockInv, Inside, Procs, read_wait
  <2>4. QED
    BY SMTT(60), <1>1, <2>1, <2>2, <2>3, SameRing, PipeAssumption DEF PInv, SleepInv, Procs
<1>7. [S!Next]_(S!vars)
  BY <1>1, QuietStep DEF read_wait, pipe
<1>8. QED
  BY <1>2, <1>3, <1>4, <1>5, <1>6, <1>7 DEF PInv

(* piperead is done: its wakeup leaves no writer asleep.                   *)
LEMMA ReadEndStep ==
  ASSUME PInv, NEW r \in Readers, read_end(r)
  PROVE  PInv' /\ [S!Next]_(S!vars)
<1>1. UNCHANGED <<data, nread, nwrite>>
  BY DEF read_end, pipe
<1>2. TypeOK'
  BY SMTT(60), PipeAssumption DEF PInv, TypeOK, Procs, read_end, WakeWriters, WakeAnd, pipe
<1>3. LockInv'
  BY PipeAssumption DEF PInv, TypeOK, LockInv, Inside, Procs, read_end, WakeWriters, WakeAnd
<1>4. OpenInv'
  BY DEF PInv, TypeOK, OpenInv, Procs, read_end, WakeWriters, WakeAnd, pipe
<1>5. RingInv'
  BY <1>1, SameRing DEF PInv, RingInv
<1>6. SleepInv'
  BY <1>1, SameRing, PipeAssumption DEF PInv, TypeOK, LockInv, Inside, OpenInv,
     SleepInv, Procs, read_end, WakeWriters, WakeAnd, pipe
<1>7. [S!Next]_(S!vars)
  BY <1>1, QuietStep DEF read_end, pipe
<1>8. QED
  BY <1>2, <1>3, <1>4, <1>5, <1>6, <1>7 DEF PInv

(* kill sets p->killed and wakes the process, whatever it waits for.       *)
LEMMA KillStep ==
  ASSUME PInv, NEW p \in Procs, kill(p)
  PROVE  PInv' /\ [S!Next]_(S!vars)
<1>1. UNCHANGED <<data, nread, nwrite>>
  BY DEF kill, pipe
<1>2. TypeOK'
  BY PipeAssumption DEF PInv, TypeOK, Procs, kill, pipe
<1>3. LockInv'
  BY PipeAssumption DEF PInv, TypeOK, LockInv, Inside, Procs, kill
<1>4. OpenInv'
  BY DEF PInv, TypeOK, OpenInv, Procs, kill, pipe
<1>5. RingInv'
  BY <1>1, SameRing DEF PInv, RingInv
<1>6. SleepInv'
  BY SMTT(60), <1>1, SameRing, PipeAssumption DEF PInv, TypeOK, LockInv, Inside, OpenInv,
     SleepInv, Procs, kill, pipe
<1>7. [S!Next]_(S!vars)
  BY <1>1, QuietStep DEF kill, pipe
<1>8. QED
  BY <1>2, <1>3, <1>4, <1>5, <1>6, <1>7 DEF PInv

(* Counters stay uints, indexes inside the buffer, and n - i in its range. *)
LEMMA InRange ==
  ASSUME NEW n \in 0..(UintMod - 1)
  PROVE  n % PIPESIZE \in 0..(PIPESIZE - 1) /\ Inc(n) \in 0..(UintMod - 1)
<1>1. n \in Int /\ n + 1 \in Int /\ PIPESIZE \in Nat \ {0} /\ UintMod \in Nat \ {0}
  BY SMTT(60), PipeAssumption
<1>2. QED
  BY <1>1, ModRange DEF Inc

(* One byte less to copy is still a count in range.                        *)
LEMMA OneLess ==
  ASSUME TypeOK, NEW p \in Procs, todo[p] > 0
  PROVE  [todo EXCEPT ![p] = @ - 1] \in [Procs -> 0..MaxN]
<1>1. todo \in [Procs -> 0..MaxN] /\ todo[p] \in 0..MaxN /\ MaxN \in Nat
  BY PipeAssumption DEF TypeOK
<1>2. todo[p] - 1 \in 0..MaxN
  BY SMTT(60), <1>1
<1>3. QED
  BY <1>1, <1>2

(* A copy loop's step: of the writer that holds the lock, or of the reader.*)
LEMMA PipewriteStep ==
  ASSUME PInv, NEW w \in Writers, pipewrite(w)
  PROVE  PInv' /\ [S!Next]_(S!vars)
<1>1. /\ pc[w] = "loop" /\ todo[w] > 0 /\ readopen /\ ~Full
      /\ UNCHANGED <<nread, readopen, writeopen, freed, lock, open, killed, got>>
  BY DEF pipewrite
<1>2. TypeOK /\ RingInv /\ w \in Procs
  BY DEF PInv, Procs
<1>3. writeopen
  BY <1>1, <1>2 DEF PInv, OpenInv
<1>4. \A r \in Readers : pc[r] \notin {"copy", "end"}
  BY <1>1, <1>2, PipeAssumption DEF PInv, LockInv, Inside, Procs
<1>5. \A x \in Writers : pc[x] # "asleep"
  BY <1>1, <1>4 DEF PInv, SleepInv
<1>6. ASSUME NEW v \in Bytes, data' = [data EXCEPT ![nwrite % PIPESIZE] = v],
             nwrite' = Inc(nwrite), todo' = [todo EXCEPT ![w] = @ - 1], pc' = pc
      PROVE  PInv' /\ [S!Next]_(S!vars)
  <2>1. TypeOK'
    <3>1. nwrite % PIPESIZE \in 0..(PIPESIZE - 1) /\ nwrite' \in 0..(UintMod - 1)
      BY <1>2, <1>6, InRange DEF TypeOK
    <3>2. todo' \in [Procs -> 0..MaxN]
      BY <1>1, <1>2, <1>6, OneLess
    <3>3. QED
      BY <1>1, <1>2, <1>6, <3>1, <3>2 DEF TypeOK
  <2>2. Queue' = Append(Queue, v) /\ Count' = Count + 1 /\ Count < PIPESIZE
    BY <1>1, <1>2, <1>6, <2>1, StoreAppends
  <2>3. Count \in Nat /\ PIPESIZE \in Nat
    BY <1>2, QueueIsSeq, PipeAssumption
  <2>4. RingInv'
    BY SMTT(60), <2>2, <2>3 DEF RingInv
  <2>5. LockInv' /\ OpenInv'
    BY <1>1, <1>6 DEF PInv, LockInv, Inside, OpenInv
  <2>6. SleepInv'
    BY <1>1, <1>3, <1>5, <1>6 DEF PInv, SleepInv
  <2>7. S!Put(v)
    BY <1>1, <1>2, <1>3, <2>2, QueueIsSeq DEF S!Put, Queue, Slot
  <2>8. QED
    BY <2>1, <2>4, <2>5, <2>6, <2>7 DEF PInv, S!Next
<1>7. CASE Goto(w, "end") /\ UNCHANGED <<data, nwrite, todo>>
  <2>1. TypeOK'
    BY <1>1, <1>2, <1>7 DEF TypeOK, Goto
  <2>2. pc'[w] = "end" /\ \A q \in Procs : q # w => pc'[q] = pc[q]
    BY <1>2, <1>7 DEF TypeOK, Goto
  <2>3. LockInv' /\ OpenInv'
    BY <1>1, <1>2, <2>2 DEF PInv, LockInv, Inside, OpenInv
  <2>4. RingInv'
    BY <1>1, <1>2, <1>7, SameRing DEF RingInv
  <2>5. SleepInv'
    BY <1>1, <1>3, <1>5, <2>2 DEF SleepInv, PInv, Procs
  <2>6. QED
    BY <1>1, <1>7, <2>1, <2>3, <2>4, <2>5, QuietStep DEF PInv
<1>8. QED
  BY <1>6, <1>7 DEF pipewrite

(* piperead takes one byte: it is the oldest, and the counters move on,    *)
(* also when nread wraps.                                                  *)
LEMMA PipereadStep ==
  ASSUME PInv, NEW r \in Readers, piperead(r)
  PROVE  PInv' /\ [S!Next]_(S!vars)
<1>1. /\ pc[r] = "copy" /\ todo[r] > 0 /\ ~Empty
      /\ got' = [got EXCEPT ![r] = data[nread % PIPESIZE]]
      /\ nread' = Inc(nread)
      /\ UNCHANGED <<data, nwrite, readopen, writeopen, freed, lock, open, killed>>
  BY DEF piperead
<1>2. TypeOK /\ RingInv /\ r \in Procs
  BY DEF PInv, Procs
<1>3. /\ pc'[r] \in {"copy", "end"} /\ \A q \in Procs : q # r => pc'[q] = pc[q]
      /\ pc' \in [Procs -> {"idle", "acquire", "asleep", "loop", "copy", "end"}]
      /\ todo' \in [Procs -> 0..MaxN]
  <2>1. CASE todo' = [todo EXCEPT ![r] = @ - 1] /\ UNCHANGED pc
    BY <1>1, <1>2, <2>1, OneLess DEF TypeOK
  <2>2. CASE Goto(r, "end") /\ UNCHANGED todo
    BY <1>1, <1>2, <2>2 DEF TypeOK, Goto
  <2>3. QED
    BY <2>1, <2>2 DEF piperead
<1>4. TypeOK'
  <2>1. nread % PIPESIZE \in 0..(PIPESIZE - 1) /\ nread' \in 0..(UintMod - 1)
    BY <1>1, <1>2, InRange DEF TypeOK
  <2>2. got' \in [Readers -> Bytes \cup {"nothing", "eof"}]
    BY <1>1, <1>2, <2>1 DEF TypeOK
  <2>3. QED
    BY <1>1, <1>2, <1>3, <2>1, <2>2 DEF TypeOK
<1>5. /\ Queue # <<>> /\ data[nread % PIPESIZE] = Head(Queue)
      /\ Queue' = Tail(Queue) /\ Count' = Count - 1
  BY <1>1, <1>2, <1>4, TakeRemovesHead
<1>6. RingInv'
  BY SMTT(60), <1>2, <1>5, QueueIsSeq, PipeAssumption DEF RingInv
<1>7. LockInv' /\ OpenInv'
  BY <1>1, <1>2, <1>3 DEF PInv, LockInv, Inside, OpenInv
<1>8. \A w \in Writers : pc[w] \notin {"loop", "end"}
  BY <1>1, <1>2, PipeAssumption DEF PInv, LockInv, Inside, Procs
<1>9. SleepInv'
  BY <1>1, <1>2, <1>3, <1>8 DEF PInv, SleepInv, Procs
<1>10. S!Get(r)
  BY <1>1, <1>5 DEF S!Get, Queue, Slot
<1>11. QED
  BY <1>4, <1>6, <1>7, <1>9, <1>10 DEF PInv, S!Next

(* The reader that holds the lock leaves the first loop.                   *)
LEMMA ReadReadyStep ==
  ASSUME PInv, NEW r \in Readers, read_ready(r)
  PROVE  PInv' /\ [S!Next]_(S!vars)
<1>1. /\ pc[r] = "loop" /\ ~(Empty /\ writeopen)
      /\ UNCHANGED <<data, nread, nwrite, readopen, writeopen, freed, lock, open, killed, todo>>
  BY DEF read_ready, pipe
<1>2. TypeOK /\ r \in Procs
  BY DEF PInv, Procs
<1>3. /\ pc'[r] \in {"copy", "end"} /\ \A q \in Procs : q # r => pc'[q] = pc[q]
      /\ pc' \in [Procs -> {"idle", "acquire", "asleep", "loop", "copy", "end"}]
      /\ got' = IF Empty THEN [got EXCEPT ![r] = "eof"] ELSE got
  <2>1. CASE Empty
    BY <1>2, <2>1 DEF read_ready, Goto, TypeOK
  <2>2. CASE ~Empty
    BY <1>2, <2>2 DEF read_ready, Goto, TypeOK
  <2>3. QED
    BY <2>1, <2>2
<1>4. TypeOK'
  <2>1. got' \in [Readers -> Bytes \cup {"nothing", "eof"}]
    BY <1>2, <1>3 DEF TypeOK
  <2>2. QED
    BY <1>1, <1>2, <1>3, <2>1 DEF TypeOK
<1>5. LockInv' /\ OpenInv'
  BY <1>1, <1>2, <1>3 DEF PInv, LockInv, Inside, OpenInv
<1>6. RingInv'
  BY <1>1, SameRing DEF PInv, RingInv
<1>7. SleepInv'
  <2>1. \A w \in Writers : pc[w] \notin {"loop", "end"}
    BY <1>1, <1>2, PipeAssumption DEF PInv, LockInv, Inside, Procs
  <2>2. QED
    BY <1>1, <1>3, <2>1, SameRing DEF PInv, SleepInv, Procs
<1>8. [S!Next]_(S!vars)
  <2>1. CASE Empty
    <3>1. Queue = <<>> /\ Queue' = Queue /\ ~writeopen
      BY <1>1, <1>2, <2>1, QueueIsSeq, Counters, SameRing
    <3>2. S!EndOfFile(r)
      BY <1>1, <1>3, <2>1, <3>1 DEF S!EndOfFile, Queue, Slot
    <3>3. QED
      BY <3>2 DEF S!Next
  <2>2. CASE ~Empty
    BY <1>1, <1>3, <2>2, QuietStep
  <2>3. QED
    BY <2>1, <2>2
<1>9. QED
  BY <1>4, <1>5, <1>6, <1>7, <1>8 DEF PInv

(* The last close of an end wakes the other side, before anybody can sleep *)
(* for that end again.                                                     *)
LEMMA PipecloseStep ==
  ASSUME PInv, NEW p \in Procs, pipeclose(p)
  PROVE  PInv' /\ [S!Next]_(S!vars)
<1>1. /\ pc[p] = "idle" /\ p \in open /\ open' = open \ {p} /\ (freed' <=> open' = {})
      /\ UNCHANGED <<data, nread, nwrite, lock, killed, todo, got>>
  BY DEF pipeclose, Unused
<1>2. TypeOK
  BY DEF PInv
<1> DEFINE Woke(set) == \A q \in Procs : pc'[q] = IF q \in set /\ pc[q] = "asleep"
                                                  THEN "acquire" ELSE pc[q]
<1>3. ASSUME NEW set, WakeAnd(set, p, "idle")
      PROVE  Woke(set) /\ pc' \in [Procs -> {"idle", "acquire", "asleep", "loop", "copy", "end"}]
  BY <1>1, <1>2, <1>3 DEF WakeAnd, TypeOK
<1>4. CASE p \in Writers /\ open' \cap Writers = {}
  <2>1. writeopen' = FALSE /\ readopen' = readopen /\ writeopen /\ lock = Nobody
        /\ WakeAnd(Readers, p, "idle")
    BY <1>1, <1>4 DEF pipeclose, WakeReaders, PInv, OpenInv
  <2>2. Woke(Readers) /\ pc' \in [Procs -> {"idle", "acquire", "asleep", "loop", "copy", "end"}]
    BY <1>3, <2>1
  <2>3. TypeOK'
    BY <1>1, <1>2, <2>1, <2>2 DEF pipeclose, Unused, TypeOK
  <2>4. LockInv' /\ RingInv'
    BY <1>1, <2>2, SameRing DEF PInv, LockInv, Inside, RingInv
  <2>5. OpenInv'
    BY SMTT(60), <1>1, <1>4, <2>1, <2>2, PipeAssumption DEF PInv, OpenInv, Procs
  <2>6. SleepInv'
    BY SMTT(60), <1>1, <2>1, <2>2, SameRing, PipeAssumption DEF PInv, SleepInv, Procs
  <2>7. S!Close
    BY <1>1, <2>1, SameRing DEF S!Close, Queue, Slot
  <2>8. QED
    BY <2>3, <2>4, <2>5, <2>6, <2>7 DEF PInv, S!Next
<1>5. CASE p \in Readers /\ open' \cap Readers = {}
  <2>1. readopen' = FALSE /\ writeopen' = writeopen /\ readopen /\ lock = Nobody
        /\ WakeAnd(Writers, p, "idle")
    BY <1>1, <1>5, PipeAssumption DEF pipeclose, WakeWriters, PInv, OpenInv
  <2>2. Woke(Writers) /\ pc' \in [Procs -> {"idle", "acquire", "asleep", "loop", "copy", "end"}]
    BY <1>3, <2>1
  <2>3. TypeOK'
    BY <1>1, <1>2, <2>1, <2>2 DEF pipeclose, Unused, TypeOK
  <2>4. LockInv' /\ RingInv'
    BY <1>1, <2>2, SameRing DEF PInv, LockInv, Inside, RingInv
  <2>5. OpenInv'
    BY SMTT(60), <1>1, <1>5, <2>1, <2>2, PipeAssumption DEF PInv, OpenInv, Procs
  <2>6. SleepInv'
    BY SMTT(60), <1>1, <2>1, <2>2, SameRing, PipeAssumption DEF PInv, SleepInv, Procs
  <2>7. S!Close
    BY <1>1, <2>1, SameRing DEF S!Close, Queue, Slot
  <2>8. QED
    BY <2>3, <2>4, <2>5, <2>6, <2>7 DEF PInv, S!Next
<1>6. CASE ~(p \in Writers /\ open' \cap Writers = {}) /\ ~(p \in Readers /\ open' \cap Readers = {})
  <2>1. UNCHANGED <<readopen, writeopen, pc>>
    BY <1>1, <1>6 DEF pipeclose
  <2>2. TypeOK'
    BY <1>1, <1>2, <2>1 DEF pipeclose, Unused, TypeOK
  <2>3. LockInv' /\ RingInv' /\ SleepInv'
    BY SMTT(60), <1>1, <2>1, SameRing DEF PInv, LockInv, Inside, RingInv, SleepInv
  <2>4. OpenInv'
    BY <1>1, <1>6, <2>1, PipeAssumption DEF PInv, OpenInv, Procs
  <2>5. QED
    BY <1>1, <2>1, <2>2, <2>3, <2>4, QuietStep DEF PInv
<1>7. QED
  BY <1>4, <1>5, <1>6

(* Every step keeps the invariant and is a step of the stream, or none.    *)
LEMMA NextPInv ==
  ASSUME PInv, [Next]_vars
  PROVE  PInv' /\ [S!Next]_(S!vars)
<1>1. ASSUME NEW p \in Procs, Step(p) PROVE PInv' /\ [S!Next]_(S!vars)
  BY <1>1, AcquireStep, WriteAbortStep, WriteFullStep, PipewriteStep, WriteEndStep,
     ReadWaitStep, ReadReadyStep, PipereadStep, ReadEndStep DEF Step
<1>2. ASSUME NEW p \in Procs, kill(p) \/ pipeclose(p) PROVE PInv' /\ [S!Next]_(S!vars)
  BY <1>2, KillStep, PipecloseStep
<1>3. ASSUME NEW p \in Procs, NEW n \in 1..MaxN, Call(p, n) PROVE PInv' /\ [S!Next]_(S!vars)
  BY <1>3, CallStep
<1>4. CASE UNCHANGED vars
  <2>1. TypeOK' /\ LockInv' /\ OpenInv'
    BY <1>4 DEF vars, PInv, TypeOK, LockInv, Inside, OpenInv
  <2>2. RingInv' /\ SleepInv'
    BY SMTT(60), <1>4, SameRing DEF vars, PInv, RingInv, SleepInv
  <2>3. QED
    BY <1>4, <2>1, <2>2, QuietStep DEF vars, PInv
<1>5. QED
  BY <1>1, <1>2, <1>3, <1>4 DEF Next

(* In every reachable state at most PIPESIZE bytes lie between nread and   *)
(* nwrite modulo the counters' width, pi->lock is held by the one call     *)
(* that is past acquire, calls are in progress only on ends that are open, *)
(* and whoever sleeps has a reason to.                                     *)
THEOREM PipeInvariant == Spec => []PInv
<1>1. PInv /\ [Next]_vars => PInv'
  BY NextPInv
<1>2. QED
  BY <1>1, InitPInv, PTL DEF Spec

(* Bytes come out once, in order, at most PIPESIZE are in flight and end   *)
(* of file means it, for any number of readers and writers and however     *)
(* often the counters wrap.                                                *)
THEOREM PipeImplementsStream == Spec => ImplementsStream
<1>1. pipealloc => S!Init
  <2> SUFFICES ASSUME pipealloc PROVE S!Init
    OBVIOUS
  <2>1. TypeOK
    BY InitPInv DEF PInv
  <2>2. Queue = <<>>
    BY <2>1, Counters, QueueIsSeq DEF pipealloc, Empty
  <2>3. QED
    BY <2>2 DEF pipealloc, S!Init, Queue, Slot
<1>2. PInv /\ [Next]_vars => [S!Next]_(S!vars)
  BY NextPInv
<1>3. QED
  BY <1>1, <1>2, PipeInvariant, PTL DEF Spec, ImplementsStream, S!Spec

(* No sleeper in piperead or pipewrite is forgotten.                       *)
THEOREM PipeSleepJustified == Spec => []SleepJustified
<1>1. PInv => SleepJustified
  <2> SUFFICES ASSUME PInv, lock = Nobody
               PROVE  /\ \A w \in Writers : pc[w] = "asleep" => Full /\ readopen
                      /\ \A r \in Readers : pc[r] = "asleep" =>
                           writeopen /\ (Empty \/ Writers \cap killed # {})
    BY DEF SleepJustified
  <2>1. \A p \in Procs : ~Inside(p)
    BY PipeAssumption DEF PInv, LockInv
  <2>2. QED
    BY <2>1 DEF PInv, SleepInv, Inside, Procs
<1>2. QED
  BY <1>1, PipeInvariant, PTL

(* No call touches the page after pipeclose has given it to kfree.         *)
THEOREM PipeNotFreedInUse == Spec => [](freed => \A p \in Procs : pc[p] = "idle")
<1>1. PInv => (freed => \A p \in Procs : pc[p] = "idle")
  BY DEF PInv, OpenInv
<1>2. QED
  BY <1>1, PipeInvariant, PTL
=============================================================================
