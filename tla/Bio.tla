-------------------------------- MODULE Bio --------------------------------
(* The buffer cache, kernel/bio.c, and the sleep locks of its buffers,     *)
(* kernel/sleeplock.c.                                                     *)
(*                                                                         *)
(* Threads bread a block, change it, bwrite or bpin it and brelse it; a    *)
(* thread may take a second block meanwhile, as bmap, itrunc and           *)
(* install_trans do (an indirect block before a bitmap or data block, a    *)
(* log block before a home block: always in one order, here upwards).      *)
(* What the code does under bcache.lock is one step, and so is what it     *)
(* does under the spin lock of a sleep lock.                               *)
EXTENDS Integers, FiniteSets, Sequences, Functions

CONSTANTS Threads,
          NBLOCK,    \* number of blocks
          Values,    \* contents of a block
          Nested,    \* the threads that take a second block
          NBUF,      \* number of buffers
          MaxPins    \* bound on the number of pins in force

Bufs     == 1..NBUF
Blocknos == 1..NBLOCK
NoBlock  == 0           \* blockno of a buffer never used
Nobody   == "nobody"

ASSUME BioAssumption == /\ {NBUF, NBLOCK} \subseteq Nat \ {0} /\ MaxPins \in Nat
                        /\ Nested \subseteq Threads
                        /\ IsFiniteSet(Threads) /\ Nobody \notin Threads

VARIABLES
  blockno,   \* b->blockno
  valid,     \* b->valid
  refcnt,    \* b->refcnt
  data,      \* b->data
  locked,    \* b->lock: the thread that holds it, or Nobody
  lru,       \* the list from bcache.head.next (most recent) to head.prev
  disk,      \* the blocks on disk
  pins,      \* bpin calls not yet undone, per block
  pc,        \* of each thread
  cur,       \* the buffer it is working on
  outer,     \* a buffer it keeps locked meanwhile, or 0
  dirty,     \* did it change the data and not write or pin it yet?
  bpanicked

biovars == <<blockno, valid, refcnt, data, locked, lru, disk, pins, pc, cur, outer,
          dirty, bpanicked>>

BioTypeOK ==
  /\ blockno \in [Bufs -> Blocknos \cup {NoBlock}]
  /\ valid \in [Bufs -> BOOLEAN]
  /\ refcnt \in [Bufs -> Nat]
  /\ data \in [Bufs -> Values] /\ disk \in [Blocknos -> Values]
  /\ locked \in [Bufs -> Threads \cup {Nobody}]
  /\ lru \in Seq(Bufs)
  /\ pins \in [Blocknos -> Nat]
  /\ pc \in [Threads -> {"idle", "lock", "asleep", "read", "use", "unref"}]
  /\ cur \in [Threads -> 0..NBUF] /\ outer \in [Threads -> 0..NBUF]
  /\ dirty \in [Threads -> BOOLEAN]
  /\ bpanicked \in BOOLEAN

(* binit links every buffer in front of the previous one.                  *)
binit ==
  /\ blockno = [i \in Bufs |-> NoBlock]
  /\ valid = [i \in Bufs |-> FALSE]
  /\ refcnt = [i \in Bufs |-> 0]
  /\ disk \in [Blocknos -> Values]
  /\ \E v \in Values : data = [i \in Bufs |-> v]
  /\ locked = [i \in Bufs |-> Nobody]
  /\ lru = [k \in Bufs |-> NBUF + 1 - k]
  /\ pins = [b \in Blocknos |-> 0]
  /\ pc = [t \in Threads |-> "idle"]
  /\ cur = [t \in Threads |-> 0] /\ outer = [t \in Threads |-> 0]
  /\ dirty = [t \in Threads |-> FALSE]
  /\ bpanicked = FALSE

-----------------------------------------------------------------------------
(* The first unreferenced buffer from the end of the list.                 *)
Recyclable(i) ==
  \E k \in DOMAIN lru :
    /\ lru[k] = i /\ refcnt[i] = 0
    /\ \A j \in DOMAIN lru : j > k => refcnt[lru[j]] # 0

Cached(b) == {i \in Range(lru) : blockno[i] = b}

(* The first scan of bget: the block is cached, take a reference.          *)
bget_hit(t, b) ==
  /\ \E i \in Cached(b) :
       /\ refcnt' = [refcnt EXCEPT ![i] = @ + 1]
       /\ cur' = [cur EXCEPT ![t] = i]
  /\ pc' = [pc EXCEPT ![t] = "lock"]
  /\ UNCHANGED <<blockno, valid, bpanicked>>

(* Mutant of Invalidated: the buffer stays valid.                          *)
Invalidated_not(i) == valid

Invalidated(i) == [valid EXCEPT ![i] = FALSE]

(* The second scan: recycle the least recently used unreferenced buffer.   *)
bget_recycle(t, b) ==
  /\ Cached(b) = {}
  /\ \E i \in Bufs :
       /\ Recyclable(i)
       /\ blockno' = [blockno EXCEPT ![i] = b]
       /\ valid' = Invalidated(i)
       /\ refcnt' = [refcnt EXCEPT ![i] = 1]
       /\ cur' = [cur EXCEPT ![t] = i]
  /\ pc' = [pc EXCEPT ![t] = "lock"]
  /\ UNCHANGED bpanicked

(* No such buffer: panic("bget: no buffers").                              *)
bget_panic(t, b) ==
  /\ Cached(b) = {} /\ \A i \in Range(lru) : refcnt[i] # 0
  /\ bpanicked' = TRUE
  /\ UNCHANGED <<blockno, valid, refcnt, cur, outer, pc>>

(* bget(b), up to the call of acquiresleep: a first block, or a second one.*)
bget(t, b) ==
  /\ \/ pc[t] = "idle"
     \/ /\ t \in Nested /\ pc[t] = "use" /\ outer[t] = 0 /\ ~dirty[t]
        /\ blockno[cur[t]] < b
  /\ \/ bget_panic(t, b)
     \/ /\ bget_hit(t, b) \/ bget_recycle(t, b)
        /\ outer' = [outer EXCEPT ![t] = cur[t]]
  /\ UNCHANGED <<data, locked, lru, disk, pins, dirty>>

SleepLocked(i) == locked[i] # Nobody

(* acquiresleep: sleep while the lock is held, else take it.               *)
acquiresleep(t) ==
  /\ pc[t] = "lock"
  /\ IF SleepLocked(cur[t])
     THEN pc' = [pc EXCEPT ![t] = "asleep"] /\ UNCHANGED locked
     ELSE /\ locked' = [locked EXCEPT ![cur[t]] = t]
          /\ pc' = [pc EXCEPT ![t] = IF valid[cur[t]] THEN "use" ELSE "read"]
  /\ UNCHANGED <<blockno, valid, refcnt, data, lru, disk, pins, cur, outer, dirty,
                 bpanicked>>

(* bread: virtio_disk_rw reads the block into a buffer not yet valid.      *)
bread(t) ==
  /\ pc[t] = "read"
  /\ data' = [data EXCEPT ![cur[t]] = disk[blockno[cur[t]]]]
  /\ valid' = [valid EXCEPT ![cur[t]] = TRUE]
  /\ pc' = [pc EXCEPT ![t] = "use"]
  /\ UNCHANGED <<blockno, refcnt, locked, lru, disk, pins, cur, outer, dirty, bpanicked>>

(* The caller changes the contents of its locked buffer.                   *)
Modify(t, v) ==
  /\ pc[t] = "use"
  /\ data' = [data EXCEPT ![cur[t]] = v]
  /\ dirty' = [dirty EXCEPT ![t] = TRUE]
  /\ UNCHANGED <<blockno, valid, refcnt, locked, lru, disk, pins, pc, cur, outer,
                 bpanicked>>

(* bwrite panics unless the caller holds the lock.                         *)
bwrite(t) ==
  /\ pc[t] = "use"
  /\ IF locked[cur[t]] = t
     THEN /\ disk' = [disk EXCEPT ![blockno[cur[t]]] = data[cur[t]]]
          /\ UNCHANGED bpanicked
     ELSE bpanicked' = TRUE /\ UNCHANGED disk
  /\ dirty' = [dirty EXCEPT ![t] = FALSE]
  /\ UNCHANGED <<blockno, valid, refcnt, data, locked, lru, pins, pc, cur, outer>>

PinCount == FoldFunction(LAMBDA n, m : n + m, 0, pins)

Pinned(i) == refcnt[i] + 1

(* log_write pins a changed buffer instead of writing it, once per block.  *)
bpin(t) ==
  LET b == blockno[cur[t]] IN
  /\ pc[t] = "use" /\ dirty[t]
  /\ pins[b] > 0 \/ PinCount < MaxPins
  /\ refcnt' = [refcnt EXCEPT ![cur[t]] = IF pins[b] = 0 THEN Pinned(cur[t]) ELSE @]
  /\ pins' = [pins EXCEPT ![b] = 1]
  /\ dirty' = [dirty EXCEPT ![t] = FALSE]
  /\ UNCHANGED <<blockno, valid, data, locked, lru, disk, pc, cur, outer, bpanicked>>

(* install_trans writes a pinned block home, under the lock, and unpins it.*)
bunpin(t) ==
  LET b == blockno[cur[t]] IN
  /\ pc[t] = "use" /\ pins[b] > 0 /\ disk[b] = data[cur[t]]
  /\ refcnt' = [refcnt EXCEPT ![cur[t]] = @ - 1]
  /\ pins' = [pins EXCEPT ![b] = 0]
  /\ UNCHANGED <<blockno, valid, data, locked, lru, disk, pc, cur, outer, dirty,
                 bpanicked>>

(* wakeup of the threads asleep on buffer i's lock.                        *)
Woken(i) == [u \in Threads |-> IF pc[u] = "asleep" /\ cur[u] = i THEN "lock" ELSE pc[u]]

(* brelse, first part: releasesleep and its wakeup.                        *)
brelse(t) ==
  /\ pc[t] = "use" /\ ~dirty[t]
  /\ bpanicked' = (bpanicked \/ locked[cur[t]] # t)
  /\ locked' = [locked EXCEPT ![cur[t]] = Nobody]
  /\ pc' = [Woken(cur[t]) EXCEPT ![t] = "unref"]
  /\ UNCHANGED <<blockno, valid, refcnt, data, lru, disk, pins, cur, outer, dirty>>

(* Mutant of Unreferenced: the reference is dropped twice.                 *)
Unreferenced_twice(i) == refcnt[i] - 2

Unreferenced(i) == refcnt[i] - 1

(* The list with i moved to the front.                                     *)
MostRecent(i) ==
  LET at == CHOOSE k \in DOMAIN lru : lru[k] = i
  IN [k \in DOMAIN lru |-> IF k = 1 THEN i ELSE IF k <= at THEN lru[k - 1] ELSE lru[k]]

(* Second part: drop the reference; an unreferenced buffer becomes the     *)
(* most recently used.                                                     *)
brelse_unref(t) ==
  LET i == cur[t] IN
  /\ pc[t] = "unref"
  /\ refcnt' = [refcnt EXCEPT ![i] = Unreferenced(i)]
  /\ lru' = IF refcnt[i] = 1 THEN MostRecent(i) ELSE lru
  /\ pc' = [pc EXCEPT ![t] = IF outer[t] = 0 THEN "idle" ELSE "use"]
  /\ cur' = [cur EXCEPT ![t] = outer[t]]
  /\ outer' = [outer EXCEPT ![t] = 0]
  /\ UNCHANGED <<blockno, valid, data, locked, disk, pins, dirty, bpanicked>>

BioNext ==
  ~bpanicked /\ \E t \in Threads :
    \/ \E b \in Blocknos : bget(t, b)
    \/ acquiresleep(t) \/ bread(t) \/ bwrite(t) \/ bpin(t) \/ bunpin(t)
    \/ brelse(t) \/ brelse_unref(t)
    \/ \E v \in Values : Modify(t, v)

BioSpec == binit /\ [][BioNext]_biovars

-----------------------------------------------------------------------------

(* A block has at most one buffer, whatever two bgets race for it, and     *)
(* refcnt counts the threads between bget and the end of brelse and the    *)
(* pins, so that no buffer in use or pinned is recycled.                   *)
CacheExact ==
  /\ \A i, j \in Bufs : i # j /\ blockno[i] # NoBlock => blockno[i] # blockno[j]
  /\ \A i \in Bufs :
       refcnt[i] = Cardinality({t \in Threads : cur[t] = i})
                   + Cardinality({t \in Threads : outer[t] = i})
                   + (IF blockno[i] = NoBlock THEN 0 ELSE pins[blockno[i]])

(* What a reader of the block would get now.                               *)
View(b) ==
  IF \E i \in Cached(b) : valid[i]
  THEN data[CHOOSE i \in Cached(b) : valid[i]] ELSE disk[b]

(* The cache is coherent: the contents of a block, as the next bread will  *)
(* see them, change only when the thread that holds its lock changes them; *)
(* no eviction, refill or write-back loses or revives anything.            *)
Coherent ==
  [][\A b \in Blocknos :
       View(b)' # View(b) =>
         \E t \in Threads : pc[t] = "use" /\ blockno[cur[t]] = b /\ locked[cur[t]] = t]_biovars

=============================================================================
