----------------------------- MODULE BioProofs ------------------------------
(* Theorems about Bio, for any number of threads, blocks and buffers.      *)
EXTENDS Bio, FiniteSetTheorems, TLAPS

(* A leaf goes to Zenon, unless it names the SMT solver, which alone does   *)
(* arithmetic.                                                             *)
USE ZenonT(60)

(* References to buffer i: by the threads that work on it or keep it, and  *)
(* by a pin of its block.                                                  *)
Users(f, i) == {t \in Threads : f[t] = i}
PinOf(i)    == IF blockno[i] = NoBlock THEN 0 ELSE pins[blockno[i]]

BTypes ==
  /\ blockno \in [Bufs -> Blocknos \cup {NoBlock}]
  /\ valid \in [Bufs -> BOOLEAN] /\ refcnt \in [Bufs -> Nat]
  /\ data \in [Bufs -> Values] /\ disk \in [Blocknos -> Values]
  /\ locked \in [Bufs -> Threads \cup {Nobody}]
  /\ lru \in [Bufs -> Bufs] /\ pins \in [Blocknos -> {0, 1}]
  /\ pc \in [Threads -> {"idle", "lock", "asleep", "read", "use", "unref"}]
  /\ cur \in [Threads -> 0..NBUF] /\ outer \in [Threads -> 0..NBUF]
  /\ dirty \in [Threads -> BOOLEAN] /\ bpanicked \in BOOLEAN

(* The list has every buffer.                                              *)
ListInv == \A i \in Bufs : \E k \in Bufs : lru[k] = i

UniqueInv == \A i, j \in Bufs : i # j /\ blockno[i] # NoBlock => blockno[i] # blockno[j]

RefInv ==
  \A i \in Bufs : refcnt[i] = Cardinality(Users(cur, i)) + Cardinality(Users(outer, i)) + PinOf(i)

(* Where a thread stands, and what that says of its buffers.               *)
ThreadOK(t) ==
  /\ cur[t] = 0 <=> pc[t] = "idle"
  /\ cur[t] # 0 => blockno[cur[t]] # NoBlock
  /\ outer[t] # 0 => /\ cur[t] # 0 /\ valid[outer[t]]
                     /\ blockno[outer[t]] # NoBlock /\ blockno[outer[t]] < blockno[cur[t]]
  /\ pc[t] = "read" => ~valid[cur[t]]
  /\ pc[t] = "use" => valid[cur[t]]
  /\ dirty[t] => pc[t] = "use"

ThreadInv == \A t \in Threads : ThreadOK(t)

(* Who holds the sleep lock of a buffer.                                   *)
Holds(t, i) == (cur[t] = i /\ pc[t] \in {"read", "use"}) \/ outer[t] = i
LockInv == \A t \in Threads, i \in Bufs : locked[i] = t <=> Holds(t, i)

(* A pinned block is cached, and what is in memory only is pinned or in    *)
(* the hands of the thread that changed it.                                *)
PinInv == \A b \in Blocknos : pins[b] = 1 => \E i \in Bufs : blockno[i] = b
CleanInv ==
  \A i \in Bufs : blockno[i] # NoBlock /\ valid[i] /\ data[i] # disk[blockno[i]] =>
    pins[blockno[i]] = 1 \/ \E t \in Threads : cur[t] = i /\ dirty[t]

BInv == /\ BTypes /\ ListInv /\ UniqueInv /\ RefInv /\ ThreadInv /\ LockInv /\ PinInv /\ CleanInv


-----------------------------------------------------------------------------
(* Counting.                                                               *)
LEMMA UsersFinite ==
  ASSUME NEW f, NEW i
  PROVE  IsFiniteSet(Users(f, i)) /\ Cardinality(Users(f, i)) \in Nat
<1>1. Users(f, i) \subseteq Threads
  BY DEF Users
<1>2. IsFiniteSet(Users(f, i))
  BY <1>1, BioAssumption, FS_Subset
<1>3. QED
  BY <1>2, FS_CardinalityType

One(a, b) == IF a = b THEN 1 ELSE 0

Moved(f, g, t, j) == f \in [Threads -> 0..NBUF] /\ g = [f EXCEPT ![t] = j]

(* How the number of users of a buffer changes when a thread turns to      *)
(* another one.                                                            *)
LEMMA UsersMove ==
  ASSUME NEW t \in Threads, NEW j, NEW i, NEW f, NEW g, Moved(f, g, t, j)
  PROVE  Cardinality(Users(g, i)) =
           Cardinality(Users(f, i)) + One(j, i) - One(f[t], i)
<1>1. Cardinality(Users(f, i)) \in Nat /\ IsFiniteSet(Users(f, i))
  BY UsersFinite
<1>2. CASE j = i /\ f[t] # i
  <2>1. Users(g, i) = Users(f, i) \cup {t} /\ t \notin Users(f, i)
    BY <1>2 DEF Users, Moved
  <2>2. Cardinality(Users(g, i)) = Cardinality(Users(f, i)) + 1
    BY <1>1, <2>1, FS_AddElement
  <2>3. QED
    BY SMTT(60), <1>1, <1>2, <2>2 DEF One
<1>3. CASE j # i /\ f[t] = i
  <2>1. Users(g, i) = Users(f, i) \ {t} /\ t \in Users(f, i)
    BY <1>3 DEF Users, Moved
  <2>2. Cardinality(Users(g, i)) = Cardinality(Users(f, i)) - 1
    BY <1>1, <2>1, FS_RemoveElement
  <2>3. QED
    BY SMTT(60), <1>1, <1>3, <2>2 DEF One
<1>4. CASE (j = i) <=> (f[t] = i)
  <2>1. Users(g, i) = Users(f, i)
    BY <1>4 DEF Users, Moved
  <2>2. QED
    BY SMTT(60), <1>1, <1>4, <2>1 DEF One
<1>5. QED
  BY <1>2, <1>3, <1>4

(* Nobody uses a buffer that has no users.                                 *)
LEMMA NoUsers ==
  ASSUME NEW f, NEW i, Cardinality(Users(f, i)) = 0
  PROVE  \A t \in Threads : f[t] # i
<1>1. Users(f, i) = {}
  BY UsersFinite, FS_EmptySet
<1>2. QED
  BY <1>1 DEF Users

(* A buffer without references is in nobody's hands and not pinned.        *)
LEMMA Unreferred ==
  ASSUME BInv, NEW i \in Bufs, refcnt[i] = 0
  PROVE  /\ PinOf(i) = 0 /\ locked[i] = Nobody
         /\ Cardinality(Users(cur, i)) = 0 /\ Cardinality(Users(outer, i)) = 0
         /\ \A t \in Threads : cur[t] # i /\ outer[t] # i
<1>1. PinOf(i) \in Nat
  BY SMTT(60) DEF BInv, BTypes, PinOf
<1>2. /\ Cardinality(Users(cur, i)) \in Nat /\ Cardinality(Users(outer, i)) \in Nat
      /\ refcnt[i] = Cardinality(Users(cur, i)) + Cardinality(Users(outer, i)) + PinOf(i)
  BY UsersFinite DEF BInv, RefInv
<1>3. PinOf(i) = 0 /\ Cardinality(Users(cur, i)) = 0 /\ Cardinality(Users(outer, i)) = 0
  BY SMTT(60), <1>1, <1>2
<1>4. \A t \in Threads : cur[t] # i /\ outer[t] # i
  BY <1>3, NoUsers
<1>5. locked[i] = Nobody
  BY SMTT(60), <1>4 DEF BInv, BTypes, LockInv, Holds
<1>6. QED
  BY <1>3, <1>4, <1>5

(* Steps that leave references and the list alone.                         *)
LEMMA SameRefs ==
  ASSUME BInv, UNCHANGED <<blockno, refcnt, pins, cur, outer>>
  PROVE  UniqueInv' /\ RefInv' /\ PinInv'
<1>1. UniqueInv' /\ PinInv'
  BY DEF BInv, UniqueInv, PinInv
<1>2. \A i \in Bufs : PinOf(i)' = PinOf(i)
  BY DEF PinOf
<1>3. RefInv'
  BY <1>2 DEF BInv, RefInv
<1>4. QED
  BY <1>1, <1>3

(* A step that leaves the list alone keeps its order.                      *)
LEMMA SameList ==
  ASSUME BInv, UNCHANGED lru
  PROVE  ListInv'
BY DEF BInv, ListInv

-----------------------------------------------------------------------------
(* acquiresleep gets the buffer's lock, or sleeps.                         *)
LEMMA AcquireStep ==
  ASSUME BInv, NEW t \in Threads, acquiresleep(t)
  PROVE  BInv'
<1>1. /\ pc[t] = "lock"
      /\ UNCHANGED <<blockno, valid, refcnt, data, lru, disk, pins, cur, outer, dirty, bpanicked>>
      /\ cur[t] \in Bufs
  BY SMTT(60) DEF acquiresleep, BInv, BTypes, ThreadInv, ThreadOK, Bufs
<1>2. BTypes'
  BY <1>1 DEF acquiresleep, BInv, BTypes
<1>3. ListInv' /\ UniqueInv' /\ RefInv' /\ PinInv'
  BY <1>1, SameRefs, SameList
<1>4. ThreadInv'
  BY SMTT(60), <1>1 DEF acquiresleep, BInv, BTypes, ThreadInv, ThreadOK
<1>5. LockInv'
  <2>1. CASE SleepLocked(cur[t])
    BY SMTT(60), <1>1, <2>1 DEF acquiresleep, BInv, BTypes, LockInv, Holds
  <2>2. CASE ~SleepLocked(cur[t])
    <3>1. /\ locked[cur[t]] = Nobody /\ locked' = [locked EXCEPT ![cur[t]] = t]
          /\ pc'[t] \in {"read", "use"} /\ \A u \in Threads \ {t} : pc'[u] = pc[u]
      BY <2>2 DEF acquiresleep, SleepLocked, BInv, BTypes
    <3>2. \A u \in Threads : ~Holds(u, cur[t])
      BY <1>1, <3>1, BioAssumption DEF BInv, LockInv
    <3>3. QED
      BY SMTT(60), <1>1, <3>1, <3>2, BioAssumption DEF BInv, BTypes, LockInv, Holds
  <2>3. QED
    BY <2>1, <2>2
<1>6. CleanInv'
  BY <1>1 DEF BInv, CleanInv
<1>7. QED
  BY <1>2, <1>3, <1>4, <1>5, <1>6 DEF BInv

(* bread fills a buffer that is not valid from the disk.                   *)
LEMMA ReadStep ==
  ASSUME BInv, NEW t \in Threads, bread(t)
  PROVE  BInv'
<1>1. /\ pc[t] = "read" /\ cur[t] \in Bufs /\ blockno[cur[t]] \in Blocknos
      /\ data' = [data EXCEPT ![cur[t]] = disk[blockno[cur[t]]]]
      /\ valid' = [valid EXCEPT ![cur[t]] = TRUE]
      /\ pc' = [pc EXCEPT ![t] = "use"]
      /\ UNCHANGED <<blockno, refcnt, locked, lru, disk, pins, cur, outer, dirty, bpanicked>>
  BY SMTT(60) DEF bread, BInv, BTypes, ThreadInv, ThreadOK, Bufs
<1>2. BTypes'
  BY <1>1 DEF BInv, BTypes
<1>3. ListInv' /\ UniqueInv' /\ RefInv' /\ PinInv'
  BY <1>1, SameRefs, SameList
<1>4. ThreadInv'
  <2>1. ASSUME NEW u \in Threads, u # t, pc[u] = "read" PROVE cur[u] # cur[t]
    BY SMTT(60), <1>1, <2>1 DEF BInv, LockInv, Holds
  <2>2. QED
    BY SMTT(60), <1>1, <2>1 DEF BInv, BTypes, ThreadInv, ThreadOK
<1>5. LockInv'
  BY SMTT(60), <1>1 DEF BInv, BTypes, LockInv, Holds
<1>6. CleanInv'
  BY SMTT(60), <1>1 DEF BInv, BTypes, CleanInv
<1>7. QED
  BY <1>2, <1>3, <1>4, <1>5, <1>6 DEF BInv

(* The holder of the lock changes the data.                                *)
LEMMA ModifyStep ==
  ASSUME BInv, NEW t \in Threads, NEW v \in Values, Modify(t, v)
  PROVE  BInv'
<1>1. /\ pc[t] = "use" /\ cur[t] \in Bufs
      /\ data' = [data EXCEPT ![cur[t]] = v]
      /\ dirty' = [dirty EXCEPT ![t] = TRUE]
      /\ UNCHANGED <<blockno, valid, refcnt, locked, lru, disk, pins, pc, cur, outer, bpanicked>>
  BY SMTT(60) DEF Modify, BInv, BTypes, ThreadInv, ThreadOK, Bufs
<1>2. BTypes'
  BY <1>1 DEF BInv, BTypes
<1>3. ListInv' /\ UniqueInv' /\ RefInv' /\ PinInv'
  BY <1>1, SameRefs, SameList
<1>4. ThreadInv'
  BY SMTT(60), <1>1 DEF BInv, BTypes, ThreadInv, ThreadOK
<1>5. LockInv'
  BY <1>1 DEF BInv, LockInv, Holds
<1>6. CleanInv'
  <2> SUFFICES ASSUME NEW i \in Bufs, blockno[i] # NoBlock, valid[i], data'[i] # disk[blockno[i]]
               PROVE  pins[blockno[i]] = 1 \/ \E u \in Threads : cur[u] = i /\ dirty'[u]
    BY SMTT(60), <1>1 DEF CleanInv
  <2>1. CASE i = cur[t]
    BY <1>1, <2>1 DEF BInv, BTypes
  <2>2. CASE i # cur[t]
    BY <1>1, <2>2 DEF BInv, BTypes, CleanInv
  <2>3. QED
    BY <2>1, <2>2
<1>7. QED
  BY <1>2, <1>3, <1>4, <1>5, <1>6 DEF BInv

(* Whoever is at "use" holds the lock: bwrite and brelse do not panic.     *)
LEMMA UserHolds ==
  ASSUME BInv, NEW t \in Threads, pc[t] = "use"
  PROVE  /\ cur[t] \in Bufs /\ blockno[cur[t]] \in Blocknos /\ locked[cur[t]] = t
         /\ \A u \in Threads \ {t} : cur[u] = cur[t] => pc[u] # "use" /\ pc[u] # "read" /\ ~dirty[u]
         /\ \A u \in Threads \ {t} : outer[u] # cur[t]
<1>1. cur[t] \in Bufs /\ blockno[cur[t]] \in Blocknos
  BY SMTT(60) DEF BInv, BTypes, ThreadInv, ThreadOK, Bufs
<1>2. locked[cur[t]] = t
  BY <1>1 DEF BInv, LockInv, Holds
<1>3. QED
  BY SMTT(60), <1>1, <1>2 DEF BInv, LockInv, Holds, ThreadInv, ThreadOK

(* bwrite: block and buffer are then equal.                                *)
LEMMA WriteStep ==
  ASSUME BInv, NEW t \in Threads, bwrite(t)
  PROVE  BInv'
<1>1. pc[t] = "use"
  BY DEF bwrite
<1>2. /\ cur[t] \in Bufs /\ blockno[cur[t]] \in Blocknos /\ locked[cur[t]] = t
  BY <1>1, UserHolds
<1>3. /\ disk' = [disk EXCEPT ![blockno[cur[t]]] = data[cur[t]]]
      /\ dirty' = [dirty EXCEPT ![t] = FALSE]
      /\ UNCHANGED <<blockno, valid, refcnt, data, locked, lru, pins, pc, cur, outer, bpanicked>>
  BY <1>2 DEF bwrite
<1>4. BTypes'
  BY <1>2, <1>3 DEF BInv, BTypes
<1>5. ListInv' /\ UniqueInv' /\ RefInv' /\ PinInv'
  BY <1>3, SameRefs, SameList
<1>6. ThreadInv' /\ LockInv'
  BY SMTT(60), <1>3 DEF BInv, BTypes, ThreadInv, ThreadOK, LockInv, Holds
<1>7. CleanInv'
  <2> SUFFICES ASSUME NEW i \in Bufs, blockno[i] # NoBlock, valid[i], data[i] # disk'[blockno[i]]
               PROVE  pins[blockno[i]] = 1 \/ \E u \in Threads : cur[u] = i /\ dirty'[u]
    BY <1>3 DEF CleanInv
  <2>1. blockno[i] \in Blocknos
    BY SMTT(60) DEF BInv, BTypes
  <2>2. i # cur[t]
    BY <1>2, <1>3 DEF BInv, BTypes
  <2>3. blockno[i] # blockno[cur[t]]
    BY <1>2, <2>2 DEF BInv, UniqueInv
  <2>4. disk'[blockno[i]] = disk[blockno[i]]
    BY <1>2, <1>3, <2>1, <2>3 DEF BInv, BTypes
  <2>5. QED
    BY <1>3, <2>2, <2>4 DEF BInv, BTypes, CleanInv
<1>8. QED
  BY <1>4, <1>5, <1>6, <1>7 DEF BInv

(* brelse releases the sleep lock and keeps the reference.                 *)
LEMMA ReleaseStep ==
  ASSUME BInv, NEW t \in Threads, brelse(t)
  PROVE  BInv'
<1>1. pc[t] = "use" /\ ~dirty[t]
  BY DEF brelse
<1>2. /\ cur[t] \in Bufs /\ locked[cur[t]] = t
      /\ \A u \in Threads \ {t} : cur[u] = cur[t] => pc[u] # "use" /\ pc[u] # "read" /\ ~dirty[u]
      /\ \A u \in Threads \ {t} : outer[u] # cur[t]
  BY <1>1, UserHolds
<1>3. /\ locked' = [locked EXCEPT ![cur[t]] = Nobody]
      /\ pc'[t] = "unref"
      /\ \A u \in Threads \ {t} : pc'[u] = pc[u] \/ (pc[u] = "asleep" /\ pc'[u] = "lock")
      /\ bpanicked' = bpanicked
      /\ UNCHANGED <<blockno, valid, refcnt, data, lru, disk, pins, cur, outer, dirty>>
  BY <1>2 DEF brelse, Woken, BInv, BTypes
<1>4. pc' \in [Threads -> {"idle", "lock", "asleep", "read", "use", "unref"}]
  BY DEF brelse, Woken, BInv, BTypes
<1>5. BTypes'
  BY <1>3, <1>4 DEF BInv, BTypes
<1>6. ListInv' /\ UniqueInv' /\ RefInv' /\ PinInv'
  BY <1>3, SameRefs, SameList
<1>7. ThreadInv'
  BY SMTT(60), <1>1, <1>2, <1>3 DEF BInv, BTypes, ThreadInv, ThreadOK
<1>8. LockInv'
  <2>1. outer[t] # cur[t]
    <3>1. blockno[cur[t]] \in Int
      BY SMTT(60), <1>2, BioAssumption DEF BInv, BTypes, Blocknos, NoBlock
    <3>2. ThreadOK(t) /\ cur[t] # 0
      BY SMTT(60), <1>2 DEF BInv, ThreadInv, Bufs
    <3>3. QED
      BY SMTT(60), <3>1, <3>2 DEF ThreadOK
  <2>2. QED
    BY SMTT(60), <1>1, <1>2, <1>3, <2>1, BioAssumption DEF BInv, BTypes, LockInv, Holds
<1>9. CleanInv'
  BY <1>3 DEF BInv, CleanInv
<1>10. QED
  BY <1>5, <1>6, <1>7, <1>8, <1>9 DEF BInv

-----------------------------------------------------------------------------
(* bget moves a thread on to buffer i, keeping the one it has.             *)
CanGet(t, b) ==
  \/ pc[t] = "idle"
  \/ pc[t] = "use" /\ outer[t] = 0 /\ ~dirty[t] /\ blockno[cur[t]] < b

(* What holds of a thread that may call bget.                              *)
LEMMA GetFrom ==
  ASSUME BInv, NEW t \in Threads, NEW b, CanGet(t, b)
  PROVE  /\ outer[t] = 0 /\ ~dirty[t] /\ cur[t] \in 0..NBUF
         /\ cur[t] # 0 => cur[t] \in Bufs /\ valid[cur[t]] /\ blockno[cur[t]] < b /\ pc[t] = "use"
BY SMTT(60) DEF CanGet, BInv, BTypes, ThreadInv, ThreadOK, Bufs

(* bget adds one user to the buffer it returns and to no other.            *)
LEMMA GetCounts ==
  ASSUME BInv, NEW t \in Threads, outer[t] = 0, NEW i \in Bufs,
         cur' = [cur EXCEPT ![t] = i], outer' = [outer EXCEPT ![t] = cur[t]], NEW x \in Bufs
  PROVE  Cardinality(Users(cur', x)) + Cardinality(Users(outer', x)) =
           Cardinality(Users(cur, x)) + Cardinality(Users(outer, x)) + (IF x = i THEN 1 ELSE 0)
<1>1. cur \in [Threads -> 0..NBUF] /\ outer \in [Threads -> 0..NBUF] /\ cur[t] \in 0..NBUF /\ i \in 0..NBUF
  BY SMTT(60) DEF BInv, BTypes, Bufs
<1>2. Cardinality(Users(cur', x)) =
        Cardinality(Users(cur, x)) + One(i, x) - One(cur[t], x)
  <2>1. Moved(cur, cur', t, i)
    BY <1>1 DEF Moved
  <2>2. QED
    BY SMTT(60), <2>1, UsersMove
<1>3. Cardinality(Users(outer', x)) =
        Cardinality(Users(outer, x)) + One(cur[t], x) - One(outer[t], x)
  <2>1. Moved(outer, outer', t, cur[t])
    BY <1>1 DEF Moved
  <2>2. QED
    BY SMTT(60), <2>1, UsersMove
<1>4. outer[t] # x
  BY SMTT(60) DEF Bufs
<1>5. Cardinality(Users(cur, x)) \in Nat /\ Cardinality(Users(outer, x)) \in Nat
  BY UsersFinite
<1>6. QED
  BY SMTT(60), <1>2, <1>3, <1>4, <1>5 DEF One

(* bget finds the block cached and adds a reference.                       *)
LEMMA HitStep ==
  ASSUME BInv, NEW t \in Threads, NEW b \in Blocknos, CanGet(t, b), bget_hit(t, b),
         outer' = [outer EXCEPT ![t] = cur[t]], UNCHANGED <<data, locked, lru, disk, pins, dirty>>
  PROVE  BInv'
<1>1. PICK i \in Cached(b) : refcnt' = [refcnt EXCEPT ![i] = @ + 1] /\ cur' = [cur EXCEPT ![t] = i]
  BY DEF bget_hit
<1>2. i \in Bufs /\ blockno[i] = b /\ b # NoBlock
  BY SMTT(60), <1>1 DEF Cached, Range, BInv, BTypes, Blocknos, NoBlock
<1>3. /\ pc' = [pc EXCEPT ![t] = "lock"]
      /\ UNCHANGED <<blockno, valid, bpanicked, data, locked, lru, disk, pins, dirty>>
  BY DEF bget_hit
<1>4. /\ outer[t] = 0 /\ ~dirty[t] /\ cur[t] \in 0..NBUF
      /\ cur[t] # 0 => cur[t] \in Bufs /\ valid[cur[t]] /\ blockno[cur[t]] < b /\ pc[t] = "use"
  BY GetFrom
<1>5. BTypes'
  <2>1. i \in 0..NBUF
    BY SMTT(60), <1>2 DEF Bufs
  <2>2. refcnt' \in [Bufs -> Nat] /\ cur' \in [Threads -> 0..NBUF] /\ outer' \in [Threads -> 0..NBUF]
    BY SMTT(60), <1>1, <1>2, <1>4, <2>1 DEF BInv, BTypes
  <2>3. QED
    BY <1>3, <2>2 DEF BInv, BTypes
<1>6. ListInv' /\ UniqueInv' /\ PinInv'
  BY <1>3 DEF BInv, ListInv, UniqueInv, PinInv
<1>7. RefInv'
  <2> SUFFICES ASSUME NEW x \in Bufs
               PROVE  refcnt'[x] = Cardinality(Users(cur', x)) + Cardinality(Users(outer', x)) + PinOf(x)'
    BY DEF RefInv
  <2>1. PinOf(x)' = PinOf(x) /\ PinOf(x) \in Nat
    BY SMTT(60), <1>3 DEF PinOf, BInv, BTypes
  <2>2. Cardinality(Users(cur', x)) + Cardinality(Users(outer', x)) =
          Cardinality(Users(cur, x)) + Cardinality(Users(outer, x)) + (IF x = i THEN 1 ELSE 0)
    BY <1>1, <1>2, <1>4, GetCounts
  <2>3. Cardinality(Users(cur, x)) \in Nat /\ Cardinality(Users(outer, x)) \in Nat
    BY UsersFinite
  <2>4. refcnt'[x] = refcnt[x] + (IF x = i THEN 1 ELSE 0)
    BY SMTT(60), <1>1, <1>2 DEF BInv, BTypes
  <2>5. refcnt[x] = Cardinality(Users(cur, x)) + Cardinality(Users(outer, x)) + PinOf(x)
    BY DEF BInv, RefInv
  <2>6. QED
    BY SMTT(60), <2>1, <2>2, <2>3, <2>4, <2>5
<1>8. ThreadInv'
  <2>1. ThreadOK(t)'
    <3>1. i # 0 /\ cur'[t] = i /\ outer'[t] = cur[t] /\ pc'[t] = "lock" /\ ~dirty'[t]
      BY SMTT(60), <1>1, <1>2, <1>3, <1>4 DEF BInv, BTypes, Bufs
    <3>2. cur[t] # 0 => blockno[cur[t]] # NoBlock
      BY DEF BInv, ThreadInv, ThreadOK
    <3>3. QED
      BY <1>2, <1>3, <1>4, <3>1, <3>2 DEF ThreadOK
  <2>2. ASSUME NEW u \in Threads, u # t PROVE ThreadOK(u)'
    BY SMTT(60), <1>1, <1>2, <1>3, <2>2 DEF BInv, BTypes, ThreadInv, ThreadOK
  <2>3. QED
    BY <2>1, <2>2 DEF ThreadInv
<1>9. LockInv'
  BY SMTT(60), <1>1, <1>2, <1>3, <1>4 DEF BInv, BTypes, LockInv, Holds, CanGet, Bufs, ThreadInv, ThreadOK
<1>10. CleanInv'
  BY SMTT(60), <1>1, <1>3, <1>4 DEF BInv, BTypes, CleanInv
<1>11. QED
  BY <1>5, <1>6, <1>7, <1>8, <1>9, <1>10 DEF BInv

(* bget recycles a buffer without references: it is clean, unlocked and    *)
(* nobody's, and no other buffer holds the block.                          *)
LEMMA RecycleStep ==
  ASSUME BInv, NEW t \in Threads, NEW b \in Blocknos, CanGet(t, b), bget_recycle(t, b),
         outer' = [outer EXCEPT ![t] = cur[t]], UNCHANGED <<data, locked, lru, disk, pins, dirty>>
  PROVE  BInv'
<1>1. PICK i \in Bufs : /\ refcnt[i] = 0
                        /\ blockno' = [blockno EXCEPT ![i] = b]
                        /\ valid' = [valid EXCEPT ![i] = FALSE]
                        /\ refcnt' = [refcnt EXCEPT ![i] = 1] /\ cur' = [cur EXCEPT ![t] = i]
  BY DEF bget_recycle, Recyclable, Invalidated
<1>2. /\ PinOf(i) = 0 /\ locked[i] = Nobody
      /\ Cardinality(Users(cur, i)) = 0 /\ Cardinality(Users(outer, i)) = 0
      /\ \A u \in Threads : cur[u] # i /\ outer[u] # i
  BY <1>1, Unreferred
<1>3. /\ pc' = [pc EXCEPT ![t] = "lock"]
      /\ UNCHANGED <<bpanicked, data, locked, lru, disk, pins, dirty>>
  BY DEF bget_recycle
<1>4. /\ outer[t] = 0 /\ ~dirty[t] /\ cur[t] \in 0..NBUF
      /\ cur[t] # 0 => cur[t] \in Bufs /\ valid[cur[t]] /\ blockno[cur[t]] < b /\ pc[t] = "use"
  BY GetFrom
<1>5. /\ \A j \in Bufs : blockno[j] # b
      /\ pins[b] = 0 /\ b # NoBlock
  <2>1. Cached(b) = {}
    BY DEF bget_recycle
  <2>2. \A j \in Bufs : j \in Range(lru)
    BY SMTT(60) DEF BInv, BTypes, ListInv, Range
  <2>3. \A j \in Bufs : blockno[j] # b
    BY <2>1, <2>2 DEF Cached
  <2>4. pins[b] = 0
    BY <2>3 DEF BInv, BTypes, PinInv
  <2>5. QED
    BY SMTT(60), <2>3, <2>4 DEF Blocknos, NoBlock
<1>6. BTypes'
  BY SMTT(60), <1>1, <1>3, <1>4 DEF BInv, BTypes, Bufs
<1>7. ListInv' /\ UniqueInv'
  BY SMTT(60), <1>1, <1>3, <1>5 DEF BInv, BTypes, ListInv, UniqueInv
<1>8. PinInv'
  BY SMTT(60), <1>1, <1>2, <1>3, <1>5 DEF BInv, BTypes, PinInv, PinOf, Blocknos, NoBlock
<1>9. RefInv'
  <2> SUFFICES ASSUME NEW x \in Bufs
               PROVE  refcnt'[x] = Cardinality(Users(cur', x)) + Cardinality(Users(outer', x)) + PinOf(x)'
    BY DEF RefInv
  <2>1. PinOf(x)' = PinOf(x) /\ PinOf(x) \in Nat
    BY SMTT(60), <1>1, <1>2, <1>3, <1>5 DEF PinOf, BInv, BTypes
  <2>2. Cardinality(Users(cur', x)) + Cardinality(Users(outer', x)) =
          Cardinality(Users(cur, x)) + Cardinality(Users(outer, x)) + (IF x = i THEN 1 ELSE 0)
    BY <1>1, <1>4, GetCounts
  <2>3. Cardinality(Users(cur, x)) \in Nat /\ Cardinality(Users(outer, x)) \in Nat
    BY UsersFinite
  <2>4. refcnt'[x] = refcnt[x] + (IF x = i THEN 1 ELSE 0)
    BY SMTT(60), <1>1 DEF BInv, BTypes
  <2>5. refcnt[x] = Cardinality(Users(cur, x)) + Cardinality(Users(outer, x)) + PinOf(x)
    BY DEF BInv, RefInv
  <2>6. QED
    BY SMTT(60), <2>1, <2>2, <2>3, <2>4, <2>5
<1>10. ThreadInv'
  <2>1. ThreadOK(t)'
    BY SMTT(60), <1>1, <1>2, <1>3, <1>4, <1>5 DEF BInv, BTypes, ThreadInv, ThreadOK, Bufs
  <2>2. ASSUME NEW u \in Threads, u # t PROVE ThreadOK(u)'
    <3>1. /\ cur'[u] = cur[u] /\ outer'[u] = outer[u] /\ pc'[u] = pc[u] /\ dirty'[u] = dirty[u]
          /\ cur[u] # i /\ outer[u] # i /\ cur[u] \in 0..NBUF /\ outer[u] \in 0..NBUF
      BY <1>1, <1>2, <1>3, <2>2 DEF BInv, BTypes
    <3>2. \A j \in Bufs : j # i => valid'[j] = valid[j] /\ blockno'[j] = blockno[j]
      BY <1>1 DEF BInv, BTypes
    <3>3. /\ cur[u] # 0 => cur[u] \in Bufs
          /\ outer[u] # 0 => outer[u] \in Bufs
      BY SMTT(60), <3>1 DEF Bufs
    <3>4. ThreadOK(u)
      BY DEF BInv, ThreadInv
    <3>5. QED
      BY <3>1, <3>2, <3>3, <3>4 DEF ThreadOK
  <2>3. QED
    BY <2>1, <2>2 DEF ThreadInv
<1>11. LockInv'
  BY SMTT(60), <1>1, <1>2, <1>3, <1>4 DEF BInv, BTypes, LockInv, Holds, CanGet, Bufs, ThreadInv, ThreadOK
<1>12. CleanInv'
  <2> SUFFICES ASSUME NEW j \in Bufs, blockno'[j] # NoBlock, valid'[j], data[j] # disk[blockno'[j]]
               PROVE  pins[blockno'[j]] = 1 \/ \E u \in Threads : cur'[u] = j /\ dirty[u]
    BY <1>3 DEF CleanInv
  <2>1. j # i /\ blockno'[j] = blockno[j] /\ valid'[j] = valid[j]
    BY <1>1 DEF BInv, BTypes
  <2>2. pins[blockno[j]] = 1 \/ \E u \in Threads : cur[u] = j /\ dirty[u]
    BY <2>1 DEF BInv, CleanInv
  <2>3. QED
    BY SMTT(60), <1>1, <1>4, <2>1, <2>2 DEF BInv, BTypes
<1>13. QED
  BY <1>6, <1>7, <1>8, <1>9, <1>10, <1>11, <1>12 DEF BInv

(* A panic leaves everything as it is.                                     *)
LEMMA PanicStep ==
  ASSUME BInv, bpanicked' \in BOOLEAN,
         UNCHANGED <<blockno, valid, refcnt, data, locked, lru, disk, pins, pc, cur, outer, dirty>>
  PROVE  BInv'
<1>1. BTypes'
  BY DEF BInv, BTypes
<1>2. ListInv' /\ UniqueInv' /\ RefInv' /\ PinInv'
  BY SameRefs, SameList
<1>3. ThreadInv' /\ LockInv' /\ CleanInv'
  BY SMTT(60) DEF BInv, ThreadInv, ThreadOK, LockInv, Holds, CleanInv
<1>4. QED
  BY <1>1, <1>2, <1>3 DEF BInv

(* bget, with its three ways to end.                                       *)
LEMMA GetStep ==
  ASSUME BInv, NEW t \in Threads, NEW b \in Blocknos, bget(t, b)
  PROVE  BInv'
<1>1. CanGet(t, b)
  BY DEF bget, CanGet
<1>2. CASE bget_panic(t, b)
  BY <1>2, PanicStep DEF bget, bget_panic
<1>3. CASE bget_hit(t, b) /\ outer' = [outer EXCEPT ![t] = cur[t]]
  BY <1>1, <1>3, HitStep DEF bget
<1>4. CASE bget_recycle(t, b) /\ outer' = [outer EXCEPT ![t] = cur[t]]
  BY <1>1, <1>4, RecycleStep DEF bget
<1>5. QED
  BY <1>2, <1>3, <1>4 DEF bget

-----------------------------------------------------------------------------
(* Only the buffer of block b counts its pins.                             *)
LEMMA PinCounts ==
  ASSUME BInv, NEW t \in Threads, pc[t] = "use", NEW n \in {0, 1},
         pins' = [pins EXCEPT ![blockno[cur[t]]] = n], UNCHANGED blockno, NEW x \in Bufs
  PROVE  /\ PinOf(x) \in {0, 1}
         /\ PinOf(x)' = IF x = cur[t] THEN n ELSE PinOf(x)
<1>1. cur[t] \in Bufs /\ blockno[cur[t]] \in Blocknos
  BY UserHolds
<1>2. blockno[cur[t]] # NoBlock
  BY SMTT(60), <1>1 DEF Blocknos, NoBlock
<1>3. blockno[x] \in Blocknos \cup {NoBlock}
  BY DEF BInv, BTypes
<1>4. x # cur[t] => blockno[x] # blockno[cur[t]]
  BY <1>1, <1>2 DEF BInv, UniqueInv
<1>5. \A b \in Blocknos : pins'[b] = IF b = blockno[cur[t]] THEN n ELSE pins[b]
  BY <1>1 DEF BInv, BTypes
<1>6. PinOf(x) \in {0, 1}
  BY <1>3 DEF PinOf, BInv, BTypes
<1>7. QED
  BY <1>1, <1>2, <1>3, <1>4, <1>5, <1>6 DEF PinOf

(* bpin adds a reference that is not a thread's.                           *)
LEMMA PinStep ==
  ASSUME BInv, NEW t \in Threads, bpin(t)
  PROVE  BInv'
<1>1. /\ pc[t] = "use" /\ dirty[t]
      /\ refcnt' = [refcnt EXCEPT ![cur[t]] = IF pins[blockno[cur[t]]] = 0 THEN Pinned(cur[t]) ELSE @]
      /\ pins' = [pins EXCEPT ![blockno[cur[t]]] = 1]
      /\ dirty' = [dirty EXCEPT ![t] = FALSE]
      /\ UNCHANGED <<blockno, valid, data, locked, lru, disk, pc, cur, outer, bpanicked>>
  BY DEF bpin
<1>2. /\ cur[t] \in Bufs /\ blockno[cur[t]] \in Blocknos
      /\ \A u \in Threads \ {t} : cur[u] = cur[t] => pc[u] # "use" /\ pc[u] # "read" /\ ~dirty[u]
  BY <1>1, UserHolds
<1>3. \A x \in Bufs : PinOf(x) \in {0, 1} /\ PinOf(x)' = IF x = cur[t] THEN 1 ELSE PinOf(x)
  BY <1>1, PinCounts
<1>4. pins[blockno[cur[t]]] = PinOf(cur[t])
  BY SMTT(60), <1>2 DEF PinOf, Blocknos, NoBlock
<1>5. \A x \in Bufs : refcnt'[x] = IF x = cur[t] THEN refcnt[x] + 1 - PinOf(x) ELSE refcnt[x]
  BY SMTT(60), <1>1, <1>2, <1>3, <1>4 DEF BInv, BTypes, Pinned
<1>6. refcnt' \in [Bufs -> Nat] /\ pins' \in [Blocknos -> {0, 1}]
  BY SMTT(60), <1>1, <1>2 DEF BInv, BTypes, Pinned
<1>7. BTypes'
  BY <1>1, <1>6 DEF BInv, BTypes
<1>8. ListInv' /\ UniqueInv' /\ ThreadInv' /\ LockInv'
  BY SMTT(60), <1>1 DEF BInv, BTypes, ListInv, UniqueInv, ThreadInv, ThreadOK, LockInv, Holds
<1>9. PinInv'
  BY <1>1, <1>2 DEF BInv, BTypes, PinInv
<1>10. RefInv'
  <2> SUFFICES ASSUME NEW x \in Bufs
               PROVE  refcnt'[x] = Cardinality(Users(cur, x)) + Cardinality(Users(outer, x)) + PinOf(x)'
    BY <1>1 DEF RefInv
  <2>1. Cardinality(Users(cur, x)) \in Nat /\ Cardinality(Users(outer, x)) \in Nat
    BY UsersFinite
  <2>2. refcnt[x] = Cardinality(Users(cur, x)) + Cardinality(Users(outer, x)) + PinOf(x)
    BY DEF BInv, RefInv
  <2>3. QED
    BY SMTT(60), <1>3, <1>5, <2>1, <2>2
<1>11. CleanInv'
  <2> SUFFICES ASSUME NEW i \in Bufs, blockno[i] # NoBlock, valid[i], data[i] # disk[blockno[i]]
               PROVE  pins'[blockno[i]] = 1 \/ \E u \in Threads : cur[u] = i /\ dirty'[u]
    BY SMTT(60), <1>1 DEF CleanInv
  <2>1. blockno[i] \in Blocknos
    BY SMTT(60) DEF BInv, BTypes
  <2>2. pins[blockno[i]] = 1 \/ \E u \in Threads : cur[u] = i /\ dirty[u]
    BY DEF BInv, CleanInv
  <2>3. pins[blockno[i]] = 1 => pins'[blockno[i]] = 1
    BY <1>1, <2>1 DEF BInv, BTypes
  <2>4. i = cur[t] => pins'[blockno[i]] = 1
    BY <1>1, <2>1 DEF BInv, BTypes
  <2>5. QED
    BY <1>1, <2>2, <2>3, <2>4 DEF BInv, BTypes
<1>12. QED
  BY <1>7, <1>8, <1>9, <1>10, <1>11 DEF BInv

(* bunpin takes back such a reference.                                     *)
LEMMA UnpinStep ==
  ASSUME BInv, NEW t \in Threads, bunpin(t)
  PROVE  BInv'
<1>1. /\ pc[t] = "use" /\ pins[blockno[cur[t]]] > 0 /\ disk[blockno[cur[t]]] = data[cur[t]]
      /\ refcnt' = [refcnt EXCEPT ![cur[t]] = @ - 1]
      /\ pins' = [pins EXCEPT ![blockno[cur[t]]] = 0]
      /\ UNCHANGED <<blockno, valid, data, locked, lru, disk, pc, cur, outer, dirty, bpanicked>>
  BY DEF bunpin
<1>2. cur[t] \in Bufs /\ blockno[cur[t]] \in Blocknos
  BY <1>1, UserHolds
<1>3. \A x \in Bufs : PinOf(x) \in {0, 1} /\ PinOf(x)' = IF x = cur[t] THEN 0 ELSE PinOf(x)
  BY <1>1, PinCounts
<1>4. PinOf(cur[t]) = 1
  BY SMTT(60), <1>1, <1>2 DEF PinOf, Blocknos, NoBlock, BInv, BTypes
<1>5. \A x \in Bufs : refcnt'[x] = IF x = cur[t] THEN refcnt[x] - 1 ELSE refcnt[x]
  BY <1>1, <1>2 DEF BInv, BTypes
<1>6. RefInv'
  <2> SUFFICES ASSUME NEW x \in Bufs
               PROVE  refcnt'[x] = Cardinality(Users(cur, x)) + Cardinality(Users(outer, x)) + PinOf(x)'
    BY <1>1 DEF RefInv
  <2>1. Cardinality(Users(cur, x)) \in Nat /\ Cardinality(Users(outer, x)) \in Nat
    BY UsersFinite
  <2>2. refcnt[x] = Cardinality(Users(cur, x)) + Cardinality(Users(outer, x)) + PinOf(x)
    BY DEF BInv, RefInv
  <2>3. QED
    BY SMTT(60), <1>3, <1>4, <1>5, <2>1, <2>2
<1>7. refcnt' \in [Bufs -> Nat] /\ pins' \in [Blocknos -> {0, 1}]
  <2>1. \A x \in Bufs : refcnt'[x] \in Nat
    <3> TAKE x \in Bufs
    <3>1. Cardinality(Users(cur, x)) \in Nat /\ Cardinality(Users(outer, x)) \in Nat
      BY UsersFinite
    <3>2. refcnt'[x] = Cardinality(Users(cur, x)) + Cardinality(Users(outer, x)) + PinOf(x)'
      BY <1>1, <1>6 DEF RefInv
    <3>3. QED
      BY SMTT(60), <1>3, <3>1, <3>2
  <2>2. QED
    BY <1>1, <1>2, <2>1 DEF BInv, BTypes
<1>8. BTypes'
  BY <1>1, <1>7 DEF BInv, BTypes
<1>9. ListInv' /\ UniqueInv' /\ ThreadInv' /\ LockInv'
  BY SMTT(60), <1>1 DEF BInv, ListInv, UniqueInv, ThreadInv, ThreadOK, LockInv, Holds
<1>10. PinInv'
  BY <1>1, <1>2 DEF BInv, BTypes, PinInv
<1>11. CleanInv'
  <2> SUFFICES ASSUME NEW i \in Bufs, blockno[i] # NoBlock, valid[i], data[i] # disk[blockno[i]]
               PROVE  pins'[blockno[i]] = 1 \/ \E u \in Threads : cur[u] = i /\ dirty[u]
    BY SMTT(60), <1>1 DEF CleanInv
  <2>1. blockno[i] \in Blocknos
    BY SMTT(60) DEF BInv, BTypes
  <2>2. pins[blockno[i]] = 1 \/ \E u \in Threads : cur[u] = i /\ dirty[u]
    BY DEF BInv, CleanInv
  <2>3. i # cur[t]
    BY <1>1
  <2>4. blockno[i] # blockno[cur[t]]
    BY <1>2, <2>3 DEF BInv, UniqueInv
  <2>5. QED
    BY <1>1, <2>1, <2>2, <2>4 DEF BInv, BTypes
<1>12. QED
  BY <1>6, <1>8, <1>9, <1>10, <1>11 DEF BInv

(* Moving a buffer to the front loses none.                                *)
LEMMA MoveToFront ==
  ASSUME BInv, NEW i \in Bufs, lru' \in {lru, MostRecent(i)}
  PROVE  lru' \in [Bufs -> Bufs] /\ ListInv'
<1>1. CASE lru' = lru
  BY <1>1 DEF BInv, BTypes, ListInv
<1>2. CASE lru' = MostRecent(i)
  <2> DEFINE at == CHOOSE k \in DOMAIN lru : lru[k] = i
  <2>1. lru \in [Bufs -> Bufs] /\ at \in Bufs /\ lru[at] = i
    BY DEF BInv, BTypes, ListInv
  <2> HIDE DEF at
  <2>2. lru' = [k \in Bufs |-> IF k = 1 THEN i ELSE IF k <= at THEN lru[k - 1] ELSE lru[k]]
    BY <1>2, <2>1 DEF MostRecent, at
  <2>3. NBUF \in Nat \ {0}
    BY BioAssumption
  <2>4. \A k \in Bufs : k # 1 => k - 1 \in Bufs
    BY SMTT(60), <2>3 DEF Bufs
  <2>5. lru' \in [Bufs -> Bufs]
    BY <2>1, <2>2, <2>4
  <2>6. ASSUME NEW j \in Bufs PROVE \E k \in Bufs : lru'[k] = j
    <3>1. PICK k \in Bufs : lru[k] = j
      BY DEF BInv, ListInv
    <3>2. CASE k = at
      <4>1. 1 \in Bufs /\ lru'[1] = i
        BY SMTT(60), <2>2, <2>3 DEF Bufs
      <4>2. QED
        BY <2>1, <3>1, <3>2, <4>1
    <3>3. CASE k < at
      <4>1. k + 1 \in Bufs /\ k + 1 # 1 /\ k + 1 <= at /\ (k + 1) - 1 = k
        BY SMTT(60), <2>1, <2>3, <3>3 DEF Bufs
      <4>2. lru'[k + 1] = j
        BY <2>2, <3>1, <4>1
      <4>3. QED
        BY <4>1, <4>2
    <3>4. CASE k > at
      <4>1. k # 1 /\ ~(k <= at)
        BY SMTT(60), <2>1, <2>3, <3>4 DEF Bufs
      <4>2. QED
        BY <2>2, <3>1, <4>1
    <3>5. QED
      BY SMTT(60), <2>1, <2>3, <3>2, <3>3, <3>4 DEF Bufs
  <2>7. QED
    BY <2>5, <2>6 DEF ListInv
<1>3. QED
  BY <1>1, <1>2

(* The second half of brelse drops the reference and moves the buffer to   *)
(* the front if it was the last.                                           *)
LEMMA UnrefStep ==
  ASSUME BInv, NEW t \in Threads, brelse_unref(t)
  PROVE  BInv'
<1>1. /\ pc[t] = "unref"
      /\ refcnt' = [refcnt EXCEPT ![cur[t]] = refcnt[cur[t]] - 1]
      /\ lru' \in {lru, MostRecent(cur[t])}
      /\ pc' = [pc EXCEPT ![t] = IF outer[t] = 0 THEN "idle" ELSE "use"]
      /\ cur' = [cur EXCEPT ![t] = outer[t]]
      /\ outer' = [outer EXCEPT ![t] = 0]
      /\ UNCHANGED <<blockno, valid, data, locked, disk, pins, dirty, bpanicked>>
  BY DEF brelse_unref, Unreferenced
<1>2. cur[t] \in Bufs /\ outer[t] \in 0..NBUF /\ ~dirty[t] /\ 0 \in 0..NBUF
  BY SMTT(60), <1>1, BioAssumption DEF BInv, BTypes, ThreadInv, ThreadOK, Bufs
<1>3. lru' \in [Bufs -> Bufs] /\ ListInv'
  BY <1>1, <1>2, MoveToFront
<1>4. UniqueInv' /\ PinInv'
  BY <1>1 DEF BInv, UniqueInv, PinInv
<1>5. ASSUME NEW x \in Bufs
      PROVE  /\ refcnt'[x] = Cardinality(Users(cur', x)) + Cardinality(Users(outer', x)) + PinOf(x)'
             /\ refcnt'[x] \in Nat
  <2>1. Cardinality(Users(cur', x)) =
          Cardinality(Users(cur, x)) + One(outer[t], x) - One(cur[t], x)
    <3>1. Moved(cur, cur', t, outer[t])
      BY <1>1 DEF Moved, BInv, BTypes
    <3>2. QED
      BY SMTT(60), <3>1, UsersMove
  <2>2. Cardinality(Users(outer', x)) =
          Cardinality(Users(outer, x)) + One(0, x) - One(outer[t], x)
    <3>1. Moved(outer, outer', t, 0)
      BY <1>1 DEF Moved, BInv, BTypes
    <3>2. QED
      BY SMTT(60), <3>1, UsersMove
  <2>3. 0 # x
    BY SMTT(60) DEF Bufs
  <2>4. /\ Cardinality(Users(cur, x)) \in Nat /\ Cardinality(Users(outer, x)) \in Nat
        /\ Cardinality(Users(cur', x)) \in Nat /\ Cardinality(Users(outer', x)) \in Nat
    BY UsersFinite
  <2>5. PinOf(x)' = PinOf(x) /\ PinOf(x) \in Nat
    BY SMTT(60), <1>1 DEF PinOf, BInv, BTypes
  <2>6. refcnt[x] = Cardinality(Users(cur, x)) + Cardinality(Users(outer, x)) + PinOf(x)
    BY DEF BInv, RefInv
  <2>7. refcnt'[x] = refcnt[x] - One(cur[t], x)
    BY SMTT(60), <1>1, <1>2, <2>4, <2>5, <2>6 DEF BInv, BTypes, One
  <2>8. QED
    BY SMTT(60), <2>1, <2>2, <2>3, <2>4, <2>5, <2>6, <2>7 DEF One
<1>6. BTypes'
  <2>1. refcnt' \in [Bufs -> Nat]
    BY <1>1, <1>5 DEF BInv, BTypes
  <2>2. cur' \in [Threads -> 0..NBUF] /\ outer' \in [Threads -> 0..NBUF]
    BY <1>1, <1>2 DEF BInv, BTypes
  <2>3. QED
    BY <1>1, <1>3, <2>1, <2>2 DEF BInv, BTypes
<1>7. RefInv'
  BY <1>5 DEF RefInv
<1>8. ThreadInv'
  <2>1. ThreadOK(t)'
    BY <1>1, <1>2 DEF BInv, BTypes, ThreadInv, ThreadOK
  <2>2. ASSUME NEW u \in Threads, u # t PROVE ThreadOK(u)'
    BY SMTT(60), <1>1, <2>2 DEF BInv, BTypes, ThreadInv, ThreadOK
  <2>3. QED
    BY <2>1, <2>2 DEF ThreadInv
<1>9. LockInv'
  <2>1. \A i \in Bufs : Holds(t, i)' <=> Holds(t, i)
    BY SMTT(60), <1>1 DEF Holds, BInv, BTypes, Bufs
  <2>2. \A u \in Threads \ {t}, i \in Bufs : Holds(u, i)' <=> Holds(u, i)
    BY <1>1 DEF Holds, BInv, BTypes
  <2>3. QED
    BY SMTT(60), <1>1, <2>1, <2>2 DEF BInv, LockInv
<1>10. CleanInv'
  BY SMTT(60), <1>1, <1>2 DEF BInv, BTypes, CleanInv
<1>11. QED
  BY <1>3, <1>4, <1>6, <1>7, <1>8, <1>9, <1>10 DEF BInv

-----------------------------------------------------------------------------
(* binit makes a list of all buffers, which hold nothing yet.              *)
LEMMA InitBInv == binit => BInv
<1> SUFFICES ASSUME binit PROVE BInv
  OBVIOUS
<1> USE BioAssumption
<1>1. NBUF \in Nat \ {0} /\ 0 \in 0..NBUF /\ \A k \in Bufs : NBUF + 1 - k \in Bufs
  BY SMTT(60) DEF Bufs
<1>2. BTypes
  <2>1. lru \in [Bufs -> Bufs]
    BY <1>1 DEF binit
  <2>2. cur \in [Threads -> 0..NBUF] /\ outer \in [Threads -> 0..NBUF]
    BY <1>1 DEF binit
  <2>3. refcnt \in [Bufs -> Nat] /\ data \in [Bufs -> Values]
    BY DEF binit
  <2>4. QED
    BY <2>1, <2>2, <2>3 DEF binit, BTypes
<1>3. ListInv
  <2>1. \A i \in Bufs : NBUF + 1 - (NBUF + 1 - i) = i
    BY SMTT(60), <1>1 DEF Bufs
  <2>2. \A i \in Bufs : lru[NBUF + 1 - i] = NBUF + 1 - (NBUF + 1 - i)
    BY <1>1 DEF binit
  <2>3. QED
    BY <1>1, <2>1, <2>2 DEF ListInv
<1>4. UniqueInv
  BY DEF binit, UniqueInv
<1>5. RefInv
  <2> SUFFICES ASSUME NEW i \in Bufs
               PROVE  refcnt[i] = Cardinality(Users(cur, i)) + Cardinality(Users(outer, i)) + PinOf(i)
    BY DEF RefInv
  <2>1. Users(cur, i) = {} /\ Users(outer, i) = {}
    BY SMTT(60) DEF binit, Users, Bufs
  <2>2. Cardinality(Users(cur, i)) = 0 /\ Cardinality(Users(outer, i)) = 0
    BY <2>1, FS_EmptySet
  <2>3. PinOf(i) = 0 /\ refcnt[i] = 0
    BY DEF binit, PinOf
  <2>4. QED
    BY SMTT(60), <2>2, <2>3
<1>6. ThreadInv
  BY DEF binit, ThreadInv, ThreadOK
<1>7. LockInv
  BY SMTT(60) DEF binit, LockInv, Holds, Bufs
<1>8. PinInv /\ CleanInv
  BY SMTT(60) DEF binit, PinInv, CleanInv
<1>9. QED
  BY <1>2, <1>3, <1>4, <1>5, <1>6, <1>7, <1>8 DEF BInv

(* Every step of the cache keeps the invariant.                            *)
LEMMA NextBInv == BInv /\ [BioNext]_biovars => BInv'
<1> SUFFICES ASSUME BInv, [BioNext]_biovars PROVE BInv'
  OBVIOUS
<1>1. CASE BioNext
  BY <1>1, GetStep, AcquireStep, ReadStep, WriteStep, PinStep, UnpinStep, ReleaseStep, UnrefStep,
     ModifyStep DEF BioNext
<1>2. CASE UNCHANGED biovars
  BY <1>2, PanicStep DEF biovars, BInv, BTypes
<1>3. QED
  BY <1>1, <1>2

(* References are counted, locks are held and dirty data is kept as the    *)
(* callers of bread, bwrite, bpin and brelse count on.                     *)
THEOREM BioInvariant == BioSpec => []BInv
<1>1. QED
  BY InitBInv, NextBInv, PTL DEF BioSpec

(* bget never makes a second buffer for a block, and refcnt is exact, for  *)
(* any number of threads, blocks and buffers: no buffer in use or pinned   *)
(* is recycled.                                                            *)
THEOREM BioCacheExact == BioSpec => []CacheExact
<1>1. BInv => CacheExact
  BY DEF BInv, UniqueInv, RefInv, Users, PinOf, CacheExact
<1>2. QED
  BY <1>1, BioInvariant, PTL

(* The panics of bwrite and brelse are never reached: only bget's lack of  *)
(* buffers makes bio.c panic.                                              *)
OnlyBgetPanics ==
  [][bpanicked' # bpanicked =>
       \E t \in Threads, b \in Blocknos : bget(t, b) /\ \A i \in Bufs : refcnt[i] > 0]_biovars

(* bget panics only when every buffer is referenced, and nothing else in   *)
(* bio.c panics at all, for any number of threads, blocks and buffers.     *)
THEOREM BioPanics == BioSpec => OnlyBgetPanics
<1>1. ASSUME BInv, [BioNext]_biovars, bpanicked' # bpanicked
      PROVE  \E t \in Threads, b \in Blocknos : bget(t, b) /\ \A i \in Bufs : refcnt[i] > 0
  <2>1. PICK t \in Threads :
          \/ \E b \in Blocknos : bget(t, b)
          \/ acquiresleep(t) \/ bread(t) \/ bwrite(t) \/ bpin(t) \/ bunpin(t)
          \/ brelse(t) \/ brelse_unref(t)
          \/ \E v \in Values : Modify(t, v)
    BY <1>1 DEF BioNext, biovars
  <2>2. ~bwrite(t)
    BY <1>1, UserHolds DEF bwrite
  <2>3. ~brelse(t)
    <3> SUFFICES ASSUME brelse(t) PROVE FALSE
      OBVIOUS
    <3>1. pc[t] = "use" /\ bpanicked' = (bpanicked \/ locked[cur[t]] # t) /\ bpanicked \in BOOLEAN
      BY <1>1 DEF brelse, BInv, BTypes
    <3>2. locked[cur[t]] = t
      BY <1>1, <3>1, UserHolds
    <3>3. QED
      BY <1>1, <3>1, <3>2
  <2>4. PICK b \in Blocknos : bget(t, b)
    BY <1>1, <2>1, <2>2, <2>3
       DEF acquiresleep, bread, bpin, bunpin, brelse_unref, Modify
  <2>5. \A i \in Range(lru) : refcnt[i] # 0
    BY <1>1, <2>4 DEF bget, bget_hit, bget_recycle, bget_panic
  <2>6. \A i \in Bufs : i \in Range(lru) /\ refcnt[i] \in Nat
    BY <1>1 DEF BInv, BTypes, ListInv, Range
  <2>7. \A i \in Bufs : refcnt[i] > 0
    BY SMTT(60), <2>5, <2>6
  <2>8. QED
    BY <2>4, <2>7
<1>2. QED
  BY <1>1, BioInvariant, PTL DEF BioSpec, OnlyBgetPanics

-----------------------------------------------------------------------------
(* What the next bread of a block will see.                                *)
LEMMA ViewNow ==
  ASSUME BInv, NEW b \in Blocknos
  PROVE  /\ \A i \in Bufs : blockno[i] = b /\ valid[i] => View(b) = data[i]
         /\ (\A i \in Bufs : ~(blockno[i] = b /\ valid[i])) => View(b) = disk[b]
<1>1. Cached(b) = {i \in Bufs : blockno[i] = b}
  BY SMTT(60) DEF BInv, BTypes, ListInv, Cached, Range
<1>2. \A i, j \in Cached(b) : i = j
  BY SMTT(60), <1>1 DEF BInv, UniqueInv, Blocknos, NoBlock
<1>3. QED
  BY <1>1, <1>2 DEF View

(* What a block reads as after a step, from the one valid buffer of the    *)
(* block or from the disk.                                                 *)
LEMMA ViewNext ==
  ASSUME BInv', NEW b \in Blocknos
  PROVE  /\ \A i \in Bufs : blockno'[i] = b /\ valid'[i] => View(b)' = data'[i]
         /\ (\A i \in Bufs : ~(blockno'[i] = b /\ valid'[i])) => View(b)' = disk'[b]
<1>1. Cached(b)' = {i \in Bufs : blockno'[i] = b}
  BY SMTT(60) DEF BInv, BTypes, ListInv, Cached, Range
<1>2. \A i, j \in Cached(b)' : i = j
  BY SMTT(60), <1>1 DEF BInv, UniqueInv, Blocknos, NoBlock
<1>3. QED
  BY <1>1, <1>2 DEF View

(* A step that leaves alone what is known of block b leaves its view.      *)
LEMMA SameView ==
  ASSUME BInv, BInv', NEW b \in Blocknos, disk'[b] = disk[b],
         \A i \in Bufs : (blockno'[i] = b /\ valid'[i]) <=> (blockno[i] = b /\ valid[i]),
         \A i \in Bufs : blockno[i] = b => data'[i] = data[i]
  PROVE  View(b)' = View(b)
<1>1. CASE \E i \in Bufs : blockno[i] = b /\ valid[i]
  BY SMTT(60), <1>1, ViewNow, ViewNext
<1>2. CASE \A i \in Bufs : ~(blockno[i] = b /\ valid[i])
  BY SMTT(60), <1>2, ViewNow, ViewNext
<1>3. QED
  BY <1>1, <1>2

(* bread changes what no block reads as.                                   *)
LEMMA ReadView ==
  ASSUME BInv, BInv', NEW t \in Threads, bread(t), NEW b \in Blocknos
  PROVE  View(b)' = View(b)
<1>1. /\ pc[t] = "read" /\ cur[t] \in Bufs /\ blockno[cur[t]] \in Blocknos /\ ~valid[cur[t]]
      /\ data' = [data EXCEPT ![cur[t]] = disk[blockno[cur[t]]]]
      /\ valid' = [valid EXCEPT ![cur[t]] = TRUE] /\ blockno' = blockno /\ disk' = disk
  BY SMTT(60) DEF bread, BInv, BTypes, ThreadInv, ThreadOK, Bufs
<1>2. CASE blockno[cur[t]] = b
  <2>1. \A i \in Bufs : ~(blockno[i] = b /\ valid[i])
    BY SMTT(60), <1>1, <1>2 DEF BInv, UniqueInv, Blocknos, NoBlock
  <2>2. View(b) = disk[b]
    BY <2>1, ViewNow
  <2>3. blockno'[cur[t]] = b /\ valid'[cur[t]] /\ data'[cur[t]] = disk[b]
    BY SMTT(60), <1>1, <1>2 DEF BInv, BTypes
  <2>4. View(b)' = disk[b]
    BY SMTT(60), <1>1, <2>3, ViewNext
  <2>5. QED
    BY <2>2, <2>4
<1>3. CASE blockno[cur[t]] # b
  BY <1>1, <1>3, SameView DEF BInv, BTypes
<1>4. QED
  BY <1>2, <1>3

(* bget's recycling changes what no block reads as: what it throws away    *)
(* was clean.                                                              *)
LEMMA RecycleView ==
  ASSUME BInv, BInv', NEW t \in Threads, NEW b0 \in Blocknos, bget_recycle(t, b0),
         UNCHANGED <<data, disk, lru>>, NEW b \in Blocknos
  PROVE  View(b)' = View(b)
<1>1. PICK i \in Bufs : /\ refcnt[i] = 0
                        /\ blockno' = [blockno EXCEPT ![i] = b0]
                        /\ valid' = [valid EXCEPT ![i] = FALSE]
  BY DEF bget_recycle, Recyclable, Invalidated
<1>2. PinOf(i) = 0 /\ \A u \in Threads : cur[u] # i
  BY <1>1, Unreferred
<1>3. CASE blockno[i] = b /\ valid[i]
  <2>1. View(b) = data[i]
    BY <1>3, ViewNow
  <2>2. blockno[i] # NoBlock /\ pins[blockno[i]] # 1
    BY SMTT(60), <1>2, <1>3 DEF PinOf, Blocknos, NoBlock
  <2>3. data[i] = disk[b]
    BY SMTT(60), <1>2, <1>3, <2>2 DEF BInv, CleanInv
  <2>4. \A j \in Bufs : ~(blockno'[j] = b /\ valid'[j])
    BY SMTT(60), <1>1, <1>3, <2>2 DEF BInv, BTypes, UniqueInv
  <2>5. View(b)' = disk'[b]
    BY <2>4, ViewNext
  <2>6. QED
    BY <2>1, <2>3, <2>5
<1>4. CASE ~(blockno[i] = b /\ valid[i])
  <2>1. \A j \in Bufs : (blockno'[j] = b /\ valid'[j]) <=> (blockno[j] = b /\ valid[j])
    BY SMTT(60), <1>1, <1>4 DEF BInv, BTypes
  <2>2. QED
    BY <2>1, SameView
<1>5. QED
  BY <1>3, <1>4

(* The cache is coherent for any number of threads, blocks and buffers: a  *)
(* reader of a block sees what its last lock holder left, whatever bget    *)
(* recycled, bread refilled and bwrite or the log wrote in between.        *)
THEOREM BioCoherent == BioSpec => Coherent
<1> DEFINE Held(b) == \E t \in Threads : pc[t] = "use" /\ blockno[cur[t]] = b /\ locked[cur[t]] = t
<1>1. ASSUME BInv, BInv', [BioNext]_biovars, NEW b \in Blocknos, View(b)' # View(b)
      PROVE  Held(b)
  <2>1. PICK t \in Threads :
          \/ \E a \in Blocknos : bget(t, a)
          \/ acquiresleep(t) \/ bread(t) \/ bwrite(t) \/ bpin(t) \/ bunpin(t)
          \/ brelse(t) \/ brelse_unref(t)
          \/ \E v \in Values : Modify(t, v)
    <3>1. ~UNCHANGED biovars
      BY <1>1, SameView DEF biovars
    <3>2. QED
      BY <1>1, <3>1 DEF BioNext
  <2>2. ASSUME UNCHANGED <<blockno, valid, data, disk>> PROVE FALSE
    BY <1>1, <2>2, SameView
  <2>3. ASSUME NEW a \in Blocknos, bget(t, a) PROVE FALSE
    BY <1>1, <2>2, <2>3, RecycleView DEF bget, bget_hit, bget_panic
  <2>4. ~bread(t)
    BY <1>1, ReadView
  <2>5. ASSUME pc[t] = "use", \A i \in Bufs : i # cur[t] => data'[i] = data[i],
               UNCHANGED <<blockno, valid>>,
               \A a \in Blocknos : a # blockno[cur[t]] => disk'[a] = disk[a]
        PROVE  Held(b)
    <3>1. locked[cur[t]] = t
      BY <1>1, <2>5, UserHolds
    <3>2. blockno[cur[t]] = b
      BY <1>1, <2>5, SameView
    <3>3. QED
      BY <2>5, <3>1, <3>2
  <2>6. ASSUME bwrite(t) PROVE Held(b)
    <3>1. pc[t] = "use" /\ UNCHANGED <<blockno, valid, data>>
      BY <2>6 DEF bwrite
    <3>2. \A a \in Blocknos : a # blockno[cur[t]] => disk'[a] = disk[a]
      BY SMTT(60), <1>1, <2>6 DEF bwrite, BInv, BTypes
    <3>3. QED
      BY <2>5, <3>1, <3>2
  <2>7. ASSUME NEW v \in Values, Modify(t, v) PROVE Held(b)
    <3>1. pc[t] = "use" /\ UNCHANGED <<blockno, valid, disk>>
      BY <2>7 DEF Modify
    <3>2. \A i \in Bufs : i # cur[t] => data'[i] = data[i]
      BY <1>1, <2>7 DEF Modify, BInv, BTypes
    <3>3. QED
      BY <2>5, <3>1, <3>2
  <2>8. ~acquiresleep(t) /\ ~bpin(t) /\ ~bunpin(t) /\ ~brelse(t) /\ ~brelse_unref(t)
    BY <2>2 DEF acquiresleep, bpin, bunpin, brelse, brelse_unref
  <2>9. QED
    BY <2>1, <2>3, <2>4, <2>6, <2>7, <2>8
<1>2. ASSUME BInv, BInv', [BioNext]_biovars
      PROVE  [\A b \in Blocknos :
                View(b)' # View(b) =>
                  \E t \in Threads : pc[t] = "use" /\ blockno[cur[t]] = b /\ locked[cur[t]] = t]_biovars
  BY <1>1, <1>2
<1>3. QED
  BY <1>2, BioInvariant, PTL DEF BioSpec, Coherent
=============================================================================
