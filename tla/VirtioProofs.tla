---------------------------- MODULE VirtioProofs ----------------------------
(* Theorems about VirtioDisk, for any number of threads and descriptors    *)
(* and any width of the ring indices that the size of the rings divides.   *)
EXTENDS VirtioDisk, RingFacts, TLAPS

(* A leaf goes to Zenon, unless it names the SMT solver, which alone does   *)
(* arithmetic.                                                             *)
USE ZenonT(60)

(* The three descriptors of a request.                                     *)
Second(t) == desc[idx[t]].next
Third(t)  == desc[Second(t)].next
Three(t)  == {idx[t], Second(t), Third(t)}

Formed(t) ==
  /\ idx[t] \in Desc /\ Second(t) \in Desc /\ Third(t) \in Desc
  /\ idx[t] # Second(t) /\ idx[t] # Third(t) /\ Second(t) # Third(t)
  /\ desc[idx[t]].more /\ desc[Second(t)].more
  /\ desc[Second(t)].buf = t /\ desc[Second(t)].write = wr[t]
  /\ info[idx[t]].b = t

FormInv == \A t \in Active : Formed(t)

(* Free descriptors and chains of requests partition the table.            *)
PartInv ==
  /\ \A t \in Active : \A i \in Three(t) : ~free[i]
  /\ \A t, u \in Active : t # u => Three(t) \cap Three(u) = {}
  /\ \A i \in Desc : ~free[i] => \E t \in Active : i \in Three(t)

(* b->disk is 1 until the completion, and who is about to advance          *)
(* avail->idx holds vdisk_lock.                                            *)
StageInv ==
  /\ \A t \in Requesters : busy[t] <=> rwpc[t] \in {"publish", "asleep_buf"}
  /\ \A t \in Requesters : lock = t <=> rwpc[t] = "publish"
  /\ ~vpanicked

(* Entry h is in ring q; no entry is in it twice.                          *)
In(q, h) == \E s \in Desc : q[s] = h
Once(q)  == \A r, s \in Desc : q[r] = q[s] /\ q[r] # Stale => r = s

AvailN == (availIdx - seen) % IdxMod
UsedN  == (usedNew - usedIdx) % IdxMod
Publishing == lock \in Requesters

(* The slots in use are those between the indices, and, while a thread has *)
(* filled a slot and not yet advanced avail->idx, the one at avail->idx.   *)
AvailInv ==
  /\ AvailN <= NUM /\ (Publishing => AvailN < NUM)
  /\ \A s \in Desc : avail[s] # Stale <=>
       s \in Slots(seen, AvailN, NUM) \/ (Publishing /\ s = availIdx % NUM)
  /\ Once(avail)
  /\ Publishing => avail[availIdx % NUM] = idx[lock]

UsedInv ==
  /\ UsedN <= NUM
  /\ \A s \in Desc : used[s] # Stale <=> s \in Slots(usedIdx, UsedN, NUM)
  /\ Once(used)
  /\ usedIdx # usedNew => irq \/ lock = Intr

(* The head of a request whose b->disk is 1 is in one place: the avail     *)
(* ring, the device or the used ring; no other descriptor is in any.       *)
Queued(h)   == In(avail, h)
Finished(h) == In(used, h)

PlaceInv ==
  /\ \A h \in Desc : Queued(h) \/ h \in flight \/ Finished(h) =>
       \E t \in Requesters : busy[t] /\ idx[t] = h
  /\ \A h \in Desc : /\ ~(Queued(h) /\ h \in flight)
                     /\ ~(Queued(h) /\ Finished(h))
                     /\ ~(h \in flight /\ Finished(h))
  /\ \A t \in Requesters : busy[t] => Queued(idx[t]) \/ idx[t] \in flight \/ Finished(idx[t])

(* Buffer and block agree from the completion on.                          *)
DataInv ==
  /\ \A t \in Requesters : rwpc[t] \in {"wait", "done"} => bdata[t] = store[t]
  /\ \A t \in Requesters : busy[t] /\ Finished(idx[t]) =>
       info[idx[t]].ok /\ bdata[t] = store[t]

WaitInv == (\E t \in Requesters : rwpc[t] = "asleep_free") => Cardinality(Free) < 3

VInv ==
  /\ VirtioTypeOK /\ FormInv /\ PartInv /\ StageInv /\ AvailInv /\ UsedInv
  /\ PlaceInv /\ DataInv /\ WaitInv

-----------------------------------------------------------------------------
(* Facts about the number of descriptors and the width of the indices.     *)
LEMMA Sizes ==
  /\ NUM \in Nat \ {0} /\ NUM >= 3 /\ IdxMod \in Nat /\ IdxMod % NUM = 0 /\ NUM < IdxMod
  /\ Stale \notin Desc /\ 0..Stale = Desc \cup {Stale} /\ IsFiniteSet(Desc) /\ Cardinality(Desc) = NUM
  /\ Desc = 0..(NUM - 1) /\ Index = 0..(IdxMod - 1) /\ Desc \subseteq Nat
<1>1. NUM \in Nat \ {0} /\ NUM >= 3 /\ IdxMod \in Nat /\ IdxMod % NUM = 0 /\ NUM < IdxMod
  BY SMTT(60), VirtioAssumption
<1>2. IsFiniteSet(0..(NUM - 1)) /\ Cardinality(0..(NUM - 1)) = NUM
  <2>1. 0 \in Int /\ NUM - 1 \in Int
    BY SMTT(60), <1>1
  <2>2. IsFiniteSet(0..(NUM - 1))
        /\ Cardinality(0..(NUM - 1)) = IF 0 > NUM - 1 THEN 0 ELSE (NUM - 1) - 0 + 1
    BY <2>1, FS_Interval
  <2>3. QED
    BY SMTT(60), <1>1, <2>2
<1>3. QED
  BY SMTT(60), <1>1, <1>2 DEF Desc, Stale, Index

(* Ring q becomes p when slot s, which is not in use, gets entry h, and    *)
(* when the entry of slot s is consumed.                                   *)
Put(q, s, h, p) ==
  q \in [Desc -> 0..Stale] /\ s \in Desc /\ q[s] = Stale /\ h \in Desc /\ p = [q EXCEPT ![s] = h]
Take(q, s, p) ==
  q \in [Desc -> 0..Stale] /\ s \in Desc /\ q[s] # Stale /\ Once(q) /\ p = [q EXCEPT ![s] = Stale]

(* Putting a head into a free slot of a ring adds it to the ring, once.    *)
LEMMA PutEntry ==
  ASSUME NEW q, NEW s, NEW h, NEW p, Put(q, s, h, p)
  PROVE  /\ p \in [Desc -> 0..Stale]
         /\ \A g \in Desc : In(p, g) <=> In(q, g) \/ g = h
         /\ Once(q) /\ ~In(q, h) => Once(p)
<1> USE DEF Put
<1>1. p \in [Desc -> 0..Stale]
  BY Sizes
<1>2. \A g \in Desc : In(p, g) <=> In(q, g) \/ g = h
  BY Sizes DEF In
<1>3. Once(q) /\ ~In(q, h) => Once(p)
  BY Sizes DEF Once, In
<1>4. QED
  BY <1>1, <1>2, <1>3

(* Taking an entry from a ring takes its head out of the ring.             *)
LEMMA TakeEntry ==
  ASSUME NEW q, NEW s, NEW p, Take(q, s, p)
  PROVE  /\ q[s] \in Desc
         /\ p \in [Desc -> 0..Stale]
         /\ \A g \in Desc : In(p, g) <=> In(q, g) /\ g # q[s]
         /\ Once(p)
<1> USE DEF Take
<1>1. p \in [Desc -> 0..Stale] /\ q[s] \in Desc
  BY Sizes
<1>2. \A g \in Desc : In(p, g) <=> In(q, g) /\ g # q[s]
  BY SMTT(60), Sizes DEF In, Once
<1>3. Once(p)
  BY Sizes DEF Once, In
<1>4. QED
  BY <1>1, <1>2, <1>3

(* alloc3_desc finds three descriptors when there are three.               *)
LEMMA ThreeFree ==
  ASSUME NEW F \in SUBSET Desc, Cardinality(F) >= 3
  PROVE  LET i0 == Min(F)
             i1 == Min(F \ {i0})
             i2 == Min(F \ {i0, i1})
         IN /\ i0 \in F /\ i1 \in F /\ i2 \in F
            /\ i0 # i1 /\ i0 # i2 /\ i1 # i2
<1> DEFINE i0 == Min(F)
           G  == F \ {i0}
           i1 == Min(G)
           H  == G \ {i1}
           i2 == Min(H)
<1>1. F \in SUBSET Nat /\ IsFiniteSet(F) /\ Cardinality(F) \in Nat /\ Cardinality({}) = 0
  BY Sizes, FS_Subset, FS_CardinalityType, FS_EmptySet
<1>2. i0 \in F
  <2>1. ASSUME F = {} PROVE FALSE
    <3>1. Cardinality(F) = 0
      BY <2>1, FS_EmptySet
    <3>2. QED
      BY SMTT(60), <3>1
  <2>2. QED
    BY <1>1, <2>1, MinIn
<1> HIDE DEF i0
<1>3. IsFiniteSet(G) /\ Cardinality(G) >= 2
  <2>1. IsFiniteSet(G) /\ Cardinality(G) = Cardinality(F) - 1
    BY <1>1, <1>2, FS_RemoveElement
  <2>2. QED
    BY SMTT(60), <1>1, <2>1
<1>4. G \in SUBSET Nat /\ G \subseteq F /\ i0 \notin G
  BY <1>1
<1>5. Cardinality(G) \in Nat
  BY <1>3, FS_CardinalityType
<1> HIDE DEF G
<1>6. i1 \in G
  <2>1. ASSUME G = {} PROVE FALSE
    <3>1. Cardinality(G) = 0
      BY <2>1, FS_EmptySet
    <3>2. QED
      BY SMTT(60), <3>1, <1>3
  <2>2. QED
    BY <1>4, <2>1, MinIn
<1> HIDE DEF i1
<1>7. Cardinality(H) >= 1
  <2>1. Cardinality(H) = Cardinality(G) - 1
    BY <1>3, <1>6, FS_RemoveElement
  <2>2. QED
    BY SMTT(60), <1>3, <1>5, <2>1
<1>8. H \in SUBSET Nat /\ H \subseteq G /\ i1 \notin H
  BY <1>4
<1>9. H = F \ {i0, i1}
  BY DEF G
<1> HIDE DEF H
<1>10. i2 \in H
  <2>1. H # {}
    BY SMTT(60), <1>1, <1>7
  <2>2. QED
    BY <1>8, <2>1, MinIn
<1>11. i2 = Min(F \ {i0, i1}) /\ i1 = Min(F \ {i0})
  BY <1>9 DEF i1, G
<1> HIDE DEF i2
<1>12. i0 \in F /\ i1 \in F /\ i2 \in F /\ i0 # i1 /\ i0 # i2 /\ i1 # i2
  BY <1>2, <1>4, <1>6, <1>8, <1>10
<1>13. QED
  BY <1>11, <1>12 DEF i0

-----------------------------------------------------------------------------
(* Facts about the requests in progress.                                   *)
LEMMA Requests ==
  ASSUME VInv
  PROVE  /\ Active \subseteq Requesters
         /\ \A t \in Requesters : busy[t] => t \in Active
         /\ \A t \in Active : /\ idx[t] \in Three(t) /\ Three(t) \subseteq Desc
                              /\ info[idx[t]].b = t
                              /\ \A i \in Three(t) : ~free[i]
         /\ \A t, u \in Active : idx[t] = idx[u] => t = u
<1>1. Active \subseteq Requesters /\ \A t \in Requesters : busy[t] => t \in Active
  BY DEF VInv, StageInv, Active
<1>2. \A t \in Active : /\ idx[t] \in Three(t) /\ Three(t) \subseteq Desc
                        /\ info[idx[t]].b = t
                        /\ \A i \in Three(t) : ~free[i]
  BY SMTT(60) DEF VInv, FormInv, Formed, PartInv, Three
<1>3. \A t, u \in Active : idx[t] = idx[u] => t = u
  BY SMTT(60) DEF VInv, FormInv, Formed
<1>4. QED
  BY <1>1, <1>2, <1>3

(* A step that moves no request on.                                        *)
LEMMA QuietStep ==
  ASSUME VInv, VirtioTypeOK',
         UNCHANGED <<free, desc, info, avail, availIdx, used, usedNew, seen, flight, usedIdx, lock,
                     busy, store, irq, idx, vpanicked>>,
         \A t \in Requesters :
           /\ rwpc'[t] = "publish" <=> rwpc[t] = "publish"
           /\ rwpc'[t] = "wait" <=> rwpc[t] = "wait"
           /\ rwpc'[t] = "asleep_buf" <=> rwpc[t] = "asleep_buf"
           /\ rwpc'[t] = "done" => rwpc[t] = "done",
         \A t \in Requesters : (wr'[t] = wr[t] /\ bdata'[t] = bdata[t]) \/ (t \notin Active /\ rwpc'[t] # "done"),
         (\E t \in Requesters : rwpc'[t] = "asleep_free") => Cardinality(Free) < 3
  PROVE  VInv'
<1>1. Active' = Active
  BY DEF Active
<1>2. FormInv'
  <2>1. \A t \in Active : wr'[t] = wr[t]
    BY DEF Active
  <2>2. \A t \in Active : Formed(t)'
    BY SMTT(60), <2>1 DEF VInv, FormInv, Formed, Second, Third
  <2>3. QED
    BY <1>1, <2>2 DEF FormInv
<1>3. PartInv'
  BY SMTT(60), <1>1 DEF VInv, PartInv, Three, Second, Third
<1>4. StageInv'
  BY DEF VInv, StageInv
<1>5. AvailInv' /\ UsedInv'
  BY DEF VInv, AvailInv, UsedInv, AvailN, UsedN, Publishing, Once
<1>6. PlaceInv'
  BY DEF VInv, PlaceInv, Queued, Finished, In
<1>7. DataInv'
  <2>1. \A t \in Requesters : rwpc'[t] \in {"wait", "done"} => bdata'[t] = store'[t]
    BY DEF VInv, DataInv, Active
  <2>2. \A t \in Requesters : busy[t] => bdata'[t] = bdata[t]
    BY Requests
  <2>3. QED
    BY <2>1, <2>2 DEF VInv, DataInv, Finished, In
<1>8. WaitInv'
  <2>1. Free' = Free
    BY DEF Free
  <2>2. QED
    BY <2>1 DEF WaitInv
<1>9. QED
  BY <1>2, <1>3, <1>4, <1>5, <1>6, <1>7, <1>8 DEF VInv

(* A thread enters virtio_disk_rw.                                         *)
LEMMA CallStep ==
  ASSUME VInv, NEW t \in Requesters, RwCall(t) PROVE VInv'
<1>1. PICK w \in BOOLEAN, v \in Contents :
        wr' = [wr EXCEPT ![t] = w] /\ bdata' = [bdata EXCEPT ![t] = v]
  BY DEF RwCall
<1>2. rwpc[t] = "idle" /\ rwpc' = [rwpc EXCEPT ![t] = "alloc"]
  BY DEF RwCall
<1>3. VirtioTypeOK'
  <2>1. wr' \in [Requesters -> BOOLEAN] /\ bdata' \in [Requesters -> Contents]
    BY <1>1 DEF VInv, VirtioTypeOK
  <2>2. QED
    BY <1>2, <2>1 DEF RwCall, VInv, VirtioTypeOK, driver, device
<1>4. rwpc \in [Requesters -> {"idle", "alloc", "asleep_free", "publish", "wait", "asleep_buf", "done"}]
      /\ wr \in [Requesters -> BOOLEAN] /\ bdata \in [Requesters -> Contents]
  BY DEF VInv, VirtioTypeOK
<1>5. (\E u \in Requesters : rwpc'[u] = "asleep_free") => Cardinality(Free) < 3
  BY <1>2, <1>4 DEF VInv, WaitInv
<1>6. \A u \in Requesters : (wr'[u] = wr[u] /\ bdata'[u] = bdata[u]) \/ (u \notin Active /\ rwpc'[u] # "done")
  BY <1>1, <1>2, <1>4 DEF Active
<1>7. \A u \in Requesters :
           /\ rwpc'[u] = "publish" <=> rwpc[u] = "publish"
           /\ rwpc'[u] = "wait" <=> rwpc[u] = "wait"
           /\ rwpc'[u] = "asleep_buf" <=> rwpc[u] = "asleep_buf"
           /\ rwpc'[u] = "done" => rwpc[u] = "done"
  BY <1>2, <1>4
<1>8. QED
  BY <1>3, <1>5, <1>6, <1>7, QuietStep DEF RwCall, driver, device

(* alloc3_desc finds too few descriptors: the thread sleeps on free[0].    *)
LEMMA FailStep ==
  ASSUME VInv, NEW t \in Requesters, alloc_fails(t) PROVE VInv'
<1>1. rwpc \in [Requesters -> {"idle", "alloc", "asleep_free", "publish", "wait", "asleep_buf", "done"}]
  BY DEF VInv, VirtioTypeOK
<1>2. rwpc[t] = "alloc" /\ Cardinality(Free) < 3
      /\ (rwpc' = [rwpc EXCEPT ![t] = "asleep_free"] \/ rwpc' = WakeFree(t, "asleep_free"))
  BY DEF alloc_fails
<1>3. rwpc' \in [Requesters -> {"idle", "alloc", "asleep_free", "publish", "wait", "asleep_buf", "done"}]
  BY <1>1, <1>2 DEF WakeFree
<1>4. VirtioTypeOK'
  BY <1>3 DEF alloc_fails, VInv, VirtioTypeOK, driver, device
<1>5. \A u \in Requesters :
           /\ rwpc'[u] = "publish" <=> rwpc[u] = "publish"
           /\ rwpc'[u] = "wait" <=> rwpc[u] = "wait"
           /\ rwpc'[u] = "asleep_buf" <=> rwpc[u] = "asleep_buf"
           /\ rwpc'[u] = "done" => rwpc[u] = "done"
  BY <1>1, <1>2 DEF WakeFree
<1>6. QED
  BY <1>2, <1>4, <1>5, QuietStep DEF alloc_fails, driver, device

(* virtio_disk_rw returns after free_chain.                                *)
LEMMA DoneStep ==
  ASSUME VInv, NEW t \in Requesters, RwDone(t) PROVE VInv'
<1>1. rwpc \in [Requesters -> {"idle", "alloc", "asleep_free", "publish", "wait", "asleep_buf", "done"}]
      /\ wr \in [Requesters -> BOOLEAN]
  BY DEF VInv, VirtioTypeOK
<1>2. rwpc[t] = "done" /\ rwpc' = [rwpc EXCEPT ![t] = "idle"] /\ wr' = [wr EXCEPT ![t] = FALSE]
  BY DEF RwDone
<1>3. VirtioTypeOK'
  BY <1>2 DEF RwDone, VInv, VirtioTypeOK, driver, device
<1>4. \A u \in Requesters :
           /\ rwpc'[u] = "publish" <=> rwpc[u] = "publish"
           /\ rwpc'[u] = "wait" <=> rwpc[u] = "wait"
           /\ rwpc'[u] = "asleep_buf" <=> rwpc[u] = "asleep_buf"
           /\ rwpc'[u] = "done" => rwpc[u] = "done"
  BY <1>1, <1>2
<1>5. \A u \in Requesters : (wr'[u] = wr[u] /\ bdata'[u] = bdata[u]) \/ (u \notin Active /\ rwpc'[u] # "done")
  BY <1>1, <1>2 DEF Active, RwDone
<1>6. (\E u \in Requesters : rwpc'[u] = "asleep_free") => Cardinality(Free) < 3
  BY <1>1, <1>2 DEF VInv, WaitInv
<1>7. QED
  BY <1>3, <1>4, <1>5, <1>6, QuietStep DEF RwDone, driver, device

(* The avail ring between what the device has seen and avail->idx.         *)
LEMMA AvailRing == VInv => IsRing(seen, availIdx, AvailN, NUM, IdxMod)
BY Sizes DEF VInv, VirtioTypeOK, IsRing, AvailN

(* The used ring between used_idx and used->idx.                           *)
LEMMA UsedRing == VInv => IsRing(usedIdx, usedNew, UsedN, NUM, IdxMod)
BY Sizes DEF VInv, VirtioTypeOK, IsRing, UsedN

(* The ring of a request's head has room for it: each entry is the head of *)
(* a request, and none of those is free.                                   *)
LEMMA AvailRoom ==
  ASSUME VInv, lock = NoThread, NEW i \in Free
  PROVE  /\ AvailN \in Nat /\ AvailN < NUM /\ ~Queued(i) /\ i \notin flight /\ ~Finished(i)
         /\ avail[availIdx % NUM] = Stale /\ availIdx % NUM \in Desc
         /\ \A s \in Desc : avail[s] # Stale <=> s \in Slots(seen, AvailN, NUM)
<1>1. ~Publishing
  BY VirtioAssumption DEF Publishing
<1>2. \A s \in Desc : avail[s] # Stale <=> s \in Slots(seen, AvailN, NUM)
  BY <1>1 DEF VInv, AvailInv
<1>3. i \in Desc /\ free[i]
  BY DEF Free
<1>4. ~Queued(i) /\ i \notin flight /\ ~Finished(i)
  <2>1. ~\E t \in Requesters : busy[t] /\ idx[t] = i
    BY <1>3, Requests
  <2>2. QED
    BY <1>3, <2>1 DEF VInv, PlaceInv
<1>5. avail \in [Desc -> 0..Stale] /\ availIdx \in Index /\ seen \in Index
  BY DEF VInv, VirtioTypeOK
<1>6. AvailN \in Nat /\ AvailN <= NUM
  BY AvailRing, RingCount DEF VInv, AvailInv
<1>7. AvailN <= Cardinality(Desc \ {i})
  <2>1. Slots(seen, AvailN, NUM) \subseteq Desc
    BY SMTT(60), <1>5, <1>6, Sizes, SlotsInRing
  <2>2. \A s \in Slots(seen, AvailN, NUM) : avail[s] \in Desc \ {i}
    BY <1>2, <1>4, <1>5, <2>1, Sizes DEF Queued, In
  <2>3. \A r, s \in Slots(seen, AvailN, NUM) : avail[r] = avail[s] => r = s
    BY <1>2, <2>1 DEF VInv, AvailInv, Once
  <2>4. IsFiniteSet(Desc \ {i})
    BY Sizes, FS_RemoveElement
  <2>5. NUM \in Nat \ {0} /\ seen \in Int
    BY SMTT(60), <1>5, Sizes
  <2>6. QED
    BY SMTT(60), <1>6, <2>2, <2>3, <2>4, <2>5, RingHolds
<1>8. Cardinality(Desc \ {i}) = NUM - 1
  BY <1>3, Sizes, FS_RemoveElement
<1>9. AvailN < NUM
  BY SMTT(60), <1>6, <1>7, <1>8, Sizes
<1>10. availIdx % NUM \in Desc /\ availIdx % NUM \notin Slots(seen, AvailN, NUM)
  <2>1. availIdx % NUM \in 0..(NUM - 1) /\ availIdx % NUM \notin Slots(seen, AvailN, NUM)
    <3>1. CanPut(seen, availIdx, AvailN, NUM, IdxMod)
      BY <1>9, AvailRing, RingPut
    <3>2. QED
      BY <3>1 DEF CanPut
  <2>2. QED
    BY <2>1, Sizes
<1>11. QED
  BY <1>2, <1>4, <1>6, <1>9, <1>10

(* The request gets its descriptors and its slot.                          *)
LEMMA RwStep ==
  ASSUME VInv, NEW t \in Requesters, virtio_disk_rw(t) PROVE VInv'
<1> DEFINE i0 == Min(Free)
           i1 == Min(Free \ {i0})
           i2 == Min(Free \ {i0, i1})
           a  == availIdx % NUM
<1>1. i0 \in Free /\ i1 \in Free /\ i2 \in Free /\ i0 # i1 /\ i0 # i2 /\ i1 # i2
  <2>1. Free \in SUBSET Desc /\ Cardinality(Free) >= 3
    BY DEF Free, virtio_disk_rw
  <2>2. QED
    BY <2>1, ThreeFree
<1>2. /\ rwpc[t] = "alloc" /\ lock = NoThread
      /\ free' = [i \in Desc |-> free[i] /\ i \notin {i0, i1, i2}]
      /\ desc' = [desc EXCEPT
           ![i0] = [next |-> i1, more |-> TRUE, buf |-> NoThread, write |-> wr[t]],
           ![i1] = [next |-> i2, more |-> TRUE, buf |-> t, write |-> wr[t]],
           ![i2] = NoDesc]
      /\ info' = [info EXCEPT ![i0] = [b |-> t, ok |-> FALSE]]
      /\ avail' = [avail EXCEPT ![a] = i0]
      /\ idx' = [idx EXCEPT ![t] = i0]
      /\ busy' = [busy EXCEPT ![t] = TRUE]
      /\ lock' = t
      /\ rwpc' = [rwpc EXCEPT ![t] = "publish"]
      /\ UNCHANGED <<used, usedNew, store, seen, flight, availIdx, usedIdx, bdata, irq, wr, vpanicked>>
  BY DEF virtio_disk_rw, DeviceReads, device
<1> HIDE DEF i0, i1, i2
<1>3. /\ AvailN \in Nat /\ AvailN < NUM /\ ~Queued(i0) /\ i0 \notin flight /\ ~Finished(i0)
      /\ avail[a] = Stale /\ a \in Desc
      /\ \A s \in Desc : avail[s] # Stale <=> s \in Slots(seen, AvailN, NUM)
  BY <1>1, <1>2, AvailRoom
<1>4. /\ i0 \in Desc /\ i1 \in Desc /\ i2 \in Desc /\ free[i0] /\ free[i1] /\ free[i2]
  BY <1>1 DEF Free
<1> HIDE DEF a
<1>5. VirtioTypeOK
  BY DEF VInv
<1>6. VirtioTypeOK'
  <2>1. free' \in [Desc -> BOOLEAN]
    BY <1>2, <1>5 DEF VirtioTypeOK
  <2>2. desc' \in [Desc -> [next : Desc, more : BOOLEAN, buf : Requesters \cup {NoThread}, write : BOOLEAN]]
    <3>1. 0 \in Desc /\ wr[t] \in BOOLEAN
      BY SMTT(60), <1>5, Sizes DEF VirtioTypeOK
    <3>2. QED
      BY <1>2, <1>4, <1>5, <3>1 DEF VirtioTypeOK, NoDesc
  <2>3. info' \in [Desc -> [b : Requesters \cup {NoThread}, ok : BOOLEAN]]
    BY <1>2, <1>5 DEF VirtioTypeOK
  <2>4. avail' \in [Desc -> 0..Stale] /\ idx' \in [Requesters -> 0..Stale]
    BY <1>2, <1>4, <1>5, Sizes DEF VirtioTypeOK
  <2>5. QED
    BY <1>2, <1>5, <2>1, <2>2, <2>3, <2>4 DEF VirtioTypeOK
<1>7. Active' = Active \cup {t} /\ t \notin Active
  BY SMTT(60), <1>2, <1>5 DEF Active, VirtioTypeOK
<1>8. \A u \in Active : /\ i0 \notin Three(u) /\ i1 \notin Three(u) /\ i2 \notin Three(u)
  BY <1>4, Requests
<1>9. ASSUME NEW u \in Active
      PROVE  idx'[u] = idx[u] /\ Second(u)' = Second(u) /\ Third(u)' = Third(u) /\ Three(u)' = Three(u)
             /\ Formed(u)'
  <2>1. idx'[u] = idx[u]
    BY SMTT(60), <1>2, <1>7 DEF Active
  <2>2. Formed(u) /\ Three(u) \subseteq Desc
    BY Requests DEF VInv, FormInv
  <2>3. \A i \in Three(u) : desc'[i] = desc[i] /\ info'[i] = info[i]
    BY <1>2, <1>4, <1>5, <1>8, <2>2 DEF VirtioTypeOK
  <2>4. Second(u)' = Second(u)
    BY <2>1, <2>3 DEF Second, Three
  <2>5. Third(u)' = Third(u)
    BY <2>3, <2>4 DEF Third, Three
  <2>6. Formed(u)'
    BY <1>2, <2>1, <2>2, <2>3, <2>4, <2>5 DEF Formed, Three
  <2>7. QED
    BY <2>1, <2>4, <2>5, <2>6 DEF Three
<1>10. idx'[t] = i0 /\ Second(t)' = i1 /\ Third(t)' = i2 /\ Three(t)' = {i0, i1, i2} /\ Formed(t)'
  <2>1. idx'[t] = i0 /\ info'[i0].b = t /\ wr'[t] = wr[t]
    BY <1>2, <1>4, <1>5 DEF VirtioTypeOK
  <2>2. /\ desc'[i0] = [next |-> i1, more |-> TRUE, buf |-> NoThread, write |-> wr[t]]
        /\ desc'[i1] = [next |-> i2, more |-> TRUE, buf |-> t, write |-> wr[t]]
    BY <1>1, <1>2, <1>4, <1>5 DEF VirtioTypeOK
  <2>3. Second(t)' = i1
    BY SMTT(60), <2>1, <2>2 DEF Second
  <2>4. Third(t)' = i2
    BY SMTT(60), <2>2, <2>3 DEF Third
  <2>5. QED
    BY SMTT(60), <1>1, <1>4, <2>1, <2>2, <2>3, <2>4 DEF Three, Formed
<1>11. FormInv'
  BY <1>7, <1>9, <1>10 DEF FormInv
<1>12. PartInv'
  <2>1. \A u \in Active' : \A i \in Three(u)' : ~free'[i]
    <3>1. \A i \in {i0, i1, i2} : ~free'[i]
      BY <1>2, <1>4
    <3>2. \A u \in Active : \A i \in Three(u) : ~free'[i]
      BY <1>2, Requests
    <3>3. QED
      BY <1>7, <1>9, <1>10, <3>1, <3>2
  <2>2. \A u, v \in Active' : u # v => Three(u)' \cap Three(v)' = {}
    BY SMTT(60), <1>7, <1>8, <1>9, <1>10 DEF VInv, PartInv
  <2>3. \A i \in Desc : ~free'[i] => \E u \in Active' : i \in Three(u)'
    <3> SUFFICES ASSUME NEW i \in Desc, ~free'[i] PROVE \E u \in Active' : i \in Three(u)'
      OBVIOUS
    <3>1. ~free[i] \/ i \in {i0, i1, i2}
      BY <1>2
    <3>2. ~free[i] => \E u \in Active : i \in Three(u)
      BY DEF VInv, PartInv
    <3>3. QED
      BY <1>7, <1>9, <1>10, <3>1, <3>2
  <2>4. QED
    BY <2>1, <2>2, <2>3 DEF PartInv
<1>13. StageInv'
  BY <1>2, <1>5, VirtioAssumption DEF VInv, StageInv, VirtioTypeOK
<1>14. /\ \A g \in Desc : Queued(g)' <=> Queued(g) \/ g = i0
       /\ Once(avail')
  <2>1. avail \in [Desc -> 0..Stale] /\ Once(avail) /\ ~In(avail, i0)
    BY <1>3, <1>5 DEF VInv, AvailInv, VirtioTypeOK, Queued
  <2>2. Put(avail, a, i0, avail')
    BY <1>2, <1>3, <1>4, <2>1 DEF Put
  <2>3. /\ \A g \in Desc : In(avail', g) <=> In(avail, g) \/ g = i0
        /\ Once(avail')
    BY <2>1, <2>2, PutEntry
  <2>4. QED
    BY <2>3 DEF Queued, In
<1>15. AvailInv'
  <2>1. AvailN' = AvailN /\ Publishing' /\ seen' = seen /\ availIdx' % NUM = a /\ a \in Desc
    BY <1>2, <1>3 DEF AvailN, Publishing, a
  <2>2. a \notin Slots(seen, AvailN, NUM)
    BY <1>3
  <2>3. \A s \in Desc : avail'[s] # Stale <=> s \in Slots(seen, AvailN, NUM) \/ s = a
    BY <1>2, <1>3, <1>4, <1>5, Sizes DEF VirtioTypeOK
  <2>4. avail'[a] = idx'[lock']
    BY <1>2, <1>3, <1>5 DEF VirtioTypeOK
  <2>5. AvailN' <= NUM /\ AvailN' < NUM
    BY SMTT(60), <1>3, <2>1, Sizes
  <2>6. Once(avail)'
    BY <1>14 DEF Once
  <2>7. QED
    BY <2>1, <2>3, <2>4, <2>5, <2>6 DEF AvailInv
<1>16. UsedInv'
  BY <1>2, VirtioAssumption DEF VInv, UsedInv, UsedN, Once, Intr, NoThread
<1>17. \A g \in Desc : Finished(g)' <=> Finished(g)
  BY <1>2 DEF Finished, In
<1>18. \A u \in Requesters : u # t => idx'[u] = idx[u] /\ busy'[u] = busy[u] /\ rwpc'[u] = rwpc[u]
  BY <1>2, <1>5 DEF VirtioTypeOK
<1>19. busy'[t] /\ idx'[t] = i0 /\ rwpc'[t] = "publish" /\ ~busy[t]
  BY <1>2, <1>5 DEF VInv, StageInv, VirtioTypeOK
<1>20. PlaceInv'
  <2>1. \A h \in Desc : (Queued(h) \/ h \in flight \/ Finished(h))' =>
          \E u \in Requesters : busy'[u] /\ idx'[u] = h
    <3> SUFFICES ASSUME NEW h \in Desc, Queued(h)' \/ h \in flight' \/ Finished(h)'
                 PROVE  \E u \in Requesters : busy'[u] /\ idx'[u] = h
      OBVIOUS
    <3>1. CASE h = i0
      BY <1>19, <3>1
    <3>2. CASE h # i0
      <4>1. Queued(h) \/ h \in flight \/ Finished(h)
        BY <1>2, <1>14, <1>17, <3>2
      <4>2. PICK u \in Requesters : busy[u] /\ idx[u] = h
        BY <4>1 DEF VInv, PlaceInv
      <4>3. QED
        BY <1>18, <1>19, <4>2
    <3>3. QED
      BY <3>1, <3>2
  <2>2. \A h \in Desc : /\ ~(Queued(h) /\ h \in flight)'
                        /\ ~(Queued(h) /\ Finished(h))'
                        /\ ~(h \in flight /\ Finished(h))'
    BY <1>2, <1>3, <1>14, <1>17 DEF VInv, PlaceInv
  <2>3. \A u \in Requesters : busy[u] => idx[u] \in Desc
    BY Requests
  <2>4. \A u \in Requesters : busy'[u] => (Queued(idx[u]) \/ idx[u] \in flight \/ Finished(idx[u]))'
    <3> SUFFICES ASSUME NEW u \in Requesters, busy'[u]
                 PROVE  Queued(idx[u])' \/ idx'[u] \in flight' \/ Finished(idx[u])'
      OBVIOUS
    <3>1. CASE u = t
      BY <1>4, <1>14, <1>19, <3>1 DEF Queued, In
    <3>2. CASE u # t
      <4>1. busy[u] /\ idx'[u] = idx[u] /\ idx[u] \in Desc
        BY <1>18, <2>3, <3>2
      <4>2. Queued(idx[u]) \/ idx[u] \in flight \/ Finished(idx[u])
        BY <4>1 DEF VInv, PlaceInv
      <4>3. Queued(idx[u])' \/ idx[u] \in flight' \/ Finished(idx[u])'
        BY SMTT(60), <1>2, <1>14, <1>17, <4>1, <4>2 DEF Queued, Finished, In
      <4>4. QED
        BY <4>1, <4>3
    <3>3. QED
      BY <3>1, <3>2
  <2>5. QED
    BY <2>1, <2>2, <2>4 DEF PlaceInv
<1>21. DataInv'
  <2>1. \A u \in Requesters : rwpc'[u] \in {"wait", "done"} => bdata'[u] = store'[u]
    BY <1>2, <1>18, <1>19 DEF VInv, DataInv
  <2>2. ASSUME NEW u \in Requesters, busy'[u], Finished(idx[u])'
        PROVE  info'[idx'[u]].ok /\ bdata'[u] = store'[u]
    <3>1. Finished(idx'[u])
      BY <1>2, <2>2 DEF Finished, In
    <3>2. u # t
      BY <1>3, <1>19, <3>1
    <3>3. busy[u] /\ idx'[u] = idx[u] /\ idx[u] \in Desc /\ idx[u] # i0
      BY SMTT(60), <1>3, <1>18, <2>2, <3>1, <3>2, Requests
    <3>4. info'[idx[u]] = info[idx[u]]
      BY <1>2, <1>5, <3>3 DEF VirtioTypeOK
    <3>5. QED
      BY <1>2, <3>1, <3>3, <3>4 DEF VInv, DataInv
  <2>3. QED
    BY <2>1, <2>2 DEF DataInv
<1>22. WaitInv'
  <2>1. Free' \subseteq Free
    BY <1>2 DEF Free
  <2>2. IsFiniteSet(Free)
    BY Sizes, FS_Subset DEF Free
  <2>3. Cardinality(Free') <= Cardinality(Free) /\ Cardinality(Free') \in Nat /\ Cardinality(Free) \in Nat
    BY <2>1, <2>2, FS_Subset, FS_CardinalityType
  <2>4. (\E u \in Requesters : rwpc'[u] = "asleep_free") => Cardinality(Free) < 3
    BY <1>18, <1>19 DEF VInv, WaitInv
  <2>5. QED
    BY SMTT(60), <2>3, <2>4 DEF WaitInv
<1>23. QED
  BY <1>6, <1>11, <1>12, <1>13, <1>15, <1>16, <1>20, <1>21, <1>22 DEF VInv

-----------------------------------------------------------------------------
(* A step that leaves descriptors, chains and info[].b alone keeps the     *)
(* chains.                                                                 *)
LEMMA SameChains ==
  ASSUME VInv, UNCHANGED <<free, desc, idx, wr>>, Active' = Active,
         \A i \in Desc : info'[i].b = info[i].b
  PROVE  FormInv' /\ PartInv'
<1>1. FormInv'
  BY DEF VInv, FormInv, Formed, Second, Third
<1>2. PartInv'
  BY SMTT(60) DEF VInv, PartInv, Three, Second, Third
<1>3. QED
  BY <1>1, <1>2

(* Advancing avail->idx hands the filled slot to the device.               *)
LEMMA PublishStep ==
  ASSUME VInv, NEW t \in Requesters, publish(t) PROVE VInv'
<1>1. VirtioTypeOK
  BY DEF VInv
<1>2. /\ rwpc[t] = "publish" /\ availIdx' = (availIdx + 1) % IdxMod /\ lock' = NoThread
      /\ rwpc' = [rwpc EXCEPT ![t] = "asleep_buf"]
      /\ UNCHANGED <<free, desc, info, avail, used, usedNew, store, seen, flight, usedIdx, busy, bdata,
                     irq, idx, wr, vpanicked>>
  BY DEF publish, Inc, device
<1>3. lock = t /\ Publishing /\ AvailN < NUM /\ NoThread \notin Requesters /\ Intr # t
  BY <1>2, VirtioAssumption DEF VInv, StageInv, AvailInv, Publishing
<1>4. /\ IsRing(seen, availIdx', AvailN + 1, NUM, IdxMod)
      /\ Slots(seen, AvailN + 1, NUM) = Slots(seen, AvailN, NUM) \cup {availIdx % NUM}
  <2>1. CanPut(seen, availIdx, AvailN, NUM, IdxMod)
    BY <1>3, AvailRing, RingPut
  <2>2. QED
    BY <1>2, <2>1 DEF CanPut
<1>5. AvailN' = AvailN + 1 /\ AvailN \in Nat /\ availIdx' \in Index
  BY SMTT(60), <1>2, <1>4, AvailRing, RingCount, Sizes DEF IsRing, AvailN
<1>6. VirtioTypeOK'
  BY <1>1, <1>2, <1>5 DEF VirtioTypeOK
<1>7. Active' = Active
  BY <1>1, <1>2 DEF Active, VirtioTypeOK
<1>8. FormInv' /\ PartInv'
  BY <1>2, <1>7, SameChains
<1>9. StageInv'
  <2>1. \A u \in Requesters : u # t => rwpc'[u] = rwpc[u] /\ rwpc[u] # "publish"
    BY <1>1, <1>2, <1>3 DEF VInv, StageInv, VirtioTypeOK
  <2>2. rwpc'[t] = "asleep_buf" /\ busy[t]
    BY <1>1, <1>2 DEF VInv, StageInv, VirtioTypeOK
  <2>3. QED
    BY <1>2, <1>3, <2>1, <2>2 DEF VInv, StageInv
<1>10. AvailInv'
  <2>1. ~Publishing'
    BY <1>2, <1>3 DEF Publishing
  <2>2. AvailN' <= NUM
    BY SMTT(60), <1>3, <1>5, Sizes
  <2>3. \A s \in Desc : avail[s] # Stale <=> s \in Slots(seen, AvailN, NUM) \/ s = availIdx % NUM
    BY <1>3 DEF VInv, AvailInv
  <2>4. \A s \in Desc : avail'[s] # Stale <=> s \in Slots(seen', AvailN', NUM)
    BY <1>2, <1>4, <1>5, <2>3
  <2>5. Once(avail)'
    BY <1>2 DEF VInv, AvailInv, Once
  <2>6. QED
    BY <2>1, <2>2, <2>4, <2>5 DEF AvailInv
<1>11. UsedInv'
  BY <1>2, <1>3 DEF VInv, UsedInv, UsedN, Once
<1>12. PlaceInv'
  BY <1>2 DEF VInv, PlaceInv, Queued, Finished, In
<1>13. DataInv'
  <2>1. \A u \in Requesters : rwpc'[u] \in {"wait", "done"} => rwpc[u] \in {"wait", "done"}
    BY <1>1, <1>2 DEF VirtioTypeOK
  <2>2. QED
    BY <1>2, <2>1 DEF VInv, DataInv, Finished, In
<1>14. WaitInv'
  <2>1. \A u \in Requesters : rwpc'[u] = "asleep_free" => rwpc[u] = "asleep_free"
    BY <1>1, <1>2 DEF VirtioTypeOK
  <2>2. Free' = Free
    BY <1>2 DEF Free
  <2>3. QED
    BY <2>1, <2>2 DEF VInv, WaitInv
<1>15. QED
  BY <1>6, <1>8, <1>9, <1>10, <1>11, <1>12, <1>13, <1>14 DEF VInv

(* Steps of the handler that only take or release vdisk_lock.              *)
LEMMA LockStep ==
  ASSUME VInv, intr_ack \/ intr_done PROVE VInv'
<1>1. /\ lock \in {NoThread, Intr} /\ lock' \in {NoThread, Intr} /\ irq' \in BOOLEAN
      /\ usedIdx # usedNew => irq' \/ lock' = Intr
      /\ UNCHANGED <<free, desc, info, avail, availIdx, used, usedNew, store, seen, flight, usedIdx, busy,
                     bdata, rwpc, idx, wr, vpanicked>>
  BY DEF intr_ack, intr_done, VInv, VirtioTypeOK, driver, device
<1>2. VirtioTypeOK'
  BY <1>1 DEF VInv, VirtioTypeOK
<1>3. Active' = Active
  BY <1>1 DEF Active
<1>4. FormInv' /\ PartInv'
  BY <1>1, <1>3, SameChains
<1>5. ~Publishing /\ ~Publishing' /\ \A t \in Requesters : t \notin {NoThread, Intr}
  BY <1>1, VirtioAssumption DEF Publishing
<1>6. StageInv'
  BY <1>1, <1>5 DEF VInv, StageInv
<1>7. AvailInv'
  BY <1>1, <1>5 DEF VInv, AvailInv, AvailN, Once
<1>8. UsedInv'
  BY <1>1 DEF VInv, UsedInv, UsedN, Once
<1>9. PlaceInv' /\ DataInv'
  BY SMTT(60), <1>1 DEF VInv, PlaceInv, DataInv, Queued, Finished, In
<1>10. WaitInv'
  BY <1>1 DEF VInv, WaitInv, Free
<1>11. QED
  BY <1>2, <1>4, <1>6, <1>7, <1>8, <1>9, <1>10 DEF VInv

(* The device takes the chain at its position in the avail ring.           *)
LEMMA TakeStep ==
  ASSUME VInv, device_take PROVE VInv'
<1> DEFINE a == seen % NUM
           h == avail[a]
<1>1. VirtioTypeOK
  BY DEF VInv
<1>2. /\ seen # availIdx /\ flight' = flight \cup {h} /\ avail' = [avail EXCEPT ![a] = Stale]
      /\ seen' = (seen + 1) % IdxMod
      /\ UNCHANGED <<free, desc, info, availIdx, used, usedNew, store, usedIdx, lock, busy, bdata, irq,
                     rwpc, idx, wr, vpanicked>>
  BY DEF device_take, Inc
<1>3. AvailN <= NUM
  BY DEF VInv, AvailInv
<1>4. /\ IsRing(seen', availIdx, AvailN - 1, NUM, IdxMod) /\ AvailN \in Nat /\ AvailN > 0
      /\ a \in 0..(NUM - 1) /\ a \in Slots(seen, AvailN, NUM)
      /\ Slots(seen', AvailN - 1, NUM) = Slots(seen, AvailN, NUM) \ {a}
  <2>1. IsRing(seen, availIdx, AvailN, NUM, IdxMod)
    BY AvailRing
  <2>2. CanTake(seen, availIdx, AvailN, NUM, IdxMod)
    BY <1>2, <1>3, <2>1, RingTake
  <2>3. QED
    BY <1>2, <2>2 DEF CanTake
<1> HIDE DEF a
<1>5. a \in Desc /\ avail[a] # Stale
  BY <1>4, Sizes DEF VInv, AvailInv
<1>6. Take(avail, a, avail')
  BY <1>1, <1>2, <1>5 DEF Take, VirtioTypeOK, VInv, AvailInv
<1>7. /\ h \in Desc /\ avail' \in [Desc -> 0..Stale] /\ Once(avail')
      /\ \A g \in Desc : In(avail', g) <=> In(avail, g) /\ g # h
  BY <1>6, TakeEntry
<1>8. \A g \in Desc : (Queued(g)' <=> Queued(g) /\ g # h) /\ (Finished(g)' <=> Finished(g))
  BY <1>2, <1>7 DEF Queued, Finished, In
<1>9. Queued(h)
  BY <1>5 DEF Queued, In
<1> HIDE DEF h
<1>10. AvailN' = AvailN - 1 /\ seen' \in Index
  BY <1>2, <1>4, Sizes DEF IsRing, AvailN
<1>11. VirtioTypeOK'
  BY <1>1, <1>2, <1>7, <1>10 DEF VirtioTypeOK
<1>12. FormInv' /\ PartInv'
  <2>1. Active' = Active
    BY <1>2 DEF Active
  <2>2. QED
    BY <1>2, <2>1, SameChains
<1>13. StageInv'
  BY <1>2 DEF VInv, StageInv
<1>14. AvailInv'
  <2>1. Publishing' <=> Publishing
    BY <1>2 DEF Publishing
  <2>2. AvailN' <= NUM /\ (Publishing => AvailN' < NUM)
    BY SMTT(60), <1>3, <1>4, <1>10, Sizes
  <2>3. Publishing => availIdx % NUM # a /\ availIdx % NUM \in Desc
    <3> SUFFICES ASSUME Publishing PROVE availIdx % NUM # a /\ availIdx % NUM \in Desc
      OBVIOUS
    <3>1. AvailN < NUM
      BY DEF VInv, AvailInv
    <3>2. availIdx % NUM \notin Slots(seen, AvailN, NUM) /\ availIdx % NUM \in 0..(NUM - 1)
      <4>1. CanPut(seen, availIdx, AvailN, NUM, IdxMod)
        BY <3>1, AvailRing, RingPut
      <4>2. QED
        BY <4>1 DEF CanPut
    <3>3. QED
      BY <1>4, <3>2, Sizes
  <2>4. \A s \in Desc : avail'[s] # Stale <=> avail[s] # Stale /\ s # a
    BY <1>1, <1>2 DEF VirtioTypeOK
  <2>5. \A s \in Desc : avail'[s] # Stale <=>
          s \in Slots(seen', AvailN', NUM) \/ (Publishing /\ s = availIdx % NUM)
    BY <1>4, <1>10, <2>3, <2>4 DEF VInv, AvailInv
  <2>6. Publishing => avail'[availIdx % NUM] = idx[lock]
    BY <1>1, <1>2, <2>3 DEF VInv, AvailInv, VirtioTypeOK
  <2>7. Once(avail)'
    BY <1>7 DEF Once
  <2>8. QED
    BY <1>2, <2>1, <2>2, <2>5, <2>6, <2>7 DEF AvailInv
<1>15. UsedInv'
  BY <1>2 DEF VInv, UsedInv, UsedN, Once
<1>16. PlaceInv'
  <2>1. \A g \in Desc : (Queued(g) \/ g \in flight \/ Finished(g))' =>
          \E u \in Requesters : busy'[u] /\ idx'[u] = g
    BY <1>2, <1>8, <1>9 DEF VInv, PlaceInv
  <2>2. \A g \in Desc : /\ ~(Queued(g) /\ g \in flight)'
                        /\ ~(Queued(g) /\ Finished(g))'
                        /\ ~(g \in flight /\ Finished(g))'
    BY <1>2, <1>7, <1>8, <1>9 DEF VInv, PlaceInv
  <2>3. ASSUME NEW u \in Requesters, busy'[u]
        PROVE  (Queued(idx[u]) \/ idx[u] \in flight \/ Finished(idx[u]))'
    <3>1. busy[u] /\ idx'[u] = idx[u] /\ idx[u] \in Desc
      BY <1>2, <2>3, Requests
    <3>2. Queued(idx[u]) \/ idx[u] \in flight \/ Finished(idx[u])
      BY <3>1 DEF VInv, PlaceInv
    <3>3. QED
      BY <1>2, <1>8, <3>1, <3>2 DEF Queued, Finished, In
  <2>4. QED
    BY <2>1, <2>2, <2>3 DEF PlaceInv
<1>17. DataInv'
  BY <1>2 DEF VInv, DataInv, Finished, In
<1>18. WaitInv'
  BY <1>2 DEF VInv, WaitInv, Free
<1>19. QED
  BY <1>11, <1>12, <1>13, <1>14, <1>15, <1>16, <1>17, <1>18 DEF VInv

(* The used ring has room for the chain the device finishes.               *)
LEMMA UsedRoom ==
  ASSUME VInv, NEW h \in Desc, ~Finished(h)
  PROVE  UsedN \in Nat /\ UsedN < NUM
<1>1. used \in [Desc -> 0..Stale] /\ usedIdx \in Index
  BY DEF VInv, VirtioTypeOK
<1>2. UsedN \in Nat /\ UsedN <= NUM /\ \A s \in Desc : used[s] # Stale <=> s \in Slots(usedIdx, UsedN, NUM)
  BY UsedRing, RingCount DEF VInv, UsedInv
<1>3. UsedN <= Cardinality(Desc \ {h})
  <2>1. usedIdx \in Int /\ UsedN \in Int /\ NUM \in Nat \ {0}
    BY SMTT(60), <1>1, <1>2, Sizes
  <2>2. Slots(usedIdx, UsedN, NUM) \subseteq Desc
    BY <2>1, Sizes, SlotsInRing
  <2>3. \A s \in Slots(usedIdx, UsedN, NUM) : used[s] \in Desc \ {h}
    BY <1>1, <1>2, <2>2, Sizes DEF Finished, In
  <2>4. \A r, s \in Slots(usedIdx, UsedN, NUM) : used[r] = used[s] => r = s
    BY <1>2, <2>2 DEF VInv, UsedInv, Once
  <2>5. IsFiniteSet(Desc \ {h})
    BY Sizes, FS_RemoveElement
  <2>6. QED
    BY SMTT(60), <1>2, <2>1, <2>3, <2>4, <2>5, RingHolds
<1>4. Cardinality(Desc \ {h}) = NUM - 1
  BY Sizes, FS_RemoveElement
<1>5. QED
  BY SMTT(60), <1>2, <1>3, <1>4, Sizes

(* What the device does to the buffer or the block of a chain's request.   *)
LEMMA Transfer ==
  ASSUME VInv, NEW h \in Desc, device_finish(h)
  PROVE  \E t \in Requesters :
           /\ busy[t] /\ idx[t] = h
           /\ bdata'[t] = store'[t]
           /\ IF wr[t] THEN bdata' = bdata ELSE store' = store
           /\ \A u \in Requesters : u # t => bdata'[u] = bdata[u] /\ store'[u] = store[u]
           /\ bdata' \in [Requesters -> Contents] /\ store' \in [Requesters -> Contents]
<1>1. h \in flight
  BY DEF device_finish
<1>2. PICK t \in Requesters : busy[t] /\ idx[t] = h
  BY <1>1 DEF VInv, PlaceInv
<1>3. desc[desc[h].next].buf = t /\ desc[desc[h].next].write = wr[t] /\ t # NoThread
  BY <1>2, Requests, VirtioAssumption DEF VInv, FormInv, Formed, Second
<1>4. IF wr[t] THEN store' = [store EXCEPT ![t] = bdata[t]] /\ UNCHANGED bdata
               ELSE bdata' = [bdata EXCEPT ![t] = store[t]] /\ UNCHANGED store
  BY <1>3 DEF device_finish
<1>5. bdata \in [Requesters -> Contents] /\ store \in [Requesters -> Contents]
  BY DEF VInv, VirtioTypeOK
<1>6. QED
  BY <1>2, <1>4, <1>5

(* The device completes a request and puts its head into the used ring.    *)
LEMMA FinishStep ==
  ASSUME VInv, NEW h \in Desc, device_finish(h) PROVE VInv'
<1> DEFINE a == usedNew % NUM
<1>1. VirtioTypeOK
  BY DEF VInv
<1>2. /\ h \in flight /\ flight' = flight \ {h}
      /\ info' = [info EXCEPT ![h].ok = TRUE]
      /\ used' = [used EXCEPT ![a] = h]
      /\ usedNew' = (usedNew + 1) % IdxMod
      /\ irq' = TRUE
      /\ UNCHANGED <<free, desc, avail, availIdx, seen, usedIdx, lock, busy, rwpc, idx, wr, vpanicked>>
  BY DEF device_finish, Inc
<1>3. PICK t \in Requesters :
           /\ busy[t] /\ idx[t] = h
           /\ bdata'[t] = store'[t]
           /\ \A u \in Requesters : u # t => bdata'[u] = bdata[u] /\ store'[u] = store[u]
           /\ bdata' \in [Requesters -> Contents] /\ store' \in [Requesters -> Contents]
  BY Transfer
<1>4. ~Finished(h) /\ ~Queued(h)
  BY <1>2 DEF VInv, PlaceInv
<1>5. UsedN \in Nat /\ UsedN < NUM
  BY <1>4, UsedRoom
<1>6. /\ IsRing(usedIdx, usedNew', UsedN + 1, NUM, IdxMod)
      /\ a \in 0..(NUM - 1) /\ a \notin Slots(usedIdx, UsedN, NUM)
      /\ Slots(usedIdx, UsedN + 1, NUM) = Slots(usedIdx, UsedN, NUM) \cup {a}
  <2>1. IsRing(usedIdx, usedNew, UsedN, NUM, IdxMod)
    BY UsedRing
  <2>2. CanPut(usedIdx, usedNew, UsedN, NUM, IdxMod)
    BY <1>5, <2>1, RingPut
  <2>3. QED
    BY <1>2, <2>2 DEF CanPut
<1> HIDE DEF a
<1>7. a \in Desc /\ used[a] = Stale
  BY <1>6, Sizes DEF VInv, UsedInv
<1>8. Put(used, a, h, used')
  BY <1>1, <1>2, <1>7 DEF Put, VirtioTypeOK
<1>9. /\ used' \in [Desc -> 0..Stale] /\ Once(used')
      /\ \A g \in Desc : In(used', g) <=> In(used, g) \/ g = h
  <2>1. Once(used) /\ ~In(used, h)
    BY <1>4 DEF VInv, UsedInv, Finished
  <2>2. QED
    BY <1>8, <2>1, PutEntry
<1>10. \A g \in Desc : (Finished(g)' <=> Finished(g) \/ g = h) /\ (Queued(g)' <=> Queued(g))
  BY <1>2, <1>9 DEF Queued, Finished, In
<1>11. UsedN' = UsedN + 1 /\ usedNew' \in Index
  BY <1>2, <1>6, Sizes DEF IsRing, UsedN
<1>12. info' \in [Desc -> [b : Requesters \cup {NoThread}, ok : BOOLEAN]]
       /\ (\A i \in Desc : info'[i].b = info[i].b) /\ info'[h].ok
       /\ \A i \in Desc : i # h => info'[i] = info[i]
  <2>1. info \in [Desc -> [b : Requesters \cup {NoThread}, ok : BOOLEAN]]
    BY <1>1 DEF VirtioTypeOK
  <2>2. info'[h] = [b |-> info[h].b, ok |-> TRUE] /\ \A i \in Desc : i # h => info'[i] = info[i]
    BY <1>2, <2>1
  <2>3. info' \in [Desc -> [b : Requesters \cup {NoThread}, ok : BOOLEAN]]
    BY <1>2, <2>1
  <2>4. QED
    BY SMTT(60), <2>2, <2>3
<1>13. VirtioTypeOK'
  BY <1>1, <1>2, <1>3, <1>9, <1>11, <1>12 DEF VirtioTypeOK
<1>14. FormInv' /\ PartInv'
  <2>1. Active' = Active
    BY <1>2 DEF Active
  <2>2. QED
    BY <1>2, <1>12, <2>1, SameChains
<1>15. StageInv'
  BY <1>2 DEF VInv, StageInv
<1>16. AvailInv'
  BY <1>2 DEF VInv, AvailInv, AvailN, Publishing, Once
<1>17. UsedInv'
  <2>1. UsedN' <= NUM
    BY SMTT(60), <1>5, <1>11, Sizes
  <2>2. \A s \in Desc : used'[s] # Stale <=> used[s] # Stale \/ s = a
    BY <1>1, <1>2, Sizes DEF VirtioTypeOK
  <2>3. \A s \in Desc : used'[s] # Stale <=> s \in Slots(usedIdx', UsedN', NUM)
    BY <1>2, <1>6, <1>11, <2>2 DEF VInv, UsedInv
  <2>4. Once(used)'
    BY <1>9 DEF Once
  <2>5. QED
    BY <1>2, <2>1, <2>3, <2>4 DEF UsedInv
<1>18. PlaceInv'
  <2>1. \A g \in Desc : (Queued(g) \/ g \in flight \/ Finished(g))' =>
          \E u \in Requesters : busy'[u] /\ idx'[u] = g
    BY <1>2, <1>10 DEF VInv, PlaceInv
  <2>2. \A g \in Desc : /\ ~(Queued(g) /\ g \in flight)'
                        /\ ~(Queued(g) /\ Finished(g))'
                        /\ ~(g \in flight /\ Finished(g))'
    BY <1>2, <1>4, <1>10 DEF VInv, PlaceInv
  <2>3. ASSUME NEW u \in Requesters, busy'[u]
        PROVE  (Queued(idx[u]) \/ idx[u] \in flight \/ Finished(idx[u]))'
    <3>1. busy[u] /\ idx'[u] = idx[u] /\ idx[u] \in Desc
      BY <1>2, <2>3, Requests
    <3>2. Queued(idx[u]) \/ idx[u] \in flight \/ Finished(idx[u])
      BY <3>1 DEF VInv, PlaceInv
    <3>3. QED
      BY <1>2, <1>10, <3>1, <3>2 DEF Queued, Finished, In
  <2>4. QED
    BY <2>1, <2>2, <2>3 DEF PlaceInv
<1>19. DataInv'
  <2>1. ASSUME NEW u \in Requesters, rwpc'[u] \in {"wait", "done"} PROVE bdata'[u] = store'[u]
    <3>1. u # t
      BY <1>2, <1>3, <2>1 DEF VInv, StageInv
    <3>2. QED
      BY <1>2, <1>3, <2>1, <3>1 DEF VInv, DataInv
  <2>2. ASSUME NEW u \in Requesters, busy'[u], Finished(idx[u])'
        PROVE  info'[idx'[u]].ok /\ bdata'[u] = store'[u]
    <3>1. busy[u] /\ idx'[u] = idx[u] /\ idx[u] \in Desc
      BY <1>2, <2>2, Requests
    <3>2. CASE u = t
      BY <1>3, <1>12, <3>1, <3>2
    <3>3. CASE u # t
      <4>1. idx[u] # h
        BY <1>3, <3>1, <3>3, Requests
      <4>2. Finished(idx[u])
        BY <1>10, <2>2, <3>1, <4>1 DEF Finished, In
      <4>3. info[idx[u]].ok /\ bdata[u] = store[u]
        BY <3>1, <4>2 DEF VInv, DataInv
      <4>4. QED
        BY <1>3, <1>12, <3>1, <3>3, <4>1, <4>3
    <3>4. QED
      BY <3>2, <3>3
  <2>3. QED
    BY <2>1, <2>2 DEF DataInv
<1>20. WaitInv'
  BY <1>2 DEF VInv, WaitInv, Free
<1>21. QED
  BY <1>13, <1>14, <1>15, <1>16, <1>17, <1>18, <1>19, <1>20 DEF VInv

(* The handler finds a finished request of a thread that sleeps for it.    *)
LEMMA UsedEntry ==
  ASSUME VInv, lock = Intr, usedIdx # usedNew
  PROVE  LET a == usedIdx % NUM IN
         /\ a \in Desc /\ used[a] \in Desc /\ used[a] # Stale /\ Finished(used[a])
         /\ IsRing((usedIdx + 1) % IdxMod, usedNew, UsedN - 1, NUM, IdxMod)
         /\ UsedN \in Nat /\ UsedN <= NUM
         /\ Slots((usedIdx + 1) % IdxMod, UsedN - 1, NUM) = Slots(usedIdx, UsedN, NUM) \ {a}
         /\ \E t \in Requesters : /\ busy[t] /\ idx[t] = used[a] /\ rwpc[t] = "asleep_buf"
                                  /\ info[used[a]].b = t /\ info[used[a]].ok /\ t # NoThread
                                  /\ bdata[t] = store[t]
<1> DEFINE a == usedIdx % NUM
<1>1. UsedN <= NUM /\ IsRing(usedIdx, usedNew, UsedN, NUM, IdxMod)
  BY UsedRing DEF VInv, UsedInv
<1>2. /\ IsRing((usedIdx + 1) % IdxMod, usedNew, UsedN - 1, NUM, IdxMod) /\ UsedN \in Nat
      /\ usedIdx % NUM \in 0..(NUM - 1) /\ usedIdx % NUM \in Slots(usedIdx, UsedN, NUM)
      /\ Slots((usedIdx + 1) % IdxMod, UsedN - 1, NUM) = Slots(usedIdx, UsedN, NUM) \ {usedIdx % NUM}
  <2>1. CanTake(usedIdx, usedNew, UsedN, NUM, IdxMod)
    BY <1>1, RingTake
  <2>2. QED
    BY <2>1 DEF CanTake
<1>3. a \in Desc /\ a \in Slots(usedIdx, UsedN, NUM)
  BY <1>2, Sizes
<1> HIDE DEF a
<1>4. used[a] # Stale /\ used[a] \in Desc
  <2>1. used[a] # Stale
    BY <1>3 DEF VInv, UsedInv
  <2>2. used[a] \in 0..Stale
    BY <1>3 DEF VInv, VirtioTypeOK
  <2>3. QED
    BY <2>1, <2>2, Sizes
<1>5. Finished(used[a])
  BY <1>3 DEF Finished, In
<1>6. PICK t \in Requesters : busy[t] /\ idx[t] = used[a]
  BY <1>4, <1>5 DEF VInv, PlaceInv
<1>7. info[used[a]].b = t /\ t # NoThread /\ t # Intr
  BY <1>6, Requests, VirtioAssumption
<1>8. rwpc[t] = "asleep_buf"
  BY <1>6, <1>7 DEF VInv, StageInv
<1>9. info[used[a]].ok /\ bdata[t] = store[t]
  BY <1>5, <1>6 DEF VInv, DataInv
<1>10. QED
  BY <1>1, <1>2, <1>3, <1>4, <1>5, <1>6, <1>7, <1>8, <1>9 DEF a

(* virtio_disk_intr takes an entry of the used ring and wakes its thread.  *)
LEMMA UsedStep ==
  ASSUME VInv, intr_used PROVE VInv'
<1> DEFINE a == usedIdx % NUM
           h == used[a]
<1>1. VirtioTypeOK
  BY DEF VInv
<1>2. /\ a \in Desc /\ h \in Desc /\ h # Stale /\ Finished(h)
      /\ IsRing((usedIdx + 1) % IdxMod, usedNew, UsedN - 1, NUM, IdxMod)
      /\ UsedN \in Nat /\ UsedN <= NUM
      /\ Slots((usedIdx + 1) % IdxMod, UsedN - 1, NUM) = Slots(usedIdx, UsedN, NUM) \ {a}
      /\ \E t \in Requesters : /\ busy[t] /\ idx[t] = h /\ rwpc[t] = "asleep_buf"
                               /\ info[h].b = t /\ info[h].ok /\ t # NoThread
                               /\ bdata[t] = store[t]
  BY UsedEntry DEF intr_used
<1>3. PICK t \in Requesters : /\ busy[t] /\ idx[t] = h /\ rwpc[t] = "asleep_buf"
                              /\ info[h].b = t /\ info[h].ok /\ t # NoThread
                              /\ bdata[t] = store[t]
  BY <1>2
<1>4. /\ lock = Intr
      /\ busy' = [busy EXCEPT ![t] = FALSE]
      /\ rwpc' = [rwpc EXCEPT ![t] = "wait"]
      /\ used' = [used EXCEPT ![a] = Stale]
      /\ usedIdx' = (usedIdx + 1) % IdxMod
      /\ UNCHANGED <<free, desc, info, avail, availIdx, usedNew, store, seen, flight, lock, bdata, irq,
                     idx, wr, vpanicked>>
  BY <1>3 DEF intr_used, Inc, driver
<1>5. Take(used, a, used')
  BY <1>1, <1>2, <1>4 DEF Take, VirtioTypeOK, VInv, UsedInv
<1>6. /\ used' \in [Desc -> 0..Stale] /\ Once(used')
      /\ \A g \in Desc : In(used', g) <=> In(used, g) /\ g # h
  BY <1>5, TakeEntry
<1>7. \A g \in Desc : (Finished(g)' <=> Finished(g) /\ g # h) /\ (Queued(g)' <=> Queued(g))
  BY <1>4, <1>6 DEF Queued, Finished, In
<1> HIDE DEF a, h
<1>8. UsedN' = UsedN - 1 /\ usedIdx' \in Index
  BY <1>2, <1>4, Sizes DEF IsRing, UsedN
<1>9. rwpc'[t] = "wait" /\ ~busy'[t]
      /\ \A u \in Requesters : u # t => rwpc'[u] = rwpc[u] /\ busy'[u] = busy[u]
  BY <1>1, <1>4 DEF VirtioTypeOK
<1>10. VirtioTypeOK'
  BY <1>1, <1>4, <1>6, <1>8 DEF VirtioTypeOK
<1>11. FormInv' /\ PartInv'
  <2>1. Active' = Active
    BY <1>3, <1>9 DEF Active
  <2>2. QED
    BY <1>4, <2>1, SameChains
<1>12. StageInv'
  BY SMTT(60), <1>3, <1>4, <1>9 DEF VInv, StageInv
<1>13. AvailInv'
  BY <1>4 DEF VInv, AvailInv, AvailN, Publishing, Once
<1>14. UsedInv'
  <2>1. UsedN' <= NUM
    BY SMTT(60), <1>2, <1>8, Sizes
  <2>2. \A s \in Desc : used'[s] # Stale <=> used[s] # Stale /\ s # a
    BY <1>1, <1>4 DEF VirtioTypeOK
  <2>3. \A s \in Desc : used'[s] # Stale <=> s \in Slots(usedIdx', UsedN', NUM)
    BY <1>2, <1>4, <1>8, <2>2 DEF VInv, UsedInv
  <2>4. Once(used)'
    BY <1>6 DEF Once
  <2>5. QED
    BY <1>4, <2>1, <2>3, <2>4 DEF UsedInv
<1>15. PlaceInv'
  <2>1. ASSUME NEW g \in Desc, Queued(g)' \/ g \in flight' \/ Finished(g)'
        PROVE  \E u \in Requesters : busy'[u] /\ idx'[u] = g
    <3>1. (Queued(g) \/ g \in flight \/ Finished(g)) /\ g # h
      BY <1>2, <1>4, <1>7, <2>1 DEF VInv, PlaceInv
    <3>2. PICK u \in Requesters : busy[u] /\ idx[u] = g
      BY <3>1 DEF VInv, PlaceInv
    <3>3. QED
      BY <1>3, <1>4, <1>9, <3>1, <3>2
  <2>2. \A g \in Desc : /\ ~(Queued(g) /\ g \in flight)'
                        /\ ~(Queued(g) /\ Finished(g))'
                        /\ ~(g \in flight /\ Finished(g))'
    BY <1>4, <1>7 DEF VInv, PlaceInv
  <2>3. ASSUME NEW u \in Requesters, busy'[u]
        PROVE  (Queued(idx[u]) \/ idx[u] \in flight \/ Finished(idx[u]))'
    <3>1. busy[u] /\ idx'[u] = idx[u] /\ idx[u] \in Desc /\ u # t
      BY <1>4, <1>9, <2>3, Requests
    <3>2. (Queued(idx[u]) \/ idx[u] \in flight \/ Finished(idx[u])) /\ idx[u] # h
      BY <1>3, <3>1, Requests DEF VInv, PlaceInv
    <3>3. QED
      BY SMTT(60), <1>4, <1>7, <3>1, <3>2 DEF Queued, Finished, In
  <2>4. QED
    BY <2>1, <2>2, <2>3 DEF PlaceInv
<1>16. DataInv'
  <2>1. \A u \in Requesters : rwpc'[u] \in {"wait", "done"} => bdata'[u] = store'[u]
    BY <1>3, <1>4, <1>9 DEF VInv, DataInv
  <2>2. ASSUME NEW u \in Requesters, busy'[u], Finished(idx[u])'
        PROVE  info'[idx'[u]].ok /\ bdata'[u] = store'[u]
    <3>1. busy[u] /\ idx'[u] = idx[u] /\ idx[u] \in Desc
      BY <1>4, <1>9, <2>2, Requests
    <3>2. Finished(idx[u])
      BY <1>7, <2>2, <3>1 DEF Finished, In
    <3>3. QED
      BY <1>4, <3>1, <3>2 DEF VInv, DataInv
  <2>3. QED
    BY <2>1, <2>2 DEF DataInv
<1>17. WaitInv'
  <2>1. Free' = Free
    BY <1>4 DEF Free
  <2>2. (\E u \in Requesters : rwpc'[u] = "asleep_free") => \E u \in Requesters : rwpc[u] = "asleep_free"
    BY <1>9
  <2>3. QED
    BY <2>1, <2>2 DEF VInv, WaitInv
<1>18. QED
  BY <1>10, <1>11, <1>12, <1>13, <1>14, <1>15, <1>16, <1>17 DEF VInv

-----------------------------------------------------------------------------
(* The chain free_chain follows is the three descriptors of the request.   *)
LEMMA ChainIsThree ==
  ASSUME VInv, NEW t \in Active
  PROVE  Chain(idx[t]) = Three(t)
<1>1. desc[idx[t]].more /\ desc[Second(t)].more
  BY DEF VInv, FormInv, Formed
<1>2. QED
  BY <1>1 DEF Chain, Three, Second, Third

(* The request gives its descriptors back.                                 *)
LEMMA ReturnStep ==
  ASSUME VInv, NEW t \in Requesters, rw_return(t) PROVE VInv'
<1>1. VirtioTypeOK
  BY DEF VInv
<1>2. rwpc[t] = "wait" /\ ~busy[t] /\ lock = NoThread /\ t \in Active
  BY DEF rw_return, Returns, Active
<1>3. Freed(idx[t]) = Three(t)
  BY <1>2, ChainIsThree DEF Freed
<1>4. /\ free' = [i \in Desc |-> free[i] \/ i \in Three(t)]
      /\ desc' = [i \in Desc |-> IF i \in Three(t) THEN NoDesc ELSE desc[i]]
      /\ vpanicked' = (vpanicked \/ \E i \in Three(t) : free[i])
      /\ info' = [info EXCEPT ![idx[t]].b = NoThread]
      /\ idx' = [idx EXCEPT ![t] = Stale]
      /\ rwpc' = WakeFree(t, "done")
      /\ UNCHANGED <<avail, availIdx, used, usedNew, store, seen, flight, usedIdx, lock, busy, bdata, irq, wr>>
  BY <1>3 DEF rw_return, device
<1>5. Three(t) \subseteq Desc /\ idx[t] \in Three(t) /\ \A i \in Three(t) : ~free[i]
  BY <1>2, Requests
<1>6. /\ \A u \in Requesters : rwpc'[u] = IF u = t THEN "done"
                                          ELSE IF rwpc[u] = "asleep_free" THEN "alloc" ELSE rwpc[u]
      /\ rwpc' \in [Requesters -> {"idle", "alloc", "asleep_free", "publish", "wait", "asleep_buf", "done"}]
  BY <1>1, <1>4 DEF WakeFree, VirtioTypeOK
<1>7. \A u \in Requesters : u # t => idx'[u] = idx[u]
  BY <1>1, <1>4 DEF VirtioTypeOK
<1>8. \A i \in Desc : i # idx[t] => info'[i] = info[i]
  BY <1>1, <1>4 DEF VirtioTypeOK
<1>9. vpanicked' = FALSE
  BY <1>4, <1>5 DEF VInv, StageInv
<1>10. VirtioTypeOK'
  <2>1. free' \in [Desc -> BOOLEAN]
    BY <1>1, <1>4 DEF VirtioTypeOK
  <2>2. desc' \in [Desc -> [next : Desc, more : BOOLEAN, buf : Requesters \cup {NoThread}, write : BOOLEAN]]
    <3>1. 0 \in Desc
      BY SMTT(60), Sizes
    <3>2. NoDesc \in [next : Desc, more : BOOLEAN, buf : Requesters \cup {NoThread}, write : BOOLEAN]
      BY <3>1 DEF NoDesc
    <3>3. QED
      BY <1>1, <1>4, <3>2 DEF VirtioTypeOK
  <2>3. info' \in [Desc -> [b : Requesters \cup {NoThread}, ok : BOOLEAN]]
    BY <1>1, <1>4 DEF VirtioTypeOK
  <2>4. idx' \in [Requesters -> 0..Stale]
    BY <1>1, <1>4, Sizes DEF VirtioTypeOK
  <2>5. QED
    BY <1>1, <1>4, <1>6, <1>9, <2>1, <2>2, <2>3, <2>4 DEF VirtioTypeOK
<1>11. Active' = Active \ {t}
  BY <1>6 DEF Active
<1>12. ASSUME NEW u \in Active, u # t
       PROVE  Three(u)' = Three(u) /\ Formed(u)' /\ Three(u) \cap Three(t) = {} /\ idx'[u] = idx[u]
  <2>1. Three(u) \cap Three(t) = {}
    BY <1>2, <1>12 DEF VInv, PartInv
  <2>2. idx'[u] = idx[u] /\ Formed(u) /\ Three(u) \subseteq Desc
    BY <1>7, <1>12, Requests DEF VInv, FormInv, Active
  <2>3. \A i \in Three(u) : desc'[i] = desc[i] /\ info'[i] = info[i]
    BY <1>4, <1>5, <1>8, <2>1, <2>2
  <2>4. Second(u)' = Second(u)
    BY <2>2, <2>3 DEF Second, Three
  <2>5. Third(u)' = Third(u)
    BY <2>3, <2>4 DEF Third, Three
  <2>6. Formed(u)'
    BY <1>4, <2>2, <2>3, <2>4, <2>5 DEF Formed, Three
  <2>7. QED
    BY <2>1, <2>2, <2>4, <2>5, <2>6 DEF Three
<1>13. FormInv'
  BY <1>11, <1>12 DEF FormInv
<1>14. PartInv'
  <2>1. \A u \in Active' : \A i \in Three(u)' : ~free'[i]
    <3> SUFFICES ASSUME NEW u \in Active', NEW i \in Three(u)' PROVE ~free'[i]
      OBVIOUS
    <3>1. i \in Three(u) /\ i \notin Three(t) /\ u \in Active
      BY <1>11, <1>12
    <3>2. i \in Desc /\ ~free[i]
      BY <3>1, Requests
    <3>3. QED
      BY <1>4, <3>1, <3>2
  <2>2. \A u, v \in Active' : u # v => Three(u)' \cap Three(v)' = {}
    BY <1>11, <1>12 DEF VInv, PartInv
  <2>3. ASSUME NEW i \in Desc, ~free'[i] PROVE \E u \in Active' : i \in Three(u)'
    <3>1. ~free[i] /\ i \notin Three(t)
      BY <1>4, <2>3
    <3>2. PICK u \in Active : i \in Three(u)
      BY <3>1 DEF VInv, PartInv
    <3>3. QED
      BY <1>11, <1>12, <3>1, <3>2
  <2>4. QED
    BY <2>1, <2>2, <2>3 DEF PartInv
<1>15. StageInv'
  <2>1. \A u \in Requesters : busy'[u] <=> rwpc'[u] \in {"publish", "asleep_buf"}
    BY <1>2, <1>4, <1>6 DEF VInv, StageInv
  <2>2. \A u \in Requesters : lock' = u <=> rwpc'[u] = "publish"
    BY <1>2, <1>4, <1>6, VirtioAssumption DEF VInv, StageInv
  <2>3. QED
    BY <1>9, <2>1, <2>2 DEF StageInv
<1>16. AvailInv'
  <2>1. ~Publishing /\ ~Publishing'
    BY <1>2, <1>4, VirtioAssumption DEF Publishing
  <2>2. QED
    BY <1>4, <2>1 DEF VInv, AvailInv, AvailN, Once
<1>17. UsedInv'
  BY <1>4 DEF VInv, UsedInv, UsedN, Once
<1>18. \A u \in Requesters : busy'[u] => busy[u] /\ u # t /\ idx'[u] = idx[u]
  BY <1>2, <1>4, <1>7
<1>19. PlaceInv'
  <2>1. \A g \in Desc : (Queued(g) \/ g \in flight \/ Finished(g))' =>
          \E u \in Requesters : busy'[u] /\ idx'[u] = g
    BY SMTT(60), <1>2, <1>4, <1>7 DEF VInv, PlaceInv, Queued, Finished, In
  <2>2. \A g \in Desc : /\ ~(Queued(g) /\ g \in flight)'
                        /\ ~(Queued(g) /\ Finished(g))'
                        /\ ~(g \in flight /\ Finished(g))'
    BY <1>4 DEF VInv, PlaceInv, Queued, Finished, In
  <2>3. \A u \in Requesters : busy'[u] => (Queued(idx[u]) \/ idx[u] \in flight \/ Finished(idx[u]))'
    BY SMTT(60), <1>4, <1>18 DEF VInv, PlaceInv, Queued, Finished, In
  <2>4. QED
    BY <2>1, <2>2, <2>3 DEF PlaceInv
<1>20. DataInv'
  <2>1. \A u \in Requesters : rwpc'[u] \in {"wait", "done"} => bdata'[u] = store'[u]
    BY <1>2, <1>4, <1>6 DEF VInv, DataInv
  <2>2. ASSUME NEW u \in Requesters, busy'[u], Finished(idx[u])'
        PROVE  info'[idx'[u]].ok /\ bdata'[u] = store'[u]
    <3>1. busy[u] /\ u # t /\ idx'[u] = idx[u] /\ idx[u] \in Desc /\ idx[u] # idx[t]
      BY <1>2, <1>18, <2>2, Requests
    <3>2. Finished(idx[u])
      BY <1>4, <2>2, <3>1 DEF Finished, In
    <3>3. QED
      BY SMTT(60), <1>4, <1>8, <3>1, <3>2 DEF VInv, DataInv
  <2>3. QED
    BY <2>1, <2>2 DEF DataInv
<1>21. WaitInv'
  BY <1>6 DEF WaitInv
<1>22. QED
  BY <1>10, <1>13, <1>14, <1>15, <1>16, <1>17, <1>19, <1>20, <1>21 DEF VInv

(* virtio_disk_init makes all descriptors free and both rings empty.       *)
LEMMA InitVInv == virtio_disk_init => VInv
<1> SUFFICES ASSUME virtio_disk_init PROVE VInv
  OBVIOUS
<1> USE DEF virtio_disk_init
<1>1. 0 \in Desc /\ 0 \in Index /\ Stale \in 0..Stale
  BY SMTT(60), Sizes
<1>2. VirtioTypeOK
  <2>1. desc \in [Desc -> [next : Desc, more : BOOLEAN, buf : Requesters \cup {NoThread}, write : BOOLEAN]]
    BY <1>1 DEF NoDesc
  <2>2. QED
    BY <1>1, <2>1 DEF VirtioTypeOK
<1>3. Active = {}
  BY DEF Active
<1>4. FormInv /\ PartInv /\ StageInv
  BY <1>3, VirtioAssumption DEF FormInv, PartInv, StageInv
<1>5. ~Publishing
  BY VirtioAssumption DEF Publishing
<1>6. AvailN = 0 /\ UsedN = 0
  <2>1. IdxMod \in Nat \ {0} /\ 0 \in 0..(IdxMod - 1)
    BY SMTT(60), Sizes
  <2>2. (0 - 0) % IdxMod = 0
    BY SMTT(60), <2>1, RingDistance
  <2>3. QED
    BY <2>2 DEF AvailN, UsedN
<1>7. \A a : Slots(a, 0, NUM) = {}
  BY SMTT(60) DEF Slots
<1>8. AvailInv /\ UsedInv
  BY SMTT(60), <1>5, <1>6, <1>7, Sizes DEF AvailInv, UsedInv, Once
<1>9. \A h \in Desc : ~Queued(h) /\ ~Finished(h)
  BY Sizes DEF Queued, Finished, In
<1>10. PlaceInv /\ DataInv /\ WaitInv
  BY <1>9 DEF PlaceInv, DataInv, WaitInv
<1>11. QED
  BY <1>2, <1>4, <1>8, <1>10 DEF VInv

(* Every step of threads, handler and device keeps the invariant.          *)
LEMMA NextVInv == VInv /\ [VirtioNext]_virtiovars => VInv'
<1> SUFFICES ASSUME VInv, [VirtioNext]_virtiovars PROVE VInv'
  OBVIOUS
<1>1. CASE Device
  BY <1>1, TakeStep, FinishStep DEF Device
<1>2. CASE virtio_disk_intr
  BY <1>2, LockStep, UsedStep DEF virtio_disk_intr
<1>3. ASSUME NEW t \in Requesters, RwCall(t) \/ Rw(t) PROVE VInv'
  BY <1>3, CallStep, FailStep, RwStep, PublishStep, ReturnStep, DoneStep DEF Rw
<1>4. CASE UNCHANGED virtiovars
  <2>1. UNCHANGED <<free, desc, info, avail, availIdx, used, usedNew, usedIdx, lock, busy, bdata, store,
                    seen, flight, irq, rwpc, idx, wr, vpanicked>>
    BY <1>4 DEF virtiovars
  <2>2. VirtioTypeOK'
    BY <2>1 DEF VInv, VirtioTypeOK
  <2>3. (\E t \in Requesters : rwpc'[t] = "asleep_free") => Cardinality(Free) < 3
    BY <2>1 DEF VInv, WaitInv
  <2>4. QED
    BY <2>1, <2>2, <2>3, QuietStep
<1>5. QED
  BY <1>1, <1>2, <1>3, <1>4 DEF VirtioNext

-----------------------------------------------------------------------------
(* Each request has its three descriptors to itself, each head is in one   *)
(* place between publish and completion, and the slots in use are those    *)
(* between the ring indices, which therefore never overtake each other.    *)
THEOREM VirtioInvariant == VirtioSpec => []VInv
<1>1. QED
  BY InitVInv, NextVInv, PTL DEF VirtioSpec

(* Three different things are three.                                       *)
LEMMA CardThree ==
  ASSUME NEW a, NEW b, NEW c, a # b, a # c, b # c
  PROVE  Cardinality({a, b, c}) = 3
<1>1. IsFiniteSet({a}) /\ Cardinality({a}) = 1
  BY FS_Singleton
<1>2. IsFiniteSet({a} \cup {b}) /\ Cardinality({a} \cup {b}) = 1 + 1
  BY <1>1, FS_AddElement
<1>3. Cardinality(({a} \cup {b}) \cup {c}) = (1 + 1) + 1
  <2>1. c \notin {a} \cup {b}
    OBVIOUS
  <2>2. QED
    BY <1>2, <2>1, FS_AddElement
<1>4. ({a} \cup {b}) \cup {c} = {a, b, c} /\ (1 + 1) + 1 = 3
  BY SMTT(60)
<1>5. QED
  BY <1>3, <1>4

(* The driver's bookkeeping for any number of threads and descriptors: no  *)
(* descriptor leaks or belongs to two requests, no buffer is the device's  *)
(* after b->disk is 0, and none of the driver's panics is reached.         *)
THEOREM VirtioOwnership == VirtioSpec => []OwnershipExact
<1>1. ASSUME VInv PROVE OwnershipExact
  <2>1. \A t \in Active : Cardinality(Chain(idx[t])) = 3
    <3> SUFFICES ASSUME NEW t \in Active PROVE Cardinality(Chain(idx[t])) = 3
      OBVIOUS
    <3>1. idx[t] # Second(t) /\ idx[t] # Third(t) /\ Second(t) # Third(t)
      BY <1>1 DEF VInv, FormInv, Formed
    <3>2. Cardinality({idx[t], Second(t), Third(t)}) = 3
      BY <3>1, CardThree
    <3>3. QED
      BY <1>1, <3>2, ChainIsThree DEF Three
  <2>2. \A t, u \in Active : t # u => Chain(idx[t]) \cap Chain(idx[u]) = {}
    BY <1>1, ChainIsThree DEF VInv, PartInv
  <2>3. Desc \ Free = UNION {Chain(idx[t]) : t \in Active}
    <3>1. ASSUME NEW i \in Desc \ Free PROVE \E t \in Active : i \in Chain(idx[t])
      BY SMTT(60), <1>1, <3>1, ChainIsThree DEF VInv, PartInv, Free
    <3>2. ASSUME NEW t \in Active, NEW i \in Chain(idx[t]) PROVE i \in Desc \ Free
      BY <1>1, <3>2, ChainIsThree, Requests DEF Free
    <3>3. QED
      BY <3>1, <3>2
  <2>4. ASSUME NEW h \in Rings PROVE info[h].b # NoThread /\ busy[info[h].b]
    <3>1. h \in Desc /\ (h \in flight \/ Queued(h))
      <4>1. CASE h \in flight
        BY <1>1, <4>1 DEF VInv, VirtioTypeOK
      <4>2. CASE h \notin flight
        <5>1. PICK k \in Desc : k < AvailN /\ h = avail[(seen + k) % NUM]
          BY <2>4, <4>2 DEF Rings, AvailN
        <5>2. AvailN \in Nat /\ seen \in Int /\ NUM \in Nat \ {0}
          <6>1. AvailN \in Nat
            BY <1>1, AvailRing, RingCount
          <6>2. seen \in Index
            BY <1>1 DEF VInv, VirtioTypeOK
          <6>3. QED
            BY SMTT(60), <6>1, <6>2, Sizes
        <5>3. k \in 0..(AvailN - 1)
          BY SMTT(60), <5>1, <5>2, Sizes
        <5>4. (seen + k) % NUM \in Slots(seen, AvailN, NUM)
          BY <5>3 DEF Slots
        <5>5. (seen + k) % NUM \in Desc
          BY SMTT(60), <5>2, <5>4, SlotsInRing, Sizes
        <5>6. h # Stale /\ h \in 0..Stale
          BY <1>1, <5>1, <5>4, <5>5 DEF VInv, AvailInv, VirtioTypeOK
        <5>7. QED
          BY <5>1, <5>5, <5>6, Sizes DEF Queued, In
      <4>3. QED
        BY <4>1, <4>2
    <3>2. PICK t \in Requesters : busy[t] /\ idx[t] = h
      BY <1>1, <3>1 DEF VInv, PlaceInv
    <3>3. QED
      BY <1>1, <3>2, Requests, VirtioAssumption
  <2>5. ~vpanicked
    BY <1>1 DEF VInv, StageInv
  <2>6. QED
    BY <2>1, <2>2, <2>3, <2>4, <2>5 DEF OwnershipExact
<1>2. QED
  BY <1>1, VirtioInvariant, PTL

(* No completion is lost, whatever the order and the number of completions *)
(* an interrupt stands for: a thread asleep in virtio_disk_rw has a chain  *)
(* with the device, or one in the used ring that the handler will see.     *)
THEOREM VirtioNoSleeperForgotten == VirtioSpec => []NoSleeperForgotten
<1>1. ASSUME VInv PROVE NoSleeperForgotten
  <2>1. ASSUME NEW t \in Requesters, rwpc[t] = "asleep_buf"
        PROVE  \/ idx[t] \in Rings
               \/ idx[t] \in Completed /\ (irq \/ lock = Intr)
    <3>1. busy[t] /\ t \in Active /\ idx[t] \in Desc
      BY <1>1, <2>1, Requests DEF VInv, StageInv, Active
    <3>2. Queued(idx[t]) \/ idx[t] \in flight \/ Finished(idx[t])
      BY <1>1, <3>1 DEF VInv, PlaceInv
    <3>3. AvailN \in Nat /\ AvailN <= NUM /\ UsedN \in Nat /\ UsedN <= NUM /\ (UsedN # 0 => usedIdx # usedNew)
      BY SMTT(60), <1>1, AvailRing, UsedRing, RingCount DEF VInv, AvailInv, UsedInv
    <3>4. CASE Queued(idx[t])
      <4>1. PICK s \in Desc : avail[s] = idx[t]
        BY <3>4 DEF Queued, In
      <4>2. ASSUME Publishing, s = availIdx % NUM PROVE FALSE
        <5>1. idx[lock] = idx[t] /\ rwpc[lock] = "publish" /\ lock \in Active
          BY <1>1, <4>1, <4>2 DEF VInv, AvailInv, StageInv, Publishing, Active
        <5>2. QED
          BY <1>1, <2>1, <3>1, <5>1, Requests
      <4>3. s \in Slots(seen, AvailN, NUM)
        BY <1>1, <3>1, <4>1, <4>2, Sizes DEF VInv, AvailInv
      <4>4. PICK k \in 0..(AvailN - 1) : s = (seen + k) % NUM
        BY <4>3 DEF Slots
      <4>5. k \in Desc /\ k < (availIdx - seen) % IdxMod
        BY SMTT(60), <3>3, <4>4, Sizes DEF AvailN
      <4>6. QED
        BY <4>1, <4>4, <4>5 DEF Rings
    <3>5. CASE idx[t] \in flight
      BY <3>5 DEF Rings
    <3>6. CASE Finished(idx[t])
      <4>1. PICK s \in Desc : used[s] = idx[t]
        BY <3>6 DEF Finished, In
      <4>2. s \in Slots(usedIdx, UsedN, NUM)
        BY <1>1, <3>1, <4>1, Sizes DEF VInv, UsedInv
      <4>3. PICK k \in 0..(UsedN - 1) : s = (usedIdx + k) % NUM
        BY <4>2 DEF Slots
      <4>4. k \in Desc /\ k < (usedNew - usedIdx) % IdxMod /\ UsedN # 0
        BY SMTT(60), <3>3, <4>3, Sizes DEF UsedN
      <4>5. irq \/ lock = Intr
        BY <1>1, <3>3, <4>4 DEF VInv, UsedInv
      <4>6. QED
        BY <4>1, <4>3, <4>4, <4>5 DEF Completed
    <3>7. QED
      BY <3>2, <3>4, <3>5, <3>6
  <2>2. QED
    BY <1>1, <2>1 DEF NoSleeperForgotten, VInv, WaitInv
<1>2. QED
  BY <1>1, VirtioInvariant, PTL

(* virtio_disk_rw transfers what it says for any number of threads in any  *)
(* order of completions.                                                   *)
THEOREM VirtioTransferRight == VirtioSpec => TransferRight
<1> DEFINE Kept(t) == rwpc[t] # "idle" => IF wr[t] THEN bdata'[t] = bdata[t] ELSE store'[t] = store[t]
<1>1. ASSUME VInv, VInv', [VirtioNext]_virtiovars, NEW t \in Requesters
      PROVE  Kept(t) /\ (rwpc'[t] = "done" => bdata'[t] = store'[t])
  <2>1. rwpc'[t] = "done" => bdata'[t] = store'[t]
    BY <1>1 DEF VInv, DataInv
  <2>2. CASE UNCHANGED <<bdata, store>>
    BY <2>1, <2>2
  <2>3. ASSUME NEW h \in Desc, device_finish(h) PROVE Kept(t)
    <3>1. PICK u \in Requesters :
           /\ IF wr[u] THEN bdata' = bdata ELSE store' = store
           /\ \A v \in Requesters : v # u => bdata'[v] = bdata[v] /\ store'[v] = store[v]
      BY <1>1, <2>3, Transfer
    <3>2. QED
      BY <3>1
  <2>4. ASSUME NEW u \in Requesters, RwCall(u) PROVE Kept(t)
    <3>1. rwpc[u] = "idle" /\ store' = store
      BY <2>4 DEF RwCall, device
    <3>2. t # u => bdata'[t] = bdata[t]
      BY <1>1, <2>4 DEF RwCall, VInv, VirtioTypeOK
    <3>3. QED
      BY <3>1, <3>2
  <2>5. ASSUME NEW u \in Requesters, Rw(u) PROVE UNCHANGED <<bdata, store>>
    BY <2>5 DEF Rw, alloc_fails, virtio_disk_rw, publish, rw_return, RwDone, device
  <2>6. virtio_disk_intr \/ device_take => UNCHANGED <<bdata, store>>
    BY DEF virtio_disk_intr, intr_ack, intr_used, intr_done, device_take, device
  <2>7. QED
    BY <1>1, <2>1, <2>2, <2>3, <2>4, <2>5, <2>6 DEF VirtioNext, Device, virtiovars
<1>2. ASSUME VInv, VInv', [VirtioNext]_virtiovars
      PROVE  [\A t \in Requesters :
                /\ rwpc[t] # "idle" => IF wr[t] THEN bdata'[t] = bdata[t] ELSE store'[t] = store[t]
                /\ rwpc'[t] = "done" => bdata'[t] = store'[t]]_virtiovars
  BY <1>1, <1>2
<1>3. QED
  BY <1>2, VirtioInvariant, PTL DEF VirtioSpec, TransferRight
=============================================================================
