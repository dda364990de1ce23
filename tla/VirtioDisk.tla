----------------------------- MODULE VirtioDisk -----------------------------
(* The virtio block driver, kernel/virtio_disk.c: the descriptor table,    *)
(* the avail and used rings shared with the device, virtio_disk_rw and     *)
(* virtio_disk_intr.                                                       *)
(*                                                                         *)
(* Thread t transfers its own struct buf (the buffer cache's sleep lock    *)
(* keeps every other thread off it) from or to its own block.  Everything  *)
(* the driver does under vdisk_lock between two points where the device or *)
(* an interrupt can act is one step.  A ring slot that was consumed and    *)
(* the locals of a thread outside the driver are forgotten (Stale).        *)
EXTENDS Integers, FiniteSets, Sequences, FiniteSetsExt

CONSTANTS Requesters,
          Contents,   \* contents of a block
          NUM,      \* number of descriptors, and of slots in each ring
          IdxMod    \* the ring indices are uint16: they wrap at 2^16

Desc   == 0..(NUM - 1)
Index  == 0..(IdxMod - 1)
NoThread == "nobody"
Intr   == "intr"
Stale  == NUM
NoDesc == [next |-> 0, more |-> FALSE, buf |-> NoThread, write |-> FALSE]

ASSUME VirtioAssumption ==
  /\ NUM \in Nat /\ NUM >= 3
  /\ IdxMod \in Nat /\ IdxMod > NUM /\ IdxMod % NUM = 0
  /\ NoThread \notin Requesters /\ Intr \notin Requesters

VARIABLES
  free,      \* disk.free[]
  desc,      \* disk.desc[]: flags, next, and the buffer addr points to
  info,      \* disk.info[]: b and status
  avail,     \* disk.avail->ring[]
  availIdx,  \* disk.avail->idx
  used,      \* disk.used->ring[]
  usedNew,   \* disk.used->idx, written by the device
  usedIdx,   \* disk.used_idx, the driver's
  lock,      \* holder of vdisk_lock: a thread, Intr or NoThread
  busy,      \* b->disk of each buf
  bdata,      \* b->data
  store,     \* the device's blocks
  seen,      \* the device's position in the avail ring
  flight,    \* heads of the chains the device is working on
  irq,       \* VIRTIO_MMIO_INTERRUPT_STATUS
  rwpc,        \* of each thread
  idx,       \* idx[0] of its request
  wr,        \* is the request a write?
  vpanicked

driver == <<free, desc, info, avail, availIdx>>
device == <<used, usedNew, store, seen, flight>>
virtiovars   == <<free, desc, info, avail, availIdx, used, usedNew, usedIdx, lock,
            busy, bdata, store, seen, flight, irq, rwpc, idx, wr, vpanicked>>

VirtioTypeOK ==
  /\ free \in [Desc -> BOOLEAN]
  /\ desc \in [Desc -> [next : Desc, more : BOOLEAN,
                        buf : Requesters \cup {NoThread}, write : BOOLEAN]]
  /\ info \in [Desc -> [b : Requesters \cup {NoThread}, ok : BOOLEAN]]
  /\ avail \in [Desc -> 0..Stale] /\ used \in [Desc -> 0..Stale]
  /\ availIdx \in Index /\ usedNew \in Index /\ usedIdx \in Index /\ seen \in Index
  /\ lock \in Requesters \cup {Intr, NoThread}
  /\ busy \in [Requesters -> BOOLEAN]
  /\ bdata \in [Requesters -> Contents] /\ store \in [Requesters -> Contents]
  /\ flight \subseteq Desc
  /\ irq \in BOOLEAN
  /\ rwpc \in [Requesters -> {"idle", "alloc", "asleep_free", "publish", "wait",
                         "asleep_buf", "done"}]
  /\ idx \in [Requesters -> 0..Stale] /\ wr \in [Requesters -> BOOLEAN]
  /\ vpanicked \in BOOLEAN

(* virtio_disk_init: all descriptors free, rings empty.                    *)
virtio_disk_init ==
  /\ free = [i \in Desc |-> TRUE]
  /\ desc = [i \in Desc |-> NoDesc]
  /\ info = [i \in Desc |-> [b |-> NoThread, ok |-> TRUE]]
  /\ avail = [i \in Desc |-> Stale] /\ used = [i \in Desc |-> Stale]
  /\ availIdx = 0 /\ usedNew = 0 /\ usedIdx = 0 /\ seen = 0
  /\ lock = NoThread
  /\ busy = [t \in Requesters |-> FALSE]
  /\ bdata \in [Requesters -> Contents] /\ store \in [Requesters -> Contents]
  /\ flight = {} /\ irq = FALSE
  /\ rwpc = [t \in Requesters |-> "idle"]
  /\ idx = [t \in Requesters |-> Stale] /\ wr = [t \in Requesters |-> FALSE]
  /\ vpanicked = FALSE

-----------------------------------------------------------------------------
Inc(i)  == (i + 1) % IdxMod
Free    == {i \in Desc : free[i]}

(* wakeup(&disk.free[0]) *)
WakeFree(except, at) ==
  [u \in Requesters |-> IF u = except THEN at
                     ELSE IF rwpc[u] = "asleep_free" THEN "alloc" ELSE rwpc[u]]

(* A file system call enters virtio_disk_rw with a locked buf.             *)
RwCall(t) ==
  /\ rwpc[t] = "idle"
  /\ \E w \in BOOLEAN, v \in Contents :
       /\ wr' = [wr EXCEPT ![t] = w]
       /\ bdata' = [bdata EXCEPT ![t] = v]
  /\ rwpc' = [rwpc EXCEPT ![t] = "alloc"]
  /\ UNCHANGED <<driver, device, usedIdx, lock, busy, irq, idx, vpanicked>>

(* alloc3_desc takes the three lowest free descriptors.  When there are    *)
(* only one or two it frees them again, which wakes everybody who waits    *)
(* for descriptors, and the thread sleeps.                                 *)
alloc_fails(t) ==
  /\ rwpc[t] = "alloc" /\ lock = NoThread /\ Cardinality(Free) < 3
  /\ rwpc' = IF Free = {} THEN [rwpc EXCEPT ![t] = "asleep_free"]
                        ELSE WakeFree(t, "asleep_free")
  /\ UNCHANGED <<driver, device, usedIdx, lock, busy, bdata, irq, idx, wr, vpanicked>>

(* Mutant of DeviceReads: the flags ignore the direction.                  *)
DeviceReads_always(t) == TRUE

(* The data descriptor has VRING_DESC_F_WRITE unless the request writes.   *)
DeviceReads(t) == wr[t]

(* Descriptors allocated: format the chain, put its head in the avail ring.*)
virtio_disk_rw(t) ==
  /\ rwpc[t] = "alloc" /\ lock = NoThread /\ Cardinality(Free) >= 3
  /\ LET i0 == Min(Free)
         i1 == Min(Free \ {i0})
         i2 == Min(Free \ {i0, i1})
     IN /\ free' = [i \in Desc |-> free[i] /\ i \notin {i0, i1, i2}]
        /\ desc' = [desc EXCEPT
             ![i0] = [next |-> i1, more |-> TRUE, buf |-> NoThread, write |-> wr[t]],
             ![i1] = [next |-> i2, more |-> TRUE, buf |-> t, write |-> DeviceReads(t)],
             ![i2] = NoDesc]
        /\ info' = [info EXCEPT ![i0] = [b |-> t, ok |-> FALSE]]
        /\ avail' = [avail EXCEPT ![availIdx % NUM] = i0]
        /\ idx' = [idx EXCEPT ![t] = i0]
  /\ busy' = [busy EXCEPT ![t] = TRUE]
  /\ lock' = t
  /\ rwpc' = [rwpc EXCEPT ![t] = "publish"]
  /\ UNCHANGED <<device, availIdx, usedIdx, bdata, irq, wr, vpanicked>>

(* avail->idx += 1, notify, and sleep(b, &vdisk_lock), b->disk being 1.    *)
publish(t) ==
  /\ rwpc[t] = "publish"
  /\ availIdx' = Inc(availIdx)
  /\ lock' = NoThread
  /\ rwpc' = [rwpc EXCEPT ![t] = "asleep_buf"]
  /\ UNCHANGED <<free, desc, info, avail, device, usedIdx, busy, bdata, irq, idx,
                 wr, vpanicked>>

(* The descriptors free_chain visits: along next while the NEXT flag is    *)
(* set.  A chain has three links.                                          *)
Chain(i) ==
  LET j == desc[i].next
  IN {i} \cup (IF desc[i].more
               THEN {j} \cup (IF desc[j].more THEN {desc[j].next} ELSE {})
               ELSE {})

(* Mutant of Freed: free_desc instead of free_chain.                       *)
Freed_head(i) == {i}

Freed(i) == Chain(i)

(* Woken, with b->disk 0: only virtio_disk_intr wakes the channel b, after *)
(* it has cleared b->disk, so the loop never sleeps a second time.         *)
Returns(t) == rwpc[t] = "wait" /\ ~busy[t]

(* The request is finished: info.b = 0, free_chain, whose free_desc panics *)
(* on a free descriptor and wakes the threads that wait for one, return.   *)
rw_return(t) ==
  /\ Returns(t) /\ lock = NoThread
  /\ LET chain == Freed(idx[t]) IN
       /\ free' = [i \in Desc |-> free[i] \/ i \in chain]
       /\ desc' = [i \in Desc |-> IF i \in chain THEN NoDesc ELSE desc[i]]
       /\ vpanicked' = (vpanicked \/ \E i \in chain : free[i])
  /\ info' = [info EXCEPT ![idx[t]].b = NoThread]
  /\ idx' = [idx EXCEPT ![t] = Stale]
  /\ rwpc' = WakeFree(t, "done")
  /\ UNCHANGED <<avail, availIdx, device, usedIdx, lock, busy, bdata, irq, wr>>

(* The file system goes on, having read or written the block.              *)
RwDone(t) ==
  /\ rwpc[t] = "done"
  /\ rwpc' = [rwpc EXCEPT ![t] = "idle"]
  /\ wr' = [wr EXCEPT ![t] = FALSE]
  /\ UNCHANGED <<driver, device, usedIdx, lock, busy, bdata, irq, idx, vpanicked>>

-----------------------------------------------------------------------------
(* virtio_disk_intr: acknowledge, then one iteration per used entry.       *)
intr_ack ==
  /\ irq /\ lock = NoThread
  /\ lock' = Intr
  /\ irq' = FALSE
  /\ UNCHANGED <<driver, device, usedIdx, busy, bdata, rwpc, idx, wr, vpanicked>>

intr_used ==
  /\ lock = Intr /\ usedIdx # usedNew
  /\ LET id == used[usedIdx % NUM]
         b  == info[id].b
     IN IF ~info[id].ok \/ b = NoThread
        THEN vpanicked' = TRUE /\ UNCHANGED <<busy, rwpc>>
        ELSE /\ busy' = [busy EXCEPT ![b] = FALSE]
             /\ rwpc' = [rwpc EXCEPT ![b] = IF @ = "asleep_buf" THEN "wait" ELSE @]
             /\ UNCHANGED vpanicked
  /\ used' = [used EXCEPT ![usedIdx % NUM] = Stale]
  /\ usedIdx' = Inc(usedIdx)
  /\ UNCHANGED <<driver, usedNew, store, seen, flight, lock, bdata, irq, idx, wr>>

(* Mutant of intr_done: one completion per interrupt.                      *)
intr_done_first ==
  /\ lock = Intr /\ (usedIdx = usedNew \/ \E t \in Requesters : rwpc[t] = "wait")
  /\ lock' = NoThread
  /\ UNCHANGED <<driver, device, usedIdx, busy, bdata, irq, rwpc, idx, wr, vpanicked>>

intr_done ==
  /\ lock = Intr /\ usedIdx = usedNew
  /\ lock' = NoThread
  /\ UNCHANGED <<driver, device, usedIdx, busy, bdata, irq, rwpc, idx, wr, vpanicked>>

-----------------------------------------------------------------------------
(* The device: it takes chains in the order of the avail ring, finishes    *)
(* them in any order, and raises the interrupt line.                       *)
device_take ==
  /\ seen # availIdx
  /\ flight' = flight \cup {avail[seen % NUM]}
  /\ avail' = [avail EXCEPT ![seen % NUM] = Stale]
  /\ seen' = Inc(seen)
  /\ UNCHANGED <<free, desc, info, availIdx, used, usedNew, store, usedIdx, lock, busy, bdata, irq, rwpc,
                 idx, wr, vpanicked>>

device_finish(h) ==
  /\ h \in flight
  /\ LET d == desc[desc[h].next]
         b == d.buf
     IN IF b = NoThread THEN UNCHANGED <<store, bdata>>
        ELSE IF d.write THEN store' = [store EXCEPT ![b] = bdata[b]] /\ UNCHANGED bdata
                        ELSE bdata' = [bdata EXCEPT ![b] = store[b]] /\ UNCHANGED store
  /\ info' = [info EXCEPT ![h].ok = TRUE]
  /\ flight' = flight \ {h}
  /\ used' = [used EXCEPT ![usedNew % NUM] = h]
  /\ usedNew' = Inc(usedNew)
  /\ irq' = TRUE
  /\ UNCHANGED <<free, desc, avail, availIdx, seen, usedIdx, lock, busy, rwpc, idx,
                 wr, vpanicked>>

Rw(t) == \/ alloc_fails(t) \/ virtio_disk_rw(t) \/ publish(t)
         \/ rw_return(t) \/ RwDone(t)
virtio_disk_intr == intr_ack \/ intr_used \/ intr_done
Device == device_take \/ \E h \in Desc : device_finish(h)

VirtioNext == Device \/ virtio_disk_intr \/ \E t \in Requesters : RwCall(t) \/ Rw(t)

VirtioSpec == virtio_disk_init /\ [][VirtioNext]_virtiovars

-----------------------------------------------------------------------------
Active == {t \in Requesters : rwpc[t] \in {"publish", "wait", "asleep_buf"}}

(* Heads of the chains the device has to do or is doing, and of those it   *)
(* has done and the handler has not seen.                                  *)
Rings ==
  flight \cup {avail[(seen + k) % NUM] : k \in {n \in Desc : n < (availIdx - seen) % IdxMod}}
Completed == {used[(usedIdx + k) % NUM] : k \in {n \in Desc : n < (usedNew - usedIdx) % IdxMod}}

(* No descriptor leaks and none belongs to two requests: the chains of the *)
(* active requests and the free descriptors partition the table.  The      *)
(* device owns a buffer only between publish and completion: while b->disk *)
(* is 0 no chain of the buffer is in the avail ring or in flight.  Neither *)
(* free_desc nor the interrupt handler ever panics.                        *)
OwnershipExact ==
  /\ \A t \in Active : Cardinality(Chain(idx[t])) = 3
  /\ \A t, u \in Active : t # u => Chain(idx[t]) \cap Chain(idx[u]) = {}
  /\ Desc \ Free = UNION {Chain(idx[t]) : t \in Active}
  /\ \A h \in Rings : info[h].b # NoThread /\ busy[info[h].b]
  /\ ~vpanicked

(* virtio_disk_rw does what it says: no step changes the buffer of a write *)
(* request or the block of a read request, and when it returns the two     *)
(* agree, although completions come in any order.                          *)
TransferRight ==
  [][\A t \in Requesters :
       /\ rwpc[t] # "idle" => IF wr[t] THEN bdata'[t] = bdata[t] ELSE store'[t] = store[t]
       /\ rwpc'[t] = "done" => bdata'[t] = store'[t]]_virtiovars

(* No completion is lost: a thread that sleeps for its buffer has a chain  *)
(* the device still works on, or one it has finished and an interrupt      *)
(* pending or being served, although one interrupt may stand for several   *)
(* completions and be acknowledged before the last of them.  Nobody sleeps *)
(* for descriptors while three are free.                                   *)
NoSleeperForgotten ==
  /\ \A t \in Requesters : rwpc[t] = "asleep_buf" =>
       \/ idx[t] \in Rings
       \/ idx[t] \in Completed /\ (irq \/ lock = Intr)
  /\ lock = NoThread /\ (\E t \in Requesters : rwpc[t] = "asleep_free") => Cardinality(Free) < 3
=============================================================================
