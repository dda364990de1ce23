--------------------------- MODULE ConsoleProofs ----------------------------
(* Proofs about the output side of Console: what the writers hand to       *)
(* uartputc reaches the line once and in order, although the handler       *)
(* echoes past the buffer and without its lock.                            *)
EXTENDS Console, RingFacts, SequenceTheorems, TLAPS

(* A leaf goes to Zenon, unless it names the SMT solver, which alone does   *)
(* arithmetic.                                                             *)
USE ZenonT(60)

KeyOrBlank == Keys \cup {Blank}

(* Types of the output side.  w and e are here because what ^U echoes      *)
(* depends on them.                                                        *)
OutputTypes ==
  /\ {w, e} \subseteq 0..(UINT - 1)
  /\ txlock \in Writers \cup {Intr, Nobody} /\ c \in Nat /\ sent \in Nat
  /\ txbuf \in [0..(UART_TX_BUF_SIZE - 1) -> Nat]
  /\ tx_r \in Nat /\ tx_w \in tx_r..(tx_r + UART_TX_BUF_SIZE)
  /\ fifo \in Seq(Nat)
  /\ wr \in [Writers -> [pc : {"user", "sleep", "woken", "thr"}, left : Int]]
  /\ h \in [pc : {"idle", "getc", "echo", "sync", "thr"}, key : KeyOrBlank, echo : Int]

(* uart_tx_lock is held from one step to the next by whoever is in         *)
(* uartstart past its look at LSR; only they have a byte for THR.          *)
LockInv ==
  /\ \A p \in Writers : wr[p].pc = "thr" <=> txlock = p
  /\ h.pc = "thr" <=> txlock = Intr
  /\ c # 0 => txlock # Nobody

(* Whoever found the UART idle and has not written THR yet finds at most   *)
(* the one byte of the other there: uartstart and uartputc_sync look and   *)
(* write without a common lock.                                            *)
FifoInv ==
  /\ ~lost /\ Len(fifo) <= 2
  /\ c # 0 => Len(fifo) <= 1 /\ Bytes = {}
  /\ h.pc = "sync" => Len(fifo) <= 1
  /\ c # 0 /\ h.pc = "sync" => Len(fifo) = 0

(* The bytes written are numbered: those sent, the one in the FIFO or on   *)
(* its way there, those in the buffer.                                     *)
NumberInv ==
  /\ \A i \in Bytes : fifo[i] = sent + 1 /\ tx_r = sent + 1 /\ c = 0 /\ \A j \in Bytes : j = i
  /\ c # 0 => c = tx_r /\ tx_r = sent + 1
  /\ c = 0 /\ Bytes = {} => tx_r = sent
  /\ \A i \in (tx_r + 1)..tx_w : txbuf[(i - 1) % UART_TX_BUF_SIZE] = i

CInv == OutputTypes /\ LockInv /\ FifoInv /\ NumberInv

-----------------------------------------------------------------------------
(* The constants, as the proofs use them.                                  *)
LEMMA Sizes ==
  /\ UART_TX_BUF_SIZE \in Nat \ {0} /\ UINT \in Nat \ {0} /\ FIFO \in Nat /\ FIFO > 1
  /\ MaxWrites \in Nat /\ Start \in 0..(UINT - 1)
  /\ Intr # Nobody /\ Intr \notin Writers /\ Nobody \notin Writers
BY SMTT(60), ConsoleAssumption

(* What the handler echoes is a number.                                    *)
LEMMA EchoCount ==
  ASSUME OutputTypes, NEW k
  PROVE  Echoes(k) \in Int /\ Rest(k) \in 0..(UINT - 1) /\ Add(e, 1) \in 0..(UINT - 1)
<1>1. w \in Int /\ e \in Int /\ UINT \in Nat \ {0}
  BY SMTT(60), Sizes DEF OutputTypes
<1>2. Used(w) \in Int
  BY SMTT(60), <1>1, ModRange DEF Used
<1>3. Erased(k) \in Int
  BY SMTT(60), <1>2 DEF Erased
<1>4. Echoes(k) \in Int
  BY SMTT(60), <1>3 DEF Echoes
<1>5. Rest(k) \in 0..(UINT - 1)
  <2>1. e - Erased(k) + UINT \in Int
    BY SMTT(60), <1>1, <1>3
  <2>2. QED
    BY <1>1, <2>1, ModRange DEF Rest
<1>6. Add(e, 1) \in 0..(UINT - 1)
  <2>1. e + 1 \in Int
    BY SMTT(60), <1>1
  <2>2. QED
    BY <1>1, <2>1, ModRange DEF Add
<1>7. QED
  BY <1>4, <1>5, <1>6

(* A step that leaves the UART and its buffer alone, and lets the handler  *)
(* into uartputc_sync only when the FIFO is empty.                         *)
LEMMA QuietStep ==
  ASSUME CInv, UNCHANGED <<output, fifo, lost, sent>>,
         {w', e'} \subseteq 0..(UINT - 1),
         wr' \in [Writers -> [pc : {"user", "sleep", "woken", "thr"}, left : Int]],
         \A p \in Writers : wr'[p].pc = "thr" <=> wr[p].pc = "thr",
         h' \in [pc : {"idle", "getc", "echo", "sync", "thr"}, key : KeyOrBlank, echo : Int],
         h'.pc = "thr" <=> h.pc = "thr",
         h'.pc = "sync" => h.pc = "sync" \/ Len(fifo) = 0
  PROVE  CInv'
<1>1. Bytes' = Bytes
  BY DEF Bytes
<1>2. OutputTypes'
  BY DEF CInv, OutputTypes, output
<1>3. LockInv'
  BY DEF CInv, LockInv, output
<1>4. FifoInv'
  <2>1. Len(fifo) \in Nat
    BY LenProperties DEF CInv, OutputTypes
  <2>2. QED
    BY SMTT(60), <1>1, <2>1 DEF CInv, FifoInv, output
<1>5. NumberInv'
  BY <1>1 DEF CInv, NumberInv, output
<1>6. QED
  BY <1>2, <1>3, <1>4, <1>5 DEF CInv

(* uartstart up to its look at LSR, from uartputc, from the loop and from  *)
(* the handler: it lets the lock go, or takes the oldest byte.             *)
LEMMA StartStep ==
  ASSUME CInv, c = 0, NEW a \in Writers \cup {Intr}, txlock \in {Nobody, a},
         NEW tb \in [0..(UART_TX_BUF_SIZE - 1) -> Nat],
         NEW end \in tx_r..(tx_r + UART_TX_BUF_SIZE),
         \A i \in (tx_r + 1)..end : tb[(i - 1) % UART_TX_BUF_SIZE] = i,
         NEW ws \in [Writers -> [pc : {"user", "sleep", "woken", "thr"}, left : Int]],
         \A p \in Writers : ws[p].pc # "thr",
         uartstart(a, tb, end, ws), UNCHANGED <<w, e, fifo, lost, sent>>,
         h' \in [pc : {"idle", "getc", "echo", "sync", "thr"}, key : KeyOrBlank, echo : Int],
         h'.pc = "sync" <=> h.pc = "sync",
         h'.pc = "thr" <=> (a = Intr /\ ~Stops(end))
  PROVE  CInv'
<1> DEFINE WrType == [pc : {"user", "sleep", "woken", "thr"}, left : Int]
<1>1. Bytes' = Bytes
  BY DEF Bytes
<1>2. /\ UART_TX_BUF_SIZE \in Nat \ {0} /\ tx_r \in Nat /\ end \in Int
      /\ Intr # Nobody /\ Intr \notin Writers /\ Nobody \notin Writers
  BY SMTT(60), Sizes DEF CInv, OutputTypes
<1>3. fifo \in Seq(Nat) /\ Len(fifo) \in Nat
  BY LenProperties DEF CInv, OutputTypes
<1>4. CASE Stops(end)
  <2>1. txbuf' = tb /\ tx_w' = end /\ txlock' = Nobody /\ c' = 0 /\ wr' = ws /\ tx_r' = tx_r
    BY <1>4 DEF uartstart
  <2>2. OutputTypes'
    BY <2>1 DEF CInv, OutputTypes
  <2>3. LockInv'
    BY <1>2, <1>4, <2>1 DEF LockInv
  <2>4. FifoInv'
    BY <1>1, <2>1 DEF CInv, FifoInv
  <2>5. NumberInv'
    BY <1>1, <2>1 DEF CInv, NumberInv
  <2>6. QED
    BY <2>2, <2>3, <2>4, <2>5 DEF CInv
<1>5. CASE ~Stops(end)
  <2>1. /\ txbuf' = tb /\ tx_w' = end /\ txlock' = a
        /\ c' = tb[tx_r % UART_TX_BUF_SIZE] /\ tx_r' = tx_r + 1
        /\ wr' = [p \in Writers |-> IF p = a THEN [ws[p] EXCEPT !.pc = "thr"] ELSE WakeWriters(ws)[p]]
    BY <1>5 DEF uartstart
  <2>2. end # tx_r /\ fifo = <<>>
    BY <1>5 DEF Stops, Idle
  <2>3. Bytes = {} /\ Len(fifo) = 0
    BY SMTT(60), <2>2 DEF Bytes
  <2>4. tx_r = sent
    BY <2>3 DEF CInv, NumberInv
  <2>5. c' = tx_r + 1
    <3>1. tx_r + 1 \in (tx_r + 1)..end /\ (tx_r + 1) - 1 = tx_r
      BY SMTT(60), <1>2, <2>2
    <3>2. QED
      BY <2>1, <3>1
  <2>6. \A p \in Writers : WakeWriters(ws)[p] \in WrType /\ WakeWriters(ws)[p].pc # "thr"
    BY DEF WakeWriters, Wake
  <2>7. wr' \in [Writers -> WrType] /\ \A p \in Writers : wr'[p].pc = "thr" <=> p = a
    <3>1. \A p \in Writers : [ws[p] EXCEPT !.pc = "thr"] \in WrType /\ [ws[p] EXCEPT !.pc = "thr"].pc = "thr"
      OBVIOUS
    <3>2. \A p \in Writers : wr'[p] = IF p = a THEN [ws[p] EXCEPT !.pc = "thr"] ELSE WakeWriters(ws)[p]
      BY <2>1
    <3> HIDE DEF WrType
    <3>3. wr' \in [Writers -> WrType]
      BY <2>1, <2>6, <3>1
    <3>4. QED
      BY SMTT(60), <2>6, <3>1, <3>2, <3>3
  <2>8. OutputTypes'
    <3>1. tx_r' \in Nat /\ tx_w' \in tx_r'..(tx_r' + UART_TX_BUF_SIZE) /\ c' \in Nat
      BY SMTT(60), <1>2, <2>1, <2>2, <2>5
    <3>2. QED
      BY <2>1, <2>7, <3>1 DEF CInv, OutputTypes
  <2>9. LockInv'
    BY <1>2, <1>5, <2>1, <2>7 DEF LockInv
  <2>10. FifoInv'
    BY SMTT(60), <1>1, <2>3 DEF CInv, FifoInv
  <2>11. NumberInv'
    <3>1. \A i \in (tx_r' + 1)..tx_w' : txbuf'[(i - 1) % UART_TX_BUF_SIZE] = i
      BY SMTT(60), <1>2, <2>1
    <3>2. c' # 0 /\ c' = tx_r' /\ tx_r' = sent' + 1
      BY SMTT(60), <1>2, <2>1, <2>4, <2>5
    <3>3. QED
      BY <1>1, <2>3, <3>1, <3>2 DEF NumberInv
  <2>12. QED
    BY <2>8, <2>9, <2>10, <2>11 DEF CInv
<1>6. QED
  BY <1>4, <1>5

-----------------------------------------------------------------------------
(* uartputc: the buffer has room for the byte, in a slot of its own, or    *)
(* the writer sleeps.                                                      *)
LEMMA PutStep ==
  ASSUME CInv, NEW p \in Writers, uartputc(p)
  PROVE  CInv'
<1>1. /\ UART_TX_BUF_SIZE \in Nat \ {0} /\ tx_r \in Nat /\ tx_w \in tx_r..(tx_r + UART_TX_BUF_SIZE)
      /\ txbuf \in [0..(UART_TX_BUF_SIZE - 1) -> Nat] /\ Nobody \notin Writers /\ p # Intr
      /\ wr \in [Writers -> [pc : {"user", "sleep", "woken", "thr"}, left : Int]]
      /\ h \in [pc : {"idle", "getc", "echo", "sync", "thr"}, key : KeyOrBlank, echo : Int]
      /\ {w, e} \subseteq 0..(UINT - 1)
  BY Sizes DEF CInv, OutputTypes
<1>2. wr[p].pc \in {"user", "woken"} /\ txlock = Nobody /\ UNCHANGED <<w, e, fifo, lost, sent, h>>
  BY DEF uartputc, consolewrite, input, uart
<1>3. CASE Full
  <2>1. wr' = [wr EXCEPT ![p].pc = "sleep"] /\ UNCHANGED output
    BY <1>3 DEF uartputc
  <2>2. /\ wr' \in [Writers -> [pc : {"user", "sleep", "woken", "thr"}, left : Int]]
        /\ \A q \in Writers : wr'[q].pc = "thr" <=> wr[q].pc = "thr"
    BY <1>1, <1>2, <2>1
  <2>3. QED
    BY <1>1, <1>2, <2>1, <2>2, QuietStep
<1>4. CASE ~Full
  <2> DEFINE tb == [txbuf EXCEPT ![tx_w % UART_TX_BUF_SIZE] = tx_w + 1]
             ws == [wr EXCEPT ![p] = [pc |-> "user", left |-> @.left - 1]]
  <2>1. uartstart(p, tb, tx_w + 1, ws)
    BY <1>4 DEF uartputc
  <2>2. tx_w + 1 \in tx_r..(tx_r + UART_TX_BUF_SIZE)
    BY SMTT(60), <1>1, <1>4 DEF Full
  <2>3. tx_w % UART_TX_BUF_SIZE \in 0..(UART_TX_BUF_SIZE - 1)
    BY SMTT(60), <1>1, ModRange
  <2>4. tb \in [0..(UART_TX_BUF_SIZE - 1) -> Nat]
    BY SMTT(60), <1>1
  <2>5. ASSUME NEW i \in (tx_r + 1)..(tx_w + 1)
        PROVE  tb[(i - 1) % UART_TX_BUF_SIZE] = i
    <3>1. (i - 1) % UART_TX_BUF_SIZE \in 0..(UART_TX_BUF_SIZE - 1)
      BY SMTT(60), <1>1, ModRange
    <3>2. CASE i = tx_w + 1
      <4>1. i - 1 = tx_w
        BY SMTT(60), <1>1, <3>2
      <4>2. QED
        BY <1>1, <2>3, <3>2, <4>1
    <3>3. CASE i # tx_w + 1
      <4>1. i - 1 \in Int /\ tx_w \in Int /\ i - 1 < tx_w /\ tx_w - (i - 1) < UART_TX_BUF_SIZE
        BY SMTT(60), <1>1, <1>4, <3>3 DEF Full
      <4>2. (i - 1) % UART_TX_BUF_SIZE # tx_w % UART_TX_BUF_SIZE
        BY <1>1, <4>1, ModApart
      <4>3. i \in (tx_r + 1)..tx_w
        BY SMTT(60), <1>1, <3>3
      <4>4. txbuf[(i - 1) % UART_TX_BUF_SIZE] = i
        BY <4>3 DEF CInv, NumberInv
      <4>5. QED
        BY <1>1, <3>1, <4>2, <4>4
    <3>4. QED
      BY <3>2, <3>3
  <2>6. \A q \in Writers : wr[q].pc # "thr"
    BY <1>1, <1>2 DEF CInv, LockInv
  <2>7. /\ ws \in [Writers -> [pc : {"user", "sleep", "woken", "thr"}, left : Int]]
        /\ \A q \in Writers : ws[q].pc # "thr"
    <3>1. wr[p] \in [pc : {"user", "sleep", "woken", "thr"}, left : Int]
      BY <1>1
    <3>2. [pc |-> "user", left |-> wr[p].left - 1] \in
            [pc : {"user", "sleep", "woken", "thr"}, left : Int]
      BY SMTT(60), <3>1
    <3>3. QED
      BY <1>1, <2>6, <3>2
  <2>8. c = 0
    BY <1>2 DEF CInv, LockInv
  <2>9. h'.pc # "thr"
    BY <1>1, <1>2, Sizes DEF CInv, LockInv
  <2> HIDE DEF tb, ws
  <2>10. QED
    BY <1>1, <1>2, <2>1, <2>2, <2>4, <2>5, <2>7, <2>8, <2>9, StartStep
<1>5. QED
  BY <1>3, <1>4

(* The loop of uartstart again, in a writer.                               *)
LEMMA AgainStep ==
  ASSUME CInv, NEW p \in Writers, again_writer(p)
  PROVE  CInv'
<1> DEFINE ws == [wr EXCEPT ![p].pc = "user"]
<1>1. /\ UART_TX_BUF_SIZE \in Nat \ {0} /\ tx_r \in Nat /\ tx_w \in tx_r..(tx_r + UART_TX_BUF_SIZE)
      /\ txbuf \in [0..(UART_TX_BUF_SIZE - 1) -> Nat] /\ p # Intr
      /\ wr \in [Writers -> [pc : {"user", "sleep", "woken", "thr"}, left : Int]]
      /\ h \in [pc : {"idle", "getc", "echo", "sync", "thr"}, key : KeyOrBlank, echo : Int]
  BY Sizes DEF CInv, OutputTypes
<1>2. txlock = p /\ c = 0 /\ uartstart(p, txbuf, tx_w, ws) /\ UNCHANGED <<w, e, fifo, lost, sent, h>>
  BY DEF again_writer, input, uart
<1>3. /\ ws \in [Writers -> [pc : {"user", "sleep", "woken", "thr"}, left : Int]]
      /\ \A q \in Writers : ws[q].pc # "thr"
  BY SMTT(60), <1>1, <1>2 DEF CInv, LockInv
<1>4. h'.pc # "thr"
  BY <1>1, <1>2 DEF CInv, LockInv
<1>5. \A i \in (tx_r + 1)..tx_w : txbuf[(i - 1) % UART_TX_BUF_SIZE] = i
  BY DEF CInv, NumberInv
<1> HIDE DEF ws
<1>6. QED
  BY <1>1, <1>2, <1>3, <1>4, <1>5, StartStep

(* uartstart in the handler.                                               *)
LEMMA IntrStartStep ==
  ASSUME CInv, intr_start
  PROVE  CInv'
<1>1. /\ UART_TX_BUF_SIZE \in Nat \ {0} /\ tx_r \in Nat /\ tx_w \in tx_r..(tx_r + UART_TX_BUF_SIZE)
      /\ txbuf \in [0..(UART_TX_BUF_SIZE - 1) -> Nat] /\ Intr \notin Writers
      /\ wr \in [Writers -> [pc : {"user", "sleep", "woken", "thr"}, left : Int]]
      /\ h \in [pc : {"idle", "getc", "echo", "sync", "thr"}, key : KeyOrBlank, echo : Int]
  BY Sizes DEF CInv, OutputTypes
<1>2. /\ h.pc \in {"getc", "thr"} /\ uartstart(Intr, txbuf, tx_w, wr)
      /\ h' = [h EXCEPT !.pc = IF Stops(tx_w) THEN "idle" ELSE "thr"]
      /\ UNCHANGED <<w, e, fifo, lost, sent>>
  BY DEF intr_start, input, uart
<1>3. txlock \in {Nobody, Intr} /\ c = 0
  BY <1>1 DEF intr_start, CInv, LockInv
<1>4. \A q \in Writers : wr[q].pc # "thr"
  BY <1>1, <1>3, Sizes DEF CInv, LockInv
<1>5. /\ h' \in [pc : {"idle", "getc", "echo", "sync", "thr"}, key : KeyOrBlank, echo : Int]
      /\ h'.pc = "sync" <=> h.pc = "sync"
      /\ h'.pc = "thr" <=> ~Stops(tx_w)
  BY <1>1, <1>2
<1>6. \A i \in (tx_r + 1)..tx_w : txbuf[(i - 1) % UART_TX_BUF_SIZE] = i
  BY DEF CInv, NumberInv
<1>7. QED
  BY <1>1, <1>2, <1>3, <1>4, <1>5, <1>6, StartStep

-----------------------------------------------------------------------------
(* What a byte written to THR does to the FIFO.                            *)
LEMMA AppendByte ==
  ASSUME CInv, NEW b \in Nat, WriteTHR(b), Len(fifo) <= 1
  PROVE  /\ fifo' \in Seq(Nat) /\ Len(fifo') = Len(fifo) + 1 /\ ~lost'
         /\ fifo'[Len(fifo) + 1] = b /\ \A i \in 1..Len(fifo) : fifo'[i] = fifo[i]
         /\ Bytes' = IF b = Echo THEN Bytes ELSE Bytes \cup {Len(fifo) + 1}
         /\ Len(fifo) \in Nat /\ Bytes \subseteq 1..Len(fifo) /\ sent' = sent
<1>1. fifo \in Seq(Nat) /\ Len(fifo) \in Nat /\ DOMAIN fifo = 1..Len(fifo)
  BY LenProperties DEF CInv, OutputTypes
<1>2. Len(fifo) < FIFO /\ ~lost
  BY SMTT(60), <1>1, Sizes DEF CInv, FifoInv
<1>3. fifo' = Append(fifo, b) /\ sent' = sent
  BY <1>2 DEF WriteTHR
<1>4. ~lost'
  <2>1. ~(Len(fifo) >= FIFO)
    BY SMTT(60), <1>1, <1>2, Sizes
  <2>2. QED
    BY <1>2, <2>1, Zenon DEF WriteTHR
<1>5. /\ fifo' \in Seq(Nat) /\ Len(fifo') = Len(fifo) + 1
      /\ fifo'[Len(fifo) + 1] = b /\ \A i \in 1..Len(fifo) : fifo'[i] = fifo[i]
  BY SMTT(60), <1>1, <1>3, AppendProperties
<1>6. DOMAIN fifo' = 1..(Len(fifo) + 1)
  BY <1>5, LenProperties
<1>7. Bytes' = {i \in 1..(Len(fifo) + 1) : fifo'[i] # Echo}
  BY <1>6 DEF Bytes, Echo
<1>8. Bytes = {i \in 1..Len(fifo) : fifo[i] # Echo}
  BY <1>1 DEF Bytes
<1>9. Bytes' = IF b = Echo THEN Bytes ELSE Bytes \cup {Len(fifo) + 1}
  BY SMTT(60), <1>1, <1>5, <1>7, <1>8
<1>10. QED
  BY <1>1, <1>3, <1>4, <1>5, <1>8, <1>9

(* The write of THR in uartstart: the byte before it has been sent.        *)
LEMMA ThrStep ==
  ASSUME CInv, NEW a \in Writers \cup {Intr}, thr(a)
  PROVE  CInv'
<1>1. /\ c # 0 /\ c \in Nat /\ WriteTHR(c) /\ c' = 0 /\ Len(fifo) <= 1 /\ Bytes = {}
      /\ c = tx_r /\ tx_r = sent + 1
      /\ UNCHANGED <<w, e, txbuf, tx_r, tx_w, txlock, wr, h>>
  BY DEF thr, CInv, OutputTypes, FifoInv, NumberInv, input
<1>2. /\ fifo' \in Seq(Nat) /\ Len(fifo') = Len(fifo) + 1 /\ ~lost' /\ sent' = sent
      /\ fifo'[Len(fifo) + 1] = c /\ Len(fifo) \in Nat /\ Bytes' = {Len(fifo) + 1}
  BY <1>1, AppendByte DEF Echo
<1>3. OutputTypes'
  BY <1>1, <1>2 DEF CInv, OutputTypes
<1>4. LockInv'
  BY <1>1 DEF CInv, LockInv
<1>5. FifoInv'
  BY SMTT(60), <1>1, <1>2 DEF CInv, FifoInv
<1>6. NumberInv'
  BY <1>1, <1>2 DEF CInv, NumberInv
<1>7. QED
  BY <1>3, <1>4, <1>5, <1>6 DEF CInv

(* The write of THR in uartputc_sync, whatever uartstart has written since *)
(* the look at LSR.                                                        *)
LEMMA SyncThrStep ==
  ASSUME CInv, sync_thr
  PROVE  CInv'
<1>1. /\ h.pc = "sync" /\ WriteTHR(Echo) /\ Len(fifo) <= 1 /\ (c # 0 => Len(fifo) = 0)
      /\ h' = [h EXCEPT !.pc = "echo", !.echo = @ - 1]
      /\ UNCHANGED <<w, e, txbuf, tx_r, tx_w, txlock, c, wr>>
  BY DEF sync_thr, CInv, FifoInv, input, output
<1>2. /\ fifo' \in Seq(Nat) /\ Len(fifo') = Len(fifo) + 1 /\ ~lost' /\ sent' = sent
      /\ \A i \in 1..Len(fifo) : fifo'[i] = fifo[i]
      /\ Len(fifo) \in Nat /\ Bytes' = Bytes /\ Bytes \subseteq 1..Len(fifo)
  BY <1>1, AppendByte DEF Echo
<1>3. /\ h' \in [pc : {"idle", "getc", "echo", "sync", "thr"}, key : KeyOrBlank, echo : Int]
      /\ h'.pc = "echo"
  <2>1. h \in [pc : {"idle", "getc", "echo", "sync", "thr"}, key : KeyOrBlank, echo : Int]
    BY DEF CInv, OutputTypes
  <2>2. h' = [pc |-> "echo", key |-> h.key, echo |-> h.echo - 1]
    BY <1>1, <2>1
  <2>3. QED
    BY SMTT(60), <2>1, <2>2
<1>4. OutputTypes'
  BY <1>1, <1>2, <1>3 DEF CInv, OutputTypes
<1>5. LockInv'
  BY <1>1, <1>3 DEF CInv, LockInv
<1>6. FifoInv'
  BY SMTT(60), <1>1, <1>2, <1>3 DEF CInv, FifoInv
<1>7. NumberInv'
  BY <1>1, <1>2 DEF CInv, NumberInv
<1>8. QED
  BY <1>4, <1>5, <1>6, <1>7 DEF CInv

(* The UART sends the oldest byte of its FIFO.                             *)
LEMMA TransmitStep ==
  ASSUME CInv, transmit
  PROVE  CInv'
<1>1. /\ fifo # <<>> /\ fifo' = Tail(fifo)
      /\ sent' = IF Head(fifo) = Echo THEN sent ELSE Head(fifo)
      /\ UNCHANGED <<w, e, txbuf, tx_r, tx_w, txlock, c, wr, h, lost>>
  BY DEF transmit, input, output
<1>2. fifo \in Seq(Nat) /\ Len(fifo) \in Nat /\ DOMAIN fifo = 1..Len(fifo)
  BY LenProperties DEF CInv, OutputTypes
<1>3. /\ fifo' \in Seq(Nat) /\ Len(fifo') = Len(fifo) - 1 /\ Len(fifo') \in Nat
      /\ \A i \in 1..Len(fifo') : fifo'[i] = fifo[i + 1]
  BY <1>1, <1>2, HeadTailProperties, LenProperties
<1>4. Len(fifo) > 0 /\ Head(fifo) = fifo[1] /\ DOMAIN fifo' = 1..Len(fifo')
  BY SMTT(60), <1>1, <1>2, <1>3, LenProperties, EmptySeq
<1>5. \A i \in Nat : i \in Bytes' <=> i > 0 /\ i + 1 \in Bytes
  BY SMTT(60), <1>2, <1>3, <1>4 DEF Bytes, Echo
<1>6. Bytes \subseteq 1..Len(fifo) /\ Bytes' \subseteq Nat
  BY SMTT(60), <1>2, <1>3, <1>4 DEF Bytes
<1>7. /\ \A i, j \in Bytes : i = j
      /\ \A i \in Bytes : fifo[i] = sent + 1 /\ tx_r = sent + 1 /\ c = 0
      /\ sent \in Nat
  BY DEF CInv, NumberInv, OutputTypes
<1>8. CASE Head(fifo) = Echo
  <2>1. 1 \notin Bytes /\ sent' = sent
    BY <1>1, <1>4, <1>8 DEF Bytes
  <2>2. Bytes' = {} <=> Bytes = {}
    <3>1. \A i \in Bytes : i \in Nat /\ i > 1 /\ i - 1 \in Bytes'
      BY SMTT(60), <1>2, <1>5, <1>6, <2>1
    <3>2. QED
      BY <1>5, <1>6, <3>1
  <2>3. OutputTypes'
    BY <1>1, <1>3, <2>1 DEF CInv, OutputTypes
  <2>4. LockInv'
    BY <1>1 DEF CInv, LockInv
  <2>5. FifoInv'
    BY SMTT(60), <1>1, <1>2, <1>3, <2>2 DEF CInv, FifoInv
  <2>6. ASSUME NEW i \in Bytes', NEW j \in Bytes'
        PROVE  fifo'[i] = sent' + 1 /\ tx_r' = sent' + 1 /\ c' = 0 /\ j = i
    <3>1. i \in Nat /\ j \in Nat /\ i + 1 \in Bytes /\ j + 1 \in Bytes
      BY <1>5, <1>6
    <3>2. i \in 1..Len(fifo')
      BY <1>4 DEF Bytes
    <3>3. QED
      BY SMTT(60), <1>1, <1>3, <1>7, <2>1, <3>1, <3>2
  <2>7. NumberInv'
    BY <1>1, <2>1, <2>2, <2>6 DEF CInv, NumberInv
  <2>8. QED
    BY <2>3, <2>4, <2>5, <2>7 DEF CInv
<1>9. CASE Head(fifo) # Echo
  <2>1. 1 \in Bytes
    BY SMTT(60), <1>2, <1>4, <1>9 DEF Bytes
  <2>2. sent' = sent + 1 /\ tx_r = sent + 1 /\ c = 0
    BY <1>1, <1>4, <1>7, <1>9, <2>1
  <2>3. Bytes' = {}
    BY SMTT(60), <1>5, <1>6, <1>7, <2>1
  <2>4. OutputTypes'
    BY <1>1, <1>3, <1>7, <2>2 DEF CInv, OutputTypes
  <2>5. LockInv'
    BY <1>1 DEF CInv, LockInv
  <2>6. FifoInv'
    BY SMTT(60), <1>1, <1>2, <1>3, <2>2 DEF CInv, FifoInv
  <2>7. NumberInv'
    BY <1>1, <2>2, <2>3 DEF CInv, NumberInv
  <2>8. QED
    BY <2>4, <2>5, <2>6, <2>7 DEF CInv
<1>10. QED
  BY <1>8, <1>9

-----------------------------------------------------------------------------
(* Readers and kill touch nothing of the output.                           *)
LEMMA ReaderStep ==
  ASSUME CInv, \/ \E p \in Readers : consoleread(p)
               \/ \E p \in Mortal : kill(p)
  PROVE  CInv'
<1>1. UNCHANGED <<w, e, output, fifo, lost, sent, wr, h>>
  BY DEF consoleread, kill, input, uart
<1>2. QED
  BY <1>1, QuietStep DEF CInv, OutputTypes

(* The steps of the handler other than its writes of THR.                  *)
LEMMA HandlerStep ==
  ASSUME CInv, plic_claim \/ uartgetc \/ sync_spin \/ consoleintr
  PROVE  CInv'
<1> DEFINE HType == [pc : {"idle", "getc", "echo", "sync", "thr"}, key : KeyOrBlank, echo : Int]
<1>1. /\ h \in HType /\ {w, e} \subseteq 0..(UINT - 1)
      /\ wr \in [Writers -> [pc : {"user", "sleep", "woken", "thr"}, left : Int]]
  BY DEF CInv, OutputTypes
<1>2. UNCHANGED <<output, fifo, lost, sent, wr>>
  BY DEF plic_claim, uartgetc, sync_spin, consoleintr, uart
<1>3. CASE plic_claim
  <2>1. h' = [h EXCEPT !.pc = "getc"] /\ h.pc = "idle" /\ UNCHANGED <<w, e>>
    BY <1>3 DEF plic_claim, input
  <2>2. h' \in HType /\ h'.pc = "getc"
    BY <1>1, <2>1
  <2>3. QED
    BY <1>1, <1>2, <2>1, <2>2, QuietStep
<1>4. CASE uartgetc
  <2>1. PICK k \in Keys : h' = [h EXCEPT !.pc = "echo", !.key = k, !.echo = Echoes(k)]
    BY <1>4 DEF uartgetc
  <2>2. h.pc = "getc" /\ UNCHANGED <<w, e>>
    BY <1>4 DEF uartgetc
  <2>3. Echoes(k) \in Int /\ k \in KeyOrBlank
    BY EchoCount DEF CInv, KeyOrBlank
  <2>4. h' = [pc |-> "echo", key |-> k, echo |-> Echoes(k)]
    BY <1>1, <2>1
  <2>5. h' \in HType /\ h'.pc = "echo"
    BY <2>3, <2>4
  <2>6. QED
    BY <1>1, <1>2, <2>2, <2>5, QuietStep
<1>5. CASE sync_spin
  <2>1. h' = [h EXCEPT !.pc = "sync"] /\ h.pc = "echo" /\ fifo = <<>> /\ UNCHANGED <<w, e>>
    BY <1>5 DEF sync_spin, input, Idle
  <2>2. h' \in HType /\ h'.pc = "sync" /\ Len(fifo) = 0
    BY <1>1, <2>1
  <2>3. QED
    BY <1>1, <1>2, <2>1, <2>2, QuietStep
<1>6. CASE consoleintr
  <2>1. h' = [h EXCEPT !.pc = "getc", !.key = Blank] /\ h.pc = "echo"
    BY <1>6 DEF consoleintr
  <2>2. Blank \in KeyOrBlank
    BY DEF KeyOrBlank
  <2>3. h' = [pc |-> "getc", key |-> Blank, echo |-> h.echo]
    BY <1>1, <2>1
  <2>4. h' \in HType /\ h'.pc = "getc"
    BY <1>1, <2>2, <2>3
  <2>5. Rest(h.key) \in 0..(UINT - 1) /\ Add(e, 1) \in 0..(UINT - 1)
    BY EchoCount DEF CInv
  <2>6. e' \in {Add(e, 1), Rest(h.key)} /\ w' \in {w, e'}
    BY <1>6 DEF consoleintr
  <2>7. {w', e'} \subseteq 0..(UINT - 1)
    BY <1>1, <2>5, <2>6
  <2>8. QED
    BY <1>1, <1>2, <2>1, <2>4, <2>7, QuietStep
<1>7. QED
  BY <1>3, <1>4, <1>5, <1>6

(* The UART has sent nothing and the buffer is empty.                      *)
LEMMA InitCInv == Init => CInv
<1> SUFFICES ASSUME Init PROVE CInv
  OBVIOUS
<1>1. /\ UART_TX_BUF_SIZE \in Nat \ {0} /\ Start \in 0..(UINT - 1) /\ MaxWrites \in Nat
      /\ Nobody \notin Writers /\ Intr # Nobody
  BY Sizes
<1>2. PICK n \in 0..MaxWrites : wr = [p \in Writers |-> [pc |-> "user", left |-> n]]
  BY DEF Init
<1>3. /\ wr \in [Writers -> [pc : {"user", "sleep", "woken", "thr"}, left : Int]]
      /\ \A p \in Writers : wr[p].pc = "user"
  BY SMTT(60), <1>1, <1>2
<1>4. h \in [pc : {"idle", "getc", "echo", "sync", "thr"}, key : KeyOrBlank, echo : Int] /\ h.pc = "idle"
  <2>1. h = [pc |-> "idle", key |-> Blank, echo |-> 0] /\ Blank \in KeyOrBlank
    BY DEF Init, KeyOrBlank
  <2>2. QED
    BY SMTT(60), <2>1
<1>5. /\ w = Start /\ e = Start /\ txlock = Nobody /\ c = 0 /\ sent = 0 /\ tx_r = 0 /\ tx_w = 0
      /\ txbuf = [i \in 0..(UART_TX_BUF_SIZE - 1) |-> 0] /\ fifo = <<>> /\ lost = FALSE
  BY DEF Init
<1>6. Bytes = {} /\ fifo \in Seq(Nat) /\ Len(fifo) = 0
  BY SMTT(60), <1>5 DEF Bytes
<1>7. OutputTypes
  BY SMTT(60), <1>1, <1>3, <1>4, <1>5, <1>6 DEF OutputTypes
<1>8. LockInv
  BY <1>1, <1>3, <1>4, <1>5 DEF LockInv
<1>9. FifoInv
  BY SMTT(60), <1>4, <1>5, <1>6 DEF FifoInv
<1>10. NumberInv
  BY SMTT(60), <1>5, <1>6 DEF NumberInv
<1>11. QED
  BY <1>7, <1>8, <1>9, <1>10 DEF CInv

(* Every step of readers, writers, handler and UART keeps the invariant.   *)
LEMMA NextCInv == CInv /\ [Next]_vars => CInv'
<1> SUFFICES ASSUME CInv, [Next]_vars PROVE CInv'
  OBVIOUS
<1>1. CASE UNCHANGED vars
  <2>1. UNCHANGED <<w, e, output, fifo, lost, sent, wr, h>>
    BY <1>1 DEF vars, input, uart
  <2>2. QED
    BY <2>1, QuietStep DEF CInv, OutputTypes
<1>2. CASE key
  <2>1. UNCHANGED <<w, e, output, fifo, lost, sent, wr, h>>
    BY <1>2 DEF key, input
  <2>2. QED
    BY <2>1, QuietStep DEF CInv, OutputTypes
<1>3. CASE Kernel
  BY <1>3, ReaderStep, PutStep, AgainStep, ThrStep, HandlerStep, SyncThrStep, IntrStartStep,
     TransmitStep DEF Kernel
<1>4. QED
  BY <1>1, <1>2, <1>3, ReaderStep DEF Next

(* Where every byte of the output is: in the ring, with the holder of      *)
(* uart_tx_lock, in the FIFO or sent; and at most two bytes are in the     *)
(* FIFO, one of uartstart and one of uartputc_sync.                        *)
THEOREM ConsoleInvariant == Spec => []CInv
<1>1. QED
  BY InitCInv, NextCInv, PTL DEF Spec

(* Output of any number of writers through buffers of any size is sent     *)
(* once and in order and a FIFO of two is never overrun, although echoes   *)
(* go to THR without uart_tx_lock between uartstart's look at LSR and its  *)
(* own write of THR.                                                       *)
THEOREM ConsoleOutputExact == Spec => []OutputExact
<1>1. ASSUME CInv PROVE OutputExact
  <2>1. tx_r \in Nat /\ sent \in Nat /\ c \in Nat
    BY <1>1 DEF CInv, OutputTypes
  <2>2. ~lost /\ \A i \in (tx_r + 1)..tx_w : txbuf[(i - 1) % UART_TX_BUF_SIZE] = i
    BY <1>1 DEF CInv, FifoInv, NumberInv
  <2>3. CASE Bytes = {}
    <3>1. Cardinality(Bytes) = 0
      BY <2>3, FS_EmptySet
    <3>2. {c} \ {0} = (sent + 0 + 1)..tx_r
      BY SMTT(60), <1>1, <2>1, <2>3 DEF CInv, NumberInv
    <3>3. QED
      BY <2>2, <2>3, <3>1, <3>2 DEF OutputExact
  <2>4. CASE Bytes # {}
    <3>1. PICK i \in Bytes : TRUE
      BY <2>4
    <3>2. fifo[i] = sent + 1 /\ tx_r = sent + 1 /\ c = 0 /\ Bytes = {i}
      BY <1>1 DEF CInv, NumberInv
    <3>3. i \in Nat
      BY SMTT(60), <1>1, LenProperties DEF Bytes, CInv, OutputTypes
    <3>4. {j \in Bytes : j <= i} = {i} /\ Cardinality({i}) = 1 /\ Cardinality(Bytes) = 1
      BY SMTT(60), <3>2, <3>3, FS_Singleton
    <3>5. {c} \ {0} = (sent + 1 + 1)..tx_r
      BY SMTT(60), <2>1, <3>2
    <3>6. QED
      BY SMTT(60), <2>2, <3>2, <3>4, <3>5 DEF OutputExact
  <2>5. QED
    BY <2>3, <2>4
<1>2. QED
  BY <1>1, ConsoleInvariant, PTL
=============================================================================
