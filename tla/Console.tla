------------------------------ MODULE Console -------------------------------
(* The console (kernel/console.c) on the UART (kernel/uart.c), and how its *)
(* interrupts reach it (kernel/plic.c, devintr of kernel/trap.c).          *)
(*                                                                         *)
(* Processes read and write; the interrupt handler, on some other CPU, is  *)
(* one more actor, since the PLIC lets one CPU at a time serve the UART.   *)
(* A step runs up to the next place where another actor can matter: a look *)
(* at LSR and a write of THR are steps of their own, since uartputc_sync   *)
(* makes them without a lock.                                              *)
(* sleep and wakeup are as Sched shows them to be.  The UART has a FIFO    *)
(* and interrupts when that is empty and when a key is typed.              *)
EXTENDS Integers, Sequences, FiniteSets

CONSTANTS Readers, Writers,
          Mortal,             \* the readers that may be killed
          Intr, Nobody,       \* the handler, and nobody, as holders of a lock
          Keys, MaxKeys,      \* the keys, and how many are typed
          ReadLen,            \* n of a read
          MaxWrites,          \* bytes that each writer writes at most
          Load,               \* work: two for each key, one for each byte of a writer
          INPUT_BUF, UART_TX_BUF_SIZE,
          UINT,               \* one more than the largest uint
          Start,              \* r, w and e to begin with: the keys read before, modulo UINT
          FIFO                \* bytes the UART can hold (16)

ASSUME ConsoleAssumption ==
  /\ {ReadLen, MaxKeys, MaxWrites, Load, INPUT_BUF, UART_TX_BUF_SIZE, UINT, FIFO} \subseteq Nat \ {0} /\ Start \in Nat
  /\ UINT % INPUT_BUF = 0 /\ INPUT_BUF < UINT /\ FIFO > 1 /\ Start < UINT
  /\ Intr # Nobody /\ {Intr, Nobody} \cap Writers = {}

VARIABLES
  buf, r, w, e,               \* cons
  conslock,                   \* held from step to step by the handler only
  txbuf, tx_r, tx_w,          \* uart_tx_buf; a byte is its number among those written
  txlock,
  fifo, rx,                   \* in the UART: bytes to send, number of keys not read yet
  lost,                       \* the FIFO was full when THR was written
  irq,                        \* an interrupt is pending at the PLIC
  rd,                         \* each reader: pc, n, killed
  wr,                         \* each writer: pc, bytes left
  h,                          \* the handler: pc, key, bytes to echo
  c,                          \* of the holder of txlock: the byte for THR, 0 for none
  typed, sent                 \* keys so far, of MaxKeys; the last written byte that was sent

input  == <<buf, r, w, e, conslock>>
output == <<txbuf, tx_r, tx_w, txlock, c>>
uart   == <<fifo, rx, lost, irq, typed, sent>>
vars   == <<input, output, uart, rd, wr, h>>

Add(i, k) == (i + k) % UINT
Used(i)   == (e - i + UINT) % UINT            \* cons.e - i
Echo      == 0                                \* an echoed byte
Blank     == ""                               \* no key

TypeOK ==
  /\ {r, w, e} \subseteq 0..(UINT - 1) /\ buf \in [0..(INPUT_BUF - 1) -> Keys \cup {Blank}]
  /\ conslock \in {Intr, Nobody} /\ txlock \in Writers \cup {Intr, Nobody}
  /\ tx_r \in Nat /\ tx_w \in tx_r..(tx_r + UART_TX_BUF_SIZE) /\ c \in Nat
  /\ fifo \in Seq(Nat) /\ rx \in 0..MaxKeys /\ {lost, irq} \subseteq BOOLEAN
  /\ rd \in [Readers -> [pc : {"user", "sleep", "woken", "dead"}, n : 0..ReadLen, killed : BOOLEAN]]
  /\ wr \in [Writers -> [pc : {"user", "sleep", "woken", "thr"}, left : 0..MaxWrites]]
  /\ h.pc \in {"idle", "getc", "echo", "sync", "thr"}

Init ==
  /\ buf = [i \in 0..(INPUT_BUF - 1) |-> Blank] /\ r = Start /\ w = Start /\ e = Start /\ conslock = Nobody
  /\ txbuf = [i \in 0..(UART_TX_BUF_SIZE - 1) |-> 0] /\ tx_r = 0 /\ tx_w = 0 /\ txlock = Nobody
  /\ fifo = <<>> /\ rx = 0 /\ lost = FALSE /\ irq = FALSE /\ c = 0
  /\ rd = [p \in Readers |-> [pc |-> "user", n |-> ReadLen, killed |-> FALSE]]
  /\ typed \in 0..MaxKeys
  /\ \E n \in 0..MaxWrites : /\ 2 * (MaxKeys - typed) + n = Load
                             /\ wr = [p \in Writers |-> [pc |-> "user", left |-> n]]
  /\ h = [pc |-> "idle", key |-> Blank, echo |-> 0]
  /\ sent = 0

Wake(procs) == [p \in DOMAIN procs |->
                  IF procs[p].pc = "sleep" THEN [procs[p] EXCEPT !.pc = "woken"] ELSE procs[p]]

-----------------------------------------------------------------------------

(* The ^D after what a read returns stays, so that the next read returns   *)
(* nothing.                                                                *)
Saved(k, n) == k = "^D" /\ n < ReadLen

(* The loop of consoleread with n bytes to go, from index i: where it      *)
(* leaves r, what is left of n, and whether it returns or waits for more.  *)
(* Copying a byte out may fail, after which it returns.                    *)
Loop(n0, i0, fails) ==
  LET go[n \in 0..n0] ==
        LET i == Add(i0, n0 - n)
            k == buf[i % INPUT_BUF]
        IN IF n = 0 THEN [r |-> i, n |-> n, done |-> TRUE]
           ELSE IF i = w THEN [r |-> i, n |-> n, done |-> FALSE]
           ELSE IF k = "^D" THEN [r |-> IF Saved(k, n) THEN i ELSE Add(i, 1), n |-> n, done |-> TRUE]
           ELSE IF k = "nl" \/ fails THEN [r |-> Add(i, 1), n |-> n, done |-> TRUE]
           ELSE go[n - 1]
  IN go[n0]

(* buf with the slots no longer between r and e blank: nobody looks there. *)
Live(b, from, to) ==
  LET n == (to - from + UINT) % UINT
  IN [i \in DOMAIN b |-> IF \E k \in 0..(n - 1) : (from + k) % INPUT_BUF = i THEN b[i] ELSE Blank]

(* consoleread, from where it gets cons.lock to where it lets it go: to    *)
(* sleep, or to return.  A process that was killed makes no further call.  *)
consoleread(p) ==
  /\ rd[p].pc = "woken" \/ (rd[p].pc = "user" /\ ~rd[p].killed)
  /\ conslock = Nobody
  /\ \E fails \in {FALSE, (p \in Mortal)} :
       LET l == Loop(rd[p].n, r, fails)
       IN /\ r' = l.r /\ buf' = Live(buf, l.r, e)
          /\ rd' = [rd EXCEPT ![p] =
                      [@ EXCEPT !.pc = IF l.done THEN "user" ELSE IF rd[p].killed THEN "dead" ELSE "sleep",
                                !.n = IF l.done THEN ReadLen ELSE l.n]]
  /\ UNCHANGED <<w, e, conslock, output, uart, wr, h>>

kill(p) ==
  /\ ~rd[p].killed
  /\ rd' = [rd EXCEPT ![p].killed = TRUE, ![p].pc = IF @ = "sleep" THEN "woken" ELSE @]
  /\ UNCHANGED <<input, output, uart, wr, h>>

-----------------------------------------------------------------------------
Idle == fifo = <<>>                           \* LSR_TX_IDLE

(* Mutant of WakeWriters: nobody is told that there is room.               *)
WakeWriters_not(ws) == ws

WakeWriters(ws) == Wake(ws)

(* uartstart's loop up to the look at LSR, by a with txlock: it leaves, or *)
(* takes a byte from the buffer tb for THR.                                *)
Stops(end) == end = tx_r \/ ~Idle

uartstart(a, tb, end, ws) ==
  /\ txbuf' = tb /\ tx_w' = end
  /\ IF Stops(end)
     THEN txlock' = Nobody /\ c' = 0 /\ wr' = ws /\ UNCHANGED tx_r
     ELSE /\ txlock' = a /\ c' = tb[tx_r % UART_TX_BUF_SIZE] /\ tx_r' = tx_r + 1
          /\ wr' = [p \in Writers |-> IF p = a THEN [ws[p] EXCEPT !.pc = "thr"] ELSE WakeWriters(ws)[p]]

(* Mutant of Full: one byte too many is let in.                            *)
Full_plus == tx_w = tx_r + UART_TX_BUF_SIZE + 1

Full == tx_w = tx_r + UART_TX_BUF_SIZE

(* consolewrite has another byte to write.                                 *)
consolewrite(p) == wr[p].pc = "user" /\ wr[p].left > 0

uartputc(p) ==
  /\ consolewrite(p) \/ wr[p].pc = "woken"
  /\ txlock = Nobody
  /\ IF Full THEN wr' = [wr EXCEPT ![p].pc = "sleep"] /\ UNCHANGED output
     ELSE uartstart(p, [txbuf EXCEPT ![tx_w % UART_TX_BUF_SIZE] = tx_w + 1], tx_w + 1,
                    [wr EXCEPT ![p] = [pc |-> "user", left |-> @.left - 1]])
  /\ UNCHANGED <<input, uart, rd, h>>

WriteTHR(byte) ==
  /\ fifo' = IF Len(fifo) < FIFO THEN Append(fifo, byte) ELSE fifo
  /\ lost' = (lost \/ Len(fifo) >= FIFO)
  /\ UNCHANGED <<rx, irq, typed, sent>>

(* The write of THR in uartstart; by now an echo may be there.  Then, the  *)
(* loop again.                                                             *)
thr(a) ==
  /\ txlock = a /\ c # 0 /\ WriteTHR(c)
  /\ c' = 0 /\ UNCHANGED <<input, txbuf, tx_r, tx_w, txlock, rd, wr, h>>

again_writer(p) ==
  /\ txlock = p /\ c = 0
  /\ uartstart(p, txbuf, tx_w, [wr EXCEPT ![p].pc = "user"])
  /\ UNCHANGED <<input, uart, rd, h>>

-----------------------------------------------------------------------------
(* devintr and uartintr.  The handler takes the interrupt, reads the keys, *)
(* then starts output, and completes the interrupt.                        *)
plic_claim ==
  /\ h.pc = "idle" /\ irq /\ irq' = FALSE
  /\ h' = [h EXCEPT !.pc = "getc"]
  /\ UNCHANGED <<input, output, fifo, rx, lost, typed, sent, rd, wr>>

(* consoleintr(k): what it echoes, three for each consputc(BACKSPACE) ...  *)
Erased(k) == IF k = "^U" THEN Used(w) ELSE IF k = "^H" /\ e # w THEN 1 ELSE 0
Stored(k) == k \notin {"^U", "^H"} /\ Used(r) < INPUT_BUF
Echoes(k) == IF Stored(k) THEN 1 ELSE 3 * Erased(k)

uartgetc ==
  /\ h.pc = "getc" /\ rx > 0 /\ rx' = rx - 1
  /\ conslock = Nobody /\ conslock' = Intr
  /\ \E k \in Keys : h' = [h EXCEPT !.pc = "echo", !.key = k, !.echo = Echoes(k)]
  /\ UNCHANGED <<buf, r, w, e, output, fifo, lost, irq, typed, sent, rd, wr>>

(* ... by uartputc_sync, which spins on LSR and then writes THR ...        *)
sync_spin ==
  /\ h.pc = "echo" /\ h.echo > 0 /\ Idle
  /\ h' = [h EXCEPT !.pc = "sync"]
  /\ UNCHANGED <<input, output, uart, rd, wr>>

sync_thr ==
  /\ h.pc = "sync" /\ WriteTHR(Echo)
  /\ h' = [h EXCEPT !.pc = "echo", !.echo = @ - 1]
  /\ UNCHANGED <<input, output, rd, wr>>

(* Mutant of LineEnds: a full buffer is not given to the reader.           *)
LineEnds_nl(k, end) == k \in {"nl", "^D"}

LineEnds(k, end) == k \in {"nl", "^D"} \/ end = Add(r, INPUT_BUF)

(* Mutant of Rest: ^U erases what has been given to the reader, too.       *)
Rest_all(k) == IF k = "^U" THEN r ELSE (e - Erased(k) + UINT) % UINT

Rest(k) == (e - Erased(k) + UINT) % UINT      \* cons.e after erasing

(* ... and what becomes of cons, all of it under the lock.                 *)
consoleintr ==
  LET k == h.key
      end == IF Stored(k) THEN Add(e, 1) ELSE Rest(k)
      done == Stored(k) /\ LineEnds(k, end)
  IN /\ h.pc = "echo" /\ h.echo = 0
     /\ buf' = IF Stored(k) THEN [buf EXCEPT ![e % INPUT_BUF] = k] ELSE Live(buf, r, end)
     /\ e' = end /\ w' = IF done THEN end ELSE w
     /\ rd' = IF done THEN Wake(rd) ELSE rd
     /\ conslock' = Nobody /\ h' = [h EXCEPT !.pc = "getc", !.key = Blank]
     /\ UNCHANGED <<r, output, uart, wr>>

(* uartstart in the handler, and plic_complete when it is over.            *)
intr_start ==
  /\ \/ h.pc = "getc" /\ rx = 0 /\ txlock = Nobody
     \/ h.pc = "thr" /\ c = 0
  /\ uartstart(Intr, txbuf, tx_w, wr)
  /\ h' = [h EXCEPT !.pc = IF Stops(tx_w) THEN "idle" ELSE "thr"]
  /\ UNCHANGED <<input, uart, rd>>

-----------------------------------------------------------------------------
(* The UART sends, and interrupts when it has nothing left; a key arrives. *)
transmit ==
  /\ fifo # <<>> /\ fifo' = Tail(fifo)
  /\ sent' = IF Head(fifo) = Echo THEN sent ELSE Head(fifo)
  /\ irq' = (irq \/ Tail(fifo) = <<>>)
  /\ UNCHANGED <<input, output, rx, lost, typed, rd, wr, h>>

key ==
  /\ typed < MaxKeys /\ typed' = typed + 1
  /\ rx' = rx + 1 /\ irq' = TRUE
  /\ UNCHANGED <<input, output, fifo, lost, sent, rd, wr, h>>

Kernel ==
  \/ \E p \in Readers : consoleread(p)
  \/ \E p \in Writers : uartputc(p) \/ again_writer(p)
  \/ \E a \in Writers \cup {Intr} : thr(a)
  \/ plic_claim \/ uartgetc \/ sync_spin \/ sync_thr \/ consoleintr \/ intr_start
  \/ transmit

Next == Kernel \/ key \/ \E p \in Mortal : kill(p)

(* Some CPU, or the UART, goes on as long as one can; keys need not come.  *)
Spec == Init /\ [][Next]_vars /\ WF_vars(Kernel)

-----------------------------------------------------------------------------
(* cons is a tty: buf from r up to w is what can be read, and from w up to *)
(* e the line being edited, also when the indices have wrapped.            *)
Part(from, to) == [i \in 1..((to - from + UINT) % UINT) |-> buf[(from + i - 1) % INPUT_BUF]]
T == INSTANCE Tty WITH Room <- INPUT_BUF, edit <- Part(w, e), ready <- Part(r, w)

(* Readers, whichever they are, get each line once and in order, and ^U    *)
(* and ^H change only the line that is being typed.                        *)
ImplementsTty == T!Spec

(* What the writers wrote is sent in order and exactly once, whoever       *)
(* starts the UART and whatever is echoed in between; the FIFO is never    *)
(* written when it is full.                                                *)
Bytes == {i \in DOMAIN fifo : fifo[i] # Echo}       \* their places in the FIFO
OutputExact ==
  /\ ~lost
  /\ \A i \in Bytes : fifo[i] = sent + Cardinality({j \in Bytes : j <= i})
  /\ \A i \in (tx_r + 1)..tx_w : txbuf[(i - 1) % UART_TX_BUF_SIZE] = i
  /\ {c} \ {0} = (sent + Cardinality(Bytes) + 1)..tx_r

(* Written bytes leave the buffer, and a writer that sleeps for room gets  *)
(* it: no interrupt is missed between a look at LSR and a write of THR.    *)
OutputDrains == (tx_r < tx_w \/ \E p \in Writers : wr[p].pc = "sleep") ~>
                (tx_r = tx_w /\ \A p \in Writers : wr[p].pc = "user" /\ wr[p].left = 0)

(* A finished line is read, and so is a full buffer without an end of      *)
(* line: the reader is woken, and keys can be typed again.                 *)
InputDelivered == (r # w \/ Used(r) = INPUT_BUF) ~> (r = w /\ Used(r) < INPUT_BUF)
=============================================================================
