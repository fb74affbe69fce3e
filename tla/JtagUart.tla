------------------------------ MODULE JtagUart ------------------------------
(***************************************************************************)
(* The interrupt-driven JTAG UART driver of the Nios II HAL: the calls     *)
(* read, write, close and ioctl of altera_avalon_jtag_uart_*.c in the only *)
(* thread (no __ucosii__, so a blocked call spins), the interrupt routine  *)
(* and the one-second timeout that preempt it between any two accesses to  *)
(* a shared word, the device of nios_setup_jtag_uart.v, and the host       *)
(* behind it.                                                              *)
(*                                                                         *)
(* A pass of the interrupt routine is one step: no other code runs during  *)
(* it, and what the host does meanwhile is seen by the next pass.  This    *)
(* board's BSP selects the polled driver; this is the one it replaces.     *)
(***************************************************************************)
EXTENDS Integers, Sequences, FiniteSetsExt

CONSTANTS
    BUF_LEN,                \* ALTERA_AVALON_JTAG_UART_BUF_LEN
    DEFAULT_TIMEOUT,        \* ALTERA_AVALON_JTAG_UART_DEFAULT_TIMEOUT
    INT_MAX,
    FIFO_LEN,               \* the depth of the device's two FIFOs
    READ_THRESHOLD,         \* spaces at which the receive FIFO is nearly full
    WRITE_THRESHOLD,        \* bytes at which the transmit FIFO is nearly empty
    Lengths,                \* the lengths of the buffers the calls pass
    TimeoutArgs,            \* what TIOCSTIMEOUT is called with
    Numbers                 \* how many numbers tell bytes apart: with no factor
                            \* in common with BUF_LEN a slot a lap old shows

ASSUME UartAssumption ==
    /\ BUF_LEN \in Nat /\ BUF_LEN > 1
    /\ FIFO_LEN \in Nat \ {0} /\ Lengths \subseteq Nat
    /\ READ_THRESHOLD \in 0..FIFO_LEN - 1 /\ WRITE_THRESHOLD \in 0..FIFO_LEN - 1
    /\ TimeoutArgs \subseteq Int
    /\ INT_MAX \in Nat /\ DEFAULT_TIMEOUT \in 2..INT_MAX - 2
    /\ Numbers \in Nat \ {0}

VARIABLES
    rx_buf, rx_in, rx_out, tx_buf, tx_in, tx_out,
    re, we,                 \* the bits RE and WE of irq_enable
    host_inactive, timeout,
    ac, rxFifo, txFifo,     \* the device: its AC bit and FIFOs, and
    pause_irq,              \* whether the host has paused since the last read
    hostSent, hostGot,      \* the last byte the host sent and received
    call,                   \* where the thread is in a call
    written, readByte       \* the last byte it has written and read

rx == <<rx_buf, rx_in, rx_out, rxFifo, pause_irq, readByte, hostSent>>
tx == <<tx_buf, tx_in, tx_out, txFifo, written, hostGot>>
clock == <<host_inactive, timeout, ac>>
vars == <<rx, tx, clock, re, we, call>>

Slots == 0..BUF_LEN - 1

(* The bytes of a ring, from its out to its in pointer.                    *)
Live(buf, in, out) == [i \in 1..(in - out) % BUF_LEN |-> buf[(out + i - 1) % BUF_LEN]]

(* memcpy, and the loops that store byte by byte.                          *)
Stored(buf, first, bytes) ==
    [i \in Slots |-> LET k == ((i - first) % BUF_LEN) + 1
                     IN IF k <= Len(bytes) THEN bytes[k] ELSE buf[i]]

Numbered(first, n) == [i \in 1..n |-> (first + i) % Numbers]

(* The thread between two calls.                                           *)
Idle == [at |-> "idle", seen |-> 0, n |-> 0, left |-> 0,
         moved |-> FALSE, nonblock |-> FALSE]

At(place) == call.at = place
GoTo(place) == call' = [call EXCEPT !.at = place]
Return == call' = Idle

TypeOK ==
    /\ rx_buf \in [Slots -> 0..Numbers - 1] /\ tx_buf \in [Slots -> 0..Numbers - 1]
    /\ {rx_in, rx_out, tx_in, tx_out} \subseteq Slots
    /\ {re, we, ac, pause_irq} \subseteq BOOLEAN
    /\ host_inactive \in 0..INT_MAX - 2
    /\ timeout \in 2..INT_MAX
    /\ rxFifo \in Seq(0..Numbers - 1) /\ Len(rxFifo) <= FIFO_LEN
    /\ txFifo \in Seq(0..Numbers - 1) /\ Len(txFifo) <= FIFO_LEN
    /\ {hostSent, hostGot, written, readByte} \subseteq 0..Numbers - 1
    /\ call \in [at : {"idle", "readCopy", "readFree", "readWait",
                       "readEnd", "writeCopy", "writePublish",
                       "writeKick", "writeWait", "writeCheck", "closeWait"},
                 seen : Slots, n : Slots, left : Nat,
                 moved : BOOLEAN, nonblock : BOOLEAN]

(* altera_avalon_jtag_uart_init: the alarm starts, or there is no system   *)
(* clock, it does not, and the host is taken to be there for ever.         *)
Init ==
    /\ rx_buf = [i \in Slots |-> 0] /\ tx_buf = [i \in Slots |-> 0]
    /\ rx_in = 0 /\ rx_out = 0 /\ tx_in = 0 /\ tx_out = 0
    /\ re = TRUE /\ we = FALSE
    /\ host_inactive = 0
    /\ timeout \in {DEFAULT_TIMEOUT, INT_MAX}
    /\ ac = FALSE /\ rxFifo = <<>> /\ txFifo = <<>> /\ pause_irq = FALSE
    /\ hostSent = 0 /\ hostGot = 0 /\ written = 0 /\ readByte = 0
    /\ call = Idle

-----------------------------------------------------------------------------
(* The interrupt routine.                                                  *)

(* Mutant: the FIFO is emptied whatever room the ring has.                 *)
ReceiveAll ==
    LET m == Len(rxFifo)
    IN /\ rx_buf' = Stored(rx_buf, rx_in, rxFifo)
       /\ rx_in' = (rx_in + m) % BUF_LEN
       /\ rxFifo' = <<>> /\ pause_irq' = FALSE
       /\ UNCHANGED <<re, rx_out, readByte, hostSent>>

(* Receive: move bytes while the ring has room; if some are left, no more  *)
(* receive interrupts until a read has made room.  To read a byte, or to   *)
(* find that there is none, clears the device's pause_irq.                 *)
Receive ==
    LET room == (rx_out - rx_in - 1) % BUF_LEN
        m == Min({room, Len(rxFifo)})
    IN /\ rx_buf' = Stored(rx_buf, rx_in, SubSeq(rxFifo, 1, m))
       /\ rx_in' = (rx_in + m) % BUF_LEN
       /\ rxFifo' = SubSeq(rxFifo, m + 1, Len(rxFifo))
       /\ pause_irq' = (pause_irq /\ room = 0)
       /\ re' = (Len(rxFifo) = m)
       /\ UNCHANGED <<rx_out, readByte, hostSent>>

(* Transmit: fill the FIFO; if it has room left, no more transmit          *)
(* interrupts until a write asks for them.                                 *)
Transmit ==
    LET bytes == Live(tx_buf, tx_in, tx_out)
        space == FIFO_LEN - Len(txFifo)
        m == Min({space, Len(bytes)})
    IN /\ txFifo' = txFifo \o SubSeq(bytes, 1, m)
       /\ tx_out' = (tx_out + m) % BUF_LEN
       /\ we' = (m = space)
       /\ UNCHANGED <<tx_buf, tx_in, written, hostGot>>

(* The device's interrupts: not one for every byte, but once the host has  *)
(* paused or the FIFO is nearly full, and once the other is nearly empty.  *)
ReceivePending == re /\ (pause_irq \/ FIFO_LEN - Len(rxFifo) <= READ_THRESHOLD)
TransmitPending == we /\ Len(txFifo) <= WRITE_THRESHOLD

Interrupt ==
    /\ ReceivePending \/ TransmitPending
    /\ IF ReceivePending THEN Receive ELSE UNCHANGED <<rx, re>>
    /\ IF TransmitPending THEN Transmit ELSE UNCHANGED <<tx, we>>
    /\ UNCHANGED <<clock, call>>

(* Mutant: the count of idle seconds stops one short.                      *)
TimeoutStopsShort ==
    /\ timeout # INT_MAX
    /\ ac' = FALSE
    /\ host_inactive' = IF ac THEN 0
                        ELSE Min({host_inactive + 1, INT_MAX - 3})
    /\ UNCHANGED <<rx, tx, re, we, timeout, call>>

(* altera_avalon_jtag_uart_timeout, called every second.                   *)
Timeout ==
    /\ timeout # INT_MAX
    /\ ac' = FALSE
    /\ host_inactive' = IF ac THEN 0
                        ELSE Min({host_inactive + 1, INT_MAX - 2})
    /\ UNCHANGED <<rx, tx, re, we, timeout, call>>

-----------------------------------------------------------------------------
(* altera_avalon_jtag_uart_read.                                           *)

Read(space, nonblock) ==
    /\ At("idle")
    /\ call' = [Idle EXCEPT !.at = "readCopy", !.left = space, !.nonblock = nonblock]
    /\ UNCHANGED <<rx, tx, clock, re, we>>

(* How many bytes lie in a row from out on.                                *)
Readable(in, out) == IF in >= out THEN in - out ELSE BUF_LEN - out

(* Look at rx_in and copy what there is; the slots are the reader's until  *)
(* rx_out moves on.                                                        *)
ReadCopy ==
    /\ At("readCopy")
    /\ LET n == Min({Readable(rx_in, rx_out), call.left})
       IN IF n > 0
          THEN /\ readByte' = rx_buf[(rx_out + n - 1) % BUF_LEN]
               /\ call' = [call EXCEPT !.at = "readFree", !.n = n,
                                       !.left = call.left - n, !.moved = TRUE]
          ELSE /\ IF call.left = 0 \/ call.moved \/ call.nonblock
                  THEN GoTo("readEnd")
                  ELSE call' = [call EXCEPT !.at = "readWait", !.seen = rx_in]
               /\ UNCHANGED readByte
    /\ UNCHANGED <<rx_buf, rx_in, rx_out, rxFifo, pause_irq, hostSent, tx, clock, re, we>>

ReadFree ==
    /\ At("readFree")
    /\ rx_out' = (rx_out + call.n) % BUF_LEN
    /\ call' = [call EXCEPT !.at = IF call.left > 0 THEN "readCopy" ELSE "readEnd", !.n = 0]
    /\ UNCHANGED <<rx_buf, rx_in, rxFifo, pause_irq, readByte, hostSent, tx, clock, re, we>>

(* Spins until data arrives or the host is taken to be gone.               *)
ReadWait ==
    /\ At("readWait")
    /\ \/ rx_in # call.seen /\ call' = [call EXCEPT !.at = "readCopy", !.seen = 0]
       \/ rx_in = call.seen /\ host_inactive >= timeout /\ GoTo("readEnd")
    /\ UNCHANGED <<rx, tx, clock, re, we>>

(* Mutant: a read that got less than it asked for leaves the interrupt as  *)
(* it is.                                                                  *)
ReadEndIfAll ==
    /\ At("readEnd")
    /\ re' = (re \/ (call.moved /\ call.left = 0))
    /\ Return
    /\ UNCHANGED <<rx, tx, clock, we>>

(* There is room if anything was read: enable the interrupt.  The result:  *)
(* what was read, or -EWOULDBLOCK, or -EIO.                                *)
ReadEnd ==
    /\ At("readEnd")
    /\ re' = (re \/ call.moved)
    /\ Return
    /\ UNCHANGED <<rx, tx, clock, we>>

-----------------------------------------------------------------------------
(* altera_avalon_jtag_uart_write.                                          *)

Write(count, nonblock) ==
    /\ At("idle")
    /\ call' = [Idle EXCEPT !.at = "writeCopy", !.left = count, !.nonblock = nonblock]
    /\ UNCHANGED <<rx, tx, clock, re, we>>

(* Mutant: the slot that tells a full ring from an empty one is used.      *)
WritableLastSlot(in, out) == IF in < out THEN out - 1 - in ELSE BUF_LEN - in

(* How many bytes fit in a row from in on; one slot stays empty.           *)
Writable(in, out) ==
    IF in < out THEN out - 1 - in
    ELSE IF out > 0 THEN BUF_LEN - in ELSE BUF_LEN - 1 - in

(* Look at tx_out and fill the room there is; the interrupt routine sees   *)
(* the bytes when tx_in moves on.                                          *)
WriteCopy ==
    /\ At("writeCopy")
    /\ LET n == Min({Writable(tx_in, tx_out), call.left})
       IN IF n > 0
          THEN /\ tx_buf' = Stored(tx_buf, tx_in, Numbered(written, n))
               /\ call' = [call EXCEPT !.at = "writePublish", !.n = n, !.left = call.left - n]
          ELSE /\ call' = [call EXCEPT !.at = "writeKick", !.seen = tx_out]
               /\ UNCHANGED tx_buf
    /\ UNCHANGED <<tx_in, tx_out, txFifo, written, hostGot, rx, clock, re, we>>

WritePublish ==
    /\ At("writePublish")
    /\ tx_in' = (tx_in + call.n) % BUF_LEN
    /\ written' = (written + call.n) % Numbers
    /\ call' = [call EXCEPT !.at = IF call.left > 0 THEN "writeCopy" ELSE "writeKick",
                            !.n = 0]
    /\ UNCHANGED <<tx_buf, tx_out, txFifo, hostGot, rx, clock, re, we>>

(* Mutant: a write that has to wait does not kick the interrupt routine.   *)
WriteKickAtEnd ==
    /\ At("writeKick")
    /\ we' = (we \/ call.left = 0)
    /\ IF call.left > 0 /\ ~call.nonblock THEN GoTo("writeWait") ELSE Return
    /\ UNCHANGED <<rx, tx, clock, re>>

(* The interrupt routine sends what there is.                              *)
WriteKick ==
    /\ At("writeKick")
    /\ we' = TRUE
    /\ IF call.left > 0 /\ ~call.nonblock THEN GoTo("writeWait") ELSE Return
    /\ UNCHANGED <<rx, tx, clock, re>>

(* Spins until a byte has gone out or the host is taken to be gone ...     *)
WriteWait ==
    /\ At("writeWait")
    /\ tx_out # call.seen \/ host_inactive >= timeout
    /\ GoTo("writeCheck")
    /\ UNCHANGED <<rx, tx, clock, re, we>>

(* ... and goes on only if the host was there at the last tick.  The       *)
(* result: what was written, or -EWOULDBLOCK, or -EIO.                     *)
WriteCheck ==
    /\ At("writeCheck")
    /\ IF host_inactive # 0 THEN Return
       ELSE call' = [call EXCEPT !.at = "writeCopy", !.seen = 0]
    /\ UNCHANGED <<rx, tx, clock, re, we>>

-----------------------------------------------------------------------------
(* altera_avalon_jtag_uart_close waits for the ring to empty, unless the   *)
(* call may not block; ioctl sets the timeout unless there is no alarm.    *)
Close ==
    /\ At("idle")
    /\ tx_out # tx_in /\ host_inactive < timeout
    /\ call' = [Idle EXCEPT !.at = "closeWait"]
    /\ UNCHANGED <<rx, tx, clock, re, we>>

CloseWait ==
    /\ At("closeWait")
    /\ tx_out = tx_in \/ host_inactive >= timeout
    /\ Return
    /\ UNCHANGED <<rx, tx, clock, re, we>>

SetTimeout(arg) ==
    /\ At("idle")
    /\ timeout # INT_MAX
    /\ timeout' = IF arg >= 2 /\ arg < INT_MAX THEN arg ELSE INT_MAX - 1
    /\ UNCHANGED <<rx, tx, host_inactive, ac, re, we, call>>

-----------------------------------------------------------------------------
(* The host takes a byte ...                                               *)
Take ==
    /\ txFifo # <<>>
    /\ txFifo' = Tail(txFifo) /\ hostGot' = Head(txFifo)
    /\ UNCHANGED <<tx_buf, tx_in, tx_out, written, rx, clock, re, we, call>>

(* ... or sends one ...                                                    *)
Send ==
    /\ Len(rxFifo) < FIFO_LEN
    /\ hostSent' = (hostSent + 1) % Numbers
    /\ rxFifo' = Append(rxFifo, hostSent')
    /\ ac' = TRUE
    /\ UNCHANGED <<rx_buf, rx_in, rx_out, pause_irq, readByte, tx,
                   host_inactive, timeout, re, we, call>>

(* ... or has none to send: a pause asks for the bytes in the FIFO to be   *)
(* read.  A host that is unplugged does neither of these.                  *)
Pause ==
    /\ ac' = TRUE
    /\ pause_irq' = (pause_irq \/ rxFifo # <<>>)
    /\ UNCHANGED <<rx_buf, rx_in, rx_out, rxFifo, readByte, hostSent, tx,
                   host_inactive, timeout, re, we, call>>

Contact == Take \/ Send \/ Pause

-----------------------------------------------------------------------------
(* The calls under way, as opposed to the start of a new one.              *)
Proceed ==
    \/ ReadCopy \/ ReadFree \/ ReadWait \/ ReadEnd
    \/ WriteCopy \/ WritePublish \/ WriteKick \/ WriteWait \/ WriteCheck
    \/ CloseWait

NewCall ==
    \/ \E length \in Lengths, nonblock \in BOOLEAN :
          Read(length, nonblock) \/ Write(length, nonblock)
    \/ Close
    \/ \E arg \in TimeoutArgs : SetTimeout(arg)

Next == Interrupt \/ Timeout \/ Proceed \/ NewCall \/ Contact

Spec == Init /\ [][Next]_vars

(* The processor serves its interrupts, runs its program and ticks.        *)
FairSpec == Spec /\ WF_vars(Interrupt) /\ WF_vars(Proceed) /\ WF_vars(Timeout)

(* A host that is attached takes the bytes it is sent, and pauses.         *)
HostAttached == WF_vars(Take) /\ WF_vars(Pause)

-----------------------------------------------------------------------------
(* Properties.                                                             *)

(* The bytes in a ring that the reader has copied are no longer under way. *)
Copied == IF At("readFree") THEN call.n ELSE 0

Down == INSTANCE ByteStream WITH
    Burst <- BUF_LEN, sent <- hostSent, last <- readByte,
    queue <- SubSeq(Live(rx_buf, rx_in, rx_out), Copied + 1, (rx_in - rx_out) % BUF_LEN)
             \o rxFifo

Up == INSTANCE ByteStream WITH
    Burst <- BUF_LEN, sent <- written, last <- hostGot,
    queue <- txFifo \o Live(tx_buf, tx_in, tx_out)

(* What the host sends is read once and in order, though the interrupt     *)
(* routine fills the ring between any two steps of a read and stops when   *)
(* the ring is full.                                                       *)
ReceiveInOrder == Down!Spec

(* What the thread writes reaches the host once and in order, whatever     *)
(* timeouts, short writes and retries there are: a write that gives up has *)
(* queued exactly the bytes it reports.                                    *)
TransmitInOrder == Up!Spec

(* Neither interrupt is off while it is needed: the receive interrupt only *)
(* with a full ring or a read about to enable it, the transmit interrupt   *)
(* only with an empty ring or a write about to kick it.                    *)
NoInterruptLost ==
    /\ ~re => \/ (rx_in + 1) % BUF_LEN = rx_out
              \/ call.moved /\ call.at \in {"readCopy", "readFree", "readEnd"}
    /\ ~we => tx_in = tx_out \/ call.at \in {"writeCopy", "writePublish", "writeKick"}

(* A call that spins waits for the host alone, or for the timeout: its     *)
(* ring is empty, or full, only because the interrupt that would change    *)
(* that is enabled and the device has yet to raise it.                     *)
BlockedOnHostOnly ==
    /\ At("readWait") /\ rx_in = call.seen => rx_in = rx_out /\ re
    /\ At("writeWait") /\ tx_out = call.seen => tx_in # tx_out /\ we
    /\ At("closeWait") /\ tx_out # tx_in => we

(* With a host attached, no call waits for ever, however often its contact *)
(* keeps the timeout from being reached: a byte in the device gets to a    *)
(* read that waits, though it alone raises no interrupt, and writing and   *)
(* closing come to their end, though the device asks for more only when    *)
(* its FIFO is nearly empty.                                               *)
HostServesCalls ==
    HostAttached =>
        /\ At("readWait") /\ rxFifo # <<>> ~> At("idle")
        /\ At("writeWait") \/ At("closeWait") ~> At("idle")

(* Without one, no call spins for ever, as long as the timeout is one the  *)
(* count of idle seconds can reach: the count stops at INT_MAX - 2.        *)
NoCallOutlivesHost ==
    <>[](~ac /\ timeout <= INT_MAX - 2) => []<>At("idle")
=============================================================================
