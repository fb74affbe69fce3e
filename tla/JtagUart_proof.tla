---------------------------- MODULE JtagUart_proof ----------------------------
(***************************************************************************)
(* What the JTAG UART driver keeps for every length of its rings and of    *)
(* the device's FIFOs, every timeout and every length of a call.           *)
(***************************************************************************)
EXTENDS JtagUart, SequenceTheorems, TLAPS

(* A pointer k slots further on, and the slots from out to in.             *)
Ahead(p, k) == IF p + k < BUF_LEN THEN p + k ELSE p + k - BUF_LEN
Used(in, out) == IF in >= out THEN in - out ELSE in - out + BUF_LEN
Free(in, out) == BUF_LEN - 1 - Used(in, out)

(* A sum or a difference of pointers wraps round once at most.             *)
LEMMA ModOnce ==
    ASSUME NEW w \in Nat, NEW x \in Int, w > 0, -w <= x, x < 2 * w
    PROVE  x % w = IF x < 0 THEN x + w ELSE IF x < w THEN x ELSE x - w
<1>1. CASE x < 0
  <2>1. x + w \in Nat /\ x + w < w /\ x = (-1) * w + (x + w)  BY <1>1
  <2> QED  BY <1>1, <2>1, Z3
<1>2. CASE x >= 0 /\ x < w
  BY <1>2
<1>3. CASE x >= w
  <2>1. x - w \in Nat /\ x - w < w /\ x = 1 * w + (x - w)  BY <1>3
  <2> QED  BY <1>3, <2>1, Z3
<1> QED  BY <1>1, <1>2, <1>3

LEMMA MinOfTwo ==
    ASSUME NEW a \in Int, NEW b \in Int
    PROVE  Min({a, b}) = IF a <= b THEN a ELSE b
<1>1. \E x \in {a, b} : \A y \in {a, b} : x =< y
  OBVIOUS
<1>2. Min({a, b}) \in {a, b} /\ \A y \in {a, b} : Min({a, b}) =< y
  BY <1>1 DEF Min
<1> QED  BY <1>2

LEMMA Sizes ==
    /\ BUF_LEN \in Nat /\ BUF_LEN > 1 /\ BUF_LEN > 0
    /\ FIFO_LEN \in Nat /\ FIFO_LEN > 0
    /\ Numbers \in Nat /\ Numbers > 0
BY UartAssumption

(* What the ring's arithmetic comes to.                                    *)
LEMMA Pointers ==
    ASSUME NEW p \in Slots, NEW q \in Slots, NEW k \in 0..BUF_LEN
    PROVE  /\ (p + k) % BUF_LEN = Ahead(p, k)
           /\ (p - q) % BUF_LEN = Used(p, q)
           /\ (q - p - 1) % BUF_LEN = Free(p, q)
           /\ Ahead(p, k) \in Slots /\ Used(p, q) \in Slots /\ Free(p, q) \in Slots
<1> DEFINE Mod(x) == x % BUF_LEN
<1>1. \A x \in Int : -BUF_LEN <= x /\ x < 2 * BUF_LEN =>
         Mod(x) = IF x < 0 THEN x + BUF_LEN ELSE IF x < BUF_LEN THEN x ELSE x - BUF_LEN
  BY ModOnce, Sizes
<1> HIDE DEF Mod
<1>2. /\ Mod(p + k) = Ahead(p, k)
      /\ Mod(p - q) = Used(p, q)
      /\ Mod(q - p - 1) = Free(p, q)
  BY <1>1, Sizes DEF Slots, Ahead, Used, Free
<1>3. Ahead(p, k) \in Slots /\ Used(p, q) \in Slots /\ Free(p, q) \in Slots
  BY Sizes DEF Slots, Ahead, Used, Free
<1> QED  BY <1>2, <1>3 DEF Mod

-----------------------------------------------------------------------------
(* The two halves of the driver, the clock and the call, typed apart.      *)
Byte == 0..Numbers - 1
Ring == [Slots -> Byte]
Fifo == {fifo \in Seq(Byte) : Len(fifo) <= FIFO_LEN}
Places == {"idle", "readCopy", "readFree", "readWait", "readEnd", "writeCopy",
           "writePublish", "writeKick", "writeWait", "writeCheck", "closeWait"}
Calls == [at : Places, seen : Slots, n : Slots, left : Nat,
          moved : BOOLEAN, nonblock : BOOLEAN]

RxOK ==
    /\ rx_buf \in Ring /\ rx_in \in Slots /\ rx_out \in Slots /\ rxFifo \in Fifo
    /\ pause_irq \in BOOLEAN /\ hostSent \in Byte /\ readByte \in Byte
TxOK ==
    /\ tx_buf \in Ring /\ tx_in \in Slots /\ tx_out \in Slots /\ txFifo \in Fifo
    /\ written \in Byte /\ hostGot \in Byte
ClockOK ==
    ac \in BOOLEAN /\ host_inactive \in 0..INT_MAX - 2 /\ timeout \in 2..INT_MAX

LEMMA Parts ==
    TypeOK <=> RxOK /\ TxOK /\ ClockOK /\ re \in BOOLEAN /\ we \in BOOLEAN /\ call \in Calls
BY DEF TypeOK, RxOK, TxOK, ClockOK, Byte, Ring, Fifo, Places, Calls

LEMMA PartsAfter ==
    RxOK' /\ TxOK' /\ ClockOK' /\ re' \in BOOLEAN /\ we' \in BOOLEAN /\ call' \in Calls
        => TypeOK'
BY DEF TypeOK, RxOK, TxOK, ClockOK, Byte, Ring, Fifo, Places, Calls

(* A call that begins, goes on or returns is a call.                       *)
LEMMA CallMoves ==
    /\ Idle \in Calls
    /\ call \in Calls /\ Return => call' \in Calls
    /\ \A place \in Places : call \in Calls /\ GoTo(place) => call' \in Calls
<1>1. 0 \in Slots /\ 0 \in Nat  BY Sizes DEF Slots
<1>2. Idle \in Calls
  BY <1>1 DEF Idle, Calls, Places
<1> QED  BY <1>2 DEF Return, GoTo, Calls

(* The bytes in a ring, one by one.                                        *)
LEMMA LiveIs ==
    ASSUME NEW buf \in Ring, NEW in \in Slots, NEW out \in Slots
    PROVE  /\ Live(buf, in, out) \in Seq(Byte)
           /\ Len(Live(buf, in, out)) = Used(in, out)
           /\ \A i \in 1..Used(in, out) :
                 Ahead(out, i - 1) \in Slots /\ Live(buf, in, out)[i] = buf[Ahead(out, i - 1)]
<1>1. (in - out) % BUF_LEN = Used(in, out) /\ Used(in, out) \in Slots /\ Used(in, out) \in Nat
  BY Pointers, Sizes DEF Slots
<1>2. \A i \in 1..Used(in, out) :
         (out + i - 1) % BUF_LEN = Ahead(out, i - 1) /\ Ahead(out, i - 1) \in Slots
  <2> TAKE i \in 1..Used(in, out)
  <2>1. i - 1 \in 0..BUF_LEN /\ out + i - 1 = out + (i - 1)
    BY <1>1, Sizes DEF Slots
  <2> QED  BY <2>1, Pointers
<1>3. Live(buf, in, out) = [i \in 1..Used(in, out) |-> buf[Ahead(out, i - 1)]]
  BY <1>1, <1>2 DEF Live
<1>4. \A i \in 1..Used(in, out) : buf[Ahead(out, i - 1)] \in Byte
  BY <1>2 DEF Ring
<1> QED  BY <1>1, <1>2, <1>3, <1>4

(* What storing bytes into a ring leaves in it.                            *)
LEMMA StoredIs ==
    ASSUME NEW buf \in Ring, NEW first \in Slots, NEW bytes \in Seq(Byte)
    PROVE  /\ Stored(buf, first, bytes) \in Ring
           /\ \A i \in Slots :
                 /\ Used(i, first) < Len(bytes) =>
                       Stored(buf, first, bytes)[i] = bytes[Used(i, first) + 1]
                 /\ Used(i, first) >= Len(bytes) => Stored(buf, first, bytes)[i] = buf[i]
<1>1. \A i \in Slots : (i - first) % BUF_LEN = Used(i, first) /\ Used(i, first) \in Nat
  <2>1. 0 \in 0..BUF_LEN  BY Sizes
  <2>2. \A i \in Slots : (i - first) % BUF_LEN = Used(i, first) /\ Used(i, first) \in Slots
    BY <2>1, Pointers
  <2> QED  BY <2>2 DEF Slots
<1>2. Stored(buf, first, bytes) =
        [i \in Slots |-> IF Used(i, first) + 1 <= Len(bytes) THEN bytes[Used(i, first) + 1]
                         ELSE buf[i]]
  BY <1>1 DEF Stored
<1>3. \A i \in Slots : Used(i, first) + 1 <= Len(bytes) => bytes[Used(i, first) + 1] \in Byte
  BY <1>1
<1> QED  BY <1>1, <1>2, <1>3 DEF Ring

(* The numbers of the next bytes are numbers.                              *)
LEMMA NumberedIs ==
    ASSUME NEW last \in Byte, NEW n \in Nat
    PROVE  /\ (last + n) % Numbers \in Byte
           /\ Numbered(last, n) \in Seq(Byte) /\ Len(Numbered(last, n)) = n
           /\ \A i \in 1..n : Numbered(last, n)[i] = (last + i) % Numbers
<1>1. \A i \in Nat : (last + i) % Numbers \in Byte
  <2> TAKE i \in Nat
  <2>1. last + i \in Nat /\ Numbers \in Nat /\ Numbers > 0
    BY Sizes DEF Byte
  <2> QED  BY <2>1, Z3 DEF Byte
<1> QED  BY <1>1 DEF Numbered

-----------------------------------------------------------------------------
(* How many bytes each step moves.                                         *)
Least(a, b) == IF a <= b THEN a ELSE b
Received == Least(Free(rx_in, rx_out), Len(rxFifo))
Sent == Least(FIFO_LEN - Len(txFifo), Used(tx_in, tx_out))
Taken == Least(Readable(rx_in, rx_out), call.left)
Given == Least(Writable(tx_in, tx_out), call.left)

(* The room a copy sees is some of the room there is, and none only if     *)
(* there is none.                                                          *)
LEMMA RoomSeen ==
    ASSUME NEW in \in Slots, NEW out \in Slots
    PROVE  /\ Used(in, out) \in Slots /\ Free(in, out) \in Slots
           /\ Readable(in, out) \in 0..Used(in, out)
           /\ Readable(in, out) = 0 <=> Used(in, out) = 0
           /\ Writable(in, out) \in 0..Free(in, out)
           /\ Writable(in, out) = 0 <=> Free(in, out) = 0
           /\ Used(in, out) = 0 <=> in = out
           /\ Free(in, out) = 0 <=> Ahead(in, 1) = out
BY Sizes DEF Slots, Used, Free, Readable, Writable, Ahead

(* The receive half of the interrupt routine.                              *)
LEMMA ReceiveIs ==
    ASSUME RxOK, Receive
    PROVE  /\ Received \in 0..Free(rx_in, rx_out) /\ Received \in 0..Len(rxFifo)
           /\ Received \in Slots
           /\ rx_buf' = Stored(rx_buf, rx_in, SubSeq(rxFifo, 1, Received))
           /\ rx_in' = Ahead(rx_in, Received)
           /\ rxFifo' = SubSeq(rxFifo, Received + 1, Len(rxFifo))
           /\ re' = (Len(rxFifo) = Received) /\ pause_irq' \in BOOLEAN
           /\ UNCHANGED <<rx_out, readByte, hostSent>>
<1>0. /\ rx_in \in Slots /\ rx_out \in Slots /\ Len(rxFifo) \in Nat
  BY DEF RxOK, Fifo
<1>1. Free(rx_in, rx_out) \in Slots
  BY <1>0, RoomSeen
<1>2. /\ Received \in 0..Free(rx_in, rx_out) /\ Received \in 0..Len(rxFifo)
      /\ Received \in Slots /\ Received \in 0..BUF_LEN /\ Free(rx_in, rx_out) \in Int
  BY <1>0, <1>1, Sizes DEF Received, Least, Slots
<1>3. (rx_out - rx_in - 1) % BUF_LEN = Free(rx_in, rx_out)
  BY <1>0, <1>2, Pointers
<1>4. Min({Free(rx_in, rx_out), Len(rxFifo)}) = Received
  BY <1>0, <1>2, MinOfTwo DEF Received, Least
<1>5. (rx_in + Received) % BUF_LEN = Ahead(rx_in, Received)
  BY <1>0, <1>2, Pointers
<1> QED  BY <1>2, <1>3, <1>4, <1>5 DEF Receive

(* Its transmit half.                                                      *)
LEMMA TransmitIs ==
    ASSUME TxOK, Transmit
    PROVE  /\ Sent \in 0..Used(tx_in, tx_out) /\ Sent \in 0..FIFO_LEN - Len(txFifo)
           /\ Sent \in Slots
           /\ txFifo' = txFifo \o SubSeq(Live(tx_buf, tx_in, tx_out), 1, Sent)
           /\ tx_out' = Ahead(tx_out, Sent)
           /\ we' = (Sent = FIFO_LEN - Len(txFifo))
           /\ UNCHANGED <<tx_buf, tx_in, written, hostGot>>
<1>0. /\ tx_in \in Slots /\ tx_out \in Slots
      /\ Len(txFifo) \in Nat /\ Len(txFifo) <= FIFO_LEN
  BY DEF TxOK, Fifo
<1>1. Used(tx_in, tx_out) \in Slots
  BY <1>0, RoomSeen
<1>2. /\ Sent \in 0..Used(tx_in, tx_out) /\ Sent \in 0..FIFO_LEN - Len(txFifo)
      /\ Sent \in Slots /\ Sent \in 0..BUF_LEN
      /\ Used(tx_in, tx_out) \in Int /\ FIFO_LEN - Len(txFifo) \in Int
  BY <1>0, <1>1, Sizes DEF Sent, Least, Slots
<1>3. Len(Live(tx_buf, tx_in, tx_out)) = Used(tx_in, tx_out)
  BY LiveIs DEF TxOK
<1>4. Min({FIFO_LEN - Len(txFifo), Used(tx_in, tx_out)}) = Sent
  BY <1>2, MinOfTwo DEF Sent, Least
<1>5. (tx_out + Sent) % BUF_LEN = Ahead(tx_out, Sent)
  BY <1>0, <1>2, Pointers
<1> QED  BY <1>2, <1>3, <1>4, <1>5 DEF Transmit

(* A copy out of the receive ring, or none.                                *)
LEMMA ReadCopyIs ==
    ASSUME RxOK, call \in Calls, ReadCopy
    PROVE  /\ Taken \in 0..Used(rx_in, rx_out) /\ Taken \in 0..call.left /\ Taken \in Slots
           /\ Taken = 0 /\ call.left > 0 => rx_in = rx_out
           /\ Taken > 0 =>
                 /\ readByte' = rx_buf[Ahead(rx_out, Taken - 1)]
                 /\ Ahead(rx_out, Taken - 1) \in Slots
                 /\ call' = [call EXCEPT !.at = "readFree", !.n = Taken,
                                         !.left = call.left - Taken, !.moved = TRUE]
           /\ Taken = 0 =>
                 /\ IF call.left = 0 \/ call.moved \/ call.nonblock
                    THEN GoTo("readEnd")
                    ELSE call' = [call EXCEPT !.at = "readWait", !.seen = rx_in]
                 /\ UNCHANGED readByte
<1>1. /\ rx_in \in Slots /\ rx_out \in Slots /\ call.left \in Nat
      /\ Used(rx_in, rx_out) \in Slots /\ Readable(rx_in, rx_out) \in 0..Used(rx_in, rx_out)
      /\ Readable(rx_in, rx_out) = 0 => rx_in = rx_out
  BY RoomSeen DEF RxOK, Calls
<1>2. /\ Taken \in 0..Used(rx_in, rx_out) /\ Taken \in 0..call.left /\ Taken \in Slots
      /\ Taken = 0 /\ call.left > 0 => rx_in = rx_out
  BY <1>1, Sizes DEF Taken, Least, Slots
<1>3. Min({Readable(rx_in, rx_out), call.left}) = Taken
  BY <1>1, MinOfTwo, Sizes DEF Taken, Least, Slots
<1>4. Taken > 0 => /\ (rx_out + Taken - 1) % BUF_LEN = Ahead(rx_out, Taken - 1)
                   /\ Ahead(rx_out, Taken - 1) \in Slots
  <2> SUFFICES ASSUME Taken > 0
               PROVE  /\ (rx_out + Taken - 1) % BUF_LEN = Ahead(rx_out, Taken - 1)
                      /\ Ahead(rx_out, Taken - 1) \in Slots
    OBVIOUS
  <2>1. Taken - 1 \in 0..BUF_LEN /\ rx_out + Taken - 1 = rx_out + (Taken - 1)
    BY <1>1, <1>2, Sizes DEF Slots
  <2> QED  BY <1>1, <2>1, Pointers
<1>5. CASE Taken > 0
  <2>1. Taken # 0  BY <1>2, <1>5
  <2>2. /\ readByte' = rx_buf[Ahead(rx_out, Taken - 1)]
        /\ call' = [call EXCEPT !.at = "readFree", !.n = Taken,
                                !.left = call.left - Taken, !.moved = TRUE]
    BY <1>3, <1>4, <1>5 DEF ReadCopy
  <2> QED  BY <1>2, <1>4, <1>5, <2>1, <2>2
<1>6. CASE ~(Taken > 0)
  <2>1. Taken = 0  BY <1>2, <1>6
  <2> QED  BY <1>2, <1>3, <1>6, <2>1 DEF ReadCopy
<1> QED  BY <1>5, <1>6

(* A copy into the transmit ring, or none.                                 *)
LEMMA WriteCopyIs ==
    ASSUME TxOK, call \in Calls, WriteCopy
    PROVE  /\ Given \in 0..Free(tx_in, tx_out) /\ Given \in 0..call.left /\ Given \in Slots
           /\ Given = 0 /\ call.left > 0 => Ahead(tx_in, 1) = tx_out
           /\ Given > 0 =>
                 /\ tx_buf' = Stored(tx_buf, tx_in, Numbered(written, Given))
                 /\ call' = [call EXCEPT !.at = "writePublish", !.n = Given,
                                         !.left = call.left - Given]
           /\ Given = 0 =>
                 /\ call' = [call EXCEPT !.at = "writeKick", !.seen = tx_out]
                 /\ UNCHANGED tx_buf
<1>1. /\ tx_in \in Slots /\ tx_out \in Slots /\ call.left \in Nat
      /\ Free(tx_in, tx_out) \in Slots /\ Writable(tx_in, tx_out) \in 0..Free(tx_in, tx_out)
      /\ Writable(tx_in, tx_out) = 0 => Ahead(tx_in, 1) = tx_out
  BY RoomSeen DEF TxOK, Calls
<1>2. /\ Given \in 0..Free(tx_in, tx_out) /\ Given \in 0..call.left /\ Given \in Slots
      /\ Given = 0 /\ call.left > 0 => Ahead(tx_in, 1) = tx_out
  BY <1>1, Sizes DEF Given, Least, Slots
<1>3. Min({Writable(tx_in, tx_out), call.left}) = Given
  BY <1>1, MinOfTwo, Sizes DEF Given, Least, Slots
<1>4. CASE Given > 0
  <2>1. Given # 0  BY <1>2, <1>4
  <2>2. /\ tx_buf' = Stored(tx_buf, tx_in, Numbered(written, Given))
        /\ call' = [call EXCEPT !.at = "writePublish", !.n = Given,
                                !.left = call.left - Given]
    BY <1>3, <1>4 DEF WriteCopy
  <2> QED  BY <1>2, <1>4, <2>1, <2>2
<1>5. CASE ~(Given > 0)
  <2>1. Given = 0  BY <1>2, <1>5
  <2> QED  BY <1>2, <1>3, <1>5, <2>1 DEF WriteCopy
<1> QED  BY <1>4, <1>5

-----------------------------------------------------------------------------
(* Type correctness.  The interrupt routine keeps the types of both rings. *)
LEMMA ReceiveTypes == RxOK /\ Receive => RxOK' /\ re' \in BOOLEAN
<1> SUFFICES ASSUME RxOK, Receive PROVE RxOK' /\ re' \in BOOLEAN
  OBVIOUS
<1>0. /\ rx_in \in Slots /\ rx_buf \in Ring /\ rxFifo \in Seq(Byte)
      /\ Len(rxFifo) \in Nat /\ Len(rxFifo) <= FIFO_LEN
      /\ Received \in 0..Len(rxFifo) /\ Received \in Slots
  BY ReceiveIs DEF RxOK, Fifo
<1>1. SubSeq(rxFifo, 1, Received) \in Seq(Byte)
  BY <1>0
<1>2. rx_buf' \in Ring
  <2>1. Stored(rx_buf, rx_in, SubSeq(rxFifo, 1, Received)) \in Ring
    BY <1>0, <1>1, StoredIs
  <2> QED  BY <2>1, ReceiveIs
<1>3. rx_in' \in Slots
  <2>1. Received \in 0..BUF_LEN  BY <1>0, Sizes DEF Slots
  <2> QED  BY <1>0, <2>1, ReceiveIs, Pointers
<1>4. SubSeq(rxFifo, Received + 1, Len(rxFifo)) \in Seq(Byte)
  BY <1>0
<1>5. Len(SubSeq(rxFifo, Received + 1, Len(rxFifo))) <= FIFO_LEN
  BY <1>0, Sizes
<1> QED  BY <1>2, <1>3, <1>4, <1>5, ReceiveIs DEF RxOK, Fifo

LEMMA TransmitTypes == TxOK /\ Transmit => TxOK' /\ we' \in BOOLEAN
<1> SUFFICES ASSUME TxOK, Transmit PROVE TxOK' /\ we' \in BOOLEAN
  OBVIOUS
<1>0. /\ tx_in \in Slots /\ tx_out \in Slots /\ tx_buf \in Ring /\ txFifo \in Seq(Byte)
      /\ Len(txFifo) \in Nat /\ Sent \in 0..FIFO_LEN - Len(txFifo)
      /\ Sent \in 0..Used(tx_in, tx_out) /\ Sent \in Slots
  BY TransmitIs DEF TxOK, Fifo
<1> DEFINE bytes == Live(tx_buf, tx_in, tx_out)
<1>1. bytes \in Seq(Byte) /\ Len(bytes) = Used(tx_in, tx_out)
  BY <1>0, LiveIs
<1> HIDE DEF bytes
<1>2. SubSeq(bytes, 1, Sent) \in Seq(Byte) /\ Len(SubSeq(bytes, 1, Sent)) = Sent
  BY <1>0, <1>1
<1>3. /\ txFifo \o SubSeq(bytes, 1, Sent) \in Seq(Byte)
      /\ Len(txFifo \o SubSeq(bytes, 1, Sent)) <= FIFO_LEN
  BY <1>0, <1>2, Sizes
<1>4. txFifo' \in Fifo
  BY <1>3, TransmitIs DEF Fifo, bytes
<1>5. tx_out' \in Slots
  <2>1. Sent \in 0..BUF_LEN  BY <1>0, Sizes DEF Slots
  <2> QED  BY <1>0, <2>1, TransmitIs, Pointers
<1> QED  BY <1>4, <1>5, TransmitIs DEF TxOK

LEMMA InterruptTypes == TypeOK /\ Interrupt => TypeOK'
<1> SUFFICES ASSUME TypeOK, Interrupt PROVE TypeOK'
  OBVIOUS
<1>1. RxOK' /\ re' \in BOOLEAN
  <2>1. CASE ReceivePending
    BY <2>1, Parts, ReceiveTypes DEF Interrupt
  <2>2. CASE ~ReceivePending
    BY <2>2, Parts DEF Interrupt, rx, RxOK
  <2> QED  BY <2>1, <2>2
<1>2. TxOK' /\ we' \in BOOLEAN
  <2>1. CASE TransmitPending
    BY <2>1, Parts, TransmitTypes DEF Interrupt
  <2>2. CASE ~TransmitPending
    BY <2>2, Parts DEF Interrupt, tx, TxOK
  <2> QED  BY <2>1, <2>2
<1>3. ClockOK' /\ call' \in Calls
  BY Parts DEF Interrupt, clock, ClockOK
<1> QED  BY <1>1, <1>2, <1>3, PartsAfter

(* The timeout keeps those of the clock, ...                               *)
LEMMA TimeoutTypes ==
    TypeOK /\ (Timeout \/ \E arg \in TimeoutArgs : SetTimeout(arg)) => TypeOK'
<1> SUFFICES ASSUME TypeOK, Timeout \/ \E arg \in TimeoutArgs : SetTimeout(arg)
             PROVE  TypeOK'
  OBVIOUS
<1>1. RxOK' /\ TxOK' /\ re' \in BOOLEAN /\ we' \in BOOLEAN /\ call' \in Calls
  BY Parts DEF Timeout, SetTimeout, rx, tx, RxOK, TxOK
<1>2. ClockOK'
  <2>0. INT_MAX \in Nat /\ INT_MAX > 3 /\ ClockOK
    BY UartAssumption, Parts
  <2>1. CASE Timeout
    <3>1. host_inactive + 1 \in Int /\ INT_MAX - 2 \in Int
      BY <2>0 DEF ClockOK
    <3>2. host_inactive' \in {0, host_inactive + 1, INT_MAX - 2} /\ host_inactive' <= INT_MAX - 2
      BY <2>0, <2>1, <3>1, MinOfTwo DEF Timeout
    <3>3. host_inactive \in Nat /\ timeout \in 2..INT_MAX
      BY <2>0 DEF ClockOK
    <3>4. host_inactive' \in 0..INT_MAX - 2
      BY <2>0, <3>2, <3>3
    <3> QED  BY <2>1, <3>3, <3>4 DEF Timeout, ClockOK
  <2>2. CASE \E arg \in TimeoutArgs : SetTimeout(arg)
    <3>1. PICK arg \in TimeoutArgs : SetTimeout(arg)
      BY <2>2
    <3>2. arg \in Int
      BY UartAssumption
    <3> QED  BY <2>0, <3>1, <3>2 DEF SetTimeout, ClockOK
  <2> QED  BY <2>1, <2>2
<1> QED  BY <1>1, <1>2, PartsAfter

(* ... and the host those of the FIFOs.                                    *)
LEMMA ContactTypes == TypeOK /\ Contact => TypeOK'
<1>1. ASSUME TypeOK, Take PROVE TypeOK'
  <2>1. txFifo \in Seq(Byte) /\ Len(txFifo) <= FIFO_LEN /\ txFifo # <<>>
    BY <1>1, Parts DEF Take, TxOK, Fifo
  <2>2. Head(txFifo) \in Byte /\ Tail(txFifo) \in Fifo
    BY <2>1, Sizes DEF Fifo
  <2>3. TxOK'
    BY <1>1, <2>2, Parts DEF Take, TxOK
  <2> QED  BY <1>1, <2>3, Parts, PartsAfter DEF Take, rx, clock, RxOK, ClockOK
<1>2. ASSUME TypeOK, Send PROVE TypeOK'
  <2>0. rxFifo \in Seq(Byte) /\ Len(rxFifo) < FIFO_LEN /\ hostSent \in Byte
    BY <1>2, Parts DEF Send, RxOK, Fifo
  <2>1. hostSent' \in Byte
    BY <1>2, <2>0, NumberedIs DEF Send
  <2>2. Append(rxFifo, hostSent') \in Fifo
    BY <2>0, <2>1, Sizes DEF Fifo
  <2>3. RxOK'
    BY <1>2, <2>1, <2>2, Parts DEF Send, RxOK
  <2> QED  BY <1>2, <2>3, Parts, PartsAfter DEF Send, tx, TxOK, ClockOK
<1>3. ASSUME TypeOK, Pause PROVE TypeOK'
  <2>1. RxOK'
    BY <1>3, Parts DEF Pause, RxOK
  <2> QED  BY <1>3, <2>1, Parts, PartsAfter DEF Pause, tx, TxOK, ClockOK
<1> QED  BY <1>1, <1>2, <1>3 DEF Contact

(* The steps of a read keep the types; a copy takes bytes of the ring.     *)
LEMMA ReadTypes ==
    /\ \A length \in Lengths, nonblock \in BOOLEAN :
          TypeOK /\ Read(length, nonblock) => TypeOK'
    /\ TypeOK /\ (ReadCopy \/ ReadFree \/ ReadWait \/ ReadEnd) => TypeOK'
<1>1. ASSUME TypeOK, NEW length \in Lengths, NEW nonblock \in BOOLEAN, Read(length, nonblock)
      PROVE  TypeOK'
  <2>1. call' \in Calls
    <3>1. length \in Nat /\ 0 \in Slots
      BY UartAssumption DEF Slots
    <3> QED  BY <1>1, <3>1 DEF Read, Idle, Calls, Places
  <2> QED  BY <1>1, <2>1, Parts, PartsAfter DEF Read, rx, tx, clock, RxOK, TxOK, ClockOK
<1>2. ASSUME TypeOK, ReadCopy PROVE TypeOK'
  <2>0. RxOK /\ call \in Calls
    BY <1>2, Parts
  <2>1. call' \in Calls /\ readByte' \in Byte
    <3>1. CASE Taken > 0
      <4>1. /\ Taken \in Slots /\ call.left - Taken \in Nat
            /\ rx_buf[Ahead(rx_out, Taken - 1)] \in Byte
        BY <1>2, <2>0, <3>1, ReadCopyIs DEF Calls, RxOK, Ring
      <4> QED  BY <1>2, <2>0, <3>1, <4>1, ReadCopyIs DEF Calls, Places
    <3>2. CASE Taken = 0
      <4>1. /\ GoTo("readEnd") \/ call' = [call EXCEPT !.at = "readWait", !.seen = rx_in]
            /\ readByte' = readByte
        BY <1>2, <2>0, <3>2, ReadCopyIs
      <4>2. rx_in \in Slots /\ readByte \in Byte
        BY <2>0 DEF RxOK
      <4>3. [call EXCEPT !.at = "readWait", !.seen = rx_in] \in Calls
        BY <2>0, <4>2 DEF Calls, Places
      <4> QED  BY <2>0, <4>1, <4>2, <4>3, CallMoves DEF Places
    <3>3. Taken \in Nat
      BY <1>2, <2>0, ReadCopyIs DEF Slots
    <3> QED  BY <3>1, <3>2, <3>3
  <2> QED  BY <1>2, <2>1, Parts, PartsAfter DEF ReadCopy, tx, clock, RxOK, TxOK, ClockOK
<1>3. ASSUME TypeOK, ReadFree PROVE TypeOK'
  <2>1. call' \in Calls
    <3>1. 0 \in Slots  BY Sizes DEF Slots
    <3> QED  BY <1>3, <3>1, Parts DEF ReadFree, Calls, Places
  <2>2. rx_out' \in Slots
    <3>1. rx_out \in Slots /\ call.n \in Slots /\ call.n \in 0..BUF_LEN
      BY <1>3, Parts, Sizes DEF RxOK, Calls, Slots
    <3> QED  BY <1>3, <3>1, Pointers DEF ReadFree
  <2> QED  BY <1>3, <2>1, <2>2, Parts, PartsAfter DEF ReadFree, tx, clock, RxOK, TxOK, ClockOK
<1>4. ASSUME TypeOK, ReadWait \/ ReadEnd PROVE TypeOK'
  <2>1. call' \in Calls
    <3>0. call \in Calls  BY <1>4, Parts
    <3>1. CASE ReadEnd
      BY <3>0, <3>1, CallMoves DEF ReadEnd
    <3>2. CASE ReadWait
      <4>1. 0 \in Slots  BY Sizes DEF Slots
      <4>2. [call EXCEPT !.at = "readCopy", !.seen = 0] \in Calls
        BY <3>0, <4>1 DEF Calls, Places
      <4> QED  BY <3>0, <3>2, <4>2, CallMoves DEF ReadWait, Places
    <3> QED  BY <1>4, <3>1, <3>2
  <2>2. re' \in BOOLEAN
    BY <1>4, Parts DEF ReadWait, ReadEnd, Calls
  <2> QED  BY <1>4, <2>1, <2>2, Parts, PartsAfter
           DEF ReadWait, ReadEnd, rx, tx, clock, RxOK, TxOK, ClockOK
<1> QED  BY <1>1, <1>2, <1>3, <1>4

(* So do those of a write, ...                                             *)
LEMMA WriteTypes ==
    /\ \A length \in Lengths, nonblock \in BOOLEAN :
          TypeOK /\ Write(length, nonblock) => TypeOK'
    /\ TypeOK /\ (WriteCopy \/ WritePublish \/ WriteKick \/ WriteWait \/ WriteCheck) => TypeOK'
<1>1. ASSUME TypeOK, NEW length \in Lengths, NEW nonblock \in BOOLEAN, Write(length, nonblock)
      PROVE  TypeOK'
  <2>1. call' \in Calls
    <3>1. length \in Nat /\ 0 \in Slots
      BY UartAssumption DEF Slots
    <3> QED  BY <1>1, <3>1 DEF Write, Idle, Calls, Places
  <2> QED  BY <1>1, <2>1, Parts, PartsAfter DEF Write, rx, tx, clock, RxOK, TxOK, ClockOK
<1>2. ASSUME TypeOK, WriteCopy PROVE TypeOK'
  <2>0. TxOK /\ call \in Calls
    BY <1>2, Parts
  <2>1. call' \in Calls /\ tx_buf' \in Ring
    <3>0. Given \in Slots /\ Given \in Nat
      BY <1>2, <2>0, WriteCopyIs DEF Slots
    <3>1. CASE Given > 0
      <4>1. call.left - Given \in Nat
        BY <1>2, <2>0, <3>1, WriteCopyIs DEF Calls
      <4>2. Stored(tx_buf, tx_in, Numbered(written, Given)) \in Ring
        BY <2>0, <3>0, NumberedIs, StoredIs DEF TxOK
      <4> QED  BY <1>2, <2>0, <3>0, <3>1, <4>1, <4>2, WriteCopyIs DEF Calls, Places
    <3>2. CASE Given = 0
      BY <1>2, <2>0, <3>2, WriteCopyIs DEF Calls, Places, TxOK
    <3> QED  BY <3>0, <3>1, <3>2
  <2> QED  BY <1>2, <2>1, Parts, PartsAfter DEF WriteCopy, rx, clock, RxOK, TxOK, ClockOK
<1>3. ASSUME TypeOK, WritePublish PROVE TypeOK'
  <2>1. call' \in Calls
    <3>1. 0 \in Slots  BY Sizes DEF Slots
    <3> QED  BY <1>3, <3>1, Parts DEF WritePublish, Calls, Places
  <2>2. tx_in' \in Slots /\ written' \in Byte
    <3>1. /\ tx_in \in Slots /\ call.n \in Slots /\ call.n \in 0..BUF_LEN
          /\ call.n \in Nat /\ written \in Byte
      BY <1>3, Parts, Sizes DEF TxOK, Calls, Slots
    <3>2. (tx_in + call.n) % BUF_LEN \in Slots
      BY <3>1, Pointers
    <3>3. (written + call.n) % Numbers \in Byte
      BY <3>1, NumberedIs
    <3> QED  BY <1>3, <3>2, <3>3 DEF WritePublish
  <2> QED  BY <1>3, <2>1, <2>2, Parts, PartsAfter DEF WritePublish, rx, clock, RxOK, TxOK, ClockOK
<1>4. ASSUME TypeOK, WriteKick \/ WriteWait \/ WriteCheck PROVE TypeOK'
  <2>1. call' \in Calls
    <3>0. call \in Calls  BY <1>4, Parts
    <3>1. CASE WriteKick
      BY <3>0, <3>1, CallMoves DEF WriteKick, Places
    <3>2. CASE WriteWait
      BY <3>0, <3>2, CallMoves DEF WriteWait, Places
    <3>3. CASE WriteCheck /\ host_inactive # 0
      BY <3>0, <3>3, CallMoves DEF WriteCheck
    <3>4. CASE WriteCheck /\ host_inactive = 0
      <4>1. 0 \in Slots  BY Sizes DEF Slots
      <4> QED  BY <3>0, <3>4, <4>1 DEF WriteCheck, Calls, Places
    <3> QED  BY <1>4, <3>1, <3>2, <3>3, <3>4
  <2>2. we' \in BOOLEAN
    BY <1>4, Parts DEF WriteKick, WriteWait, WriteCheck
  <2> QED  BY <1>4, <2>1, <2>2, Parts, PartsAfter
           DEF WriteKick, WriteWait, WriteCheck, rx, tx, clock, RxOK, TxOK, ClockOK
<1> QED  BY <1>1, <1>2, <1>3, <1>4

(* ... and of close.                                                       *)
LEMMA CloseTypes == TypeOK /\ (Close \/ CloseWait) => TypeOK'
<1> SUFFICES ASSUME TypeOK, Close \/ CloseWait PROVE TypeOK'
  OBVIOUS
<1>1. call' \in Calls
  <2>1. CASE Close
    <3>1. call' = [Idle EXCEPT !.at = "closeWait"]  BY <2>1 DEF Close
    <3> QED  BY <3>1, CallMoves DEF Calls, Places
  <2>2. CASE CloseWait
    BY <2>2, CallMoves, Parts DEF CloseWait
  <2> QED  BY <2>1, <2>2
<1> QED  BY <1>1, Parts, PartsAfter DEF Close, CloseWait, rx, tx, clock, RxOK, TxOK, ClockOK

(* Every pointer stays in its ring, every FIFO within its depth and every  *)
(* count within its type, whatever lengths and timeouts the calls pass.    *)
THEOREM UartTypeCorrect == Spec => []TypeOK
<1>1. Init => TypeOK
  <2> SUFFICES ASSUME Init PROVE TypeOK
    OBVIOUS
  <2>1. 0 \in Slots /\ 0 \in Byte /\ 0 \in Nat
    BY Sizes DEF Slots, Byte
  <2>p. pause_irq \in BOOLEAN
    BY DEF Init
  <2>2. RxOK /\ TxOK
    BY <2>1, <2>p, Sizes DEF Init, RxOK, TxOK, Ring, Fifo
  <2>3. ClockOK
    <3>1. INT_MAX \in Nat /\ INT_MAX > 3 /\ DEFAULT_TIMEOUT \in 2..INT_MAX
      BY UartAssumption
    <3>2. 0 \in 0..INT_MAX - 2 /\ INT_MAX \in 2..INT_MAX
      BY <3>1
    <3> QED  BY <3>1, <3>2 DEF Init, ClockOK
  <2>4. call \in Calls
    BY <2>1 DEF Init, Idle, Calls, Places
  <2> QED  BY <2>2, <2>3, <2>4, Parts DEF Init
<1>2. TypeOK /\ [Next]_vars => TypeOK'
  <2>1. TypeOK /\ UNCHANGED vars => TypeOK'
    BY Parts, PartsAfter DEF vars, rx, tx, clock, RxOK, TxOK, ClockOK
  <2> QED
    BY <2>1, InterruptTypes, TimeoutTypes, ContactTypes, ReadTypes, WriteTypes, CloseTypes
       DEF Next, Proceed, NewCall
<1> QED  BY <1>1, <1>2, PTL DEF Spec

-----------------------------------------------------------------------------
(* Moving a pointer adds to what is used or takes from it.                 *)
LEMMA RingMoves ==
    ASSUME NEW in \in Slots, NEW out \in Slots, NEW m \in Slots
    PROVE  /\ Ahead(in, m) \in Slots
           /\ Used(Ahead(out, m), out) = m
           /\ m <= Free(in, out) => Used(Ahead(in, m), out) = Used(in, out) + m
           /\ m <= Used(in, out) => Used(in, Ahead(out, m)) = Used(in, out) - m
           /\ Ahead(in, 1) # in
           /\ m = Free(in, out) => Ahead(Ahead(in, m), 1) = out
           /\ m = Used(in, out) => Ahead(out, m) = in
BY Sizes DEF Slots, Ahead, Used, Free

(* The inductive invariant: besides the types and the interrupts, a read   *)
(* frees only slots it has copied and that hold bytes, a write publishes   *)
(* only slots that are free and that it has filled, and a call that waits  *)
(* has seen the ring as it still is at the thread's own end.               *)
Reading == At("readFree") => call.moved /\ call.n \in 1..Used(rx_in, rx_out)

Writing ==
    At("writePublish") =>
        /\ call.n \in 1..Free(tx_in, tx_out)
        /\ \A k \in 1..call.n : tx_buf[Ahead(tx_in, k - 1)] = (written + k) % Numbers

Waiting ==
    /\ At("readWait") => call.seen = rx_out
    /\ At("writeWait") \/ (At("writeKick") /\ call.left > 0) => Ahead(tx_in, 1) = call.seen

ReceiveEnabled ==
    ~re => \/ Ahead(rx_in, 1) = rx_out
           \/ call.moved /\ call.at \in {"readCopy", "readFree", "readEnd"}

TransmitEnabled ==
    ~we => tx_in = tx_out \/ call.at \in {"writeCopy", "writePublish", "writeKick"}

IInv == TypeOK /\ ReceiveEnabled /\ TransmitEnabled /\ Reading /\ Writing /\ Waiting

(* Where each step of the thread leads.                                    *)
LEMMA NextPlace ==
    ASSUME call \in Calls
    PROVE  /\ ReadCopy => call'.at \in {"readFree", "readWait", "readEnd"}
           /\ ReadFree \/ ReadWait => call'.at \in {"readCopy", "readEnd"}
           /\ ReadEnd \/ CloseWait => call'.at = "idle"
           /\ WriteCopy => call'.at \in {"writePublish", "writeKick"}
           /\ WritePublish => call'.at \in {"writeCopy", "writeKick"}
           /\ WriteKick => call'.at \in {"writeWait", "idle"}
           /\ WriteWait => call'.at = "writeCheck"
           /\ WriteCheck => call'.at \in {"writeCopy", "idle"}
           /\ Close => call'.at = "closeWait"
           /\ \A length \in Lengths, nonblock \in BOOLEAN :
                 /\ Read(length, nonblock) => call'.at = "readCopy"
                 /\ Write(length, nonblock) => call'.at = "writeCopy"
<1>1. \A place : GoTo(place) => call'.at = place
  BY DEF GoTo, Calls
<1>2. Return => call'.at = "idle"
  BY DEF Return, Idle
<1>3. /\ ReadCopy => call'.at \in {"readFree", "readWait", "readEnd"}
      /\ WriteCopy => call'.at \in {"writePublish", "writeKick"}
  BY <1>1 DEF ReadCopy, WriteCopy, Calls
<1>4. ReadFree => call'.at \in {"readCopy", "readEnd"}
  BY DEF ReadFree, Calls
<1>5. ReadWait => call'.at \in {"readCopy", "readEnd"}
  BY <1>1 DEF ReadWait, Calls
<1>6. ReadEnd \/ CloseWait => call'.at = "idle"
  BY <1>2 DEF ReadEnd, CloseWait
<1>7. WritePublish => call'.at \in {"writeCopy", "writeKick"}
  BY DEF WritePublish, Calls
<1>8. /\ WriteKick => call'.at \in {"writeWait", "idle"}
      /\ WriteWait => call'.at = "writeCheck"
  BY <1>1, <1>2 DEF WriteKick, WriteWait
<1>9. WriteCheck => call'.at \in {"writeCopy", "idle"}
  BY <1>2 DEF WriteCheck, Calls
<1>10. Close => call'.at = "closeWait"
  BY DEF Close, Idle
<1>11. \A length \in Lengths, nonblock \in BOOLEAN :
          /\ Read(length, nonblock) => call'.at = "readCopy"
          /\ Write(length, nonblock) => call'.at = "writeCopy"
  BY DEF Read, Write, Idle
<1> QED  BY <1>3, <1>4, <1>5, <1>6, <1>7, <1>8, <1>9, <1>10, <1>11

(* No step of the thread leaves the receive interrupt off when the reader  *)
(* would need it.                                                          *)
LEMMA ReceiveStaysEnabled ==
    ASSUME IInv, [Next]_vars
    PROVE  ReceiveEnabled'
<1>0. /\ TypeOK /\ RxOK /\ call \in Calls /\ ReceiveEnabled /\ Reading
      /\ rx_in \in Slots /\ rx_out \in Slots
  BY Parts DEF IInv, RxOK
<1>1. CASE Interrupt
  <2>1. CASE ReceivePending
    <3> SUFFICES ASSUME ~re' PROVE Ahead(rx_in', 1) = rx_out'
      BY DEF ReceiveEnabled
    <3>1. Receive  BY <1>1, <2>1 DEF Interrupt
    <3>2. Received # Len(rxFifo)
      BY <1>0, <3>1, ReceiveIs
    <3>3. Received = Free(rx_in, rx_out)
      BY <3>2 DEF Received, Least
    <3> QED  BY <1>0, <3>1, <3>3, ReceiveIs, RingMoves
  <2>2. CASE ~ReceivePending
    BY <1>0, <1>1, <2>2 DEF Interrupt, rx, ReceiveEnabled
  <2> QED  BY <2>1, <2>2
<1>2. CASE ReadCopy
  <2>1. CASE Taken > 0
    <3>1. call'.at = "readFree" /\ call'.moved
      BY <1>0, <1>2, <2>1, ReadCopyIs DEF Calls
    <3> QED  BY <3>1 DEF ReceiveEnabled
  <2>2. CASE Taken = 0 /\ (call.left = 0 \/ call.moved \/ call.nonblock)
    <3>1. call'.at = "readEnd" /\ call'.moved = call.moved
      BY <1>0, <1>2, <2>2, ReadCopyIs DEF GoTo, Calls
    <3> QED  BY <1>0, <1>2, <3>1 DEF ReceiveEnabled, ReadCopy
  <2>3. CASE Taken = 0 /\ call.left # 0 /\ ~call.moved
    <3>1. call.left > 0  BY <1>0, <2>3 DEF Calls
    <3>2. rx_in = rx_out
      BY <1>0, <1>2, <2>3, <3>1, ReadCopyIs
    <3>3. Ahead(rx_in, 1) # rx_out
      BY <1>0, <3>2, RingMoves
    <3> QED  BY <1>0, <1>2, <2>3, <3>3 DEF ReceiveEnabled, ReadCopy
  <2>4. Taken \in Nat
    BY <1>0, <1>2, ReadCopyIs DEF Slots
  <2> QED  BY <2>1, <2>2, <2>3, <2>4
<1>3. CASE ReadFree
  <2>1. call'.at \in {"readCopy", "readEnd"} /\ call'.moved
    BY <1>0, <1>3 DEF ReadFree, Reading, At, Calls
  <2> QED  BY <2>1 DEF ReceiveEnabled
<1>4. CASE ReadEnd
  BY <1>0, <1>4 DEF ReadEnd, ReceiveEnabled, rx, At
<1>5. CASE ReadWait \/ CloseWait \/ Close \/ (\E length \in Lengths, nonblock \in BOOLEAN :
               Read(length, nonblock) \/ Write(length, nonblock))
  BY <1>0, <1>5 DEF ReadWait, CloseWait, Close, Read, Write, At, ReceiveEnabled, rx
<1>6. CASE WriteCopy \/ WritePublish \/ WriteKick \/ WriteWait \/ WriteCheck
  BY <1>0, <1>6 DEF WriteCopy, WritePublish, WriteKick, WriteWait, WriteCheck, At,
                    ReceiveEnabled, rx
<1>7. CASE Timeout \/ UNCHANGED vars \/ (\E arg \in TimeoutArgs : SetTimeout(arg))
  BY <1>0, <1>7 DEF Timeout, SetTimeout, vars, ReceiveEnabled, rx
<1>8. CASE Contact
  BY <1>0, <1>8 DEF Contact, Take, Send, Pause, ReceiveEnabled, rx
<1> QED
  BY <1>1, <1>2, <1>3, <1>4, <1>5, <1>6, <1>7, <1>8 DEF Next, Proceed, NewCall

(* Nor the transmit interrupt when there are bytes to send.                *)
LEMMA TransmitStaysEnabled ==
    ASSUME IInv, [Next]_vars
    PROVE  TransmitEnabled'
<1>0. /\ TypeOK /\ TxOK /\ call \in Calls /\ TransmitEnabled
      /\ tx_in \in Slots /\ tx_out \in Slots
  BY Parts DEF IInv, TxOK
<1>1. CASE Interrupt
  <2>1. CASE TransmitPending
    <3> SUFFICES ASSUME ~we' PROVE tx_in' = tx_out'
      BY DEF TransmitEnabled
    <3>1. Transmit  BY <1>1, <2>1 DEF Interrupt
    <3>2. Sent # FIFO_LEN - Len(txFifo)
      BY <1>0, <3>1, TransmitIs
    <3>3. Sent = Used(tx_in, tx_out)
      BY <3>2 DEF Sent, Least
    <3> QED  BY <1>0, <3>1, <3>3, TransmitIs, RingMoves
  <2>2. CASE ~TransmitPending
    BY <1>0, <1>1, <2>2 DEF Interrupt, tx, TransmitEnabled
  <2> QED  BY <2>1, <2>2
<1>2. CASE WriteCopy
  <2>1. call'.at \in {"writePublish", "writeKick"}
    BY <1>0, <1>2, NextPlace
  <2> QED  BY <2>1 DEF TransmitEnabled
<1>3. CASE WritePublish
  <2>1. call'.at \in {"writeCopy", "writeKick"}
    BY <1>0, <1>3, NextPlace
  <2> QED  BY <2>1 DEF TransmitEnabled
<1>4. CASE WriteKick
  BY <1>4 DEF WriteKick, TransmitEnabled
<1>5. CASE WriteWait \/ WriteCheck
  BY <1>0, <1>5 DEF WriteWait, WriteCheck, At, TransmitEnabled, tx
<1>6. CASE ReadCopy \/ ReadFree \/ ReadWait \/ ReadEnd \/ CloseWait \/ Close
           \/ (\E length \in Lengths, nonblock \in BOOLEAN :
                  Read(length, nonblock) \/ Write(length, nonblock))
  BY <1>0, <1>6 DEF ReadCopy, ReadFree, ReadWait, ReadEnd, CloseWait, Close, Read, Write,
                    At, TransmitEnabled, tx
<1>7. CASE Timeout \/ UNCHANGED vars \/ (\E arg \in TimeoutArgs : SetTimeout(arg))
  BY <1>0, <1>7 DEF Timeout, SetTimeout, vars, TransmitEnabled, tx
<1>8. CASE Contact
  BY <1>0, <1>8 DEF Contact, Take, Send, Pause, TransmitEnabled, tx
<1> QED
  BY <1>1, <1>2, <1>3, <1>4, <1>5, <1>6, <1>7, <1>8 DEF Next, Proceed, NewCall

(* What a read has copied stays in the ring until it is freed.             *)
LEMMA ReadingStays ==
    ASSUME IInv, [Next]_vars
    PROVE  Reading'
<1>0. /\ TypeOK /\ RxOK /\ call \in Calls /\ Reading
      /\ rx_in \in Slots /\ rx_out \in Slots
  BY Parts DEF IInv, RxOK
<1>1. CASE Interrupt
  <2>1. call' = call /\ rx_out' = rx_out
    <3>1. CASE ReceivePending
      BY <1>0, <1>1, <3>1, ReceiveIs DEF Interrupt
    <3>2. CASE ~ReceivePending
      BY <1>1, <3>2 DEF Interrupt, rx
    <3> QED  BY <1>1, <3>1, <3>2 DEF Interrupt
  <2>2. Used(rx_in', rx_out) >= Used(rx_in, rx_out) /\ Used(rx_in', rx_out) \in Int
    <3>1. CASE ReceivePending
      <4>1. Receive  BY <1>1, <3>1 DEF Interrupt
      <4>2. Received \in Slots /\ Received <= Free(rx_in, rx_out) /\ Received >= 0
        BY <1>0, <4>1, ReceiveIs, Sizes DEF Slots
      <4>3. Used(rx_in', rx_out) = Used(rx_in, rx_out) + Received
        BY <1>0, <4>1, <4>2, ReceiveIs, RingMoves
      <4>4. Used(rx_in, rx_out) \in Slots  BY <1>0, RoomSeen
      <4> QED  BY <4>2, <4>3, <4>4, Sizes DEF Slots
    <3>2. CASE ~ReceivePending
      <4>1. rx_in' = rx_in  BY <1>1, <3>2 DEF Interrupt, rx
      <4>2. Used(rx_in, rx_out) \in Slots  BY <1>0, RoomSeen
      <4> QED  BY <4>1, <4>2, Sizes DEF Slots
    <3> QED  BY <3>1, <3>2
  <2>3. call.n \in Int /\ Used(rx_in, rx_out) \in Int
    BY <1>0, RoomSeen, Sizes DEF Calls, Slots
  <2> QED  BY <1>0, <2>1, <2>2, <2>3 DEF Reading, At
<1>2. CASE ReadCopy
  <2>1. CASE Taken > 0
    <3>1. call' = [call EXCEPT !.at = "readFree", !.n = Taken,
                               !.left = call.left - Taken, !.moved = TRUE]
      BY <1>0, <1>2, <2>1, ReadCopyIs
    <3>2. call'.n = Taken /\ call'.moved
      BY <1>0, <3>1 DEF Calls
    <3>3. Taken \in 1..Used(rx_in, rx_out)
      BY <1>0, <1>2, <2>1, ReadCopyIs
    <3> QED  BY <1>2, <3>2, <3>3 DEF Reading, ReadCopy
  <2>2. CASE Taken = 0
    <3>1. GoTo("readEnd") \/ call' = [call EXCEPT !.at = "readWait", !.seen = rx_in]
      BY <1>0, <1>2, <2>2, ReadCopyIs
    <3>2. call'.at # "readFree"
      BY <1>0, <3>1 DEF GoTo, Calls
    <3> QED  BY <3>2 DEF Reading, At
  <2>3. Taken \in Nat
    BY <1>0, <1>2, ReadCopyIs DEF Slots
  <2> QED  BY <2>1, <2>2, <2>3
<1>3. CASE \/ ReadFree \/ ReadWait \/ ReadEnd
           \/ WriteCopy \/ WritePublish \/ WriteKick \/ WriteWait \/ WriteCheck
           \/ Close \/ CloseWait
           \/ \E length \in Lengths, nonblock \in BOOLEAN :
                 Read(length, nonblock) \/ Write(length, nonblock)
  <2>1. call'.at # "readFree"
    BY <1>0, <1>3, NextPlace
  <2> QED  BY <2>1 DEF Reading, At
<1>4. CASE Timeout \/ Contact \/ UNCHANGED vars \/ (\E arg \in TimeoutArgs : SetTimeout(arg))
  BY <1>0, <1>4 DEF Timeout, SetTimeout, Contact, Take, Send, Pause, vars, Reading, At, rx
<1> QED
  BY <1>1, <1>2, <1>3, <1>4 DEF Next, Proceed, NewCall

(* What a write has filled stays filled and free until it is published.    *)
LEMMA WritingStays ==
    ASSUME IInv, [Next]_vars
    PROVE  Writing'
<1>0. /\ TypeOK /\ TxOK /\ call \in Calls /\ Writing
      /\ tx_in \in Slots /\ tx_out \in Slots
  BY Parts DEF IInv, TxOK
<1>1. CASE Interrupt
  <2>1. call' = call /\ tx_in' = tx_in /\ tx_buf' = tx_buf /\ written' = written
    <3>1. CASE TransmitPending
      BY <1>0, <1>1, <3>1, TransmitIs DEF Interrupt
    <3>2. CASE ~TransmitPending
      BY <1>1, <3>2 DEF Interrupt, tx
    <3> QED  BY <1>1, <3>1, <3>2 DEF Interrupt
  <2>2. Free(tx_in, tx_out') >= Free(tx_in, tx_out) /\ Free(tx_in, tx_out') \in Int
    <3>0. Used(tx_in, tx_out) \in Slots  BY <1>0, RoomSeen
    <3>1. CASE TransmitPending
      <4>1. Transmit  BY <1>1, <3>1 DEF Interrupt
      <4>2. Sent \in Slots /\ Sent <= Used(tx_in, tx_out) /\ Sent >= 0
        BY <1>0, <4>1, TransmitIs, Sizes DEF Slots
      <4>3. Used(tx_in, tx_out') = Used(tx_in, tx_out) - Sent
        BY <1>0, <4>1, <4>2, TransmitIs, RingMoves
      <4> QED  BY <3>0, <4>2, <4>3, Sizes DEF Slots, Free
    <3>2. CASE ~TransmitPending
      <4>1. tx_out' = tx_out  BY <1>1, <3>2 DEF Interrupt, tx
      <4> QED  BY <3>0, <4>1, Sizes DEF Slots, Free
    <3> QED  BY <3>1, <3>2
  <2>3. call.n \in Int /\ Free(tx_in, tx_out) \in Int
    BY <1>0, RoomSeen, Sizes DEF Calls, Slots
  <2> QED  BY <1>0, <2>1, <2>2, <2>3 DEF Writing, At
<1>2. CASE WriteCopy
  <2>1. CASE Given > 0
    <3>1. call' = [call EXCEPT !.at = "writePublish", !.n = Given, !.left = call.left - Given]
      BY <1>0, <1>2, <2>1, WriteCopyIs
    <3>2. call'.n = Given
      BY <1>0, <3>1 DEF Calls
    <3>3. /\ Given \in 1..Free(tx_in, tx_out) /\ Given \in Slots /\ Given \in Nat
          /\ tx_buf' = Stored(tx_buf, tx_in, Numbered(written, Given))
      BY <1>0, <1>2, <2>1, WriteCopyIs DEF Slots
    <3>4. \A k \in 1..Given : tx_buf'[Ahead(tx_in, k - 1)] = (written + k) % Numbers
      <4> TAKE k \in 1..Given
      <4>1. k - 1 \in Slots /\ k \in Nat /\ k - 1 < Given /\ k >= 1
        BY <3>3, Sizes DEF Slots
      <4>2. Ahead(tx_in, k - 1) \in Slots /\ Used(Ahead(tx_in, k - 1), tx_in) = k - 1
        BY <1>0, <4>1, RingMoves
      <4>3. /\ Numbered(written, Given) \in Seq(Byte) /\ Len(Numbered(written, Given)) = Given
            /\ Numbered(written, Given)[k] = (written + k) % Numbers
        BY <1>0, <3>3, NumberedIs DEF TxOK
      <4> DEFINE bytes == Numbered(written, Given)
                 i == Ahead(tx_in, k - 1)
      <4>4. Stored(tx_buf, tx_in, bytes)[i] = bytes[Used(i, tx_in) + 1]
        <5> HIDE DEF bytes, i
        <5>1. bytes \in Seq(Byte) /\ Len(bytes) = Given /\ i \in Slots /\ Used(i, tx_in) < Given
          BY <4>1, <4>2, <4>3 DEF bytes, i
        <5> QED  BY <1>0, <5>1, StoredIs DEF TxOK
      <4>5. (k - 1) + 1 = k  BY <4>1
      <4> QED  BY <3>3, <4>2, <4>3, <4>4, <4>5
    <3> QED  BY <1>2, <3>2, <3>3, <3>4 DEF Writing, WriteCopy
  <2>2. CASE Given = 0
    <3>1. call'.at = "writeKick"
      BY <1>0, <1>2, <2>2, WriteCopyIs DEF Calls
    <3> QED  BY <3>1 DEF Writing, At
  <2>3. Given \in Nat
    BY <1>0, <1>2, WriteCopyIs DEF Slots
  <2> QED  BY <2>1, <2>2, <2>3
<1>3. CASE \/ WritePublish \/ WriteKick \/ WriteWait \/ WriteCheck
           \/ ReadCopy \/ ReadFree \/ ReadWait \/ ReadEnd
           \/ Close \/ CloseWait
           \/ \E length \in Lengths, nonblock \in BOOLEAN :
                 Read(length, nonblock) \/ Write(length, nonblock)
  <2>1. call'.at # "writePublish"
    BY <1>0, <1>3, NextPlace
  <2> QED  BY <2>1 DEF Writing, At
<1>4. CASE Timeout \/ Contact \/ UNCHANGED vars \/ (\E arg \in TimeoutArgs : SetTimeout(arg))
  BY <1>0, <1>4 DEF Timeout, SetTimeout, Contact, Take, Send, Pause, vars, Writing, At, tx
<1> QED
  BY <1>1, <1>2, <1>3, <1>4 DEF Next, Proceed, NewCall

(* A call waits on the ring it has seen: the thread's own pointer is where *)
(* it was.                                                                 *)
LEMMA WaitingStays ==
    ASSUME IInv, [Next]_vars
    PROVE  Waiting'
<1>0. /\ TypeOK /\ RxOK /\ TxOK /\ call \in Calls /\ Waiting
      /\ tx_in \in Slots /\ tx_out \in Slots
  BY Parts DEF IInv, TxOK
<1>1. CASE Interrupt \/ Timeout \/ Contact \/ UNCHANGED vars
           \/ (\E arg \in TimeoutArgs : SetTimeout(arg))
  <2>1. call' = call /\ rx_out' = rx_out /\ tx_in' = tx_in
    <3>1. CASE Interrupt
      BY <1>0, <3>1, ReceiveIs, TransmitIs DEF Interrupt, rx, tx
    <3>2. CASE Timeout \/ Contact \/ UNCHANGED vars \/ (\E arg \in TimeoutArgs : SetTimeout(arg))
      BY <3>2 DEF Timeout, Contact, Take, Send, Pause, SetTimeout, vars, rx, tx
    <3> QED  BY <1>1, <3>1, <3>2
  <2> QED  BY <1>0, <2>1 DEF Waiting, At
<1>2. CASE ReadCopy
  <2>1. call'.at = "readWait" => call'.seen = rx_in /\ rx_in = rx_out
    <3> SUFFICES ASSUME call'.at = "readWait" PROVE call'.seen = rx_in /\ rx_in = rx_out
      OBVIOUS
    <3>1. Taken = 0
      <4>1. CASE Taken > 0
        <5>1. call'.at = "readFree"
          BY <1>0, <1>2, <4>1, ReadCopyIs DEF Calls
        <5> QED  BY <5>1
      <4>2. Taken \in Nat
        BY <1>0, <1>2, ReadCopyIs DEF Slots
      <4> QED  BY <4>1, <4>2
    <3>2. call.left # 0 /\ call' = [call EXCEPT !.at = "readWait", !.seen = rx_in]
      <4>1. GoTo("readEnd") => call'.at = "readEnd"
        BY <1>0 DEF GoTo, Calls
      <4> QED  BY <1>0, <1>2, <3>1, <4>1, ReadCopyIs
    <3>3. call.left > 0
      BY <1>0, <3>2 DEF Calls
    <3> QED  BY <1>0, <1>2, <3>1, <3>2, <3>3, ReadCopyIs DEF Calls
  <2>2. rx_out' = rx_out /\ call'.at \in {"readFree", "readWait", "readEnd"}
    BY <1>0, <1>2, NextPlace DEF ReadCopy
  <2> QED  BY <2>1, <2>2 DEF Waiting, At
<1>3. CASE WriteCopy
  <2>1. call'.at = "writeKick" /\ call'.left > 0 => /\ Ahead(tx_in, 1) = tx_out
                                                    /\ call'.seen = tx_out
    <3> SUFFICES ASSUME call'.at = "writeKick", call'.left > 0
                 PROVE  Ahead(tx_in, 1) = tx_out /\ call'.seen = tx_out
      OBVIOUS
    <3>1. Given = 0
      <4>1. CASE Given > 0
        <5>1. call'.at = "writePublish"
          BY <1>0, <1>3, <4>1, WriteCopyIs DEF Calls
        <5> QED  BY <5>1
      <4>2. Given \in Nat
        BY <1>0, <1>3, WriteCopyIs DEF Slots
      <4> QED  BY <4>1, <4>2
    <3>2. call' = [call EXCEPT !.at = "writeKick", !.seen = tx_out]
      BY <1>0, <1>3, <3>1, WriteCopyIs
    <3>3. call.left > 0 /\ call'.seen = tx_out
      BY <1>0, <3>2 DEF Calls
    <3> QED  BY <1>0, <1>3, <3>1, <3>3, WriteCopyIs
  <2>2. tx_in' = tx_in /\ call'.at \in {"writePublish", "writeKick"}
    BY <1>0, <1>3, NextPlace DEF WriteCopy
  <2> QED  BY <2>1, <2>2 DEF Waiting, At
<1>4. CASE WritePublish
  <2>1. call'.at = "writeKick" => ~(call'.left > 0)
    BY <1>0, <1>4 DEF WritePublish, Calls
  <2>2. call'.at \in {"writeCopy", "writeKick"}
    BY <1>0, <1>4, NextPlace
  <2> QED  BY <2>1, <2>2 DEF Waiting, At
<1>5. CASE WriteKick
  <2>1. call'.at = "writeWait" => call.at = "writeKick" /\ call.left > 0 /\ call'.seen = call.seen
    BY <1>0, <1>5 DEF WriteKick, GoTo, Return, Idle, At, Calls
  <2>2. call'.at \in {"writeWait", "idle"} /\ tx_in' = tx_in
    BY <1>0, <1>5, NextPlace DEF WriteKick, tx
  <2> QED  BY <1>0, <2>1, <2>2 DEF Waiting, At
<1>6. CASE \/ ReadFree \/ ReadWait \/ ReadEnd \/ WriteWait \/ WriteCheck
           \/ Close \/ CloseWait
           \/ \E length \in Lengths, nonblock \in BOOLEAN :
                 Read(length, nonblock) \/ Write(length, nonblock)
  <2>1. call'.at \notin {"readWait", "writeKick", "writeWait"}
    BY <1>0, <1>6, NextPlace
  <2> QED  BY <2>1 DEF Waiting, At
<1> QED
  BY <1>1, <1>2, <1>3, <1>4, <1>5, <1>6 DEF Next, Proceed, NewCall

LEMMA IInvHolds == Spec => []IInv
<1>1. Init => ReceiveEnabled /\ TransmitEnabled /\ Reading /\ Writing /\ Waiting
  BY DEF Init, Idle, At, ReceiveEnabled, TransmitEnabled, Reading, Writing, Waiting
<1>2. TypeOK /\ TypeOK' /\ IInv /\ [Next]_vars => IInv'
  BY ReceiveStaysEnabled, TransmitStaysEnabled, ReadingStays, WritingStays, WaitingStays
     DEF IInv
<1>3. TypeOK /\ ReceiveEnabled /\ TransmitEnabled /\ Reading /\ Writing /\ Waiting <=> IInv
  BY DEF IInv
<1> QED  BY <1>1, <1>2, <1>3, UartTypeCorrect, PTL DEF Spec

(* However the interrupt routine, the timeout and the host come between    *)
(* the steps of a call, no interrupt stays off while it is needed.         *)
LEMMA EnabledIs == IInv => NoInterruptLost
<1> SUFFICES ASSUME IInv PROVE NoInterruptLost
  OBVIOUS
<1>1. rx_in \in Slots /\ 1 \in 0..BUF_LEN
  BY Parts, Sizes DEF IInv, RxOK
<1>2. (rx_in + 1) % BUF_LEN = Ahead(rx_in, 1)
  BY <1>1, Pointers
<1> QED  BY <1>2 DEF IInv, ReceiveEnabled, TransmitEnabled, NoInterruptLost

THEOREM NoInterruptEverLost == Spec => []NoInterruptLost
BY IInvHolds, EnabledIs, PTL

(* A call that spins waits for the host alone, or for the timeout: the     *)
(* interrupt that would serve it is enabled.                               *)
THEOREM AlwaysBlockedOnHostOnly == Spec => []BlockedOnHostOnly
<1>1. IInv => BlockedOnHostOnly
  <2> SUFFICES ASSUME IInv PROVE BlockedOnHostOnly
    OBVIOUS
  <2>0. /\ rx_in \in Slots /\ rx_out \in Slots /\ tx_in \in Slots /\ tx_out \in Slots
        /\ 1 \in Slots
    BY Parts, Sizes DEF IInv, RxOK, TxOK, Slots
  <2>1. ASSUME At("readWait"), rx_in = call.seen PROVE rx_in = rx_out /\ re
    <3>1. rx_in = rx_out
      BY <2>1 DEF IInv, Waiting
    <3>2. Ahead(rx_in, 1) # rx_out
      BY <2>0, <3>1, RingMoves
    <3> QED  BY <2>1, <3>1, <3>2 DEF IInv, ReceiveEnabled, At
  <2>2. tx_in # tx_out /\ (At("writeWait") \/ At("closeWait")) => we
    BY DEF IInv, TransmitEnabled, At
  <2>3. At("writeWait") /\ tx_out = call.seen => tx_in # tx_out
    <3>1. Ahead(tx_in, 1) # tx_in
      BY <2>0, RingMoves
    <3> QED  BY <3>1 DEF IInv, Waiting
  <2> QED  BY <2>1, <2>2, <2>3 DEF BlockedOnHostOnly
<1> QED  BY <1>1, IInvHolds, PTL

-----------------------------------------------------------------------------
(* The two directions as streams of bytes: what the ring holds is moved     *)
(* along whole, whatever the wrap-around of its pointers.                  *)

(* A ring without its first bytes.                                         *)
LEMMA LiveTail ==
    ASSUME NEW buf \in Ring, NEW in \in Slots, NEW out \in Slots, NEW m \in 0..Used(in, out)
    PROVE  /\ m \in Slots /\ Ahead(out, m) \in Slots
           /\ Used(in, Ahead(out, m)) = Used(in, out) - m
           /\ SubSeq(Live(buf, in, out), m + 1, Used(in, out)) = Live(buf, in, Ahead(out, m))
<1>1. Used(in, out) \in Slots /\ Used(in, out) \in Nat
  BY RoomSeen DEF Slots
<1>2. m \in Slots /\ m \in Nat /\ m <= Used(in, out)
  BY <1>1, Sizes DEF Slots
<1>3. Ahead(out, m) \in Slots /\ Used(in, Ahead(out, m)) = Used(in, out) - m
  BY <1>2, RingMoves
<1> DEFINE whole == Live(buf, in, out)
           rest == Live(buf, in, Ahead(out, m))
<1>4. /\ whole \in Seq(Byte) /\ Len(whole) = Used(in, out)
      /\ \A i \in 1..Used(in, out) : whole[i] = buf[Ahead(out, i - 1)]
  BY LiveIs
<1>5. /\ rest \in Seq(Byte) /\ Len(rest) = Used(in, out) - m
      /\ \A i \in 1..Used(in, out) - m : rest[i] = buf[Ahead(Ahead(out, m), i - 1)]
  BY <1>3, LiveIs
<1>6. \A i \in 1..Used(in, out) - m :
         /\ i + m \in 1..Used(in, out)
         /\ Ahead(Ahead(out, m), i - 1) = Ahead(out, i + m - 1)
  BY <1>1, <1>2, Sizes DEF Slots, Ahead
<1> HIDE DEF whole, rest
<1>7. \A i \in m + 1..Used(in, out) : whole[i] \in Byte
  BY <1>1, <1>2, <1>4
<1>8. /\ SubSeq(whole, m + 1, Used(in, out)) \in Seq(Byte)
      /\ Len(SubSeq(whole, m + 1, Used(in, out))) = Used(in, out) - m
      /\ \A i \in 1..Used(in, out) - m : SubSeq(whole, m + 1, Used(in, out))[i] = whole[i + m]
  BY <1>1, <1>2, <1>4
<1>9. SubSeq(whole, m + 1, Used(in, out)) = rest
  <2>1. \A i \in 1..Used(in, out) - m : SubSeq(whole, m + 1, Used(in, out))[i] = rest[i]
    BY <1>4, <1>5, <1>6, <1>8
  <2> QED  BY <1>5, <1>8, <2>1, SeqEqual
<1> QED  BY <1>2, <1>3, <1>9 DEF whole, rest

(* A ring whose in pointer moves over bytes that are already there.        *)
LEMMA LiveGrows ==
    ASSUME NEW buf \in Ring, NEW in \in Slots, NEW out \in Slots, NEW bytes \in Seq(Byte),
           Len(bytes) <= Free(in, out),
           \A k \in 1..Len(bytes) : buf[Ahead(in, k - 1)] = bytes[k]
    PROVE  Live(buf, Ahead(in, Len(bytes)), out) = Live(buf, in, out) \o bytes
<1> DEFINE n == Len(bytes)
           u == Used(in, out)
           before == Live(buf, in, out)
           after == Live(buf, Ahead(in, n), out)
<1>1. u \in Slots /\ u \in Nat /\ Free(in, out) \in Slots /\ n \in Nat /\ n \in Slots
  <2>1. u \in Slots /\ Free(in, out) \in Slots  BY RoomSeen
  <2>2. n \in Nat  OBVIOUS
  <2> QED  BY <2>1, <2>2, Sizes DEF Slots
<1>2. Ahead(in, n) \in Slots /\ Used(Ahead(in, n), out) = u + n
  BY <1>1, RingMoves
<1>3. /\ before \in Seq(Byte) /\ Len(before) = u
      /\ \A i \in 1..u : before[i] = buf[Ahead(out, i - 1)]
  BY LiveIs
<1>4. /\ after \in Seq(Byte) /\ Len(after) = u + n
      /\ \A i \in 1..u + n : after[i] = buf[Ahead(out, i - 1)]
  BY <1>2, LiveIs
<1>5. \A i \in u + 1..u + n : i - u \in 1..n /\ Ahead(out, i - 1) = Ahead(in, (i - u) - 1)
  BY <1>1, Sizes DEF Slots, Ahead, Used, Free
<1> HIDE DEF n, u, before, after
<1>6. /\ before \o bytes \in Seq(Byte) /\ Len(before \o bytes) = u + n
      /\ \A i \in 1..u + n :
            (before \o bytes)[i] = IF i <= u THEN before[i] ELSE bytes[i - u]
  BY <1>1, <1>3, ConcatProperties DEF n
<1>7. \A i \in 1..u + n : after[i] = (before \o bytes)[i]
  <2> TAKE i \in 1..u + n
  <2>1. CASE i <= u
    <3>1. i \in 1..u
      BY <1>1, <2>1
    <3> QED  BY <1>3, <1>4, <1>6, <2>1, <3>1
  <2>2. CASE ~(i <= u)
    <3>1. i \in u + 1..u + n
      BY <1>1, <2>2
    <3>2. buf[Ahead(in, (i - u) - 1)] = bytes[i - u]
      BY <1>5, <3>1 DEF n
    <3> QED  BY <1>4, <1>5, <1>6, <2>2, <3>1, <3>2
  <2> QED  BY <2>1, <2>2
<1> QED  BY <1>4, <1>6, <1>7, SeqEqual DEF n, before, after

(* Storing bytes in the room of a ring.                                    *)
LEMMA LiveStored ==
    ASSUME NEW buf \in Ring, NEW in \in Slots, NEW out \in Slots, NEW bytes \in Seq(Byte),
           Len(bytes) <= Free(in, out)
    PROVE  /\ Live(Stored(buf, in, bytes), in, out) = Live(buf, in, out)
           /\ Live(Stored(buf, in, bytes), Ahead(in, Len(bytes)), out)
                = Live(buf, in, out) \o bytes
<1> DEFINE u == Used(in, out)
           new == Stored(buf, in, bytes)
<1>0. /\ u \in Slots /\ u \in Nat /\ Free(in, out) = BUF_LEN - 1 - u
      /\ Len(bytes) \in Nat /\ Free(in, out) \in Slots
  BY RoomSeen DEF Slots, Free
<1>1. /\ new \in Ring
      /\ \A i \in Slots : /\ Used(i, in) < Len(bytes) => new[i] = bytes[Used(i, in) + 1]
                          /\ Used(i, in) >= Len(bytes) => new[i] = buf[i]
  BY StoredIs
<1>2. \A i \in 1..u : Ahead(out, i - 1) \in Slots /\ Used(Ahead(out, i - 1), in) >= Free(in, out)
  BY Sizes DEF Slots, Ahead, Used, Free
<1>3. \A k \in 1..Len(bytes) : Ahead(in, k - 1) \in Slots /\ Used(Ahead(in, k - 1), in) = k - 1
  BY <1>0, Sizes DEF Slots, Ahead, Used
<1> HIDE DEF u, new
<1>4. \A i \in 1..u : new[Ahead(out, i - 1)] = buf[Ahead(out, i - 1)]
  <2> TAKE i \in 1..u
  <2>1. Used(Ahead(out, i - 1), in) \in Slots
    BY <1>2, RoomSeen
  <2>2. Used(Ahead(out, i - 1), in) >= Len(bytes)
    BY <1>0, <1>2, <2>1 DEF Slots
  <2> QED  BY <1>1, <1>2, <2>2
<1>5. \A k \in 1..Len(bytes) : new[Ahead(in, k - 1)] = bytes[k]
  <2> TAKE k \in 1..Len(bytes)
  <2>1. Used(Ahead(in, k - 1), in) < Len(bytes) /\ Used(Ahead(in, k - 1), in) + 1 = k
    BY <1>0, <1>3
  <2> QED  BY <1>1, <1>3, <2>1
<1>6. Live(new, in, out) = Live(buf, in, out)
  <2>1. /\ Live(new, in, out) \in Seq(Byte) /\ Len(Live(new, in, out)) = u
        /\ \A i \in 1..u : Live(new, in, out)[i] = new[Ahead(out, i - 1)]
    BY <1>1, LiveIs DEF u
  <2>2. /\ Live(buf, in, out) \in Seq(Byte) /\ Len(Live(buf, in, out)) = u
        /\ \A i \in 1..u : Live(buf, in, out)[i] = buf[Ahead(out, i - 1)]
    BY LiveIs DEF u
  <2>3. \A i \in 1..u : Live(new, in, out)[i] = Live(buf, in, out)[i]
    BY <1>4, <2>1, <2>2
  <2> QED  BY <2>1, <2>2, <2>3, SeqEqual
<1>7. Live(new, Ahead(in, Len(bytes)), out) = Live(new, in, out) \o bytes
  BY <1>1, <1>5, LiveGrows
<1> QED  BY <1>6, <1>7 DEF new

(* The first bytes of two stretches taken together, and the rest.          *)
LEMMA FirstOff ==
    ASSUME NEW S, NEW s \in Seq(S), NEW t \in Seq(S), NEW n \in 1..Len(s)
    PROVE  /\ n <= Len(s \o t) /\ (s \o t)[n] = s[n]
           /\ SubSeq(s \o t, n + 1, Len(s \o t)) = SubSeq(s, n + 1, Len(s)) \o t
<1> DEFINE both == s \o t
           later == SubSeq(s, n + 1, Len(s))
<1>1. /\ both \in Seq(S) /\ Len(both) = Len(s) + Len(t)
      /\ \A i \in 1..Len(s) + Len(t) : both[i] = IF i <= Len(s) THEN s[i] ELSE t[i - Len(s)]
  BY ConcatProperties
<1>2. Len(s) \in Nat /\ Len(t) \in Nat /\ n \in Nat /\ n <= Len(s) /\ n >= 1
  OBVIOUS
<1>3. /\ later \in Seq(S) /\ Len(later) = Len(s) - n
      /\ \A i \in 1..Len(s) - n : later[i] = s[i + n]
  BY <1>2
<1> HIDE DEF both, later
<1>4. /\ SubSeq(both, n + 1, Len(both)) \in Seq(S)
      /\ Len(SubSeq(both, n + 1, Len(both))) = Len(both) - n
      /\ \A i \in 1..Len(both) - n : SubSeq(both, n + 1, Len(both))[i] = both[i + n]
  BY <1>1, <1>2
<1>5. /\ later \o t \in Seq(S) /\ Len(later \o t) = Len(both) - n
      /\ \A i \in 1..Len(both) - n :
            (later \o t)[i] = IF i <= Len(s) - n THEN later[i] ELSE t[i - (Len(s) - n)]
  <2>1. /\ later \o t \in Seq(S) /\ Len(later \o t) = Len(later) + Len(t)
        /\ \A i \in 1..Len(later) + Len(t) :
              (later \o t)[i] = IF i <= Len(later) THEN later[i] ELSE t[i - Len(later)]
    BY <1>3, ConcatProperties
  <2>2. Len(later) + Len(t) = Len(both) - n
    BY <1>1, <1>2, <1>3
  <2> QED  BY <1>3, <2>1, <2>2
<1>6. \A i \in 1..Len(both) - n : SubSeq(both, n + 1, Len(both))[i] = (later \o t)[i]
  <2> TAKE i \in 1..Len(both) - n
  <2>1. i + n \in 1..Len(s) + Len(t) /\ i - (Len(s) - n) = i + n - Len(s)
    BY <1>1, <1>2
  <2>2. CASE i <= Len(s) - n
    <3>1. i + n <= Len(s) /\ i \in 1..Len(s) - n
      BY <1>2, <2>2
    <3> QED  BY <1>1, <1>3, <1>4, <1>5, <2>1, <2>2, <3>1
  <2>3. CASE ~(i <= Len(s) - n)
    <3>1. ~(i + n <= Len(s))
      BY <1>2, <2>3
    <3>2. both[i + n] = t[i + n - Len(s)]
      BY <1>1, <2>1, <3>1
    <3>3. (later \o t)[i] = t[i - (Len(s) - n)]
      BY <1>5, <2>3
    <3> QED  BY <1>4, <2>1, <3>2, <3>3
  <2> QED  BY <2>2, <2>3
<1>7. SubSeq(both, n + 1, Len(both)) = later \o t
  BY <1>4, <1>5, <1>6, SeqEqual
<1>8. n <= Len(both) /\ both[n] = s[n]
  BY <1>1, <1>2
<1> QED  BY <1>7, <1>8 DEF both, later

-----------------------------------------------------------------------------
(* The bytes on their way to the host, and on their way to the reader.     *)
Outgoing == txFifo \o Live(tx_buf, tx_in, tx_out)
Incoming == Live(rx_buf, rx_in, Ahead(rx_out, Copied)) \o rxFifo

LEMMA OutgoingSteps ==
    ASSUME IInv, [Next]_vars
    PROVE  \/ UNCHANGED <<written, Outgoing, hostGot>>
           \/ \E n \in 1..BUF_LEN :
                 \/ /\ Outgoing' = Outgoing \o Numbered(written, n)
                    /\ written' = (written + n) % Numbers
                    /\ UNCHANGED hostGot
                 \/ /\ n <= Len(Outgoing)
                    /\ hostGot' = Outgoing[n]
                    /\ Outgoing' = SubSeq(Outgoing, n + 1, Len(Outgoing))
                    /\ UNCHANGED written
<1> DEFINE L == Live(tx_buf, tx_in, tx_out)
<1>0. /\ TypeOK /\ TxOK /\ call \in Calls /\ Writing
      /\ tx_in \in Slots /\ tx_out \in Slots /\ tx_buf \in Ring /\ written \in Byte
      /\ txFifo \in Seq(Byte) /\ Used(tx_in, tx_out) \in Slots
      /\ L \in Seq(Byte) /\ Len(L) = Used(tx_in, tx_out)
  BY Parts, LiveIs, RoomSeen DEF IInv, TxOK, Fifo
<1>1. CASE Interrupt /\ TransmitPending
  <2>1. Transmit  BY <1>1 DEF Interrupt
  <2>2. /\ Sent \in 0..Used(tx_in, tx_out)
        /\ txFifo' = txFifo \o SubSeq(L, 1, Sent)
        /\ tx_out' = Ahead(tx_out, Sent)
        /\ UNCHANGED <<tx_buf, tx_in, written, hostGot>>
    BY <1>0, <2>1, TransmitIs
  <2>3. Live(tx_buf', tx_in', tx_out') = SubSeq(L, Sent + 1, Len(L))
    BY <1>0, <2>2, LiveTail
  <2> HIDE DEF L
  <2>4. /\ SubSeq(L, 1, Sent) \in Seq(Byte) /\ SubSeq(L, Sent + 1, Len(L)) \in Seq(Byte)
        /\ SubSeq(L, 1, Sent) \o SubSeq(L, Sent + 1, Len(L)) = L
    <3>1. /\ Len(L) \in Nat /\ Sent \in 1 - 1..Len(L) /\ Sent \in Nat /\ Sent <= Len(L)
          /\ 1 \in 1..Len(L) + 1 /\ Len(L) \in Sent..Len(L)
      BY <1>0, <2>2
    <3>2. SubSeq(L, 1, Sent) \o SubSeq(L, Sent + 1, Len(L)) = SubSeq(L, 1, Len(L))
      BY <1>0, <3>1, ConcatAdjacentSubSeq
    <3>3. SubSeq(L, 1, Len(L)) = L
      BY <1>0, SubSeqFull
    <3>4. SubSeq(L, 1, Sent) \in Seq(Byte) /\ SubSeq(L, Sent + 1, Len(L)) \in Seq(Byte)
      BY <1>0, <3>1
    <3> QED  BY <3>2, <3>3, <3>4
  <2>5. (txFifo \o SubSeq(L, 1, Sent)) \o SubSeq(L, Sent + 1, Len(L)) = txFifo \o L
    <3> DEFINE a == SubSeq(L, 1, Sent)
               b == SubSeq(L, Sent + 1, Len(L))
    <3>1. txFifo \in Seq(Byte) /\ a \in Seq(Byte) /\ b \in Seq(Byte)
      BY <1>0, <2>4
    <3>2. (txFifo \o a) \o b = txFifo \o (a \o b)
      <4> HIDE DEF a, b
      <4> QED  BY <3>1, ConcatAssociative
    <3> QED  BY <2>4, <3>2
  <2> QED  BY <2>2, <2>3, <2>5 DEF Outgoing, L
<1>2. CASE WriteCopy
  <2>1. UNCHANGED <<tx_in, tx_out, txFifo, written, hostGot>>
    BY <1>2 DEF WriteCopy
  <2>2. Live(tx_buf', tx_in, tx_out) = L
    <3>1. CASE Given > 0
      <4>1. /\ Given \in Nat /\ Given <= Free(tx_in, tx_out)
            /\ tx_buf' = Stored(tx_buf, tx_in, Numbered(written, Given))
        BY <1>0, <1>2, <3>1, WriteCopyIs DEF Slots
      <4>2. Numbered(written, Given) \in Seq(Byte) /\ Len(Numbered(written, Given)) = Given
        BY <1>0, <4>1, NumberedIs
      <4> QED  BY <1>0, <4>1, <4>2, LiveStored
    <3>2. CASE Given = 0
      BY <1>0, <1>2, <3>2, WriteCopyIs
    <3>3. Given \in Nat
      BY <1>0, <1>2, WriteCopyIs DEF Slots
    <3> QED  BY <3>1, <3>2, <3>3
  <2> QED  BY <2>1, <2>2 DEF Outgoing
<1>3. CASE WritePublish
  <2>1. /\ call.n \in Slots /\ call.n \in Nat /\ call.n \in 1..BUF_LEN
        /\ call.n <= Free(tx_in, tx_out)
        /\ \A k \in 1..call.n : tx_buf[Ahead(tx_in, k - 1)] = (written + k) % Numbers
    <3>1. /\ call.n \in 1..Free(tx_in, tx_out) /\ Free(tx_in, tx_out) \in Slots
          /\ \A k \in 1..call.n : tx_buf[Ahead(tx_in, k - 1)] = (written + k) % Numbers
      BY <1>0, <1>3, RoomSeen DEF Writing, WritePublish
    <3> QED  BY <3>1, Sizes DEF Slots
  <2>2. /\ UNCHANGED <<tx_buf, tx_out, txFifo, hostGot>>
        /\ written' = (written + call.n) % Numbers
        /\ tx_in' = Ahead(tx_in, call.n)
    <3>1. (tx_in + call.n) % BUF_LEN = Ahead(tx_in, call.n)
      BY <1>0, <2>1, Pointers
    <3> QED  BY <1>3, <3>1 DEF WritePublish
  <2> DEFINE bytes == Numbered(written, call.n)
  <2>3. /\ bytes \in Seq(Byte) /\ Len(bytes) = call.n
        /\ \A k \in 1..call.n : bytes[k] = (written + k) % Numbers
    BY <1>0, <2>1, NumberedIs
  <2>4. Live(tx_buf, Ahead(tx_in, call.n), tx_out) = L \o bytes
    <3> HIDE DEF bytes
    <3>1. /\ Len(bytes) <= Free(tx_in, tx_out)
          /\ \A k \in 1..Len(bytes) : tx_buf[Ahead(tx_in, k - 1)] = bytes[k]
      BY <2>1, <2>3
    <3>2. Live(tx_buf, Ahead(tx_in, Len(bytes)), tx_out) = L \o bytes
      BY <1>0, <2>3, <3>1, LiveGrows
    <3> QED  BY <2>3, <3>2
  <2>5. txFifo \o (L \o bytes) = (txFifo \o L) \o bytes
    <3> HIDE DEF bytes, L
    <3> QED  BY <1>0, <2>3, ConcatAssociative
  <2> QED  BY <2>1, <2>2, <2>4, <2>5 DEF Outgoing
<1>4. CASE Take
  <2>1. /\ txFifo' = Tail(txFifo) /\ hostGot' = Head(txFifo)
        /\ UNCHANGED <<tx_buf, tx_in, tx_out, written>>
    BY <1>4 DEF Take
  <2>2. /\ Tail(txFifo) = SubSeq(txFifo, 1 + 1, Len(txFifo)) /\ Head(txFifo) = txFifo[1]
        /\ 1 \in 1..Len(txFifo)
    <3>1. txFifo # <<>>  BY <1>4 DEF Take
    <3> QED  BY <1>0, <3>1
  <2> HIDE DEF L
  <2>3. /\ 1 <= Len(txFifo \o L) /\ (txFifo \o L)[1] = txFifo[1]
        /\ SubSeq(txFifo \o L, 1 + 1, Len(txFifo \o L)) = SubSeq(txFifo, 1 + 1, Len(txFifo)) \o L
    BY <1>0, <2>2, FirstOff
  <2>4. 1 \in 1..BUF_LEN  BY Sizes
  <2> QED  BY <2>1, <2>2, <2>3, <2>4 DEF Outgoing, L
<1>5. CASE \/ Interrupt /\ ~TransmitPending
           \/ Send \/ Pause
  BY <1>5 DEF Interrupt, Send, Pause, Outgoing, tx
<1>6. CASE \/ ReadCopy \/ ReadFree \/ ReadWait \/ ReadEnd
           \/ WriteKick \/ WriteWait \/ WriteCheck \/ CloseWait
  BY <1>6 DEF ReadCopy, ReadFree, ReadWait, ReadEnd, WriteKick, WriteWait, WriteCheck,
              CloseWait, Outgoing, tx
<1>7. CASE Timeout \/ NewCall \/ UNCHANGED vars
  BY <1>7 DEF Timeout, NewCall, Read, Write, Close, SetTimeout, vars, Outgoing, tx
<1> QED
  BY <1>1, <1>2, <1>3, <1>4, <1>5, <1>6, <1>7 DEF Next, Proceed, Contact

(* Bytes written reach the host once and in order.                         *)
THEOREM ReachesHostInOrder == Spec => TransmitInOrder
<1>1. Init => Up!Init
  <2> SUFFICES ASSUME Init PROVE Up!Init
    OBVIOUS
  <2>1. Live(tx_buf, tx_in, tx_out) = <<>>
    <3>1. tx_in = 0 /\ tx_out = 0 /\ 0 \in Slots /\ Used(0, 0) = 0 /\ tx_buf \in Ring
      BY Sizes DEF Init, Slots, Used, Ring, Byte
    <3>2. Live(tx_buf, tx_in, tx_out) \in Seq(Byte) /\ Len(Live(tx_buf, tx_in, tx_out)) = 0
      BY <3>1, LiveIs
    <3> QED  BY <3>2
  <2> QED  BY <2>1 DEF Init, Up!Init
<1>2. IInv /\ [Next]_vars => [Up!Next]_(Up!vars)
  BY OutgoingSteps DEF Up!Next, Up!vars, Up!Send, Up!Deliver, Up!Numbered, Numbered, Outgoing
<1> QED  BY <1>1, <1>2, IInvHolds, PTL DEF Spec, TransmitInOrder, Up!Spec

LEMMA IncomingSteps ==
    ASSUME IInv, [Next]_vars
    PROVE  \/ UNCHANGED <<hostSent, Incoming, readByte>>
           \/ \E n \in 1..BUF_LEN :
                 \/ /\ Incoming' = Incoming \o Numbered(hostSent, n)
                    /\ hostSent' = (hostSent + n) % Numbers
                    /\ UNCHANGED readByte
                 \/ /\ n <= Len(Incoming)
                    /\ readByte' = Incoming[n]
                    /\ Incoming' = SubSeq(Incoming, n + 1, Len(Incoming))
                    /\ UNCHANGED hostSent
<1> DEFINE from == Ahead(rx_out, Copied)
           L == Live(rx_buf, rx_in, from)
<1>0. /\ TypeOK /\ RxOK /\ call \in Calls /\ Reading
      /\ rx_in \in Slots /\ rx_out \in Slots /\ rx_buf \in Ring /\ hostSent \in Byte
      /\ rxFifo \in Seq(Byte) /\ Len(rxFifo) \in Nat /\ Used(rx_in, rx_out) \in Slots
  BY Parts, RoomSeen DEF IInv, RxOK, Fifo
<1>1. /\ Copied \in 0..Used(rx_in, rx_out) /\ Copied \in Slots /\ Ahead(rx_out, 0) = rx_out
      /\ At("readFree") => Copied = call.n
      /\ ~At("readFree") => Copied = 0
  <2>1. Copied \in 0..Used(rx_in, rx_out)
    BY <1>0, Sizes DEF Reading, Copied, Slots
  <2>2. Ahead(rx_out, 0) = rx_out
    BY <1>0, Sizes DEF Ahead, Slots
  <2> QED  BY <1>0, <2>1, <2>2, Sizes DEF Copied, Slots
<1>2. /\ from \in Slots /\ Used(rx_in, from) = Used(rx_in, rx_out) - Copied
      /\ Used(rx_in, from) \in Slots
      /\ L \in Seq(Byte) /\ Len(L) = Used(rx_in, from)
  <2>1. from \in Slots /\ Used(rx_in, from) = Used(rx_in, rx_out) - Copied
    BY <1>0, <1>1, LiveTail
  <2> HIDE DEF from
  <2> QED  BY <1>0, <2>1, LiveIs, RoomSeen
<1>3. CASE Interrupt /\ ReceivePending
  <2>1. Receive /\ call' = call  BY <1>3 DEF Interrupt
  <2>2. /\ Received \in 0..Free(rx_in, rx_out) /\ Received \in 0..Len(rxFifo)
        /\ rx_buf' = Stored(rx_buf, rx_in, SubSeq(rxFifo, 1, Received))
        /\ rx_in' = Ahead(rx_in, Received)
        /\ rxFifo' = SubSeq(rxFifo, Received + 1, Len(rxFifo))
        /\ UNCHANGED <<rx_out, readByte, hostSent>>
    BY <1>0, <2>1, ReceiveIs
  <2>3. Received <= Free(rx_in, from) /\ Received \in Nat /\ Received <= Len(rxFifo)
    BY <1>0, <1>1, <1>2, <2>2, Sizes DEF Free, Slots
  <2> DEFINE a == SubSeq(rxFifo, 1, Received)
             b == SubSeq(rxFifo, Received + 1, Len(rxFifo))
  <2>4. a \in Seq(Byte) /\ Len(a) = Received /\ b \in Seq(Byte) /\ a \o b = rxFifo
    <3>1. /\ Received \in 1 - 1..Len(rxFifo) /\ 1 \in 1..Len(rxFifo) + 1
          /\ Len(rxFifo) \in Received..Len(rxFifo)
      BY <1>0, <2>3
    <3>2. a \o b = SubSeq(rxFifo, 1, Len(rxFifo))
      BY <1>0, <3>1, ConcatAdjacentSubSeq
    <3>3. SubSeq(rxFifo, 1, Len(rxFifo)) = rxFifo
      BY <1>0, SubSeqFull
    <3>4. a \in Seq(Byte) /\ Len(a) = Received /\ b \in Seq(Byte)
      BY <1>0, <2>3
    <3> QED  BY <3>2, <3>3, <3>4
  <2>5. Live(Stored(rx_buf, rx_in, a), Ahead(rx_in, Received), from) = L \o a
    <3> HIDE DEF a, b, from
    <3>1. Len(a) <= Free(rx_in, from)  BY <2>3, <2>4
    <3>2. Live(Stored(rx_buf, rx_in, a), Ahead(rx_in, Len(a)), from) = L \o a
      BY <1>0, <1>2, <2>4, <3>1, LiveStored
    <3> QED  BY <2>4, <3>2
  <2>6. (L \o a) \o b = L \o (a \o b)
    <3>1. L \in Seq(Byte) /\ a \in Seq(Byte) /\ b \in Seq(Byte)
      BY <1>2, <2>4
    <3> HIDE DEF a, b, L
    <3> QED  BY <3>1, ConcatAssociative
  <2>7. Copied' = Copied  BY <2>1 DEF Copied, At
  <2>8. Incoming' = Incoming
    BY <2>2, <2>4, <2>5, <2>6, <2>7 DEF Incoming
  <2> QED  BY <2>2, <2>8
<1>4. CASE ReadCopy
  <2>1. /\ UNCHANGED <<rx_buf, rx_in, rx_out, rxFifo, hostSent>> /\ At("readCopy")
        /\ Copied = 0 /\ from = rx_out
    BY <1>1, <1>4 DEF ReadCopy, At
  <2>2. CASE Taken > 0
    <3>1. /\ Taken \in 1..Used(rx_in, rx_out) /\ Taken \in Slots
          /\ readByte' = rx_buf[Ahead(rx_out, Taken - 1)]
          /\ call' = [call EXCEPT !.at = "readFree", !.n = Taken,
                                  !.left = call.left - Taken, !.moved = TRUE]
      BY <1>0, <1>4, <2>2, ReadCopyIs
    <3>2. Copied' = Taken
      BY <1>0, <3>1 DEF Copied, At, Calls
    <3>3. /\ Live(rx_buf, rx_in, Ahead(rx_out, Taken)) = SubSeq(L, Taken + 1, Len(L))
          /\ Taken \in 1..Len(L) /\ Taken \in 1..BUF_LEN
      <4>1. Len(L) = Used(rx_in, rx_out) /\ Taken \in 0..Used(rx_in, rx_out)
        BY <1>2, <2>1, <3>1
      <4>2. Taken \in 1..BUF_LEN  BY <3>1, Sizes DEF Slots
      <4> QED  BY <1>0, <2>1, <3>1, <4>1, <4>2, LiveTail
    <3>4. L[Taken] = rx_buf[Ahead(rx_out, Taken - 1)]
      <4>1. L = Live(rx_buf, rx_in, rx_out)  BY <2>1
      <4>2. \A i \in 1..Used(rx_in, rx_out) :
               Live(rx_buf, rx_in, rx_out)[i] = rx_buf[Ahead(rx_out, i - 1)]
        BY <1>0, LiveIs
      <4> QED  BY <3>1, <4>1, <4>2
    <3> HIDE DEF L
    <3>5. /\ Taken <= Len(L \o rxFifo) /\ (L \o rxFifo)[Taken] = L[Taken]
          /\ SubSeq(L \o rxFifo, Taken + 1, Len(L \o rxFifo))
               = SubSeq(L, Taken + 1, Len(L)) \o rxFifo
      BY <1>0, <1>2, <3>3, FirstOff
    <3>6. Incoming = L \o rxFifo  BY DEF Incoming, L
    <3>7. Incoming' = SubSeq(L, Taken + 1, Len(L)) \o rxFifo
      BY <2>1, <3>2, <3>3 DEF Incoming
    <3> QED  BY <2>1, <3>1, <3>3, <3>4, <3>5, <3>6, <3>7
  <2>3. CASE Taken = 0
    <3>1. /\ UNCHANGED readByte
          /\ GoTo("readEnd") \/ call' = [call EXCEPT !.at = "readWait", !.seen = rx_in]
      BY <1>0, <1>4, <2>3, ReadCopyIs
    <3>2. Copied' = 0
      BY <1>0, <3>1 DEF Copied, At, GoTo, Calls
    <3> QED  BY <2>1, <3>1, <3>2 DEF Incoming
  <2>4. Taken > 0 \/ Taken = 0
    <3>1. Taken \in Nat
      BY <1>0, <1>4, ReadCopyIs DEF Slots
    <3> QED  BY <3>1
  <2> QED  BY <2>2, <2>3, <2>4
<1>5. CASE ReadFree
  <2>1. /\ UNCHANGED <<rx_buf, rx_in, rxFifo, readByte, hostSent>>
        /\ rx_out' = (rx_out + call.n) % BUF_LEN /\ Copied = call.n
    BY <1>1, <1>5 DEF ReadFree
  <2>2. rx_out' = from
    <3>1. call.n \in 0..BUF_LEN  BY <1>1, <2>1, Sizes DEF Slots
    <3> QED  BY <1>0, <2>1, <3>1, Pointers
  <2>3. Copied' = 0
    <3>1. call'.at # "readFree"  BY <1>0, <1>5, NextPlace
    <3> QED  BY <3>1 DEF Copied, At
  <2>4. Ahead(from, 0) = from
    <3> HIDE DEF from
    <3> QED  BY <1>2, Sizes DEF Ahead, Slots
  <2> QED  BY <2>1, <2>2, <2>3, <2>4 DEF Incoming
<1>6. CASE Contact
  <2>1. call' = call /\ (Send \/ UNCHANGED <<rx_buf, rx_in, rx_out, rxFifo, readByte, hostSent>>)
    BY <1>6 DEF Contact, Take, Send, Pause, rx
  <2>2. Copied' = Copied  BY <2>1 DEF Copied, At
  <2>3. CASE Send
    <3>1. /\ hostSent' = (hostSent + 1) % Numbers /\ rxFifo' = Append(rxFifo, hostSent')
          /\ UNCHANGED <<rx_buf, rx_in, rx_out, readByte>>
      BY <2>3 DEF Send
    <3>2. /\ Numbered(hostSent, 1) \in Seq(Byte) /\ hostSent' \in Byte
          /\ Numbered(hostSent, 1) = <<hostSent'>>
      <4>1. /\ Numbered(hostSent, 1) \in Seq(Byte) /\ Len(Numbered(hostSent, 1)) = 1
            /\ Numbered(hostSent, 1)[1] = hostSent' /\ hostSent' \in Byte
        <5>1. 1 \in Nat /\ 1 \in 1..1  OBVIOUS
        <5>2. /\ (hostSent + 1) % Numbers \in Byte /\ Numbered(hostSent, 1) \in Seq(Byte)
              /\ Len(Numbered(hostSent, 1)) = 1
              /\ \A i \in 1..1 : Numbered(hostSent, 1)[i] = (hostSent + i) % Numbers
          BY <1>0, <5>1, NumberedIs
        <5> QED  BY <3>1, <5>1, <5>2
      <4> QED  BY <4>1
    <3>3. rxFifo' = rxFifo \o Numbered(hostSent, 1)
      BY <1>0, <3>1, <3>2, AppendIsConcat
    <3>4. L \o (rxFifo \o Numbered(hostSent, 1)) = (L \o rxFifo) \o Numbered(hostSent, 1)
      <4> HIDE DEF L
      <4> QED  BY <1>0, <1>2, <3>2, ConcatAssociative
    <3>5. 1 \in 1..BUF_LEN  BY Sizes
    <3> QED  BY <2>2, <3>1, <3>3, <3>4, <3>5 DEF Incoming
  <2>4. CASE UNCHANGED <<rx_buf, rx_in, rx_out, rxFifo, readByte, hostSent>>
    BY <2>2, <2>4 DEF Incoming
  <2> QED  BY <2>1, <2>3, <2>4
<1>7. CASE Interrupt /\ ~ReceivePending
  BY <1>7 DEF Interrupt, Incoming, Copied, At, rx
<1>8. CASE \/ ReadWait \/ ReadEnd
           \/ WriteCopy \/ WritePublish \/ WriteKick \/ WriteWait \/ WriteCheck
           \/ Close \/ CloseWait
           \/ \E length \in Lengths, nonblock \in BOOLEAN :
                 Read(length, nonblock) \/ Write(length, nonblock)
  <2>1. call'.at # "readFree" /\ call.at # "readFree"
    BY <1>0, <1>8, NextPlace DEF ReadWait, ReadEnd, WriteCopy, WritePublish, WriteKick,
       WriteWait, WriteCheck, Close, CloseWait, Read, Write, At
  <2>2. UNCHANGED rx
    BY <1>8 DEF ReadWait, ReadEnd, WriteCopy, WritePublish, WriteKick,
       WriteWait, WriteCheck, Close, CloseWait, Read, Write
  <2> QED  BY <2>1, <2>2 DEF Incoming, Copied, At, rx
<1>9. CASE Timeout \/ UNCHANGED vars \/ (\E arg \in TimeoutArgs : SetTimeout(arg))
  BY <1>9 DEF Timeout, SetTimeout, vars, Incoming, Copied, At, rx
<1> QED
  BY <1>3, <1>4, <1>5, <1>6, <1>7, <1>8, <1>9 DEF Next, Proceed, NewCall

(* The bytes on their way to the reader are those the abstract stream      *)
(* holds.                                                                  *)
LEMMA IncomingIs ==
    ASSUME NEW buf \in Ring, NEW in \in Slots, NEW out \in Slots, NEW m \in 0..Used(in, out)
    PROVE  SubSeq(Live(buf, in, out), m + 1, (in - out) % BUF_LEN) = Live(buf, in, Ahead(out, m))
<1>1. 0 \in 0..BUF_LEN  BY Sizes
<1>2. (in - out) % BUF_LEN = Used(in, out)  BY <1>1, Pointers
<1> QED  BY <1>2, LiveTail

THEOREM ReadInOrder == Spec => ReceiveInOrder
<1>1. IInv => SubSeq(Live(rx_buf, rx_in, rx_out), Copied + 1, (rx_in - rx_out) % BUF_LEN)
                 = Live(rx_buf, rx_in, Ahead(rx_out, Copied))
  <2> SUFFICES ASSUME IInv
               PROVE  SubSeq(Live(rx_buf, rx_in, rx_out), Copied + 1, (rx_in - rx_out) % BUF_LEN)
                         = Live(rx_buf, rx_in, Ahead(rx_out, Copied))
    OBVIOUS
  <2>1. rx_buf \in Ring /\ rx_in \in Slots /\ rx_out \in Slots /\ Used(rx_in, rx_out) \in Slots
    BY Parts, RoomSeen DEF IInv, RxOK
  <2>2. Copied \in 0..Used(rx_in, rx_out)
    BY <2>1, Sizes DEF IInv, Reading, Copied, Slots
  <2> QED  BY <2>1, <2>2, IncomingIs
<1>2. ASSUME IInv' PROVE
         SubSeq(Live(rx_buf', rx_in', rx_out'), Copied' + 1, (rx_in' - rx_out') % BUF_LEN)
           = Live(rx_buf', rx_in', Ahead(rx_out', Copied'))
  <2>1. RxOK' /\ Reading'
    BY <1>2 DEF IInv, TypeOK, RxOK, Byte, Ring, Fifo
  <2>2. /\ rx_buf' \in Ring /\ rx_in' \in Slots /\ rx_out' \in Slots
        /\ Used(rx_in', rx_out') \in Slots
    BY <2>1, RoomSeen DEF RxOK
  <2>3. Copied' \in 0..Used(rx_in', rx_out')
    BY <2>1, <2>2, Sizes DEF Reading, Copied, Slots
  <2> QED  BY <2>2, <2>3, IncomingIs
<1>3. Init => Down!Init
  <2> SUFFICES ASSUME Init PROVE Down!Init
    OBVIOUS
  <2>1. /\ rx_in = 0 /\ rx_out = 0 /\ rxFifo = <<>> /\ 0 \in Slots /\ Used(0, 0) = 0
        /\ Ahead(0, 0) = 0 /\ rx_buf \in Ring /\ Copied = 0 /\ 0 \in 0..Used(0, 0)
    BY Sizes DEF Init, Slots, Used, Ahead, Ring, Byte, Copied, At, Idle
  <2>2. Live(rx_buf, 0, 0) \in Seq(Byte) /\ Len(Live(rx_buf, 0, 0)) = 0
    BY <2>1, LiveIs
  <2>3. Live(rx_buf, 0, 0) = <<>>  BY <2>2
  <2>4. SubSeq(Live(rx_buf, rx_in, rx_out), Copied + 1, (rx_in - rx_out) % BUF_LEN) = <<>>
    BY <2>1, <2>3, IncomingIs
  <2> QED  BY <2>1, <2>4 DEF Init, Down!Init
<1>4. IInv /\ IInv' /\ [Next]_vars => [Down!Next]_(Down!vars)
  <2> SUFFICES ASSUME IInv, IInv', [Next]_vars PROVE [Down!Next]_(Down!vars)
    OBVIOUS
  <2> DEFINE q == SubSeq(Live(rx_buf, rx_in, rx_out), Copied + 1, (rx_in - rx_out) % BUF_LEN)
                    \o rxFifo
  <2>1. q = Incoming /\ q' = Incoming'
    BY <1>1, <1>2 DEF Incoming
  <2> QED
    BY <2>1, IncomingSteps
       DEF Down!Next, Down!vars, Down!Send, Down!Deliver, Down!Numbered, Numbered
<1> QED  BY <1>3, <1>4, IInvHolds, PTL DEF Spec, ReceiveInOrder, Down!Spec
=============================================================================
