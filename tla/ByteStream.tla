----------------------------- MODULE ByteStream -----------------------------
(***************************************************************************)
(* What the JTAG UART driver promises in each direction: the bytes handed  *)
(* over come out once each, in order, in bursts of any size.  The bytes    *)
(* are numbered modulo Numbers, so a lost, repeated or misplaced one shows.*)
(***************************************************************************)
EXTENDS Integers, Sequences

CONSTANTS
    Numbers,                \* how many numbers tell the bytes apart
    Burst                   \* the longest burst

VARIABLES
    sent,                   \* the number of the last byte handed over
    queue,                  \* the bytes under way
    last                    \* the last byte that came out

vars == <<sent, queue, last>>

Numbered(first, n) == [i \in 1..n |-> (first + i) % Numbers]

Init == sent = 0 /\ queue = <<>> /\ last = 0

Send(n) ==
    /\ queue' = queue \o Numbered(sent, n)
    /\ sent' = (sent + n) % Numbers
    /\ UNCHANGED last

Deliver(n) ==
    /\ n <= Len(queue)
    /\ last' = queue[n]
    /\ queue' = SubSeq(queue, n + 1, Len(queue))
    /\ UNCHANGED sent

Next == \E n \in 1..Burst : Send(n) \/ Deliver(n)

Spec == Init /\ [][Next]_vars
=============================================================================
