------------------------------ MODULE TxQueue ------------------------------
(***************************************************************************)
(* What a transmit port promises its client, without memory, clocks or     *)
(* handshakes: a queue of frames.  While the port is open frames join at   *)
(* the tail; the head is sent whole and unchanged and leaves exactly once, *)
(* when sent (datagram mode) or when acknowledged; no frame is ever        *)
(* dropped, and the port closes and opens only when empty.                 *)
(***************************************************************************)
EXTENDS Integers, Sequences

CONSTANT AckMode  \* frames leave when acknowledged, not when sent

VARIABLES queue,  \* frames [pos, len]: a stretch of the stream of bytes
          next,   \* position of the next byte of the stream
          sent,   \* bytes of the last transmission
          open

vars == <<queue, next, sent, open>>

Bytes(f) == [k \in 1 .. f.len |-> f.pos + k - 1]

Init == queue = <<>> /\ next = 0 /\ sent = <<>> /\ open = FALSE

Open == /\ ~open /\ queue = <<>>
        /\ open' = TRUE /\ next' = 0
        /\ UNCHANGED <<queue, sent>>

Enqueue == /\ open
           /\ next' \in Nat /\ next' >= next
           /\ queue' = Append(queue, [pos |-> next, len |-> next' - next])
           /\ UNCHANGED <<sent, open>>

Send == /\ queue # <<>>
        /\ sent' = Bytes(Head(queue))
        /\ queue' = IF AckMode THEN queue ELSE Tail(queue)
        /\ UNCHANGED <<next, open>>

Acknowledge == /\ AckMode /\ queue # <<>>
               /\ queue' = Tail(queue)
               /\ UNCHANGED <<next, sent, open>>

\* A queue closes only when everything in it has left.
Close == queue = <<>> /\ open' = FALSE /\ UNCHANGED <<queue, next, sent>>

\* The stream starts anew while the port is closed and empty.
Rewind == /\ ~open /\ queue = <<>>
          /\ next' = 0
          /\ UNCHANGED <<queue, sent, open>>

Next == Open \/ Enqueue \/ Send \/ Acknowledge \/ Close \/ Rewind

Spec == Init /\ [][Next]_vars

=============================================================================
