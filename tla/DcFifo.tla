------------------------------- MODULE DcFifo -------------------------------
(***************************************************************************)
(* A dual-clock FIFO (Altera dcfifo), as the ports of the MAC use it, over-*)
(* and underflow checked.  The two sides see the same words but learn of   *)
(* each other's operations late, because the pointers cross the clock      *)
(* boundary through synchronisers:                                         *)
(*                                                                         *)
(*   q      the words really stored, oldest first                          *)
(*   hid    how many of the newest words the read side cannot see yet      *)
(*   stale  how many words already popped still count on the write side    *)
(*                                                                         *)
(* Hence rdempty may be 1 when words are stored and wrfull may be 1 when   *)
(* there is room, but wrempty = 1 and rdempty = 0 are always true facts.   *)
(***************************************************************************)
EXTENDS Naturals, Sequences

CONSTANT FIFODEPTH  \* words (lpm_numwords = 16)

ASSUME FifoAssumption == FIFODEPTH \in Nat \ {0}

Fifo(Word) == [q : Seq(Word), hid : Nat, stale : Nat]

EmptyFifo == [q |-> <<>>, hid |-> 0, stale |-> 0]

WrEmpty(f) == Len(f.q) + f.stale = 0
WrFull(f)  == Len(f.q) + f.stale >= FIFODEPTH
RdEmpty(f) == Len(f.q) <= f.hid

\* A write request: ignored when full, otherwise invisible to the reader at first.
Push(f, w) ==
  IF WrFull(f) THEN f
               ELSE [q |-> Append(f.q, w), hid |-> f.hid + 1, stale |-> f.stale]

\* A read request on a non-empty FIFO: the writer learns of it later.
Pop(f) == [q |-> Tail(f.q), hid |-> f.hid, stale |-> f.stale + 1]

\* One pointer step crosses to the read side, or back to the write side.
Reveal(f) == [f EXCEPT !.hid = @ - 1]
Reclaim(f) == [f EXCEPT !.stale = @ - 1]

=============================================================================
