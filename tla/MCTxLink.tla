------------------------------ MODULE MCTxLink ------------------------------
(***************************************************************************)
(* TLC instances of TxLink: two ports as in the MAC, one or both of them   *)
(* in connection mode, with and without a holdoff.  Sequence numbers are   *)
(* two bits, of which a frame carries one.                                 *)
(***************************************************************************)
EXTENDS TxLink

LowBit == [s \in 0 .. SEQ - 1 |-> s % 2]

Setting(a, t) == [ack |-> a, timer |-> t]
Settings == { <<Setting(TRUE, TRUE), Setting(FALSE, FALSE)>>,
              <<Setting(TRUE, FALSE), Setting(FALSE, TRUE)>>,
              <<Setting(TRUE, FALSE), Setting(TRUE, TRUE)>> }

=============================================================================
