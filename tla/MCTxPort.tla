------------------------------ MODULE MCTxPort ------------------------------
(***************************************************************************)
(* TLC instances of TxPort.  The numbers are small, their relations those  *)
(* of the code: two frames fit the memory or not according to their        *)
(* lengths, a frame can wrap round the end of the memory, txparamfifo and  *)
(* txbackfifo fill up, and MaxBytes lets the memory be reused.             *)
(***************************************************************************)
EXTENDS TxPort

=============================================================================
