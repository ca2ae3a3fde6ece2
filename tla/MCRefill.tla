------------------------------ MODULE MCRefill ------------------------------
(* TLC instances of Refill: two ports are enough to overwrite each other's *)
(* requests; one word per block lets a level cross the threshold often.  *)
EXTENDS Refill

=============================================================================
