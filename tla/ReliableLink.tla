---------------------------- MODULE ReliableLink ----------------------------
(***************************************************************************)
(* What connection mode promises to the client of a transmit port: frames  *)
(* reach the host once and in the order they were queued, and a frame      *)
(* leaves the port only when the host has it.  Frames of a port are        *)
(* numbered from 1.                                                        *)
(***************************************************************************)
EXTENDS Naturals

CONSTANT Ports

VARIABLES queued, delivered, flushed  \* number of the last frame, per port

vars == <<queued, delivered, flushed>>

Init ==
  /\ queued = [p \in Ports |-> 0]
  /\ delivered = [p \in Ports |-> 0]
  /\ flushed = [p \in Ports |-> 0]

Queue(p) ==
  /\ queued' = [queued EXCEPT ![p] = @ + 1]
  /\ UNCHANGED <<delivered, flushed>>

Deliver(p) ==
  /\ delivered[p] < queued[p]
  /\ delivered' = [delivered EXCEPT ![p] = @ + 1]
  /\ UNCHANGED <<queued, flushed>>

Flush(p) ==
  /\ flushed[p] < delivered[p]
  /\ flushed' = [flushed EXCEPT ![p] = @ + 1]
  /\ UNCHANGED <<queued, delivered>>

Next == \E p \in Ports : Queue(p) \/ Deliver(p) \/ Flush(p)

Spec == Init /\ [][Next]_vars

=============================================================================
