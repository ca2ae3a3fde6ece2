------------------------------- MODULE RxQueue -------------------------------
(***************************************************************************)
(* What a receive port promises to its client: the frames the port has     *)
(* accepted are offered whole and in the order they came, each once, byte  *)
(* by byte; the client may leave a frame before its end.  A port that is   *)
(* closed forgets every frame and is opened empty.                         *)
(***************************************************************************)
EXTENDS Naturals, Sequences

CONSTANT Frame  \* a frame as the sequence of its bytes

VARIABLES open, queue, offered  \* offered: the bytes the client has not read yet

vars == <<open, queue, offered>>

Init == open = FALSE /\ queue = <<>> /\ offered = <<>>

Open ==
  /\ ~open /\ open' = TRUE
  /\ UNCHANGED <<queue, offered>>

Accept(f) ==
  /\ open
  /\ queue' = Append(queue, f)
  /\ UNCHANGED <<open, offered>>

Offer ==
  /\ open /\ queue # <<>> /\ offered = <<>>
  /\ offered' = Head(queue) /\ queue' = Tail(queue)
  /\ UNCHANGED open

Read ==
  /\ offered # <<>>
  /\ offered' = Tail(offered)
  /\ UNCHANGED <<open, queue>>

Leave ==
  /\ offered' = <<>>
  /\ UNCHANGED <<open, queue>>

Close == open' = FALSE /\ queue' = <<>> /\ offered' = <<>>

Next ==
  \/ Open \/ Offer \/ Read \/ Leave \/ Close
  \/ \E f \in Frame : Accept(f)

Spec == Init /\ [][Next]_vars

=============================================================================
