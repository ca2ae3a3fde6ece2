---------------------------- MODULE TxLinkProofs ----------------------------
(***************************************************************************)
(* Theorems about TxLink for any number of ports, any modulus of the       *)
(* sequence numbers from 2 and a line of any length: types, fairness of    *)
(* the round robin, and that a port in connection mode is a reliable link  *)
(* although frames carry a part of their sequence number only.             *)
(***************************************************************************)
EXTENDS TxLink, TLAPS

-----------------------------------------------------------------------------
(* The inductive invariant. *)

\* A port that offers a frame has one, and the scheduler only holds such a port.
Offered ==
  /\ \A p \in Ports : FSMtxportrd[p] = "S2" => flushed[p] < queued[p]
  /\ HoldsFrame

\* Grants since the scheduler looked at port p, at most one of each port between.
Distance(p) == IF p < txpointer THEN txpointer - p - 1 ELSE txpointer - p - 1 + NPORTS
Turns ==
  \A p \in Ports :
    passed[p] <= IF FSMtxscheduler \in {"S1", "S1_0"} THEN Distance(p)
                 ELSE IF p = txpointer THEN 0 ELSE Distance(p) + 1

\* The host has the frame on offer or it does not, and expects accordingly.
Agreed(p) ==
  \/ delivered[p] = flushed[p] /\ expected[p] = txseqnum[p]
  \/ /\ delivered[p] = flushed[p] + 1 /\ expected[p] = Succ(txseqnum[p])
     /\ delivered[p] <= queued[p]

\* A frame on the line is the last one delivered or the next, and its part of
\* the sequence number tells which.
FrameFits(p, m) ==
  /\ m.id <= flushed[p] + 1 /\ m.id <= queued[p]
  /\ \/ m.id = delivered[p] + 1 /\ m.ident = Ident[expected[p]]
     \/ m.id = delivered[p] /\ m.ident # Ident[expected[p]]

LineFits(p) ==
  /\ \A k \in 1 .. Len(line[p]) : FrameFits(p, line[p][k])
  /\ \A j, k \in 1 .. Len(line[p]) : j < k => line[p][j].id <= line[p][k].id

\* An acknowledgement on its way is that of the frame on offer or of the one before.
AckFits(p, a) ==
  /\ a.id <= delivered[p]
  /\ \/ a.id = flushed[p] + 1 /\ a.seqnum = txseqnum[p]
     \/ a.id = flushed[p] /\ Succ(a.seqnum) = txseqnum[p]

AcksFit ==
  /\ \A k \in 1 .. Len(acks) : /\ ackenable[acks[k].port]
                               /\ AckFits(acks[k].port, acks[k])
  /\ \A j, k \in 1 .. Len(acks) :
       j < k /\ acks[j].port = acks[k].port => acks[j].id <= acks[k].id

LatchFits(p) ==
  cmdackreceived /\ cmdackportaddr = p =>
    \/ Succ(cmdackseqnum) = txseqnum[p]
    \/ /\ cmdackseqnum = txseqnum[p] /\ delivered[p] = flushed[p] + 1
       /\ \A k \in 1 .. Len(acks) : acks[k].port = p => acks[k].id = flushed[p] + 1

Connected ==
  \A p \in Ports : IF ackenable[p] THEN Agreed(p) /\ LineFits(p) /\ LatchFits(p)
                   ELSE line[p] = <<>>

Inv == TypeOK /\ Offered /\ Turns /\ Connected /\ AcksFit

-----------------------------------------------------------------------------
(* Sequences and sequence numbers. *)

LEMMA PushIs ==
  ASSUME NEW S, NEW s \in Seq(S), NEW e \in S
  PROVE  /\ Append(s, e) \in Seq(S) /\ Len(Append(s, e)) = Len(s) + 1
         /\ Append(s, e)[Len(s) + 1] = e
         /\ \A i \in 1 .. Len(s) : Append(s, e)[i] = s[i]
OBVIOUS

LEMMA PopIs ==
  ASSUME NEW S, NEW s \in Seq(S), s # <<>>
  PROVE  /\ Tail(s) \in Seq(S) /\ Len(s) \in Nat \ {0} /\ Len(Tail(s)) = Len(s) - 1
         /\ Head(s) = s[1] /\ Head(s) \in S
         /\ \A i \in 1 .. Len(s) - 1 : Tail(s)[i] = s[i + 1]
OBVIOUS

LEMMA SuccIs ==
  /\ \A s \in Seqnums : Succ(s) \in Seqnums /\ Succ(s) # s
  /\ \A s, t \in Seqnums : Succ(s) = Succ(t) => s = t
  /\ 0 \in Seqnums
BY LinkAssumption DEF Succ, Seqnums

LEMMA NextPortIs == \A p \in Ports : NextPort(p) \in Ports
BY LinkAssumption DEF NextPort, Ports

-----------------------------------------------------------------------------
(* The initial states. *)

LEMMA InitInv == Init => Inv
<1> SUFFICES ASSUME Init PROVE Inv
  OBVIOUS
<1> USE LinkAssumption
<1>1. /\ 1 \in Ports /\ 0 \in Seqnums /\ 0 \in PortAddrs /\ 0 \in Nat
  BY SuccIs DEF Ports, PortAddrs
<1>2. /\ ackenable \in [Ports -> BOOLEAN] /\ timerenable \in [Ports -> BOOLEAN]
  <2>1. PICK level \in Levels : /\ ackenable = [p \in Ports |-> level[p].ack]
                               /\ timerenable = [p \in Ports |-> level[p].timer]
    BY DEF Init
  <2>2. level \in [Ports -> [ack : BOOLEAN, timer : BOOLEAN]]
    BY <2>1
  <2> QED BY <2>1, <2>2
<1>3. TypeOK
  <2>1. /\ <<>> \in Seq(Frames) /\ <<>> \in Seq(Acks)
    OBVIOUS
  <2>2. line \in [Ports -> Seq(Frames)] /\ acks \in Seq(Acks)
    BY <2>1 DEF Init
  <2>3. /\ txseqnum \in [Ports -> Seqnums] /\ expected \in [Ports -> Seqnums]
        /\ queued \in [Ports -> Nat] /\ delivered \in [Ports -> Nat] /\ flushed \in [Ports -> Nat]
        /\ passed \in [Ports -> Nat] /\ txtimer \in [Ports -> BOOLEAN]
        /\ FSMtxportrd \in [Ports -> {"S1", "S2", "S3"}]
    BY <1>1 DEF Init
  <2>4. /\ FSMtxscheduler \in {"S1", "S1_0", "S1_1", "S2"} /\ txpointer \in Ports
        /\ cmdackreceived \in BOOLEAN /\ cmdackportaddr \in PortAddrs /\ cmdackseqnum \in Seqnums
    BY <1>1 DEF Init
  <2> QED BY ONLY <1>2, <2>2, <2>3, <2>4 DEF TypeOK
<1>4. Offered
  BY <1>1 DEF Init, Offered, HoldsFrame
<1>5. Turns
  BY DEF Init, Turns, Distance, Ports
<1>6. Connected
  BY <1>1 DEF Init, Connected, Agreed, LineFits, LatchFits
<1>7. AcksFit
  BY DEF Init, AcksFit
<1> QED BY <1>3, <1>4, <1>5, <1>6, <1>7 DEF Inv

-----------------------------------------------------------------------------
(* Types. *)

LEMMA TransmitType ==
  ASSUME TypeOK, NEW p \in Ports, Transmit(p)
  PROVE  line' \in [Ports -> Seq(Frames)]
<1>1. flushed[p] + 1 \in Nat /\ txseqnum[p] \in Seqnums /\ line[p] \in Seq(Frames)
  BY DEF TypeOK
<1>2. [id |-> flushed[p] + 1, ident |-> Ident[txseqnum[p]]] \in Frames
  BY <1>1 DEF Frames
<1>3. Append(line[p], [id |-> flushed[p] + 1, ident |-> Ident[txseqnum[p]]]) \in Seq(Frames)
  BY <1>1, <1>2, PushIs
<1> QED BY <1>3 DEF TypeOK, Transmit

LEMMA FlushType ==
  ASSUME TypeOK, NEW p \in Ports, FlushFrame(p)
  PROVE  /\ FSMtxportrd' \in [Ports -> {"S1", "S2", "S3"}]
         /\ txseqnum' \in [Ports -> Seqnums] /\ flushed' \in [Ports -> Nat]
<1>1. Succ(txseqnum[p]) \in Seqnums /\ flushed[p] + 1 \in Nat
  BY SuccIs DEF TypeOK
<1> QED BY <1>1 DEF TypeOK, FlushFrame

LEMMA SchedulerType == TypeOK /\ Scheduler => TypeOK'
<1> SUFFICES ASSUME TypeOK, Scheduler PROVE TypeOK'
  OBVIOUS
<1>1. CASE Command
  <2>1. txtimer' \in [Ports -> BOOLEAN] /\ FSMtxportrd' \in [Ports -> {"S1", "S2", "S3"}]
        /\ txseqnum' \in [Ports -> Seqnums] /\ flushed' \in [Ports -> Nat]
    <3>1. CASE \E p \in Ports : FlushFrame(p) /\ txtimer' = [txtimer EXCEPT ![p] = FALSE]
      BY <3>1, FlushType DEF TypeOK
    <3>2. CASE UNCHANGED <<FSMtxportrd, txseqnum, flushed, txtimer>>
      BY <3>2 DEF TypeOK
    <3> QED BY <1>1, <3>1, <3>2 DEF Command
  <2>2. cmdackreceived' \in BOOLEAN
    BY <1>1, Zenon DEF Command, TypeOK
  <2> QED BY <1>1, <2>1, <2>2 DEF Command, TypeOK, levels, host
<1>2. CASE Request
  <2>1. passed' \in [Ports -> Nat]
    BY <1>2 DEF Request, TypeOK
  <2> QED BY <1>2, <2>1 DEF Request, TypeOK, Keeps, levels, host, cmdack
<1>3. CASE Skip
  <2>1. txpointer' \in Ports /\ passed' \in [Ports -> Nat]
    BY <1>3, NextPortIs DEF Skip, TypeOK
  <2> QED BY <1>3, <2>1 DEF Skip, TypeOK, Keeps, levels, host, cmdack
<1>4. CASE Grant
  BY <1>4 DEF Grant, TypeOK, Keeps, levels, host, cmdack
<1>5. CASE Done
  <2>1. txpointer \in Ports /\ txpointer' \in Ports
    BY <1>5, NextPortIs DEF Done, TypeOK
  <2>2. line' \in [Ports -> Seq(Frames)]
    BY <1>5, <2>1, TransmitType DEF Done
  <2>3. FSMtxportrd' \in [Ports -> {"S1", "S2", "S3"}]
        /\ txseqnum' \in [Ports -> Seqnums] /\ flushed' \in [Ports -> Nat]
    <3>1. FlushFrame(txpointer) \/ UNCHANGED <<FSMtxportrd, txseqnum, flushed>>
      BY <1>5 DEF Done
    <3> QED BY <2>1, <3>1, FlushType DEF TypeOK
  <2>4. txtimer' \in [Ports -> BOOLEAN]
    BY <1>5, <2>1 DEF Done, TypeOK
  <2> QED BY <1>5, <2>1, <2>2, <2>3, <2>4 DEF Done, TypeOK, Keeps, levels, host, cmdack
<1> QED BY <1>1, <1>2, <1>3, <1>4, <1>5 DEF Scheduler

LEMMA PortType ==
  ASSUME TypeOK, NEW p \in Ports, Load(p) \/ RdIdle(p) \/ RdFlush(p) \/ Holdoff(p)
  PROVE  TypeOK'
<1>1. CASE Load(p)
  <2>1. queued' \in [Ports -> Nat]
    BY <1>1 DEF Load, TypeOK
  <2> QED BY <1>1, <2>1 DEF Load, TypeOK, sched, levels, host, cmdack
<1>2. CASE RdIdle(p) \/ RdFlush(p)
  <2>1. FSMtxportrd' \in [Ports -> {"S1", "S2", "S3"}] /\ UNCHANGED RdKeeps
    BY <1>2 DEF RdIdle, RdFlush, TypeOK
  <2> QED BY <2>1 DEF RdKeeps, TypeOK, sched, levels, host, cmdack
<1>3. CASE Holdoff(p)
  BY <1>3 DEF Holdoff, TypeOK, Keeps, sched, levels, host, cmdack
<1> QED BY <1>1, <1>2, <1>3

LEMMA LatchType ==
  ASSUME TypeOK, NEW port \in PortAddrs, NEW seqnum \in Seqnums, Latch(port, seqnum)
  PROVE  cmdackreceived' \in BOOLEAN /\ cmdackportaddr' \in PortAddrs /\ cmdackseqnum' \in Seqnums
BY DEF Latch, TypeOK, cmdack

LEMMA PortAddr == Ports \subseteq PortAddrs
BY LinkAssumption DEF Ports, PortAddrs

LEMMA AckType == TypeOK /\ (AckReceived \/ AckLost \/ StrayAck) => TypeOK'
<1> SUFFICES ASSUME TypeOK, AckReceived \/ AckLost \/ StrayAck PROVE TypeOK'
  OBVIOUS
<1>1. acks' \in Seq(Acks)
  <2>1. CASE acks # <<>> /\ acks' = Tail(acks)
    BY <2>1, PopIs DEF TypeOK
  <2>2. CASE acks' = acks
    BY <2>2 DEF TypeOK
  <2> QED BY <2>1, <2>2 DEF AckReceived, AckLost, StrayAck
<1>2. cmdackreceived' \in BOOLEAN /\ cmdackportaddr' \in PortAddrs /\ cmdackseqnum' \in Seqnums
  <2>1. CASE AckReceived
    <3>1. Head(acks) \in Acks
      BY <2>1, PopIs DEF AckReceived, TypeOK
    <3>2. Head(acks).port \in PortAddrs /\ Head(acks).seqnum \in Seqnums
      BY <3>1, PortAddr DEF Acks
    <3> QED BY <2>1, <3>2, LatchType DEF AckReceived
  <2>2. CASE AckLost
    BY <2>2 DEF AckLost, cmdack, TypeOK
  <2>3. CASE StrayAck
    BY <2>3, LatchType, LinkAssumption DEF StrayAck
  <2> QED BY <2>1, <2>2, <2>3
<1>3. UNCHANGED AckKeeps
  BY DEF AckReceived, AckLost, StrayAck
<1> QED BY <1>1, <1>2, <1>3 DEF TypeOK, AckKeeps, sched, levels, host

LEMMA HostType ==
  ASSUME TypeOK, NEW p \in Ports, HostReceives(p) \/ FrameLost(p)
  PROVE  TypeOK'
<1>1. line[p] # <<>> /\ line' = [line EXCEPT ![p] = Tail(@)] /\ UNCHANGED HostKeeps
  BY DEF HostReceives, FrameLost
<1>2. line' \in [Ports -> Seq(Frames)] /\ Head(line[p]) \in Frames
  <2>1. line[p] \in Seq(Frames)
    BY DEF TypeOK
  <2>2. Tail(line[p]) \in Seq(Frames) /\ Head(line[p]) \in Frames
    BY <1>1, <2>1, PopIs
  <2> QED BY <1>1, <2>2 DEF TypeOK
<1>3. \A s \in Seqnums, id \in Nat : Acknowledge(p, s, id) => acks' \in Seq(Acks)
  <2> SUFFICES ASSUME NEW s \in Seqnums, NEW id \in Nat, Acknowledge(p, s, id)
               PROVE  acks' \in Seq(Acks)
    OBVIOUS
  <2>1. [port |-> p, seqnum |-> s, id |-> id] \in Acks /\ acks \in Seq(Acks)
    BY DEF Acks, TypeOK
  <2>2. Append(acks, [port |-> p, seqnum |-> s, id |-> id]) \in Seq(Acks)
    BY <2>1, PushIs
  <2> QED BY <2>1, <2>2 DEF Acknowledge
<1>4. /\ acks' \in Seq(Acks) /\ expected' \in [Ports -> Seqnums] /\ delivered' \in [Ports -> Nat]
  <2>1. Head(line[p]).id \in Nat /\ expected[p] \in Seqnums /\ delivered[p] \in Nat
        /\ Succ(expected[p]) \in Seqnums
    BY <1>2, SuccIs DEF TypeOK, Frames
  <2>2. CASE FrameLost(p)
    BY <2>2 DEF FrameLost, host, TypeOK
  <2>3. CASE HostReceives(p) /\ Head(line[p]).ident = Ident[expected[p]]
    BY <1>3, <2>1, <2>3 DEF HostReceives, TypeOK
  <2>4. CASE HostReceives(p) /\ Head(line[p]).ident # Ident[expected[p]]
    BY <1>3, <2>1, <2>4 DEF HostReceives, host, TypeOK
  <2> QED BY <2>2, <2>3, <2>4
<1> QED BY <1>1, <1>2, <1>4 DEF TypeOK, HostKeeps, sched, levels, cmdack

LEMMA TypeStep == TypeOK /\ [Next]_vars => TypeOK'
<1> SUFFICES ASSUME TypeOK, [Next]_vars PROVE TypeOK'
  OBVIOUS
<1>1. CASE UNCHANGED vars
  BY <1>1 DEF vars, TypeOK, sched, levels, cmdack, host
<1> QED BY <1>1, SchedulerType, PortType, AckType, HostType DEF Next

-----------------------------------------------------------------------------
(* The scheduler holds a frame and takes turns. *)

LEMMA OfferedStep == TypeOK /\ Offered /\ [Next]_vars => Offered'
<1> SUFFICES ASSUME TypeOK, Offered, [Next]_vars PROVE Offered'
  OBVIOUS
<1> USE DEF HoldsFrame
<1>1. /\ txpointer \in Ports
      /\ \A p \in Ports : flushed[p] \in Nat /\ queued[p] \in Nat
      /\ FSMtxportrd \in [Ports -> {"S1", "S2", "S3"}] /\ flushed \in [Ports -> Nat]
      /\ queued \in [Ports -> Nat]
  BY DEF TypeOK
<1>2. \A p \in Ports : FlushFrame(p) =>
        \A q \in Ports : FSMtxportrd'[q] = "S2" => q # p /\ FSMtxportrd[q] = "S2" /\ flushed'[q] = flushed[q]
  BY <1>1 DEF FlushFrame
<1>3. CASE Command
  <2>1. FSMtxscheduler' = "S1_0" /\ queued' = queued
    BY <1>3 DEF Command
  <2>2. (\E p \in Ports : FlushFrame(p)) \/ UNCHANGED <<FSMtxportrd, flushed>>
    BY <1>3 DEF Command
  <2> QED BY <1>1, <1>2, <2>1, <2>2 DEF Offered
<1>4. CASE Request
  BY <1>4 DEF Request, Ready, Keeps, Offered
<1>5. CASE Skip
  BY <1>5 DEF Skip, Keeps, Offered
<1>6. CASE Grant
  BY <1>6 DEF Grant, Keeps, Offered
<1>7. CASE Done
  <2>1. FSMtxscheduler' = "S1" /\ queued' = queued
    BY <1>7 DEF Done, Keeps
  <2>2. FlushFrame(txpointer) \/ UNCHANGED <<FSMtxportrd, flushed>>
    BY <1>7 DEF Done
  <2> QED BY <1>1, <1>2, <2>1, <2>2 DEF Offered
<1>8. ASSUME NEW p \in Ports, Load(p) \/ RdIdle(p) \/ RdFlush(p) \/ Holdoff(p) PROVE Offered'
  <2>1. CASE Load(p)
    <3>1. \A q \in Ports : queued'[q] >= queued[q] /\ queued'[q] \in Nat
      BY <1>1, <2>1 DEF Load
    <3>2. UNCHANGED <<FSMtxportrd, flushed, FSMtxscheduler, txpointer>>
      BY <2>1 DEF Load, sched
    <3> QED BY <1>1, <3>1, <3>2 DEF Offered
  <2>2. CASE RdIdle(p)
    BY <1>1, <2>2 DEF RdIdle, RdKeeps, sched, Offered
  <2>3. CASE RdFlush(p)
    BY <1>1, <2>3 DEF RdFlush, RdKeeps, sched, Offered
  <2>4. CASE Holdoff(p)
    BY <2>4 DEF Holdoff, Keeps, sched, Offered
  <2> QED BY <1>8, <2>1, <2>2, <2>3, <2>4
<1>9. CASE AckReceived \/ AckLost \/ StrayAck
  BY <1>9 DEF AckReceived, AckLost, StrayAck, AckKeeps, sched, Offered
<1>10. CASE \E p \in Ports : HostReceives(p) \/ FrameLost(p)
  BY <1>10 DEF HostReceives, FrameLost, HostKeeps, sched, Offered
<1>11. CASE UNCHANGED vars
  BY <1>11 DEF vars, sched, Offered
<1> QED BY <1>3, <1>4, <1>5, <1>6, <1>7, <1>8, <1>9, <1>10, <1>11 DEF Next, Scheduler

LEMMA TurnsStep == TypeOK /\ Turns /\ [Next]_vars => Turns'
<1> SUFFICES ASSUME TypeOK, Turns, [Next]_vars PROVE Turns'
  OBVIOUS
<1> USE LinkAssumption DEF Ports, Distance, Turns
<1>1. /\ txpointer \in Ports /\ passed \in [Ports -> Nat]
      /\ FSMtxscheduler \in {"S1", "S1_0", "S1_1", "S2"}
  BY DEF TypeOK
<1>2. CASE Command
  BY <1>1, <1>2 DEF Command
<1>3. CASE Request
  <2>1. FSMtxscheduler = "S1_0" /\ FSMtxscheduler' = "S1_1" /\ txpointer' = txpointer
    BY <1>3 DEF Request
  <2> SUFFICES ASSUME NEW p \in Ports
               PROVE  passed'[p] <= IF p = txpointer THEN 0 ELSE Distance(p) + 1
    BY <2>1
  <2>2. passed[p] <= Distance(p) /\ passed[p] \in Nat
    BY <1>1, <2>1
  <2>3. CASE p # txpointer /\ Ready(p)
    <3>1. passed'[p] = passed[p] + 1
      BY <1>3, <2>3 DEF Request
    <3> QED BY <1>1, <2>2, <2>3, <3>1
  <2>4. CASE ~(p # txpointer /\ Ready(p))
    <3>1. passed'[p] = 0
      BY <1>3, <2>4, Zenon DEF Request
    <3> QED BY <1>1, <3>1
  <2> QED BY <2>3, <2>4
<1>4. CASE Skip
  BY <1>1, <1>4 DEF Skip, NextPort
<1>5. CASE Grant
  BY <1>1, <1>5 DEF Grant
<1>6. CASE Done
  BY <1>1, <1>6 DEF Done, NextPort
<1>7. CASE UNCHANGED sched
  BY <1>7 DEF sched
<1>8. ASSUME NEW p \in Ports, Load(p) \/ RdIdle(p) \/ RdFlush(p) \/ Holdoff(p) \/ HostReceives(p) \/ FrameLost(p)
      PROVE UNCHANGED sched
  BY <1>8 DEF Load, RdIdle, RdFlush, RdKeeps, Holdoff, HostReceives, FrameLost, HostKeeps
<1>9. CASE AckReceived \/ AckLost \/ StrayAck
  BY <1>7, <1>9 DEF AckReceived, AckLost, StrayAck, AckKeeps
<1>10. CASE UNCHANGED vars
  BY <1>7, <1>10 DEF vars
<1> QED BY <1>2, <1>3, <1>4, <1>5, <1>6, <1>7, <1>8, <1>9, <1>10 DEF Next, Scheduler

-----------------------------------------------------------------------------
(* The connection: the host and the port agree on the frame on offer. *)

LEMMA Types ==
  ASSUME TypeOK, NEW p \in Ports
  PROVE  /\ queued[p] \in Nat /\ delivered[p] \in Nat /\ flushed[p] \in Nat
         /\ txseqnum[p] \in Seqnums /\ expected[p] \in Seqnums /\ cmdackseqnum \in Seqnums
         /\ line[p] \in Seq(Frames)
         /\ \A k \in 1 .. Len(line[p]) : line[p][k] \in Frames /\ line[p][k].id \in Nat
         /\ acks \in Seq(Acks)
         /\ \A k \in 1 .. Len(acks) : /\ acks[k] \in Acks /\ acks[k].id \in Nat
                                      /\ acks[k].port \in Ports /\ acks[k].seqnum \in Seqnums
<1>1. \A k \in 1 .. Len(line[p]) : line[p][k] \in Frames
  BY DEF TypeOK
<1>2. \A k \in 1 .. Len(acks) : acks[k] \in Acks
  BY DEF TypeOK
<1>3. (\A m \in Frames : m.id \in Nat)
      /\ (\A a \in Acks : a.id \in Nat /\ a.port \in Ports /\ a.seqnum \in Seqnums)
  BY DEF Frames, Acks
<1> QED BY <1>1, <1>2, <1>3 DEF TypeOK

\* What a step must keep of a port for its part of the invariant.
Same(p) ==
  /\ ackenable'[p] = ackenable[p] /\ flushed'[p] = flushed[p] /\ txseqnum'[p] = txseqnum[p]
  /\ delivered'[p] = delivered[p] /\ expected'[p] = expected[p]
  /\ queued'[p] \in Nat /\ queued'[p] >= queued[p]

LineKept(p) ==
  \/ line'[p] = line[p]
  \/ line[p] # <<>> /\ line'[p] = Tail(line[p])

AcksKept == acks' = acks \/ (acks # <<>> /\ acks' = Tail(acks))

LEMMA LineStays ==
  ASSUME TypeOK, Connected, NEW p \in Ports, ackenable[p], Same(p), LineKept(p)
  PROVE  Agreed(p)' /\ LineFits(p)'
<1>1. Agreed(p) /\ LineFits(p)
  BY DEF Connected
<1>2. Agreed(p)'
  BY <1>1, Types DEF Agreed, Same
<1>3. PICK d \in {0, 1} :
        \A k \in 1 .. Len(line'[p]) : k + d \in 1 .. Len(line[p]) /\ line'[p][k] = line[p][k + d]
  <2>1. CASE line'[p] = line[p]
    <3>1. \A k \in 1 .. Len(line[p]) : k + 0 = k
      BY Types
    <3> QED BY <2>1, <3>1
  <2>2. CASE line[p] # <<>> /\ line'[p] = Tail(line[p])
    BY <2>2, Types, PopIs
  <2> QED BY <2>1, <2>2 DEF LineKept
<1>4. Len(line'[p]) \in Nat
  BY Types, PopIs DEF LineKept
<1>5. ASSUME NEW k \in 1 .. Len(line'[p]) PROVE FrameFits(p, line[p][k])'
  <2>1. k + d \in 1 .. Len(line[p]) /\ line'[p][k] = line[p][k + d]
    BY <1>3
  <2>2. FrameFits(p, line[p][k + d]) /\ line[p][k + d].id \in Nat
    BY <1>1, <2>1, Types DEF LineFits
  <2>3. line'[p][k].id = line[p][k + d].id /\ line'[p][k].ident = line[p][k + d].ident
    BY <2>1
  <2> QED BY <2>2, <2>3, Types DEF FrameFits, Same
<1>6. ASSUME NEW j \in 1 .. Len(line'[p]), NEW k \in 1 .. Len(line'[p]), j < k
      PROVE  line'[p][j].id <= line'[p][k].id
  <2>1. /\ j + d \in 1 .. Len(line[p]) /\ line'[p][j] = line[p][j + d]
        /\ k + d \in 1 .. Len(line[p]) /\ line'[p][k] = line[p][k + d]
    BY <1>3
  <2>2. j + d < k + d
    BY <1>4, <1>6
  <2> QED BY <1>1, <2>1, <2>2 DEF LineFits
<1> QED BY <1>2, <1>5, <1>6 DEF LineFits

LEMMA Dropped ==
  ASSUME TypeOK, AcksKept
  PROVE  \E d \in {0, 1} :
           /\ Len(acks) \in Nat /\ Len(acks') \in Nat
           /\ \A k \in 1 .. Len(acks') : k + d \in 1 .. Len(acks) /\ acks'[k] = acks[k + d]
<1>1. acks \in Seq(Acks)
  BY DEF TypeOK
<1>2. CASE acks' = acks
  <2>1. \A k \in 1 .. Len(acks) : k + 0 = k
    BY <1>1
  <2> QED BY <1>1, <1>2, <2>1
<1>3. CASE acks # <<>> /\ acks' = Tail(acks)
  BY <1>1, <1>3, PopIs
<1> QED BY <1>2, <1>3 DEF AcksKept

LEMMA AcksStay ==
  ASSUME TypeOK, AcksFit, \A p \in Ports : ackenable[p] => Same(p),
         \A p \in Ports : ackenable'[p] = ackenable[p], AcksKept
  PROVE  AcksFit'
<1>1. PICK d \in {0, 1} :
        /\ Len(acks) \in Nat /\ Len(acks') \in Nat
        /\ \A k \in 1 .. Len(acks') : k + d \in 1 .. Len(acks) /\ acks'[k] = acks[k + d]
  BY Dropped
<1>2. ASSUME NEW k \in 1 .. Len(acks')
      PROVE  ackenable'[acks'[k].port] /\ AckFits(acks[k].port, acks[k])'
  <2>1. k + d \in 1 .. Len(acks) /\ acks'[k] = acks[k + d]
    BY <1>1
  <2>2. acks[k + d].port \in Ports /\ acks[k + d].id \in Nat
    <3>1. acks[k + d] \in Acks
      BY <2>1 DEF TypeOK
    <3> QED BY <3>1 DEF Acks
  <2>3. ackenable[acks[k + d].port] /\ AckFits(acks[k + d].port, acks[k + d])
    BY <2>1 DEF AcksFit
  <2>4. Same(acks[k + d].port)
    BY <2>2, <2>3
  <2>5. /\ acks'[k].id = acks[k + d].id /\ acks'[k].port = acks[k + d].port
        /\ acks'[k].seqnum = acks[k + d].seqnum
    BY <2>1
  <2>6. ackenable'[acks'[k].port]
    BY <2>2, <2>3, <2>5
  <2>7. AckFits(acks[k].port, acks[k])'
    BY <2>2, <2>3, <2>4, <2>5 DEF AckFits, Same
  <2> QED BY <2>6, <2>7
<1>3. ASSUME NEW j \in 1 .. Len(acks'), NEW k \in 1 .. Len(acks'), j < k, acks'[j].port = acks'[k].port
      PROVE  acks'[j].id <= acks'[k].id
  <2>1. /\ j + d \in 1 .. Len(acks) /\ acks'[j] = acks[j + d]
        /\ k + d \in 1 .. Len(acks) /\ acks'[k] = acks[k + d]
    BY <1>1
  <2>2. j + d < k + d
    BY <1>1, <1>3
  <2> QED BY <1>3, <2>1, <2>2 DEF AcksFit
<1> QED BY <1>2, <1>3 DEF AcksFit

LEMMA LatchStays ==
  ASSUME TypeOK, Connected, NEW p \in Ports, ackenable[p], Same(p), AcksKept,
         cmdackreceived' /\ cmdackportaddr' = p =>
           cmdackreceived /\ cmdackportaddr = p /\ cmdackseqnum' = cmdackseqnum
  PROVE  LatchFits(p)'
<1>1. LatchFits(p)
  BY DEF Connected
<1>2. \A k \in 1 .. Len(acks') : \E j \in 1 .. Len(acks) : acks'[k] = acks[j]
  BY Dropped
<1> QED BY <1>1, <1>2 DEF LatchFits, Same

\* A step that moves no frame of a connection and takes or drops an acknowledgement.
LEMMA Quiet ==
  ASSUME TypeOK, Connected, AcksFit, AcksKept,
         \A p \in Ports : /\ ackenable'[p] = ackenable[p]
                          /\ ackenable[p] => Same(p) /\ LineKept(p)
                          /\ ~ackenable[p] /\ line[p] = <<>> => line'[p] = <<>>,
         \A p \in Ports : ackenable[p] => LatchFits(p)'
  PROVE  Connected' /\ AcksFit'
<1>1. AcksFit'
  BY AcksStay
<1>2. ASSUME NEW p \in Ports, ackenable[p] PROVE Agreed(p)' /\ LineFits(p)' /\ LatchFits(p)'
  BY <1>2, LineStays
<1>3. ASSUME NEW p \in Ports, ~ackenable[p] PROVE line'[p] = <<>>
  BY <1>3 DEF Connected
<1>4. Connected'
  BY <1>2, <1>3 DEF Connected
<1> QED BY <1>1, <1>4

LEMMA Unlatched ==
  ASSUME TypeOK, Connected, AcksKept, \A p \in Ports : ackenable[p] => Same(p),
         cmdackreceived' => cmdackreceived /\ UNCHANGED <<cmdackportaddr, cmdackseqnum>>
  PROVE  \A p \in Ports : ackenable[p] => LatchFits(p)'
BY LatchStays

\* Steps of the reader, the client, the holdoff and the scheduler that flush nothing.
LEMMA QuietSteps ==
  ASSUME TypeOK, Connected, AcksFit,
         \/ Request \/ Skip \/ Grant \/ UNCHANGED vars
         \/ \E p \in Ports : Load(p) \/ RdIdle(p) \/ RdFlush(p) \/ Holdoff(p)
  PROVE  Connected' /\ AcksFit'
<1>1. \A p \in Ports : queued'[p] \in Nat /\ queued'[p] >= queued[p]
  <2>1. CASE queued' = queued
    BY <2>1, Types
  <2>2. CASE \E p \in Ports : Load(p)
    BY <2>2 DEF Load, TypeOK
  <2> QED BY <2>1, <2>2 DEF Request, Skip, Grant, Keeps, vars, Load, RdIdle, RdFlush, RdKeeps, Holdoff
<1>2. UNCHANGED <<ackenable, flushed, txseqnum, delivered, expected, line, acks,
                  cmdackreceived, cmdackportaddr, cmdackseqnum>>
  BY DEF Request, Skip, Grant, Keeps, vars, Load, RdIdle, RdFlush, RdKeeps, Holdoff,
         levels, host, cmdack
<1>3. AcksKept /\ \A p \in Ports : /\ ackenable'[p] = ackenable[p] /\ Same(p) /\ LineKept(p)
                                   /\ line'[p] = line[p]
  BY <1>1, <1>2 DEF AcksKept, Same, LineKept
<1>4. \A p \in Ports : ackenable[p] => LatchFits(p)'
  BY <1>2, <1>3, Unlatched
<1> QED BY <1>3, <1>4, Quiet

LEMMA CommandStep ==
  ASSUME TypeOK, Connected, AcksFit, Command
  PROVE  Connected' /\ AcksFit'
<1>1. /\ cmdackreceived' => cmdackreceived /\ cmdackportaddr \notin Ports
      /\ UNCHANGED <<cmdackportaddr, cmdackseqnum, ackenable, delivered, expected, line, acks, queued>>
  BY DEF Command, levels, host
<1>2. CASE UNCHANGED <<flushed, txseqnum>>
  <2>1. AcksKept /\ \A p \in Ports : /\ ackenable'[p] = ackenable[p] /\ Same(p) /\ LineKept(p)
                                     /\ line'[p] = line[p]
    BY <1>1, <1>2, Types DEF AcksKept, Same, LineKept
  <2>2. \A p \in Ports : ackenable[p] => LatchFits(p)'
    BY <1>1, <2>1, Unlatched
  <2> QED BY <2>1, <2>2, Quiet
<1>3. ASSUME NEW p \in Ports, Aligned(p), FlushFrame(p) PROVE Connected' /\ AcksFit'
  <2> USE DEF Aligned
  <2>1. Agreed(p) /\ LineFits(p) /\ LatchFits(p)
    BY <1>3 DEF Connected
  <2>2. /\ delivered[p] = flushed[p] + 1 /\ expected[p] = Succ(txseqnum[p]) /\ delivered[p] <= queued[p]
        /\ \A k \in 1 .. Len(acks) : acks[k].port = p => acks[k].id = flushed[p] + 1
    BY <1>3, <2>1, SuccIs, Types DEF LatchFits, Agreed
  <2>3. flushed'[p] = flushed[p] + 1 /\ txseqnum'[p] = Succ(txseqnum[p])
    BY <1>3 DEF FlushFrame, TypeOK
  <2>4. \A q \in Ports : q # p => Same(q)
    BY <1>1, <1>3, Types DEF FlushFrame, TypeOK, Same
  <2>5. Agreed(p)' /\ \A q \in Ports : LatchFits(q)'
    BY <1>1, <2>2, <2>3 DEF Agreed, LatchFits
  <2>6. LineFits(p)'
    <3>1. ASSUME NEW k \in 1 .. Len(line[p]) PROVE FrameFits(p, line[p][k])'
      BY <1>1, <2>1, <2>3, Types DEF LineFits, FrameFits
    <3> QED BY <1>1, <2>1, <3>1 DEF LineFits
  <2>7. ASSUME NEW q \in Ports, q # p, ackenable[q] PROVE Agreed(q)' /\ LineFits(q)'
    BY <1>1, <2>4, <2>7, LineStays DEF LineKept
  <2>8. Connected'
    BY <1>1, <2>5, <2>6, <2>7 DEF Connected
  <2>9. ASSUME NEW k \in 1 .. Len(acks)
        PROVE  ackenable'[acks[k].port] /\ AckFits(acks[k].port, acks[k])'
    <3>1. ackenable[acks[k].port] /\ AckFits(acks[k].port, acks[k]) /\ acks[k].port \in Ports
          /\ acks[k].id \in Nat
      BY <1>3, <2>9, Types DEF AcksFit
    <3>2. CASE acks[k].port = p
      BY <1>1, <2>2, <2>3, <3>1, <3>2, Types DEF AckFits
    <3>3. CASE acks[k].port # p
      BY <1>1, <2>4, <3>1, <3>3 DEF AckFits, Same
    <3> QED BY <1>1, <3>1, <3>2, <3>3
  <2>10. AcksFit'
    BY <1>1, <2>9 DEF AcksFit
  <2> QED BY <2>8, <2>10
<1> QED BY <1>2, <1>3 DEF Command

LEMMA DoneStep ==
  ASSUME TypeOK, Offered, Connected, AcksFit, Done
  PROVE  Connected' /\ AcksFit'
<1>0. PICK p \in Ports : p = txpointer
  BY DEF TypeOK
<1>1. p = txpointer /\ UNCHANGED <<ackenable, cmdackreceived, cmdackportaddr, cmdackseqnum, acks, delivered, expected, queued>>
  BY <1>0 DEF Done, Keeps, levels, host, cmdack
<1>2. \A q \in Ports : ackenable[q] => Same(q)
  <2>1. CASE ackenable[p]
    BY <1>0, <1>1, <2>1, Types DEF Done, Same
  <2>2. CASE ~ackenable[p]
    BY <1>0, <1>1, <2>2, Types DEF Done, FlushFrame, TypeOK, Same
  <2> QED BY <2>1, <2>2
<1>3. \A q \in Ports : q # p => line'[q] = line[q]
  BY <1>0, <1>1 DEF Done, Transmit, TypeOK
<1>4. AcksKept /\ \A q \in Ports : ackenable'[q] = ackenable[q]
  BY <1>0, <1>1 DEF AcksKept
<1>5. \A q \in Ports : ackenable[q] => LatchFits(q)'
  BY <1>0, <1>1, <1>2, <1>4, Unlatched
<1>6. CASE line'[p] = line[p]
  <2>1. \A q \in Ports : LineKept(q) /\ line'[q] = line[q]
    BY <1>3, <1>6 DEF LineKept
  <2> QED BY <1>2, <1>4, <1>5, <2>1, Quiet
<1>7. CASE line'[p] # line[p]
  <2> DEFINE frame == [id |-> flushed[p] + 1, ident |-> Ident[txseqnum[p]]]
  <2>1. ackenable[p] /\ line'[p] = Append(line[p], frame)
    BY <1>0, <1>1, <1>7 DEF Done, Transmit, TypeOK
  <2>2. frame \in Frames /\ frame.id = flushed[p] + 1 /\ frame.ident = Ident[txseqnum[p]]
    <3>1. flushed[p] + 1 \in Nat /\ txseqnum[p] \in Seqnums
      BY <1>0, Types
    <3> QED BY <3>1 DEF Frames
  <2>3. flushed[p] + 1 <= queued[p]
    <3>1. flushed[p] < queued[p]
      BY <1>0, <1>1 DEF Offered, HoldsFrame, Done
    <3> QED BY <1>0, <1>1, <3>1, Types
  <2>4. Agreed(p) /\ LineFits(p)
    BY <1>0, <1>1, <2>1 DEF Connected
  <2>5. FrameFits(p, frame)
    BY <1>0, <1>1, <2>2, <2>3, <2>4, Types, LinkAssumption DEF FrameFits, Agreed
  <2> HIDE DEF frame
  <2>6. /\ Len(line[p]) \in Nat /\ Len(line'[p]) = Len(line[p]) + 1
        /\ line'[p][Len(line[p]) + 1] = frame
        /\ \A k \in 1 .. Len(line[p]) : line'[p][k] = line[p][k]
    BY <1>0, <1>1, <2>1, <2>2, Types, PushIs
  <2>7. ASSUME NEW k \in 1 .. Len(line'[p])
        PROVE  line'[p][k] \in Frames /\ FrameFits(p, line'[p][k]) /\ line'[p][k].id <= flushed[p] + 1
    <3>1. CASE k = Len(line[p]) + 1
      BY <1>0, <1>1, <2>2, <2>5, <2>6, <3>1, Types
    <3>2. CASE k # Len(line[p]) + 1
      <4>1. k \in 1 .. Len(line[p])
        BY <2>6, <3>2
      <4> QED BY <1>0, <1>1, <2>4, <2>6, <4>1, Types DEF LineFits, FrameFits
    <3> QED BY <3>1, <3>2
  <2>8. ASSUME NEW k \in 1 .. Len(line'[p]) PROVE FrameFits(p, line[p][k])'
    <3>1. FrameFits(p, line'[p][k]) /\ line'[p][k].id \in Nat
      BY <2>7 DEF Frames
    <3> QED BY <1>0, <1>1, <1>2, <2>1, <3>1 DEF FrameFits, Same
  <2>9. ASSUME NEW j \in 1 .. Len(line'[p]), NEW k \in 1 .. Len(line'[p]), j < k
        PROVE  line'[p][j].id <= line'[p][k].id
    <3>1. j \in 1 .. Len(line[p]) /\ line'[p][j] = line[p][j]
      BY <2>6, <2>9
    <3>2. CASE k = Len(line[p]) + 1
      BY <2>2, <2>6, <2>7, <3>1, <3>2
    <3>3. CASE k # Len(line[p]) + 1
      <4>1. k \in 1 .. Len(line[p])
        BY <2>6, <3>3
      <4> QED BY <2>4, <2>6, <2>9, <3>1, <4>1 DEF LineFits
    <3> QED BY <3>2, <3>3
  <2>10. LineFits(p)'
    BY <1>0, <1>1, <2>8, <2>9 DEF LineFits, Done
  <2>11. Agreed(p)'
    BY <1>0, <1>1, <1>2, <2>1, <2>4 DEF Agreed, Same
  <2>12. ASSUME NEW q \in Ports, ackenable[q] PROVE Agreed(q)' /\ LineFits(q)'
    BY <1>2, <1>3, <2>10, <2>11, <2>12, LineStays DEF LineKept
  <2>13. Connected'
    BY <1>0, <1>1, <1>3, <1>5, <2>1, <2>12 DEF Connected
  <2> QED BY <1>2, <1>4, <2>13, AcksStay
<1> QED BY <1>6, <1>7

LEMMA AckStep ==
  ASSUME TypeOK, Connected, AcksFit, AckReceived \/ AckLost \/ StrayAck
  PROVE  Connected' /\ AcksFit'
<1>1. UNCHANGED <<ackenable, flushed, txseqnum, delivered, expected, queued, line>>
  BY DEF AckReceived, AckLost, StrayAck, AckKeeps, levels, host
<1>2. AcksKept
  BY DEF AckReceived, AckLost, StrayAck, AcksKept
<1>3. \A p \in Ports : /\ ackenable'[p] = ackenable[p] /\ Same(p) /\ LineKept(p)
                       /\ line'[p] = line[p]
  BY <1>1, Types DEF Same, LineKept
<1>4. CASE UNCHANGED cmdack
  BY <1>2, <1>3, <1>4, Unlatched, Quiet DEF cmdack
<1>5. CASE StrayAck /\ ~UNCHANGED cmdack
  <2>1. PICK port \in Stray : (port \in Ports => ~ackenable[port]) /\ cmdackportaddr' = port
    BY <1>5 DEF StrayAck, Latch
  <2>2. \A p \in Ports : ackenable[p] => LatchFits(p)'
    BY <2>1 DEF LatchFits
  <2> QED BY <1>2, <1>3, <2>2, Quiet
<1>6. CASE AckReceived /\ ~UNCHANGED cmdack
  <2>1. /\ acks # <<>> /\ acks' = Tail(acks) /\ acks \in Seq(Acks)
        /\ cmdackportaddr' = Head(acks).port /\ cmdackseqnum' = Head(acks).seqnum
    BY <1>6 DEF AckReceived, Latch, TypeOK
  <2>2. /\ 1 \in 1 .. Len(acks) /\ Head(acks) = acks[1]
        /\ \A k \in 1 .. Len(acks') : acks'[k] = acks[k + 1] /\ k + 1 \in 1 .. Len(acks) /\ 1 < k + 1
    BY <2>1, PopIs
  <2> SUFFICES ASSUME NEW p \in Ports, ackenable[p], p = acks[1].port PROVE LatchFits(p)'
    <3>1. \A p \in Ports : ackenable[p] /\ p # acks[1].port => LatchFits(p)'
      BY <2>1, <2>2 DEF LatchFits
    <3> QED BY <1>2, <1>3, <3>1, Quiet
  <2>3. AckFits(p, acks[1]) /\ Agreed(p)
    BY <2>2 DEF AcksFit, Connected
  <2>4. CASE Succ(acks[1].seqnum) = txseqnum[p]
    BY <1>1, <2>1, <2>2, <2>4 DEF LatchFits
  <2>5. CASE acks[1].id = flushed[p] + 1 /\ acks[1].seqnum = txseqnum[p]
    <3>1. delivered[p] = flushed[p] + 1
      BY <2>2, <2>3, <2>5, Types DEF AckFits, Agreed
    <3>2. ASSUME NEW k \in 1 .. Len(acks'), acks'[k].port = p PROVE acks'[k].id = flushed[p] + 1
      <4>1. acks[k + 1].port = p /\ k + 1 \in 1 .. Len(acks) /\ acks'[k] = acks[k + 1] /\ 1 < k + 1
        BY <2>2, <3>2
      <4>2. AckFits(p, acks[k + 1]) /\ acks[1].id <= acks[k + 1].id
        BY <2>2, <4>1 DEF AcksFit
      <4>3. acks[k + 1].id \in Nat
        BY <4>1, Types
      <4> QED BY <2>5, <3>1, <4>1, <4>2, <4>3, Types DEF AckFits
    <3> QED BY <1>1, <2>1, <2>2, <2>5, <3>1, <3>2 DEF LatchFits
  <2> QED BY <2>3, <2>4, <2>5 DEF AckFits
<1> QED BY <1>4, <1>5, <1>6 DEF AckLost

\* The line and the acknowledgements after the host took a frame of port p.
LEMMA Acknowledged ==
  ASSUME TypeOK, NEW p \in Ports, NEW seqnum \in Seqnums, NEW id \in Nat,
         Acknowledge(p, seqnum, id)
  PROVE  /\ Len(acks) \in Nat /\ Len(acks') \in Nat
         /\ \A k \in 1 .. Len(acks') :
              \/ k \in 1 .. Len(acks) /\ acks'[k] = acks[k]
              \/ k = Len(acks') /\ acks'[k] = [port |-> p, seqnum |-> seqnum, id |-> id]
<1>1. acks \in Seq(Acks) /\ [port |-> p, seqnum |-> seqnum, id |-> id] \in Acks
  BY DEF TypeOK, Acks
<1>2. CASE acks' = acks
  BY <1>1, <1>2
<1>3. CASE acks' = Append(acks, [port |-> p, seqnum |-> seqnum, id |-> id])
  <2> DEFINE a == [port |-> p, seqnum |-> seqnum, id |-> id]
  <2>1. a \in Acks /\ acks' = Append(acks, a)
    BY <1>1, <1>3
  <2> HIDE DEF a
  <2>2. /\ Len(acks) \in Nat /\ Len(acks') = Len(acks) + 1 /\ acks'[Len(acks) + 1] = a
        /\ \A i \in 1 .. Len(acks) : acks'[i] = acks[i]
    BY <1>1, <2>1, PushIs
  <2>3. \A k \in 1 .. Len(acks') : k \in 1 .. Len(acks) \/ k = Len(acks) + 1
    BY <2>2
  <2>4. \A k \in 1 .. Len(acks') : (k \in 1 .. Len(acks) /\ acks'[k] = acks[k])
                                   \/ (k = Len(acks') /\ acks'[k] = a)
    BY <2>2, <2>3
  <2> QED BY <2>2, <2>4 DEF a
<1> QED BY <1>2, <1>3 DEF Acknowledge

LEMMA AcksGrow ==
  ASSUME TypeOK, AcksFit, NEW p \in Ports, ackenable[p], NEW seqnum \in Seqnums, NEW id \in Nat,
         Acknowledge(p, seqnum, id),
         UNCHANGED <<ackenable, flushed, txseqnum>>,
         \A q \in Ports : delivered'[q] \in Nat /\ delivered'[q] >= delivered[q],
         delivered[p] <= id /\ id <= delivered'[p],
         \/ id = flushed[p] + 1 /\ seqnum = txseqnum[p]
         \/ id = flushed[p] /\ Succ(seqnum) = txseqnum[p]
  PROVE  AcksFit'
<1>1. /\ Len(acks) \in Nat /\ Len(acks') \in Nat
      /\ \A k \in 1 .. Len(acks') :
           \/ k \in 1 .. Len(acks) /\ acks'[k] = acks[k]
           \/ k = Len(acks') /\ acks'[k] = [port |-> p, seqnum |-> seqnum, id |-> id]
  BY Acknowledged
<1>2. ASSUME NEW k \in 1 .. Len(acks')
      PROVE  ackenable'[acks'[k].port] /\ AckFits(acks[k].port, acks[k])'
  <2>1. CASE k \in 1 .. Len(acks) /\ acks'[k] = acks[k]
    <3>1. ackenable[acks[k].port] /\ AckFits(acks[k].port, acks[k])
      BY <2>1 DEF AcksFit
    <3>2. acks[k].port \in Ports /\ acks[k].id \in Nat
      BY <2>1, Types
    <3>3. acks'[k].id = acks[k].id /\ acks'[k].port = acks[k].port /\ acks'[k].seqnum = acks[k].seqnum
      BY <2>1
    <3> QED BY <3>1, <3>2, <3>3, Types DEF AckFits
  <2>2. CASE acks'[k] = [port |-> p, seqnum |-> seqnum, id |-> id]
    <3>1. acks'[k].id = id /\ acks'[k].port = p /\ acks'[k].seqnum = seqnum
      BY <2>2
    <3> QED BY <3>1 DEF AckFits
  <2> QED BY <1>1, <2>1, <2>2
<1>3. ASSUME NEW j \in 1 .. Len(acks'), NEW k \in 1 .. Len(acks'), j < k, acks'[j].port = acks'[k].port
      PROVE  acks'[j].id <= acks'[k].id
  <2>1. j \in 1 .. Len(acks) /\ acks'[j] = acks[j]
    BY <1>1, <1>3
  <2>2. CASE k \in 1 .. Len(acks) /\ acks'[k] = acks[k]
    BY <1>3, <2>1, <2>2 DEF AcksFit
  <2>3. CASE acks'[k] = [port |-> p, seqnum |-> seqnum, id |-> id]
    <3>1. acks'[k].id = id /\ acks[j].port = p
      BY <1>3, <2>1, <2>3
    <3>2. acks[j].id <= delivered[p] /\ acks[j].id \in Nat
      BY <2>1, <3>1, Types DEF AcksFit, AckFits
    <3> QED BY <2>1, <3>1, <3>2, Types
  <2> QED BY <1>1, <2>2, <2>3
<1> QED BY <1>2, <1>3 DEF AcksFit

LEMMA LostStep ==
  ASSUME TypeOK, Connected, AcksFit, NEW p \in Ports, FrameLost(p)
  PROVE  Connected' /\ AcksFit'
<1>1. UNCHANGED <<ackenable, flushed, txseqnum, delivered, expected, queued, acks,
                  cmdackreceived, cmdackportaddr, cmdackseqnum>>
  BY DEF FrameLost, HostKeeps, levels, host, cmdack
<1>2. \A q \in Ports : LineKept(q) /\ (line[q] = <<>> => line'[q] = line[q])
  BY DEF FrameLost, LineKept, TypeOK
<1>3. AcksKept /\ \A q \in Ports : ackenable'[q] = ackenable[q] /\ Same(q)
  BY <1>1, Types DEF AcksKept, Same
<1>4. \A q \in Ports : ackenable[q] => LatchFits(q)'
  BY <1>1, <1>3, Unlatched
<1> QED BY <1>2, <1>3, <1>4, Quiet

LEMMA HostStep ==
  ASSUME TypeOK, Connected, AcksFit, NEW p \in Ports, HostReceives(p)
  PROVE  Connected' /\ AcksFit'
<1>1. /\ UNCHANGED <<ackenable, flushed, txseqnum, queued, cmdackreceived, cmdackportaddr, cmdackseqnum>>
      /\ line[p] # <<>> /\ line'[p] = Tail(line[p])
      /\ \A q \in Ports : q # p => line'[q] = line[q] /\ expected'[q] = expected[q]
                                   /\ delivered'[q] = delivered[q]
  BY DEF HostReceives, HostKeeps, levels, cmdack, host, TypeOK
<1>2. ackenable[p] /\ Agreed(p) /\ LineFits(p) /\ LatchFits(p)
  BY <1>1 DEF Connected
<1>3. /\ 1 \in 1 .. Len(line[p]) /\ Head(line[p]) = line[p][1] /\ Len(line'[p]) \in Nat
      /\ \A k \in 1 .. Len(line'[p]) : /\ k + 1 \in 1 .. Len(line[p]) /\ 1 < k + 1
                                       /\ line'[p][k] = line[p][k + 1]
  BY <1>1, Types, PopIs
<1>4. FrameFits(p, line[p][1]) /\ line[p][1].id \in Nat
  BY <1>2, <1>3, Types DEF LineFits
<1>5. \A q \in Ports : q # p => Same(q) /\ LineKept(q)
  BY <1>1, Types DEF Same, LineKept
<1>6. ASSUME AcksFit', Agreed(p)', LineFits(p)', \A q \in Ports : ackenable[q] => LatchFits(q)'
      PROVE  Connected' /\ AcksFit'
  <2>1. \A q \in Ports : ackenable[q] => Agreed(q)' /\ LineFits(q)'
    BY <1>5, <1>6, LineStays
  <2>2. \A q \in Ports : ~ackenable[q] => line'[q] = <<>>
    BY <1>1, <1>2 DEF Connected
  <2> QED BY <1>1, <1>6, <2>1, <2>2 DEF Connected
<1>7. CASE line[p][1].ident = Ident[expected[p]]
  <2>1. /\ delivered'[p] = line[p][1].id /\ expected'[p] = Succ(expected[p])
        /\ Acknowledge(p, expected[p], line[p][1].id)
    BY <1>3, <1>7 DEF HostReceives, TypeOK
  <2>2. /\ line[p][1].id = delivered[p] + 1 /\ delivered[p] = flushed[p]
        /\ expected[p] = txseqnum[p] /\ delivered[p] + 1 <= queued[p]
    BY <1>2, <1>4, <1>7, Types DEF FrameFits, Agreed
  <2>3. Agreed(p)'
    BY <1>1, <2>1, <2>2 DEF Agreed
  <2>4. LineFits(p)'
    <3>1. ASSUME NEW k \in 1 .. Len(line'[p]) PROVE FrameFits(p, line[p][k])'
      <4>1. /\ FrameFits(p, line[p][k + 1]) /\ line[p][1].id <= line[p][k + 1].id
            /\ line[p][k + 1].id \in Nat
        BY <1>2, <1>3, Types DEF LineFits
      <4>2. line[p][k + 1].id = delivered[p] + 1 /\ line[p][k + 1].ident = Ident[expected[p]]
        BY <2>2, <4>1, Types DEF FrameFits
      <4>3. Ident[expected[p]] # Ident[Succ(expected[p])]
        BY Types, LinkAssumption
      <4> QED BY <1>1, <1>3, <2>1, <2>2, <4>2, <4>3, Types DEF FrameFits
    <3>2. ASSUME NEW j \in 1 .. Len(line'[p]), NEW k \in 1 .. Len(line'[p]), j < k
          PROVE  line'[p][j].id <= line'[p][k].id
      <4>1. j + 1 < k + 1
        BY <1>3, <3>2
      <4> QED BY <1>2, <1>3, <4>1 DEF LineFits
    <3> QED BY <3>1, <3>2 DEF LineFits
  <2>5. AcksFit'
    <3>1. \A q \in Ports : delivered'[q] \in Nat /\ delivered'[q] >= delivered[q]
      BY <1>1, <2>1, <2>2, Types
    <3> QED BY <1>1, <1>2, <1>4, <2>1, <2>2, <3>1, Types, AcksGrow
  <2>6. \A q \in Ports : ackenable[q] => LatchFits(q)'
    <3>1. LatchFits(p)'
      BY <1>1, <1>2, <2>2, Types DEF LatchFits
    <3>2. ASSUME NEW q \in Ports, ackenable[q], q # p PROVE LatchFits(q)'
      <4>1. LatchFits(q)
        BY <3>2 DEF Connected
      <4>2. \A k \in 1 .. Len(acks') : acks'[k].port = q => \E j \in 1 .. Len(acks) : acks'[k] = acks[j]
        <5>1. \A k \in 1 .. Len(acks') :
                \/ k \in 1 .. Len(acks) /\ acks'[k] = acks[k]
                \/ acks'[k] = [port |-> p, seqnum |-> expected[p], id |-> line[p][1].id]
          <6>1. expected[p] \in Seqnums
            BY Types
          <6> QED BY <1>4, <2>1, <6>1, Acknowledged
        <5> QED BY <3>2, <5>1
      <4> QED BY <1>1, <3>2, <4>1, <4>2 DEF LatchFits
    <3> QED BY <3>1, <3>2
  <2> QED BY <1>6, <2>3, <2>4, <2>5, <2>6
<1>8. CASE line[p][1].ident # Ident[expected[p]]
  <2>1. UNCHANGED <<expected, delivered>>
    BY <1>3, <1>8 DEF HostReceives, host
  <2>2. PICK s \in Seqnums : Succ(s) = expected[p] /\ Acknowledge(p, s, delivered[p])
    BY <1>3, <1>8 DEF HostReceives
  <2>3. \A q \in Ports : ackenable[q] => Agreed(q)' /\ LineFits(q)'
    BY <1>1, <1>5, <2>1, LineStays, Types DEF Same, LineKept
  <2>4. \/ delivered[p] = flushed[p] + 1 /\ s = txseqnum[p]
        \/ delivered[p] = flushed[p] /\ Succ(s) = txseqnum[p]
    BY <1>2, <2>2, SuccIs, Types DEF Agreed
  <2>5. AcksFit'
    <3>1. \A q \in Ports : delivered'[q] \in Nat /\ delivered'[q] >= delivered[q]
      BY <2>1, Types
    <3>2. delivered[p] \in Nat /\ delivered[p] <= delivered'[p] /\ delivered[p] <= delivered[p]
      BY <2>1, Types
    <3> QED BY <1>1, <1>2, <2>2, <2>4, <3>1, <3>2, AcksGrow
  <2>6. ASSUME NEW q \in Ports, ackenable[q] PROVE LatchFits(q)'
    <3>1. LatchFits(q)
      BY <2>6 DEF Connected
    <3>2. ASSUME NEW k \in 1 .. Len(acks'), acks'[k].port = q
          PROVE  \/ \E j \in 1 .. Len(acks) : acks'[k] = acks[j]
                 \/ q = p /\ acks'[k].id = delivered[p]
      <4>1. \/ k \in 1 .. Len(acks) /\ acks'[k] = acks[k]
            \/ acks'[k] = [port |-> p, seqnum |-> s, id |-> delivered[p]]
        <5>1. delivered[p] \in Nat
          BY Types
        <5> QED BY <2>2, <5>1, Acknowledged
      <4> QED BY <3>2, <4>1
    <3> QED BY <1>1, <2>1, <3>1, <3>2 DEF LatchFits
  <2> QED BY <1>2, <1>6, <2>3, <2>5, <2>6
<1> QED BY <1>7, <1>8

LEMMA ConnectedStep ==
  TypeOK /\ Offered /\ Connected /\ AcksFit /\ [Next]_vars => Connected' /\ AcksFit'
BY QuietSteps, CommandStep, DoneStep, AckStep, HostStep, LostStep DEF Next, Scheduler

-----------------------------------------------------------------------------
(* The theorems. *)

\* The invariant holds in every reachable state.
THEOREM Invariance == Spec => []Inv
<1>1. Inv /\ [Next]_vars => Inv'
  BY TypeStep, OfferedStep, TurnsStep, ConnectedStep DEF Inv
<1> QED BY InitInv, <1>1, PTL DEF Spec

\* The registers of the scheduler, the latch and the host keep their ranges.
THEOREM TypeCorrect == Spec => []TypeOK
<1>1. Inv => TypeOK
  BY DEF Inv
<1> QED BY Invariance, <1>1, PTL

\* Between the request of a frame and its txdone the port keeps offering it.
THEOREM FrameHeld == Spec => []HoldsFrame
<1>1. Inv => HoldsFrame
  BY DEF Inv, Offered
<1> QED BY Invariance, <1>1, PTL

\* A ready port waits for at most one frame of every other port, whatever NPORTS is.
THEOREM TakesTurns == Spec => []RoundRobin
<1>1. Inv => RoundRobin
  <2> SUFFICES ASSUME Inv, NEW p \in Ports PROVE passed[p] < NPORTS
    BY DEF RoundRobin
  <2>1. passed[p] \in Nat /\ txpointer \in Ports
    BY DEF Inv, TypeOK
  <2>2. passed[p] <= IF FSMtxscheduler \in {"S1", "S1_0"} THEN Distance(p)
                     ELSE IF p = txpointer THEN 0 ELSE Distance(p) + 1
    BY DEF Inv, Turns
  <2> QED BY <2>1, <2>2, LinkAssumption DEF Distance, Ports
<1> QED BY Invariance, <1>1, PTL

LEMMA Stutters ==
  ASSUME UNCHANGED <<ackenable, queued, delivered, flushed>>
  PROVE  UNCHANGED Link!vars
BY DEF Link!vars, Connection

LEMMA LinkStep == Inv /\ [Next]_vars => [Link!Next]_(Link!vars)
<1> SUFFICES ASSUME Inv, [Next]_vars PROVE [Link!Next]_(Link!vars)
  OBVIOUS
<1>1. TypeOK /\ Offered /\ Connected /\ AcksFit
  BY DEF Inv
<1>2. ackenable' = ackenable
  BY DEF Next, Scheduler, Command, Request, Skip, Grant, Done, Keeps, vars, levels, Load,
         RdIdle, RdFlush, RdKeeps, Holdoff, AckReceived, AckLost, StrayAck, AckKeeps,
         HostReceives, FrameLost, HostKeeps
<1>3. ASSUME NEW p \in Ports, Load(p) PROVE Link!Next \/ UNCHANGED Link!vars
  <2>1. /\ UNCHANGED <<delivered, flushed>> /\ queued' = [queued EXCEPT ![p] = @ + 1]
        /\ queued \in [Ports -> Nat]
    BY <1>1, <1>3 DEF Load, host, TypeOK
  <2>2. /\ UNCHANGED <<Connection(delivered), Connection(flushed)>>
    BY <1>2, <2>1 DEF Connection
  <2>3. CASE ackenable[p]
    <3>1. Connection(queued)' = [Connection(queued) EXCEPT ![p] = @ + 1]
      BY <1>2, <2>1, <2>3 DEF Connection
    <3>2. Link!Queue(p)
      BY <2>2, <3>1 DEF Link!Queue
    <3> QED BY <3>2 DEF Link!Next
  <2>4. CASE ~ackenable[p]
    <3>1. Connection(queued)' = Connection(queued)
      BY <1>2, <2>1, <2>4 DEF Connection
    <3> QED BY <2>2, <3>1 DEF Link!vars
  <2> QED BY <2>3, <2>4
<1>4. ASSUME NEW p \in Ports, FlushFrame(p), UNCHANGED <<queued, delivered>>, Aligned(p)
      PROVE  Link!Next
  <2>1. /\ flushed' = [flushed EXCEPT ![p] = @ + 1] /\ flushed \in [Ports -> Nat] /\ ackenable[p]
    BY <1>1, <1>4 DEF FlushFrame, TypeOK, Aligned
  <2>2. flushed[p] < delivered[p]
    BY <1>1, <1>4, SuccIs, Types DEF Connected, LatchFits, Aligned
  <2>3. /\ UNCHANGED <<Connection(queued), Connection(delivered)>>
        /\ Connection(flushed)' = [Connection(flushed) EXCEPT ![p] = @ + 1]
    BY <1>2, <1>4, <2>1 DEF Connection
  <2>4. Connection(flushed)[p] < Connection(delivered)[p]
    BY <2>1, <2>2 DEF Connection
  <2> QED BY <2>3, <2>4 DEF Link!Next, Link!Flush
<1>5. CASE Command
  <2>1. UNCHANGED <<queued, delivered>>
    BY <1>5 DEF Command, host
  <2> QED BY <1>2, <1>4, <1>5, <2>1, Stutters DEF Command
<1>6. CASE Done
  <2>1. UNCHANGED <<queued, delivered>>
    BY <1>6 DEF Done, Keeps, host
  <2>2. CASE ackenable[txpointer]
    BY <1>2, <1>6, <2>1, <2>2, Stutters DEF Done
  <2>3. CASE ~ackenable[txpointer]
    <3>1. flushed' = [flushed EXCEPT ![txpointer] = @ + 1] /\ flushed \in [Ports -> Nat]
      BY <1>1, <1>6, <2>3 DEF Done, FlushFrame, TypeOK
    <3>2. UNCHANGED <<Connection(queued), Connection(delivered), Connection(flushed)>>
      BY <1>2, <2>1, <2>3, <3>1 DEF Connection
    <3> QED BY <3>2 DEF Link!vars
  <2> QED BY <2>2, <2>3
<1>7. ASSUME NEW p \in Ports, HostReceives(p) PROVE Link!Next \/ UNCHANGED Link!vars
  <2>1. /\ UNCHANGED <<queued, flushed>> /\ line[p] # <<>>
    BY <1>7 DEF HostReceives, HostKeeps
  <2>2. CASE UNCHANGED delivered
    BY <1>2, <2>1, <2>2, Stutters
  <2>3. CASE ~UNCHANGED delivered
    <3>1. /\ Head(line[p]).ident = Ident[expected[p]]
          /\ delivered' = [delivered EXCEPT ![p] = Head(line[p]).id]
          /\ delivered \in [Ports -> Nat] /\ queued \in [Ports -> Nat]
      BY <1>1, <1>7, <2>3 DEF HostReceives, host, TypeOK
    <3>2. ackenable[p] /\ LineFits(p)
      BY <1>1, <2>1 DEF Connected
    <3>3. FrameFits(p, Head(line[p]))
      BY <1>1, <2>1, <3>2, Types, PopIs DEF LineFits
    <3>4. Head(line[p]).id = delivered[p] + 1 /\ delivered[p] < queued[p]
      BY <1>1, <3>1, <3>3, Types DEF FrameFits
    <3>5. /\ UNCHANGED <<Connection(queued), Connection(flushed)>>
          /\ Connection(delivered)' = [Connection(delivered) EXCEPT ![p] = @ + 1]
      BY <1>2, <2>1, <3>1, <3>2, <3>4 DEF Connection
    <3>6. Connection(delivered)[p] < Connection(queued)[p]
      BY <3>1, <3>2, <3>4 DEF Connection
    <3> QED BY <3>5, <3>6 DEF Link!Next, Link!Deliver
  <2> QED BY <2>2, <2>3
<1>8. CASE \/ Request \/ Skip \/ Grant \/ AckReceived \/ AckLost \/ StrayAck \/ UNCHANGED vars
           \/ \E p \in Ports : RdIdle(p) \/ RdFlush(p) \/ Holdoff(p) \/ FrameLost(p)
  <2>1. UNCHANGED <<queued, delivered, flushed>>
    BY <1>8 DEF Request, Skip, Grant, Keeps, vars, host, RdIdle, RdFlush, RdKeeps, Holdoff,
                AckReceived, AckLost, StrayAck, AckKeeps, FrameLost, HostKeeps
  <2> QED BY <1>2, <2>1, Stutters
<1> QED BY <1>3, <1>5, <1>6, <1>7, <1>8 DEF Next, Scheduler

\* Frames of a connection are delivered once and in order, and flushed when the
\* host has them, over a line of any length that may lose everything.
THEOREM LinkImplemented == Spec => ImplementsLink
<1>1. Init => Link!Init
  BY DEF Init, Link!Init, Connection
<1> QED BY <1>1, Invariance, LinkStep, PTL DEF Spec, ImplementsLink, Link!Spec

=============================================================================
