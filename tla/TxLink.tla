------------------------------- MODULE TxLink -------------------------------
(***************************************************************************)
(* The transmit scheduler of the MAC (txport1.vhd, SubFSMtxscheduler and   *)
(* SubCmdInterface): round robin over the ports, the command latch,        *)
(* sequence numbers and holdoff timers, with the command controller that   *)
(* hands acknowledgements to it (cmdctrl.vhd, command 4) and a host that   *)
(* acknowledges, over a line that loses frames in both directions.         *)
(*                                                                         *)
(* An action is a clock of one process; the processes meet in registers    *)
(* that one of them writes.  Ports are enabled throughout (TxPort models   *)
(* the enable); their reader is the three states the scheduler tests.      *)
(* Frames of a port are numbered from 1: `queued', `delivered' and         *)
(* `flushed' are the last of each.                                         *)
(* Definitions named ..._bug are mutated forms of the one that follows.    *)
(***************************************************************************)
EXTENDS Integers, Sequences

CONSTANTS
  NPORTS,     \* txport1_NPORTS (2)
  SEQ,        \* sequence numbers count modulo SEQ (2^32)
  Ident,      \* Ident[s]: what a frame carries of sequence number s (IP_IDENT, 16 bits)
  Levels,     \* settings of [ack, timer] per port that the command controller may have made
  Stray,      \* port addresses of acknowledgements that no frame asked for
  LINE,       \* bound: frames or acknowledgements on the line
  MaxFrames   \* bound: frames queued at a port

Ports == 1 .. NPORTS
Seqnums == 0 .. SEQ - 1
\* An unsigned number wraps.
Succ(s) == IF s = SEQ - 1 THEN 0 ELSE s + 1
PortAddrs == 0 .. 15

ASSUME LinkAssumption ==
  /\ NPORTS \in 1 .. 15 /\ SEQ \in Nat \ {0, 1}
  /\ \A s \in Seqnums : Ident[s] # Ident[Succ(s)]
  /\ Stray \subseteq PortAddrs
  /\ Levels \subseteq [Ports -> [ack : BOOLEAN, timer : BOOLEAN]]
  /\ LINE \in Nat \ {0} /\ MaxFrames \in Nat

VARIABLES
  FSMtxscheduler, txpointer,    \* the scheduler and the port it looks at
  FSMtxportrd,                  \* readers: S1 no frame, S2 frame on offer, S3 flush
  ackenable, timerenable,       \* levels set by the command controller
  txseqnum, txtimer,            \* per port: sequence number, holdoff in progress
  cmdackreceived, cmdackportaddr, cmdackseqnum,  \* the command latch
  line, acks,                   \* frames to the host, acknowledgements to the MAC
  expected,                     \* host: the next sequence number of a port
  queued, delivered, flushed,
  passed                        \* history: grants to others while a port was ready,
                                \* since the scheduler last looked at it

cmdack == <<cmdackreceived, cmdackportaddr, cmdackseqnum>>
sched  == <<FSMtxscheduler, txpointer, passed>>
levels == <<ackenable, timerenable>>
host   == <<expected, delivered>>
vars == <<sched, FSMtxportrd, levels, txseqnum, txtimer, cmdack, line, acks,
          host, queued, flushed>>

Frames == [id : Nat, ident : {Ident[s] : s \in Seqnums}]
Acks   == [port : Ports, seqnum : Seqnums, id : Nat]

Init ==
  /\ FSMtxscheduler = "S1" /\ txpointer = 1
  /\ FSMtxportrd = [p \in Ports |-> "S1"]
  /\ \E level \in Levels : /\ ackenable = [p \in Ports |-> level[p].ack]
                          /\ timerenable = [p \in Ports |-> level[p].timer]
  /\ txseqnum = [p \in Ports |-> 0] /\ txtimer = [p \in Ports |-> FALSE]
  /\ cmdackreceived = FALSE /\ cmdackportaddr = 0 /\ cmdackseqnum = 0
  /\ line = [p \in Ports |-> <<>>] /\ acks = <<>>
  /\ expected = [p \in Ports |-> 0]
  /\ queued = [p \in Ports |-> 0] /\ delivered = [p \in Ports |-> 0]
  /\ flushed = [p \in Ports |-> 0]
  /\ passed = [p \in Ports |-> 0]

-----------------------------------------------------------------------------
(* A port: its client and SubFSMtxportrd. *)

Load(p) ==
  /\ queued[p] < MaxFrames
  /\ queued' = [queued EXCEPT ![p] = @ + 1]
  /\ UNCHANGED <<sched, FSMtxportrd, levels, txseqnum, txtimer, cmdack, line,
                 acks, host, flushed>>

RdKeeps == <<sched, levels, txseqnum, txtimer, cmdack, line, acks, host,
             queued, flushed>>

RdIdle(p) ==
  /\ FSMtxportrd[p] = "S1" /\ flushed[p] < queued[p]
  /\ FSMtxportrd' = [FSMtxportrd EXCEPT ![p] = "S2"]
  /\ UNCHANGED RdKeeps

RdFlush(p) ==
  /\ FSMtxportrd[p] = "S3"
  /\ FSMtxportrd' = [FSMtxportrd EXCEPT ![p] = "S1"]
  /\ UNCHANGED RdKeeps

\* frame_flush with txseqnum_inc.
FlushFrame(p) ==
  /\ FSMtxportrd' = [FSMtxportrd EXCEPT ![p] = "S3"]
  /\ txseqnum' = [txseqnum EXCEPT ![p] = Succ(@)]
  /\ flushed' = [flushed EXCEPT ![p] = @ + 1]

-----------------------------------------------------------------------------
(* The scheduler. *)

NextPort_late_bug(p) == IF p > NPORTS THEN 1 ELSE p + 1

NextPort(p) == IF p >= NPORTS THEN 1 ELSE p + 1
Ready(p) == FSMtxportrd[p] = "S2" /\ ~txtimer[p]

Aligned_any_bug(p) ==
  /\ cmdackreceived /\ cmdackportaddr = p
  /\ ackenable[p] /\ FSMtxportrd[p] = "S2"

\* A latched acknowledgement of port p that matches the frame on offer.
Aligned(p) ==
  /\ cmdackreceived /\ cmdackportaddr = p
  /\ ackenable[p] /\ FSMtxportrd[p] = "S2"
  /\ txseqnum[p] = cmdackseqnum

Command_anytime_bug ==
  /\ FSMtxscheduler # "S1_0" /\ (cmdackreceived \/ FSMtxscheduler = "S1")
  /\ FSMtxscheduler' = IF FSMtxscheduler = "S1" THEN "S1_0" ELSE FSMtxscheduler
  /\ cmdackreceived' = (cmdackreceived /\ cmdackportaddr \notin Ports)
  /\ \/ \E p \in Ports :
          /\ Aligned(p)
          /\ FlushFrame(p)
          /\ txtimer' = [txtimer EXCEPT ![p] = FALSE]
     \/ /\ \A p \in Ports : ~Aligned(p)
        /\ UNCHANGED <<FSMtxportrd, txseqnum, flushed, txtimer>>
  /\ UNCHANGED <<txpointer, passed, levels, cmdackportaddr, cmdackseqnum, line,
                 acks, host, queued>>

Command_keep_bug ==
  /\ FSMtxscheduler = "S1"
  /\ FSMtxscheduler' = "S1_0"
  /\ \/ \E p \in Ports :
          /\ Aligned(p)
          /\ FlushFrame(p)
          /\ cmdackreceived' = FALSE
          /\ txtimer' = [txtimer EXCEPT ![p] = FALSE]
     \/ /\ \A p \in Ports : ~Aligned(p)
        /\ UNCHANGED <<cmdackreceived, FSMtxportrd, txseqnum, flushed, txtimer>>
  /\ UNCHANGED <<txpointer, passed, levels, cmdackportaddr, cmdackseqnum, line,
                 acks, host, queued>>

\* S1: the latched command is carried out, or dropped when it matches no frame.
Command ==
  /\ FSMtxscheduler = "S1"
  /\ FSMtxscheduler' = "S1_0"
  /\ cmdackreceived' = (cmdackreceived /\ cmdackportaddr \notin Ports)
  /\ \/ \E p \in Ports :
          /\ Aligned(p)
          /\ FlushFrame(p)
          /\ txtimer' = [txtimer EXCEPT ![p] = FALSE]
     \/ /\ \A p \in Ports : ~Aligned(p)
        /\ UNCHANGED <<FSMtxportrd, txseqnum, flushed, txtimer>>
  /\ UNCHANGED <<txpointer, passed, levels, cmdackportaddr, cmdackseqnum, line,
                 acks, host, queued>>

Keeps == <<levels, cmdack, acks, host, queued>>

\* S1_0: the frame of port txpointer is offered to txframe ...
Request ==
  /\ FSMtxscheduler = "S1_0" /\ Ready(txpointer)
  /\ FSMtxscheduler' = "S1_1"
  /\ passed' = [p \in Ports |-> IF p # txpointer /\ Ready(p) THEN passed[p] + 1 ELSE 0]
  /\ UNCHANGED <<txpointer, FSMtxportrd, txseqnum, txtimer, line, flushed, Keeps>>

\* ... or the next port is looked at.
Skip ==
  /\ FSMtxscheduler = "S1_0" /\ ~Ready(txpointer)
  /\ FSMtxscheduler' = "S1" /\ txpointer' = NextPort(txpointer)
  /\ passed' = [passed EXCEPT ![txpointer] = 0]
  /\ UNCHANGED <<FSMtxportrd, txseqnum, txtimer, line, flushed, Keeps>>

\* S1_1: txportreqok.
Grant ==
  /\ FSMtxscheduler = "S1_1"
  /\ FSMtxscheduler' = "S2"
  /\ UNCHANGED <<txpointer, passed, FSMtxportrd, txseqnum, txtimer, line, flushed, Keeps>>

\* txframe puts the frame on the line; a full line loses it.
Transmit(p) ==
  LET frame == [id |-> flushed[p] + 1, ident |-> Ident[txseqnum[p]]]
  IN  line' = IF Len(line[p]) < LINE /\ ackenable[p]
                THEN [line EXCEPT ![p] = Append(@, frame)] ELSE line

Done_first_bug ==
  /\ FSMtxscheduler = "S2"
  /\ FSMtxscheduler' = "S1" /\ txpointer' = 1
  /\ Transmit(txpointer)
  /\ txtimer' = [txtimer EXCEPT ![txpointer] = timerenable[txpointer]]
  /\ IF ackenable[txpointer]
       THEN UNCHANGED <<FSMtxportrd, txseqnum, flushed>>
       ELSE FlushFrame(txpointer)
  /\ UNCHANGED <<passed, Keeps>>

\* S2: txdone.  The holdoff starts; in datagram mode the frame is flushed.
Done ==
  /\ FSMtxscheduler = "S2"
  /\ FSMtxscheduler' = "S1" /\ txpointer' = NextPort(txpointer)
  /\ Transmit(txpointer)
  /\ txtimer' = [txtimer EXCEPT ![txpointer] = timerenable[txpointer]]
  /\ IF ackenable[txpointer]
       THEN UNCHANGED <<FSMtxportrd, txseqnum, flushed>>
       ELSE FlushFrame(txpointer)
  /\ UNCHANGED <<passed, Keeps>>

Scheduler == Command \/ Request \/ Skip \/ Grant \/ Done

\* A holdoff ends: the port may send again.
Holdoff(p) ==
  /\ txtimer[p]
  /\ txtimer' = [txtimer EXCEPT ![p] = FALSE]
  /\ UNCHANGED <<sched, FSMtxportrd, txseqnum, line, flushed, Keeps>>

-----------------------------------------------------------------------------
(* Acknowledgements: SubCmdInterface latches one, others are dropped while *)
(* it waits for the scheduler.                                             *)

Latch(port, seqnum) ==
  IF cmdackreceived
    THEN UNCHANGED cmdack
    ELSE /\ cmdackreceived' = TRUE
         /\ cmdackportaddr' = port /\ cmdackseqnum' = seqnum

AckKeeps == <<sched, FSMtxportrd, levels, txseqnum, txtimer, line, host, queued,
              flushed>>

AckReceived ==
  /\ acks # <<>>
  /\ acks' = Tail(acks)
  /\ Latch(Head(acks).port, Head(acks).seqnum)
  /\ UNCHANGED AckKeeps

\* The command controller has no room for its echo, or the line has lost it.
AckLost ==
  /\ acks # <<>>
  /\ acks' = Tail(acks)
  /\ UNCHANGED <<cmdack, AckKeeps>>

\* The command controller applies command 4 to any port address and from any
\* sender.  Nobody but the host acknowledges a frame of a connection.
StrayAck ==
  /\ \E port \in Stray, seqnum \in Seqnums :
       /\ port \in Ports => ~ackenable[port]
       /\ Latch(port, seqnum)
  /\ UNCHANGED <<acks, AckKeeps>>

-----------------------------------------------------------------------------
(* The host delivers the frame it expects and acknowledges the last one it *)
(* has delivered, whenever it receives a frame.                            *)

HostKeeps == <<sched, FSMtxportrd, levels, txseqnum, txtimer, cmdack, queued, flushed>>

Acknowledge(p, seqnum, id) ==
  acks' = IF Len(acks) < LINE THEN Append(acks, [port |-> p, seqnum |-> seqnum, id |-> id])
          ELSE acks

HostReceives(p) ==
  /\ line[p] # <<>>
  /\ line' = [line EXCEPT ![p] = Tail(@)]
  /\ LET frame == Head(line[p])
     IN  IF frame.ident = Ident[expected[p]]
           THEN /\ expected' = [expected EXCEPT ![p] = Succ(@)]
                /\ delivered' = [delivered EXCEPT ![p] = frame.id]
                /\ Acknowledge(p, expected[p], frame.id)
           ELSE /\ \E s \in Seqnums : Succ(s) = expected[p] /\ Acknowledge(p, s, delivered[p])
                /\ UNCHANGED host
  /\ UNCHANGED HostKeeps

FrameLost(p) ==
  /\ line[p] # <<>>
  /\ line' = [line EXCEPT ![p] = Tail(@)]
  /\ UNCHANGED <<acks, host, HostKeeps>>

-----------------------------------------------------------------------------

Next ==
  \/ Scheduler
  \/ \E p \in Ports : Load(p) \/ RdIdle(p) \/ RdFlush(p) \/ Holdoff(p)
  \/ AckReceived \/ AckLost \/ StrayAck
  \/ \E p \in Ports : HostReceives(p) \/ FrameLost(p)

Spec == Init /\ [][Next]_vars

\* The clock runs, txframe serves every request, holdoffs end.  The line loses
\* frames and acknowledgements, but not all: of a port's frames sent again and
\* again one reaches the host, and while the latch is free again and again one of
\* its acknowledgements finds it so.
AckLatched(p) == acks # <<>> /\ Head(acks).port = p /\ ~cmdackreceived /\ AckReceived

FairSpec ==
  /\ Spec
  /\ WF_vars(Scheduler)
  /\ \A p \in Ports :
       /\ WF_vars(RdIdle(p) \/ RdFlush(p)) /\ WF_vars(Holdoff(p))
       /\ SF_vars(HostReceives(p))
       /\ []<><<HostReceives(p)>>_vars /\ []<>~cmdackreceived
            => []<><<AckLatched(p)>>_vars

-----------------------------------------------------------------------------
(* Properties. *)

TypeOK ==
  /\ FSMtxscheduler \in {"S1", "S1_0", "S1_1", "S2"} /\ txpointer \in Ports
  /\ FSMtxportrd \in [Ports -> {"S1", "S2", "S3"}]
  /\ ackenable \in [Ports -> BOOLEAN] /\ timerenable \in [Ports -> BOOLEAN]
  /\ txseqnum \in [Ports -> Seqnums] /\ txtimer \in [Ports -> BOOLEAN]
  /\ cmdackreceived \in BOOLEAN /\ cmdackportaddr \in PortAddrs /\ cmdackseqnum \in Seqnums
  /\ line \in [Ports -> Seq(Frames)] /\ acks \in Seq(Acks)
  /\ expected \in [Ports -> Seqnums]
  /\ queued \in [Ports -> Nat] /\ delivered \in [Ports -> Nat] /\ flushed \in [Ports -> Nat]
  /\ passed \in [Ports -> Nat]

\* Whatever is lost, late or repeated: a port in connection mode delivers its
\* frames once and in order, and never flushes one the host does not have.
Connection(f) == [p \in Ports |-> IF ackenable[p] THEN f[p] ELSE 0]
Link == INSTANCE ReliableLink WITH
  queued <- Connection(queued), delivered <- Connection(delivered),
  flushed <- Connection(flushed)
ImplementsLink == Link!Spec

\* The scheduler never holds a port without a frame: no acknowledgement takes
\* a frame away between its request and its txdone.
HoldsFrame ==
  FSMtxscheduler \in {"S1_1", "S2"} => FSMtxportrd[txpointer] = "S2"

\* A port that is ready is passed over by at most one grant of each other port.
RoundRobin == \A p \in Ports : passed[p] < NPORTS

\* Every frame queued is sent, in connection mode until the host has it, and flushed.
AllFlushed == \A p \in Ports : []<>(flushed[p] = queued[p])

\* txport1.vhd:1067 says of the latched commands that the scheduler resets them.
LatchReleased == cmdackreceived ~> ~cmdackreceived

=============================================================================
