------------------------------- MODULE TxPort -------------------------------
(***************************************************************************)
(* One transmit port of the MAC (ethlink/mac/txport1.vhd).                 *)
(*                                                                         *)
(* Two clock domains share it.  On wclk the client loads a frame word by   *)
(* word into a dual-port memory and queues it (FSMtxportwr); on clk2 the   *)
(* scheduler offers the oldest frame to txframe and the frame is then      *)
(* flushed, its length going back to the writer to free memory, or         *)
(* discarded (FSMtxportrd).  The domains meet only in two dual-clock FIFOs *)
(* and in level handshakes through chains of synchroniser registers.       *)
(*                                                                         *)
(* Each FSM procedure of the code is a set of actions.  The procedures of  *)
(* one clock edge are interleaved: none of them reads a register that an   *)
(* earlier one in the order scheduler, FSMtxportrd, FSMtxportrdena,        *)
(* synchronisers has written, so a common edge equals those steps in turn. *)
(* The scheduler is seen from this port: "idle" is any time it spends in   *)
(* S1/S1_0, on other ports or waiting for the holdoff timer.               *)
(***************************************************************************)
EXTENDS DcFifo, Integers

CONSTANTS
  BUFLEN,    \* bytes of txdatabuf (4096)
  SLOTLEN,   \* frame slot limit (2048)
  WBYTES,    \* bytes per write, txport1_WDATA_WIDTH / 8 (1 or 8)
  SYNC,      \* registers of a synchroniser (3)
  AckMode,   \* ackenable: frames stay until acknowledged
  MaxBytes   \* bound: bytes written between two cleanups

ASSUME TxPortAssumption ==
  /\ BUFLEN \in Nat \ {0}
  /\ SLOTLEN \in Nat \ {0}
  /\ WBYTES \in Nat \ {0}
  /\ SYNC \in Nat \ {0}
  /\ AckMode \in BOOLEAN
  /\ MaxBytes \in Nat

VARIABLES
  wena, enable,                         \* the two enable inputs (levels)
  FSMtxportwr, txportena,               \* wclk: write FSM, enable command
  baseptr, datalen, freelen,            \* wclk: memory bookkeeping
  FSMtxportrd, txportenaret,            \* clk2: read FSM, enable return
  FSMtxportrdena, txportrdena,          \* clk2: read-side enable request
  FSMtxscheduler,                       \* clk2: scheduler, as seen from here
  enaSync, enaretSync,                  \* chains of the enable command / return
  rdenaSync, rdenaretSync,              \* chains of the enable request / return
  txparamfifo, txbackfifo,              \* frames queued, lengths to free
  txdatabuf,                            \* the dual-port memory
  wpos, fpos, sent                      \* history: bytes queued, bytes freed,
                                        \* payload of the last transmission

inputVars == <<wena, enable>>
wrVars    == <<FSMtxportwr, txportena, baseptr, datalen, freelen>>
rdVars    == <<FSMtxportrd, txportenaret>>
rdenaVars == <<FSMtxportrdena, txportrdena>>
syncVars  == <<enaSync, enaretSync, rdenaSync, rdenaretSync>>
memVars   == <<txparamfifo, txbackfifo, txdatabuf>>
histVars  == <<wpos, fpos, sent>>
vars == <<inputVars, wrVars, rdVars, rdenaVars, FSMtxscheduler, syncVars,
          memVars, histVars>>

-----------------------------------------------------------------------------
(* Definitions named ..._bug are mutated forms of the definition that      *)
(* follows them, for checking that the properties notice.                  *)
(*                                                                         *)
(* Data.  A byte of memory holds its stream position, so that a byte that  *)
(* was overwritten can be told from the one that was stored.               *)

Addr  == 0 .. BUFLEN - 1
Frame == [base : Nat, len : Nat, pos : Nat]  \* pos: history, base without wrap

\* A chain of synchroniser registers: register 1 samples the other domain, and
\* the receiving logic reads register SYNC.
Low(n) == [k \in 1 .. n |-> FALSE]
Shift(c, level) == [k \in DOMAIN c |-> IF k = 1 THEN level ELSE c[k - 1]]
Out(c) == c[SYNC]

\* The bytes the read side fetches for frame f, and the bytes stored for it.
Fetched(f) == [k \in 1 .. f.len |-> txdatabuf[(f.base + k - 1) % BUFLEN]]
Payload(f) == [k \in 1 .. f.len |-> f.pos + k - 1]

DataFull_space_bug == datalen + WBYTES >= SLOTLEN

\* txdatabufwrfull: no room for one more word, in the slot or in the memory.
DataFull == datalen + WBYTES >= SLOTLEN \/ datalen + WBYTES > freelen

\* Memory after one word is written behind the datalen bytes already loaded.
Offset(a) == (a - (baseptr + datalen)) % BUFLEN
Stored == [a \in Addr |-> IF Offset(a) < WBYTES THEN wpos + datalen + Offset(a)
                                                ELSE txdatabuf[a]]

-----------------------------------------------------------------------------
Init ==
  /\ wena \in BOOLEAN /\ enable \in BOOLEAN
  /\ FSMtxportwr = "S0" /\ txportena = FALSE
  /\ baseptr = 0 /\ datalen = 0 /\ freelen = 0
  /\ FSMtxportrd = "S0" /\ txportenaret = FALSE
  /\ FSMtxportrdena = "S0" /\ txportrdena = FALSE
  /\ FSMtxscheduler = "idle"
  /\ enaSync = Low(SYNC) /\ enaretSync = Low(SYNC)
  /\ rdenaSync = Low(SYNC + 1) /\ rdenaretSync = Low(SYNC)
  /\ txparamfifo = EmptyFifo /\ txbackfifo = EmptyFifo
  /\ txdatabuf = [a \in Addr |-> 0]
  /\ wpos = 0 /\ fpos = 0 /\ sent = <<>>

SetInputs ==
  /\ wena' \in BOOLEAN /\ enable' \in BOOLEAN
  /\ UNCHANGED <<wrVars, rdVars, rdenaVars, FSMtxscheduler, syncVars, memVars,
                 histVars>>

-----------------------------------------------------------------------------
(* wclk domain: SubFSMtxportwr.  Every step ends with the de-allocation    *)
(* logic, which is always on: a length found in txbackfifo is added to the *)
(* value the step computed for freelen, a (12+1)-bit register.             *)

Width13(n) == n % (2 * BUFLEN)
Width12_wide_bug(n) == n % (2 * BUFLEN)
\* baseptr is an address of the memory and wraps at its end.
Width12(n) == n % BUFLEN

Release(free, freed) ==
  IF RdEmpty(txbackfifo)
  THEN /\ freelen' = free /\ fpos' = freed
       /\ UNCHANGED txbackfifo
  ELSE /\ freelen' = Width13(free + Head(txbackfifo.q).len)
       /\ fpos' = freed + Head(txbackfifo.q).len
       /\ txbackfifo' = Pop(txbackfifo)

wrFrame == <<inputVars, rdVars, rdenaVars, FSMtxscheduler, syncVars, sent>>

WrReset ==
  /\ FSMtxportwr = "S0"
  /\ FSMtxportwr' = "S1"
  /\ Release(freelen, fpos)
  /\ UNCHANGED <<txportena, baseptr, datalen, txparamfifo, txdatabuf, wpos, wrFrame>>

\* S1: not enabled.  The port is taken as empty and the books are reset.
WrInit ==
  /\ FSMtxportwr = "S1"
  /\ txportena' = (wena /\ Out(rdenaSync))
  /\ FSMtxportwr' = IF txportena' THEN "S1_1" ELSE "S1"
  /\ datalen' = 0 /\ baseptr' = 0 /\ wpos' = 0
  /\ Release(BUFLEN, 0)
  /\ UNCHANGED <<txparamfifo, txdatabuf, wrFrame>>

WrEnable_blind_bug ==
  /\ FSMtxportwr = "S1_1"
  /\ txportena' = TRUE /\ FSMtxportwr' = "S2_0"
  /\ Release(freelen, fpos)
  /\ UNCHANGED <<baseptr, datalen, txparamfifo, txdatabuf, wpos, wrFrame>>

\* S1_1: wait until the enable command has made its round trip.
WrEnable ==
  /\ FSMtxportwr = "S1_1"
  /\ txportena' = TRUE
  /\ FSMtxportwr' = IF Out(enaretSync) THEN "S2_0" ELSE "S1_1"
  /\ Release(freelen, fpos)
  /\ UNCHANGED <<baseptr, datalen, txparamfifo, txdatabuf, wpos, wrFrame>>

Enabled == wena /\ Out(rdenaSync)

\* S2_0 with an enable gone: write operations stop.
WrStop ==
  /\ FSMtxportwr = "S2_0" /\ ~Enabled
  /\ FSMtxportwr' = "S2_1"
  /\ Release(freelen, fpos)
  /\ UNCHANGED <<txportena, baseptr, datalen, txparamfifo, txdatabuf, wpos, wrFrame>>

\* S2_0 with txparamfifo full: not ready, requests ignored.
WrBusy ==
  /\ FSMtxportwr = "S2_0" /\ Enabled /\ WrFull(txparamfifo)
  /\ Release(freelen, fpos)
  /\ UNCHANGED <<FSMtxportwr, txportena, baseptr, datalen, txparamfifo, txdatabuf,
                 wpos, wrFrame>>

\* S2_0 ready: wreq stores a word unless the memory is full; wtxclr drops the
\* frame loaded so far; wtxreq queues it, the word of this clock included.
WrRun(wreq, wtxclr, wtxreq) ==
  LET write == wreq /\ ~DataFull
      len   == IF write THEN datalen + WBYTES ELSE datalen
      queue == wtxreq /\ ~wtxclr
      frame == [base |-> baseptr, len |-> len, pos |-> wpos]
  IN
  /\ FSMtxportwr = "S2_0" /\ Enabled /\ ~WrFull(txparamfifo)
  /\ wpos + len <= MaxBytes
  /\ txdatabuf' = IF write THEN Stored ELSE txdatabuf
  /\ datalen' = IF wtxclr \/ queue THEN 0 ELSE len
  /\ IF queue
     THEN /\ txparamfifo' = Push(txparamfifo, frame)
          /\ baseptr' = Width12(baseptr + len)
          /\ wpos' = wpos + len
          /\ Release(Width13(freelen - len), fpos)
     ELSE /\ Release(freelen, fpos)
          /\ UNCHANGED <<txparamfifo, baseptr, wpos>>
  /\ UNCHANGED <<FSMtxportwr, txportena, wrFrame>>

WrFlush_early_bug ==
  /\ FSMtxportwr = "S2_1"
  /\ txportena' = FALSE /\ FSMtxportwr' = "S2_2"
  /\ Release(freelen, fpos)
  /\ UNCHANGED <<baseptr, datalen, txparamfifo, txdatabuf, wpos, wrFrame>>

\* S2_1: while the read side is enabled every queued frame is still sent.
WrFlush ==
  LET sending == Out(rdenaSync) /\ ~WrEmpty(txparamfifo)
  IN
  /\ FSMtxportwr = "S2_1"
  /\ txportena' = (sending /\ txportena)
  /\ FSMtxportwr' = IF sending THEN "S2_1" ELSE "S2_2"
  /\ Release(freelen, fpos)
  /\ UNCHANGED <<baseptr, datalen, txparamfifo, txdatabuf, wpos, wrFrame>>

\* S2_2: restart once the disable has made its round trip and both FIFOs are
\* empty as the write side sees them.
WrDisable ==
  /\ FSMtxportwr = "S2_2"
  /\ txportena' = FALSE
  /\ FSMtxportwr' = IF /\ ~Out(enaretSync)
                       /\ RdEmpty(txbackfifo) /\ WrEmpty(txparamfifo)
                    THEN "S1" ELSE "S2_2"
  /\ Release(freelen, fpos)
  /\ UNCHANGED <<baseptr, datalen, txparamfifo, txdatabuf, wpos, wrFrame>>

WrStep == WrReset \/ WrInit \/ WrEnable \/ WrStop \/ WrBusy \/ WrFlush \/ WrDisable

-----------------------------------------------------------------------------
(* clk2 domain: SubFSMtxportrd.  S2 is left only through the scheduler.    *)

rdFrame == <<inputVars, wrVars, rdenaVars, FSMtxscheduler, syncVars, txdatabuf,
             histVars>>

RdReset ==
  /\ FSMtxportrd = "S0"
  /\ FSMtxportrd' = "S4"
  /\ UNCHANGED <<txportenaret, txparamfifo, txbackfifo, rdFrame>>

\* S1: a disabled port is cleaned up, otherwise a visible frame is offered.
RdIdle ==
  /\ FSMtxportrd = "S1"
  /\ \/ /\ ~Out(enaSync)
        /\ FSMtxportrd' = "S4"
     \/ /\ Out(enaSync) /\ ~RdEmpty(txparamfifo)
        /\ FSMtxportrd' = "S2"
  /\ UNCHANGED <<txportenaret, txparamfifo, txbackfifo, rdFrame>>

\* S3: drop the frame just sent and hand its length back to the write side.
RdFlush ==
  /\ FSMtxportrd = "S3"
  /\ \/ /\ ~RdEmpty(txparamfifo) /\ ~WrFull(txbackfifo)
        /\ txbackfifo' = Push(txbackfifo, Head(txparamfifo.q))
        /\ txparamfifo' = Pop(txparamfifo)
     \/ /\ RdEmpty(txparamfifo)
        /\ UNCHANGED <<txparamfifo, txbackfifo>>
  /\ FSMtxportrd' = "S1"
  /\ UNCHANGED <<txportenaret, rdFrame>>

RdDiscard_mute_bug ==
  /\ FSMtxportrd = "S4"
  /\ txparamfifo' = IF RdEmpty(txparamfifo) THEN txparamfifo ELSE Pop(txparamfifo)
  /\ txportenaret' = (txportenaret \/ (WrEmpty(txbackfifo) /\ Out(enaSync)))
  /\ FSMtxportrd' = IF WrEmpty(txbackfifo) /\ Out(enaSync) THEN "S1" ELSE "S4"
  /\ UNCHANGED <<txbackfifo, rdFrame>>

RdDiscard_hasty_bug ==
  /\ FSMtxportrd = "S4"
  /\ txparamfifo' = IF RdEmpty(txparamfifo) THEN txparamfifo ELSE Pop(txparamfifo)
  /\ txportenaret' = Out(enaSync)
  /\ FSMtxportrd' = IF Out(enaSync) THEN "S1" ELSE "S4"
  /\ UNCHANGED <<txbackfifo, rdFrame>>

\* S4: drop every queued frame unsent; once the write side has taken back all
\* lengths, return the enable level and leave if the port is enabled again.
RdDiscard ==
  /\ FSMtxportrd = "S4"
  /\ txparamfifo' = IF RdEmpty(txparamfifo) THEN txparamfifo ELSE Pop(txparamfifo)
  /\ txportenaret' = IF WrEmpty(txbackfifo) THEN Out(enaSync) ELSE txportenaret
  /\ FSMtxportrd' = IF WrEmpty(txbackfifo) /\ Out(enaSync) THEN "S1" ELSE "S4"
  /\ UNCHANGED <<txbackfifo, rdFrame>>

RdStep == RdReset \/ RdIdle \/ RdFlush \/ RdDiscard

-----------------------------------------------------------------------------
(* clk2 domain: SubFSMtxscheduler, for this port.                          *)

schedFrame == <<inputVars, wrVars, txportenaret, rdenaVars, syncVars, memVars,
                wpos, fpos>>

\* S1_0: the port's turn has come, its holdoff timer is off.
Request ==
  /\ FSMtxscheduler = "idle" /\ FSMtxportrd = "S2"
  /\ FSMtxscheduler' = "S1_1"
  /\ UNCHANGED <<FSMtxportrd, sent, schedFrame>>

\* S1_1: txframe takes the frame (txportreqok).
Grant ==
  /\ FSMtxscheduler = "S1_1"
  /\ FSMtxscheduler' = "S2"
  /\ UNCHANGED <<FSMtxportrd, sent, schedFrame>>

\* The code's other way out of S1_1, frame_discard on ~Out(enaSync), is never
\* taken (NothingDiscarded): it would lead to S4, the port disabled.

Done_keep_bug ==
  /\ FSMtxscheduler = "S2"
  /\ FSMtxscheduler' = "idle"
  /\ sent' = Fetched(Head(txparamfifo.q))
  /\ UNCHANGED <<FSMtxportrd, schedFrame>>

\* S2: txframe has sent the frame (txdone); frame_flush in datagram mode.
Done ==
  /\ FSMtxscheduler = "S2"
  /\ FSMtxscheduler' = "idle"
  /\ sent' = Fetched(Head(txparamfifo.q))
  /\ FSMtxportrd' = IF AckMode THEN FSMtxportrd ELSE "S3"
  /\ UNCHANGED schedFrame

\* S1: an acknowledgement with the current sequence number: frame_flush.
AckFlush ==
  /\ AckMode
  /\ FSMtxscheduler = "idle" /\ FSMtxportrd = "S2" /\ Out(enaSync)
  /\ FSMtxportrd' = "S3"
  /\ UNCHANGED <<FSMtxscheduler, sent, schedFrame>>

-----------------------------------------------------------------------------
(* clk2 domain: SubFSMtxportrdena.  Both states drive the request to 1.    *)

RdenaStep ==
  /\ FSMtxportrdena' =
       CASE FSMtxportrdena = "S0" -> "S1_0"
         [] FSMtxportrdena = "S1_0" ->
              IF ~Out(rdenaretSync) /\ enable THEN "S1_1" ELSE "S1_0"
         [] FSMtxportrdena = "S1_1" ->
              IF Out(rdenaretSync) /\ ~enable THEN "S1_0" ELSE "S1_1"
  /\ txportrdena' = (txportrdena \/ FSMtxportrdena # "S0")
  /\ UNCHANGED <<inputVars, wrVars, rdVars, FSMtxscheduler, syncVars, memVars,
                 histVars>>

-----------------------------------------------------------------------------
(* SubCrossingClocks and the pointer synchronisers inside the FIFOs.       *)

syncFrame == <<inputVars, wrVars, rdVars, rdenaVars, FSMtxscheduler, txdatabuf,
               histVars>>

SyncToWclk ==
  /\ enaretSync' = Shift(enaretSync, txportenaret)
  /\ rdenaSync' = Shift(rdenaSync, txportrdena)
  /\ UNCHANGED <<enaSync, rdenaretSync, txparamfifo, txbackfifo, syncFrame>>

SyncToClk2 ==
  /\ enaSync' = Shift(enaSync, txportena)
  /\ rdenaretSync' = Shift(rdenaretSync, rdenaSync[SYNC + 1])
  /\ UNCHANGED <<enaretSync, rdenaSync, txparamfifo, txbackfifo, syncFrame>>

ParamFifoSync ==
  /\ \/ txparamfifo.hid > 0 /\ txparamfifo' = Reveal(txparamfifo)
     \/ txparamfifo.stale > 0 /\ txparamfifo' = Reclaim(txparamfifo)
  /\ UNCHANGED <<syncVars, txbackfifo, syncFrame>>

BackFifoSync ==
  /\ \/ txbackfifo.hid > 0 /\ txbackfifo' = Reveal(txbackfifo)
     \/ txbackfifo.stale > 0 /\ txbackfifo' = Reclaim(txbackfifo)
  /\ UNCHANGED <<syncVars, txparamfifo, syncFrame>>

-----------------------------------------------------------------------------
Next ==
  \/ SetInputs
  \/ WrStep
  \/ \E wreq, wtxclr, wtxreq \in BOOLEAN : WrRun(wreq, wtxclr, wtxreq)
  \/ RdStep \/ RdenaStep
  \/ Request \/ Grant \/ Done \/ AckFlush
  \/ SyncToWclk \/ SyncToClk2 \/ ParamFifoSync \/ BackFifoSync

Spec == Init /\ [][Next]_vars

\* Both clocks run for ever, pointers cross, the round robin reaches the port,
\* and txframe, whose enable input is tied to '1', takes and ends every frame.
Fairness ==
  /\ WF_vars(WrStep) /\ WF_vars(RdStep) /\ WF_vars(RdenaStep)
  /\ WF_vars(Request) /\ WF_vars(Grant) /\ WF_vars(Done)
  /\ WF_vars(SyncToWclk) /\ WF_vars(SyncToClk2)
  /\ WF_vars(ParamFifoSync) /\ WF_vars(BackFifoSync)

FairSpec == Spec /\ Fairness

-----------------------------------------------------------------------------
(* Properties. *)

TypeOK ==
  /\ wena \in BOOLEAN /\ enable \in BOOLEAN
  /\ FSMtxportwr \in {"S0", "S1", "S1_1", "S2_0", "S2_1", "S2_2"}
  /\ FSMtxportrd \in {"S0", "S1", "S2", "S3", "S4"}
  /\ FSMtxportrdena \in {"S0", "S1_0", "S1_1"}
  /\ FSMtxscheduler \in {"idle", "S1_1", "S2"}
  /\ txportena \in BOOLEAN /\ txportenaret \in BOOLEAN /\ txportrdena \in BOOLEAN
  /\ enaSync \in [1 .. SYNC -> BOOLEAN] /\ enaretSync \in [1 .. SYNC -> BOOLEAN]
  /\ rdenaSync \in [1 .. SYNC + 1 -> BOOLEAN]
  /\ rdenaretSync \in [1 .. SYNC -> BOOLEAN]
  /\ baseptr \in Addr /\ datalen \in 0 .. SLOTLEN - 1 /\ freelen \in 0 .. 2 * BUFLEN - 1
  /\ txparamfifo \in Fifo(Frame) /\ txbackfifo \in Fifo(Frame)
  /\ txdatabuf \in [Addr -> Nat]
  /\ wpos \in Nat /\ fpos \in Nat

Running == FSMtxportwr \in {"S1_1", "S2_0", "S2_1"}

\* While a port is enabled, the bytes of memory not free are exactly those of
\* the frames queued or not yet handed back, and the frame being loaded fits:
\* an 11-bit length that was lost, doubled or wrapped in its trip through the
\* two FIFOs would break the sum for good.
SpaceAccounting ==
  Running => /\ freelen = BUFLEN - (wpos - fpos)
             /\ datalen <= freelen

\* A queued frame keeps every byte that was stored for it until it is flushed,
\* although the writer reuses the memory in a circle behind it.
FramesIntact ==
  \A i \in 1 .. Len(txparamfifo.q) :
    Running => Fetched(txparamfifo.q[i]) = Payload(txparamfifo.q[i])

\* When the writer restarts from an empty memory nothing of the previous run
\* is left in either FIFO, seen or unseen.
CleanRestart ==
  FSMtxportwr \in {"S0", "S1"} => txparamfifo.q = <<>> /\ txbackfifo.q = <<>>

\* The states that offer or flush a frame always find one ("this condition
\* should never appear", FSMtxportrd S3), and the scheduler only holds a port
\* whose frame is on offer.
FrameOnOffer ==
  /\ FSMtxportrd \in {"S2", "S3"} => ~RdEmpty(txparamfifo)
  /\ FSMtxscheduler # "idle" => FSMtxportrd = "S2"

\* The write side stays off while the read side may still be discarding: it
\* runs only when the read side has seen this enable.
NoRunDuringDiscard ==
  FSMtxportwr = "S2_0" => FSMtxportrd # "S4" /\ Out(enaSync)

\* A port that is disabled sends every queued frame first: the discard state
\* finds none, and the scheduler's frame is never withdrawn before txframe
\* takes it.  The code that discards (FSMtxportrd S4, FSMtxscheduler S1_1) is
\* dead while the read-side request is a constant.
NothingDiscarded ==
  /\ FSMtxportrd = "S4" => txparamfifo.q = <<>>
  /\ FSMtxscheduler = "S1_1" => Out(enaSync)

\* A client that withdraws wena for good gets every frame out and the port
\* shut down and reset.
DisableCompletes == (<>[]~wena) => <>[](FSMtxportwr = "S1" /\ ~txportena)

\* A client that keeps wena asserted gets a port that runs again.
EnableCompletes == (<>[]wena) => <>[](FSMtxportwr = "S2_0")

-----------------------------------------------------------------------------
(* Refinement.  A frame being flushed (S3) has already left the queue.     *)

Strip(f) == [pos |-> f.pos, len |-> f.len]
Unsent == IF FSMtxportrd = "S3" THEN Tail(txparamfifo.q) ELSE txparamfifo.q

Queued == [i \in 1 .. Len(Unsent) |-> Strip(Unsent[i])]

Queue == INSTANCE TxQueue WITH queue <- Queued, next <- wpos, open <- txportena

\* The port is a queue of frames: each queued frame is sent whole and exactly
\* once, in order, and none is lost while the port is enabled.
ImplementsQueue == Queue!Spec

=============================================================================
