------------------------------- MODULE RxPort -------------------------------
(***************************************************************************)
(* One receive port of the MAC (ethlink/mac/rxport1.vhd).                  *)
(*                                                                         *)
(* On clk2 the frame receiver pushes a frame byte by byte into rxfifo and, *)
(* after its last byte, its parameters into rxparamfifo (FSMrxportwr); it  *)
(* cannot be stopped, so a frame that has no room is dropped before its    *)
(* first byte.  On rclk the client reads the bytes of the oldest frame or  *)
(* goes on to the next (FSMrxportrd).  Nothing but their lengths keeps the *)
(* two FIFOs aligned; a disabled port is flushed, with a round trip of the *)
(* enable command to make sure that it is empty.                           *)
(*                                                                         *)
(* The procedures of one clock edge are interleaved as in TxPort: none of  *)
(* them reads a register that an earlier one in the order state machines,  *)
(* synchronisers has written.                                              *)
(* Definitions named ..._bug are mutated forms of the one that follows.    *)
(***************************************************************************)
EXTENDS Integers, Sequences

CONSTANTS
  PARAMDEPTH, DATADEPTH,  \* words of rxparamfifo (16) and of rxfifo (4096)
  SYNC,                   \* registers of a synchroniser (3)
  Lens,                   \* lengths of frames
  MaxBytes                \* bound: bytes received between two flushes

ASSUME RxPortAssumption ==
  /\ PARAMDEPTH \in Nat \ {0} /\ DATADEPTH \in Nat \ {0} /\ SYNC \in Nat \ {0}
  /\ Lens \subseteq Nat /\ MaxBytes \in Nat

P == INSTANCE DcFifo WITH FIFODEPTH <- PARAMDEPTH
D == INSTANCE DcFifo WITH FIFODEPTH <- DATADEPTH

VARIABLES
  rena, enable,                             \* the two enable inputs (levels)
  FSMrxportrd, rxportena, rframe, rdatacnt, \* rclk: read FSM, frame in hand, bytes read of it
  rerrempty, rerrfull,                      \* rclk: error flags
  FSMrxportwr, rxportenaret,                \* clk2: write FSM, enable return
  wdatalen, written,                        \* clk2: frame coming in (0: none), bytes of it stored
  rxfifofull_test, err_rxportwrfull,        \* clk2
  FSMrxportwrena, rxportwrena,              \* clk2: write-side enable request
  enaSync, enaretSync,                      \* chains of the enable command / return
  wrenaSync, wrenaretSync,                  \* chains of the enable request / return
  rxparamfifo, rxfifo,
  wpos                                      \* history: bytes of the frames queued

inputVars == <<rena, enable>>
rdVars    == <<FSMrxportrd, rxportena, rframe, rdatacnt, rerrempty, rerrfull>>
wrVars    == <<FSMrxportwr, rxportenaret, wdatalen, written, rxfifofull_test,
               err_rxportwrfull, wpos>>
wrenaVars == <<FSMrxportwrena, rxportwrena>>
syncVars  == <<enaSync, enaretSync, wrenaSync, wrenaretSync>>
fifoVars  == <<rxparamfifo, rxfifo>>
vars == <<inputVars, rdVars, wrVars, wrenaVars, syncVars, fifoVars>>

\* A byte in rxfifo is its position in the stream of stored bytes.
Param == [pos : Nat, len : Nat, err : BOOLEAN]

Low(n) == [k \in 1 .. n |-> FALSE]
Shift(c, level) == [k \in DOMAIN c |-> IF k = 1 THEN level ELSE c[k - 1]]
Out(c) == c[SYNC]

Init ==
  /\ rena \in BOOLEAN /\ enable \in BOOLEAN
  /\ FSMrxportrd = "S0" /\ rxportena = FALSE
  /\ rframe = [pos |-> 0, len |-> 0, err |-> FALSE] /\ rdatacnt = 0
  /\ rerrempty = FALSE /\ rerrfull = FALSE
  /\ FSMrxportwr = "S0" /\ rxportenaret = FALSE /\ wdatalen = 0 /\ written = 0
  /\ rxfifofull_test = FALSE /\ err_rxportwrfull = FALSE
  /\ FSMrxportwrena = "S0" /\ rxportwrena = FALSE
  /\ enaSync = Low(SYNC) /\ enaretSync = Low(SYNC)
  /\ wrenaSync = Low(SYNC) /\ wrenaretSync = Low(SYNC)
  /\ rxparamfifo = P!EmptyFifo /\ rxfifo = D!EmptyFifo
  /\ wpos = 0

SetInputs ==
  /\ rena' \in BOOLEAN /\ enable' \in BOOLEAN
  /\ UNCHANGED <<rdVars, wrVars, wrenaVars, syncVars, fifoVars>>

-----------------------------------------------------------------------------
(* rclk domain: SubFSMrxportrd. *)

On == rena /\ Out(wrenaSync)

rdFrame == <<inputVars, wrVars, wrenaVars, syncVars>>

RdReset ==
  /\ FSMrxportrd = "S0"
  /\ FSMrxportrd' = "S1"
  /\ UNCHANGED <<rxportena, rframe, rdatacnt, rerrempty, rerrfull, fifoVars, rdFrame>>

\* S1: the enable command starts when both sides are enabled.
RdInit ==
  /\ FSMrxportrd = "S1"
  /\ rxportena' = On
  /\ FSMrxportrd' = IF On THEN "S1_1" ELSE "S1"
  /\ UNCHANGED <<rframe, rdatacnt, rerrempty, rerrfull, fifoVars, rdFrame>>

\* S1_1: wait for its round trip; the error flags are cleared.
RdEnable ==
  /\ FSMrxportrd = "S1_1" /\ Out(enaretSync)
  /\ FSMrxportrd' = "S1_2"
  /\ rerrempty' = FALSE /\ rerrfull' = FALSE
  /\ UNCHANGED <<rxportena, rframe, rdatacnt, fifoVars, rdFrame>>

\* S1_2: a frame is there, its parameters are fetched.
RdNext ==
  /\ FSMrxportrd = "S1_2" /\ On /\ ~P!RdEmpty(rxparamfifo)
  /\ FSMrxportrd' = "S1_3"
  /\ rframe' = Head(rxparamfifo.q)
  /\ rxparamfifo' = P!Pop(rxparamfifo)
  /\ UNCHANGED <<rxportena, rdatacnt, rerrempty, rerrfull, rxfifo, rdFrame>>

\* S1_3: the frame is offered, unless it was stored after an overflow.
RdOffer ==
  /\ FSMrxportrd = "S1_3" /\ On
  /\ rdatacnt' = 0
  /\ rerrfull' = (rerrfull \/ rframe.err)
  /\ FSMrxportrd' = IF rframe.err THEN "S2_2" ELSE "S2_0"
  /\ UNCHANGED <<rxportena, rframe, rerrempty, fifoVars, rdFrame>>

TakeByte_past_bug ==
  /\ IF D!RdEmpty(rxfifo)
     THEN /\ FSMrxportrd' = "S2_2" /\ rerrempty' = TRUE
          /\ UNCHANGED <<rxfifo, rdatacnt>>
     ELSE /\ rxfifo' = D!Pop(rxfifo) /\ rdatacnt' = rdatacnt + 1
          /\ UNCHANGED <<FSMrxportrd, rerrempty>>
  /\ UNCHANGED <<rxportena, rframe, rerrfull, rxparamfifo, rdFrame>>

\* The next byte of rxfifo, which the client reads or S2_1 drops.
TakeByte ==
  /\ rdatacnt < rframe.len
  /\ IF D!RdEmpty(rxfifo)
     THEN /\ FSMrxportrd' = "S2_2" /\ rerrempty' = TRUE
          /\ UNCHANGED <<rxfifo, rdatacnt>>
     ELSE /\ rxfifo' = D!Pop(rxfifo) /\ rdatacnt' = rdatacnt + 1
          /\ UNCHANGED <<FSMrxportrd, rerrempty>>
  /\ UNCHANGED <<rxportena, rframe, rerrfull, rxparamfifo, rdFrame>>

\* S2_0: rreq.  It is ignored behind the end of the frame.
RdRead == FSMrxportrd = "S2_0" /\ On /\ TakeByte

\* S2_0: rack, wherever the client is in the frame.
RdAck ==
  /\ FSMrxportrd = "S2_0" /\ On
  /\ FSMrxportrd' = "S2_1"
  /\ UNCHANGED <<rxportena, rframe, rdatacnt, rerrempty, rerrfull, fifoVars, rdFrame>>

RdSkip_once_bug ==
  /\ FSMrxportrd = "S2_1" /\ On
  /\ FSMrxportrd' = "S1_2"
  /\ UNCHANGED <<rxportena, rframe, rdatacnt, rerrempty, rerrfull, fifoVars, rdFrame>>

\* S2_1: the rest of the frame is dropped.
RdSkip ==
  /\ FSMrxportrd = "S2_1" /\ On
  /\ \/ TakeByte
     \/ /\ rdatacnt = rframe.len
        /\ FSMrxportrd' = "S1_2"
        /\ UNCHANGED <<rxportena, rframe, rdatacnt, rerrempty, rerrfull, fifoVars, rdFrame>>

\* A side that is not enabled any more: to the flush, from an error too.
RdStop ==
  /\ FSMrxportrd \in {"S1_2", "S1_3", "S2_0", "S2_1", "S2_2"} /\ ~On
  /\ FSMrxportrd' = "S3"
  /\ UNCHANGED <<rxportena, rframe, rdatacnt, rerrempty, rerrfull, fifoVars, rdFrame>>

RdFlush_hasty_bug ==
  /\ FSMrxportrd = "S3"
  /\ rxportena' = FALSE
  /\ rxfifo' = IF D!RdEmpty(rxfifo) THEN rxfifo ELSE D!Pop(rxfifo)
  /\ rxparamfifo' = IF P!RdEmpty(rxparamfifo) THEN rxparamfifo ELSE P!Pop(rxparamfifo)
  /\ FSMrxportrd' = IF D!RdEmpty(rxfifo) /\ P!RdEmpty(rxparamfifo) THEN "S1" ELSE "S3"
  /\ UNCHANGED <<rframe, rdatacnt, rerrempty, rerrfull, rdFrame>>

\* S3: both FIFOs are emptied until the disable has made its round trip.
RdFlush ==
  /\ FSMrxportrd = "S3"
  /\ rxportena' = FALSE
  /\ rxfifo' = IF D!RdEmpty(rxfifo) THEN rxfifo ELSE D!Pop(rxfifo)
  /\ rxparamfifo' = IF P!RdEmpty(rxparamfifo) THEN rxparamfifo ELSE P!Pop(rxparamfifo)
  /\ FSMrxportrd' = IF /\ D!RdEmpty(rxfifo) /\ P!RdEmpty(rxparamfifo)
                       /\ ~Out(enaretSync)
                    THEN "S1" ELSE "S3"
  /\ UNCHANGED <<rframe, rdatacnt, rerrempty, rerrfull, rdFrame>>

RdStep == RdReset \/ RdInit \/ RdEnable \/ RdNext \/ RdOffer \/ RdSkip \/ RdStop \/ RdFlush

-----------------------------------------------------------------------------
(* clk2 domain: SubFSMrxportwr. *)

wrFrame == <<inputVars, rdVars, wrenaVars, syncVars>>

WrReset ==
  /\ FSMrxportwr = "S0"
  /\ FSMrxportwr' = "S4"
  /\ UNCHANGED <<rxportenaret, wdatalen, written, rxfifofull_test, err_rxportwrfull,
                 wpos, fifoVars, wrFrame>>

\* S1, S1_1, S1_2, S2_0 with the port not enabled: a frame coming in is cut.
WrStop ==
  /\ FSMrxportwr \in {"S1", "S1_1", "S1_2", "S2_0"} /\ ~Out(enaSync)
  /\ FSMrxportwr' = "S4"
  /\ wdatalen' = 0 /\ rxfifofull_test' = FALSE
  /\ UNCHANGED <<rxportenaret, written, err_rxportwrfull, wpos, fifoVars, wrFrame>>

\* S1: rxframe announces a frame for this port.
WrStart(len) ==
  /\ FSMrxportwr = "S1" /\ Out(enaSync)
  /\ wpos + len <= MaxBytes
  /\ FSMrxportwr' = "S1_1"
  /\ wdatalen' = len /\ written' = 0
  /\ UNCHANGED <<rxportenaret, rxfifofull_test, err_rxportwrfull, wpos, fifoVars, wrFrame>>

\* S1_1: source and sequence number filters.  The room test is made with the
\* frame's length on the same clock; only S1_2 reads its result.
WrTest(pass) ==
  /\ FSMrxportwr = "S1_1" /\ Out(enaSync)
  /\ FSMrxportwr' = IF pass THEN "S1_2" ELSE "S1"
  /\ rxfifofull_test' =
       (pass /\ wdatalen + Len(rxfifo.q) + rxfifo.stale >= DATADEPTH)
  /\ wdatalen' = IF pass THEN wdatalen ELSE 0
  /\ UNCHANGED <<rxportenaret, written, err_rxportwrfull, wpos, fifoVars, wrFrame>>

WrRoom_debug_bug ==
  LET full == rxfifofull_test
  IN
  /\ FSMrxportwr = "S1_2" /\ Out(enaSync)
  /\ FSMrxportwr' = IF full THEN "S1" ELSE "S2_0"
  /\ wdatalen' = IF full THEN 0 ELSE wdatalen
  /\ rxfifofull_test' = FALSE
  /\ UNCHANGED <<rxportenaret, written, err_rxportwrfull, wpos, fifoVars, wrFrame>>

\* S1_2: a frame that has no room in either FIFO is dropped.
WrRoom ==
  LET full == P!WrFull(rxparamfifo) \/ rxfifofull_test
  IN
  /\ FSMrxportwr = "S1_2" /\ Out(enaSync)
  /\ FSMrxportwr' = IF full THEN "S1" ELSE "S2_0"
  /\ wdatalen' = IF full THEN 0 ELSE wdatalen
  /\ rxfifofull_test' = FALSE
  /\ UNCHANGED <<rxportenaret, written, err_rxportwrfull, wpos, fifoVars, wrFrame>>

\* S2_0: a byte of the frame.
WrByte ==
  /\ FSMrxportwr = "S2_0" /\ Out(enaSync) /\ written < wdatalen
  /\ rxfifo' = D!Push(rxfifo, wpos + written)
  /\ err_rxportwrfull' = (err_rxportwrfull \/ D!WrFull(rxfifo))
  /\ written' = written + 1
  /\ UNCHANGED <<FSMrxportwr, rxportenaret, wdatalen, rxfifofull_test, wpos,
                 rxparamfifo, wrFrame>>

\* S2_0: the end of the frame, after its CRC.
WrEnd ==
  /\ FSMrxportwr = "S2_0" /\ Out(enaSync) /\ written = wdatalen
  /\ rxparamfifo' = P!Push(rxparamfifo,
                           [pos |-> wpos, len |-> wdatalen, err |-> err_rxportwrfull])
  /\ err_rxportwrfull' = (err_rxportwrfull \/ P!WrFull(rxparamfifo))
  /\ FSMrxportwr' = "S1"
  /\ wpos' = wpos + wdatalen /\ written' = 0 /\ wdatalen' = 0
  /\ UNCHANGED <<rxportenaret, rxfifofull_test, rxfifo, wrFrame>>

WrFlush_mute_bug ==
  LET start == P!WrEmpty(rxparamfifo) /\ D!WrEmpty(rxfifo) /\ Out(enaSync)
  IN
  /\ FSMrxportwr = "S4"
  /\ rxportenaret' = (rxportenaret \/ start)
  /\ err_rxportwrfull' = (err_rxportwrfull /\ ~start)
  /\ FSMrxportwr' = IF start THEN "S1" ELSE "S4"
  /\ wpos' = IF start THEN 0 ELSE wpos
  /\ written' = IF start THEN 0 ELSE written
  /\ UNCHANGED <<wdatalen, rxfifofull_test, fifoVars, wrFrame>>

\* S4: once both FIFOs are empty the enable level is returned.
WrFlush ==
  LET empty == P!WrEmpty(rxparamfifo) /\ D!WrEmpty(rxfifo)
      start == empty /\ Out(enaSync)
  IN
  /\ FSMrxportwr = "S4"
  /\ rxportenaret' = IF empty THEN Out(enaSync) ELSE rxportenaret
  /\ err_rxportwrfull' = (err_rxportwrfull /\ ~start)
  /\ FSMrxportwr' = IF start THEN "S1" ELSE "S4"
  /\ wpos' = IF start THEN 0 ELSE wpos
  /\ written' = IF start THEN 0 ELSE written
  /\ UNCHANGED <<wdatalen, rxfifofull_test, fifoVars, wrFrame>>

WrStep == WrReset \/ WrStop \/ WrRoom \/ WrByte \/ WrEnd \/ WrFlush

-----------------------------------------------------------------------------
(* clk2 domain: SubFSMrxportwrena.  S1_0 drives the request to 1 again, so *)
(* a disable is a pulse of one clock, which rclk may sample or not.        *)

WrenaStep ==
  /\ FSMrxportwrena' =
       CASE FSMrxportwrena = "S0" -> "S1_0"
         [] FSMrxportwrena = "S1_0" ->
              IF ~Out(wrenaretSync) /\ enable THEN "S1_1" ELSE "S1_0"
         [] FSMrxportwrena = "S1_1" ->
              IF Out(wrenaretSync) /\ ~enable THEN "S1_0" ELSE "S1_1"
  /\ rxportwrena' = CASE FSMrxportwrena = "S0" -> rxportwrena
                      [] FSMrxportwrena = "S1_0" -> TRUE
                      [] FSMrxportwrena = "S1_1" -> ~(Out(wrenaretSync) /\ ~enable)
  /\ UNCHANGED <<inputVars, rdVars, wrVars, syncVars, fifoVars>>

-----------------------------------------------------------------------------
(* SubCrossingClocks and the pointer synchronisers inside the FIFOs.       *)

syncFrame == <<inputVars, rdVars, wrVars, wrenaVars>>

SyncToRclk ==
  /\ wrenaSync' = Shift(wrenaSync, rxportwrena)
  /\ enaretSync' = Shift(enaretSync, rxportenaret)
  /\ UNCHANGED <<enaSync, wrenaretSync, fifoVars, syncFrame>>

SyncToClk2 ==
  /\ wrenaretSync' = Shift(wrenaretSync, Out(wrenaSync))
  /\ enaSync' = Shift(enaSync, rxportena)
  /\ UNCHANGED <<wrenaSync, enaretSync, fifoVars, syncFrame>>

\* The parameters of a frame are written after its CRC, four clocks and more
\* after its last byte: they are not seen before the bytes are.
Newest == rxparamfifo.q[Len(rxparamfifo.q) - rxparamfifo.hid + 1]
Seen == wpos + written - rxfifo.hid

ParamFifoSync ==
  /\ \/ /\ rxparamfifo.hid > 0 /\ Newest.pos + Newest.len <= Seen
        /\ rxparamfifo' = P!Reveal(rxparamfifo)
     \/ rxparamfifo.stale > 0 /\ rxparamfifo' = P!Reclaim(rxparamfifo)
  /\ UNCHANGED <<syncVars, rxfifo, syncFrame>>

DataFifoSync ==
  /\ \/ rxfifo.hid > 0 /\ rxfifo' = D!Reveal(rxfifo)
     \/ rxfifo.stale > 0 /\ rxfifo' = D!Reclaim(rxfifo)
  /\ UNCHANGED <<syncVars, rxparamfifo, syncFrame>>

-----------------------------------------------------------------------------
Next ==
  \/ SetInputs
  \/ RdStep \/ RdRead \/ RdAck
  \/ WrStep \/ (\E len \in Lens : WrStart(len)) \/ (\E pass \in BOOLEAN : WrTest(pass))
  \/ WrenaStep
  \/ SyncToRclk \/ SyncToClk2 \/ ParamFifoSync \/ DataFifoSync

Spec == Init /\ [][Next]_vars

\* Both clocks run for ever, pointers cross, and a client acknowledges in the end
\* every frame it is offered.
FairSpec ==
  /\ Spec
  /\ WF_vars(RdStep) /\ WF_vars(RdAck)
  /\ WF_vars(WrStep) /\ WF_vars(\E pass \in BOOLEAN : WrTest(pass))
  /\ WF_vars(WrenaStep) /\ WF_vars(SyncToRclk) /\ WF_vars(SyncToClk2)
  /\ WF_vars(ParamFifoSync) /\ WF_vars(DataFifoSync)

-----------------------------------------------------------------------------
(* Properties. *)

TypeOK ==
  /\ rena \in BOOLEAN /\ enable \in BOOLEAN
  /\ FSMrxportrd \in {"S0", "S1", "S1_1", "S1_2", "S1_3", "S2_0", "S2_1", "S2_2", "S3"}
  /\ rxportena \in BOOLEAN /\ rframe \in Param /\ rdatacnt \in Nat
  /\ FSMrxportrd \in {"S2_0", "S2_1"} => rdatacnt <= rframe.len
  /\ rerrempty \in BOOLEAN /\ rerrfull \in BOOLEAN
  /\ FSMrxportwr \in {"S0", "S1", "S1_1", "S1_2", "S2_0", "S4"}
  /\ rxportenaret \in BOOLEAN /\ wdatalen \in Nat /\ written \in Nat
  /\ rxfifofull_test \in BOOLEAN /\ err_rxportwrfull \in BOOLEAN
  /\ FSMrxportwrena \in {"S0", "S1_0", "S1_1"} /\ rxportwrena \in BOOLEAN
  /\ enaSync \in [1 .. SYNC -> BOOLEAN] /\ enaretSync \in [1 .. SYNC -> BOOLEAN]
  /\ wrenaSync \in [1 .. SYNC -> BOOLEAN] /\ wrenaretSync \in [1 .. SYNC -> BOOLEAN]
  /\ rxparamfifo \in P!Fifo(Param) /\ rxfifo \in D!Fifo(Nat)
  /\ wpos \in Nat

\* "This condition should never appear", three times in the code: a frame that
\* was let in always finds room in both FIFOs, and the reader finds every byte
\* that a frame's parameters promise.
NeverAppears == ~err_rxportwrfull /\ ~rerrempty /\ FSMrxportrd # "S2_2"

\* When the port is enabled again nothing of what came before is left in either
\* FIFO, not even the bytes of a frame that was cut.
CleanRestart == FSMrxportrd = "S1" => rxparamfifo.q = <<>> /\ rxfifo.q = <<>>

\* A client that withdraws rena for good gets the port flushed and idle.
FlushCompletes == (<>[]~rena) => <>[](FSMrxportrd = "S1" /\ ~rxportena)

\* While both sides stay enabled the client gets every frame the port has let in.
FramesServed ==
  (<>[](rena /\ enable)) => <>[](rxportena /\ rxparamfifo.q = <<>>)

-----------------------------------------------------------------------------
(* Refinement. *)

IsOpen == FSMrxportrd \notin {"S0", "S1", "S3"}
Bytes(f) == [k \in 1 .. f.len |-> f.pos + k - 1]
Images(s) == [k \in 1 .. Len(s) |-> Bytes(s[k])]
Waiting == IF FSMrxportrd = "S1_3" THEN <<rframe>> \o rxparamfifo.q ELSE rxparamfifo.q
Queued == IF IsOpen THEN Images(Waiting) ELSE <<>>
Offered == IF FSMrxportrd = "S2_0" THEN SubSeq(rxfifo.q, 1, rframe.len - rdatacnt) ELSE <<>>

Queue == INSTANCE RxQueue WITH
  Frame <- {Bytes(f) : f \in [pos : 0 .. MaxBytes, len : Lens]},
  open <- IsOpen, queue <- Queued, offered <- Offered

\* The client reads the frames that were let in, whole, in order, each once,
\* with the bytes that rxfifo really holds at that moment.
ImplementsQueue == Queue!Spec

=============================================================================
