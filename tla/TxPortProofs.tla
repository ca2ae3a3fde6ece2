---------------------------- MODULE TxPortProofs ----------------------------
(***************************************************************************)
(* Safety of one transmit port, for every buffer size, slot limit, write   *)
(* width, FIFO depth, synchroniser length and mode.                        *)
(*                                                                         *)
(* The inductive invariant has three parts on top of the types:            *)
(*   Handshake   the enable command travels a ring of registers, txportena *)
(*               -> enaSync -> txportenaret -> enaretSync, and at most one *)
(*               change of level is on its way round it;                   *)
(*   Occupancy   which states of the two FSMs find which FIFO empty;       *)
(*   Stretch     the frames in txbackfifo, then those in txparamfifo, then *)
(*               the frame being loaded are one gapless stretch of the     *)
(*               stream of bytes.                                          *)
(***************************************************************************)
EXTENDS TxPort, TLAPS

\* A chain a rising (falling) level is entering: the earlier register leads.
Rises(c) == \A j, k \in 1 .. SYNC : j <= k /\ c[k] => c[j]
Falls(c) == \A j, k \in 1 .. SYNC : j <= k /\ c[j] => c[k]
AllHigh(c) == \A k \in 1 .. SYNC : c[k]
AllLow(c) == \A k \in 1 .. SYNC : ~c[k]

Handshake ==
  /\ FSMtxportwr \in {"S0", "S1"} =>
       ~txportena /\ AllLow(enaSync) /\ ~txportenaret /\ AllLow(enaretSync)
  /\ FSMtxportwr = "S1_1" =>
       /\ txportena /\ Rises(enaSync) /\ Rises(enaretSync)
       /\ txportenaret => AllHigh(enaSync)
       /\ ~txportenaret => AllLow(enaretSync)
  /\ FSMtxportwr \in {"S2_0", "S2_1"} =>
       txportena /\ AllHigh(enaSync) /\ txportenaret /\ AllHigh(enaretSync)
  /\ FSMtxportwr = "S2_2" =>
       /\ ~txportena /\ Falls(enaSync) /\ Falls(enaretSync)
       /\ ~txportenaret => AllLow(enaSync)
       /\ txportenaret => AllHigh(enaretSync)
  /\ FSMtxportrd \in {"S1", "S2", "S3"} => txportenaret
  /\ FSMtxportrd = "S0" => ~txportenaret
  /\ FSMtxportrd = "S4" /\ txportenaret => ~Out(enaSync)

\* The read-side request only rises, register by register, so that a writer
\* that runs never sees it fall.
RequestStays ==
  /\ \A k \in 1 .. SYNC + 1 : rdenaSync[k] => txportrdena
  /\ \A k \in 2 .. SYNC + 1 : rdenaSync[k] => rdenaSync[k - 1]
  /\ Running => Out(rdenaSync)

Occupancy ==
  /\ txparamfifo.hid <= Len(txparamfifo.q)
  /\ txbackfifo.hid <= Len(txbackfifo.q)
  /\ FSMtxportwr \in {"S0", "S1", "S1_1"} => txparamfifo.q = <<>> /\ txbackfifo.q = <<>>
  /\ FSMtxportwr = "S2_2" => txparamfifo.q = <<>>
  /\ ~txportenaret => txbackfifo.q = <<>>
  /\ FSMtxportrd \in {"S2", "S3"} => ~RdEmpty(txparamfifo)
  /\ FSMtxscheduler # "idle" => FSMtxportrd = "S2"

\* First stream position not yet flushed.
RdPos == IF txparamfifo.q = <<>> THEN wpos ELSE txparamfifo.q[1].pos

\* Frames s occupy the stretch from position from up to position to.
Covers(s, from, to) ==
  /\ s = <<>> => from = to
  /\ s # <<>> => s[1].pos = from /\ s[Len(s)].pos + s[Len(s)].len = to
  /\ \A i \in 1 .. Len(s) : s[i].pos + s[i].len <= to
  /\ \A i \in 1 .. Len(s) - 1 : s[i].pos + s[i].len = s[i + 1].pos

Stretch ==
  Running => /\ Covers(txparamfifo.q, RdPos, wpos)
             /\ Covers(txbackfifo.q, fpos, RdPos)
             /\ fpos <= RdPos /\ RdPos <= wpos

Inv == TypeOK /\ Handshake /\ RequestStays /\ Occupancy /\ Stretch /\ SpaceAccounting

-----------------------------------------------------------------------------
(* Arithmetic and sequences. *)

\* A remainder is below its modulus.
LEMMA ModRange == ASSUME NEW n \in Int, NEW m \in Nat \ {0}
                  PROVE  n % m \in 0 .. m - 1
  OBVIOUS

\* A register wide enough for its value keeps it.
LEMMA ModSmall == ASSUME NEW n \in Nat, NEW m \in Nat \ {0}, n < m
                  PROVE  n % m = n
  OBVIOUS

\* Taking the oldest frame off a non-empty queue.
LEMMA PopFrame ==
  ASSUME NEW q \in Seq(Frame), q # <<>>
  PROVE  /\ Len(q) \in Nat \ {0} /\ Head(q) = q[1] /\ Head(q) \in Frame
         /\ Tail(q) \in Seq(Frame) /\ Len(Tail(q)) = Len(q) - 1
         /\ \A i \in 1 .. Len(q) - 1 : Tail(q)[i] = q[i + 1]
  OBVIOUS

\* The empty queue is the queue of length zero.
LEMMA EmptyQueue == ASSUME NEW q \in Seq(Frame) PROVE q = <<>> <=> Len(q) = 0
  OBVIOUS

\* Adding a frame at the end of a queue.
LEMMA PushFrame ==
  ASSUME NEW q \in Seq(Frame), NEW f \in Frame
  PROVE  /\ Append(q, f) \in Seq(Frame) /\ Append(q, f) # <<>>
         /\ Len(q) \in Nat /\ Len(Append(q, f)) = Len(q) + 1
         /\ \A i \in 1 .. Len(q) : Append(q, f)[i] = q[i]
         /\ Append(q, f)[Len(q) + 1] = f
  OBVIOUS

-----------------------------------------------------------------------------
(* Types. *)

\* The de-allocation logic keeps the types of what it touches.
LEMMA ReleaseType ==
  ASSUME TypeOK, NEW free \in 0 .. 2 * BUFLEN - 1, NEW freed \in Nat, Release(free, freed)
  PROVE  /\ freelen' \in 0 .. 2 * BUFLEN - 1 /\ fpos' \in Nat
         /\ txbackfifo' \in Fifo(Frame)
<1>1. CASE RdEmpty(txbackfifo)
  BY <1>1 DEF Release, TypeOK
<1>2. CASE ~RdEmpty(txbackfifo)
  <2>1. txbackfifo.q # <<>> /\ txbackfifo.q \in Seq(Frame) /\ txbackfifo.stale \in Nat
        /\ txbackfifo.hid \in Nat
    BY <1>2 DEF RdEmpty, TypeOK, Fifo
  <2>2. Head(txbackfifo.q).len \in Nat
    BY <2>1, PopFrame DEF Frame
  <2>3. Pop(txbackfifo) \in Fifo(Frame)
    BY <2>1, PopFrame DEF Pop, Fifo
  <2>4. Width13(free + Head(txbackfifo.q).len) \in 0 .. 2 * BUFLEN - 1
    <3>1. free + Head(txbackfifo.q).len \in Int /\ 2 * BUFLEN \in Nat \ {0}
      BY <2>2, TxPortAssumption
    <3> QED BY <3>1, ModRange DEF Width13
  <2> QED BY <1>2, <2>2, <2>3, <2>4 DEF Release
<1> QED BY <1>1, <1>2

\* A pointer that crosses keeps the type of its FIFO.
LEMMA PointerType ==
  ASSUME NEW f \in Fifo(Frame)
  PROVE  /\ f.hid > 0 => Reveal(f) \in Fifo(Frame)
         /\ f.stale > 0 => Reclaim(f) \in Fifo(Frame)
<1>1. f.hid > 0 => f.hid - 1 \in Nat
  BY DEF Fifo
<1>2. f.stale > 0 => f.stale - 1 \in Nat
  BY DEF Fifo
<1> QED BY <1>1, <1>2 DEF Fifo, Reveal, Reclaim

\* Every step of the writer keeps the types.
LEMMA WrType == TypeOK /\ WrStep => TypeOK'
<1> SUFFICES ASSUME TypeOK, WrStep PROVE TypeOK'
  OBVIOUS
<1> USE TxPortAssumption
<1>1. freelen \in 0 .. 2 * BUFLEN - 1 /\ BUFLEN \in 0 .. 2 * BUFLEN - 1 /\ fpos \in Nat
      /\ 0 \in Addr /\ 0 \in 0 .. SLOTLEN - 1
  BY DEF TypeOK, Addr
<1>2. CASE WrReset
  BY <1>1, <1>2, ReleaseType DEF TypeOK, WrReset, wrFrame, inputVars, rdVars, rdenaVars, syncVars
<1>3. CASE WrInit
  BY <1>1, <1>3, ReleaseType DEF TypeOK, WrInit, wrFrame, inputVars, rdVars, rdenaVars, syncVars, Out
<1>4. CASE WrEnable
  BY <1>1, <1>4, ReleaseType DEF TypeOK, WrEnable, wrFrame, inputVars, rdVars, rdenaVars, syncVars
<1>5. CASE WrStop
  BY <1>1, <1>5, ReleaseType DEF TypeOK, WrStop, wrFrame, inputVars, rdVars, rdenaVars, syncVars
<1>6. CASE WrBusy
  BY <1>1, <1>6, ReleaseType DEF TypeOK, WrBusy, wrFrame, inputVars, rdVars, rdenaVars, syncVars
<1>7. CASE WrFlush
  BY <1>1, <1>7, ReleaseType DEF TypeOK, WrFlush, wrFrame, inputVars, rdVars, rdenaVars, syncVars
<1>8. CASE WrDisable
  BY <1>1, <1>8, ReleaseType DEF TypeOK, WrDisable, wrFrame, inputVars, rdVars, rdenaVars, syncVars
<1> QED BY <1>2, <1>3, <1>4, <1>5, <1>6, <1>7, <1>8 DEF WrStep

\* Writing a word and queueing a frame keep the types.
LEMMA RunType ==
  ASSUME TypeOK, NEW wreq \in BOOLEAN, NEW wtxclr \in BOOLEAN, NEW wtxreq \in BOOLEAN,
         WrRun(wreq, wtxclr, wtxreq)
  PROVE  TypeOK'
<1> USE TxPortAssumption
<1> DEFINE write == wreq /\ ~DataFull
           len == IF write THEN datalen + WBYTES ELSE datalen
           queue == wtxreq /\ ~wtxclr
           frame == [base |-> baseptr, len |-> len, pos |-> wpos]
<1>1. len \in Nat /\ frame \in Frame /\ freelen \in 0 .. 2 * BUFLEN - 1 /\ fpos \in Nat
  BY DEF TypeOK, Frame, Addr
<1>0. len \in 0 .. SLOTLEN - 1 /\ 0 \in 0 .. SLOTLEN - 1
  BY DEF DataFull, TypeOK
<1>2. Width13(freelen - len) \in 0 .. 2 * BUFLEN - 1 /\ Width12(baseptr + len) \in Addr
  <2>1. freelen - len \in Int /\ baseptr + len \in Int /\ 2 * BUFLEN \in Nat \ {0}
    BY <1>1 DEF TypeOK, Addr
  <2> QED BY <2>1, ModRange DEF Width13, Width12, Addr
<1>3. /\ freelen' \in 0 .. 2 * BUFLEN - 1 /\ fpos' \in Nat /\ txbackfifo' \in Fifo(Frame)
  <2>1. CASE queue
    BY <2>1, <1>1, <1>2, ReleaseType DEF WrRun
  <2>2. CASE ~queue
    BY <2>2, <1>1, ReleaseType DEF WrRun
  <2> QED BY <2>1, <2>2
<1>4. Push(txparamfifo, frame) \in Fifo(Frame) /\ txparamfifo \in Fifo(Frame)
  BY <1>1, PushFrame DEF TypeOK, Fifo, Push
<1>5. /\ txparamfifo' \in Fifo(Frame) /\ baseptr' \in Addr /\ wpos' \in Nat
      /\ datalen' \in 0 .. SLOTLEN - 1
  <2>1. CASE queue
    BY <2>1, <1>0, <1>1, <1>2, <1>4 DEF WrRun, TypeOK
  <2>2. CASE ~queue
    BY <2>2, <1>0, <1>1, <1>4 DEF WrRun, TypeOK
  <2> QED BY <2>1, <2>2
<1>6. Stored \in [Addr -> Nat]
  <2>1. \A a \in Addr : Offset(a) \in Nat
    BY ModRange DEF TypeOK, Addr, Offset
  <2> QED BY <2>1 DEF Stored, TypeOK
<1>7. txdatabuf' \in [Addr -> Nat]
  BY <1>6 DEF WrRun, TypeOK
<1> QED
  BY <1>3, <1>5, <1>7 DEF WrRun, TypeOK, wrFrame, inputVars, rdVars, rdenaVars, syncVars

\* The steps of the read side, of the synchronisers and of the inputs keep the
\* types.
LEMMA Clk2Type ==
  ASSUME TypeOK, RdStep \/ RdenaStep \/ Request \/ Grant \/ Done \/ AckFlush
  PROVE  TypeOK'
<1>1. ASSUME ~RdEmpty(txparamfifo)
      PROVE  /\ Pop(txparamfifo) \in Fifo(Frame)
             /\ Push(txbackfifo, Head(txparamfifo.q)) \in Fifo(Frame)
  <2>1. /\ txparamfifo.q # <<>> /\ txparamfifo.q \in Seq(Frame)
        /\ txparamfifo.stale \in Nat /\ txparamfifo.hid \in Nat
    BY <1>1 DEF RdEmpty, TypeOK, Fifo
  <2> QED BY <2>1, PopFrame, PushFrame DEF TypeOK, Pop, Push, Fifo
<1>2. CASE RdStep
  BY <1>1, <1>2, TxPortAssumption DEF TypeOK, RdStep, RdReset, RdIdle, RdFlush, RdDiscard, rdFrame, Out,
     inputVars, wrVars, rdenaVars, syncVars, histVars
<1>3. CASE RdenaStep
  BY <1>3 DEF TypeOK, RdenaStep, inputVars, wrVars, rdVars, syncVars, memVars, histVars
<1>4. CASE Request \/ Grant \/ Done \/ AckFlush
  BY <1>4 DEF TypeOK, Request, Grant, Done, AckFlush, schedFrame,
     inputVars, wrVars, rdenaVars, syncVars, memVars
<1> QED BY <1>2, <1>3, <1>4

\* Inputs and synchronisers keep the types.
LEMMA SyncType ==
  ASSUME TypeOK, SetInputs \/ SyncToWclk \/ SyncToClk2 \/ ParamFifoSync \/ BackFifoSync
  PROVE  TypeOK'
<1> USE TxPortAssumption
<1>1. CASE SetInputs
  BY <1>1 DEF TypeOK, SetInputs, wrVars, rdVars, rdenaVars, syncVars, memVars, histVars
<1>2. CASE SyncToWclk
  <2>1. enaretSync' \in [1 .. SYNC -> BOOLEAN] /\ rdenaSync' \in [1 .. SYNC + 1 -> BOOLEAN]
    BY <1>2 DEF TypeOK, SyncToWclk, Shift
  <2> QED BY <1>2, <2>1 DEF TypeOK, SyncToWclk, syncFrame, inputVars, wrVars, rdVars, rdenaVars, histVars
<1>3. CASE SyncToClk2
  <2>1. enaSync' \in [1 .. SYNC -> BOOLEAN] /\ rdenaretSync' \in [1 .. SYNC -> BOOLEAN]
    BY <1>3 DEF TypeOK, SyncToClk2, Shift
  <2> QED BY <1>3, <2>1 DEF TypeOK, SyncToClk2, syncFrame, inputVars, wrVars, rdVars, rdenaVars, histVars
<1>4. CASE ParamFifoSync
  BY <1>4, PointerType DEF TypeOK, ParamFifoSync, syncFrame, inputVars, wrVars, rdVars,
     rdenaVars, syncVars, histVars
<1>5. CASE BackFifoSync
  BY <1>5, PointerType DEF TypeOK, BackFifoSync, syncFrame, inputVars, wrVars, rdVars,
     rdenaVars, syncVars, histVars
<1> QED BY <1>1, <1>2, <1>3, <1>4, <1>5

\* The registers and memories start with values of their types.
LEMMA InitType == Init => TypeOK
<1>1. EmptyFifo \in Fifo(Frame)
  BY DEF EmptyFifo, Fifo
<1>2. \A n \in Nat : Low(n) \in [1 .. n -> BOOLEAN]
  BY DEF Low
<1>3. SYNC \in Nat /\ SYNC + 1 \in Nat /\ 0 \in Addr
  BY TxPortAssumption DEF Addr
<1> SUFFICES ASSUME Init PROVE TypeOK
  OBVIOUS
<1>4. Low(SYNC) \in [1 .. SYNC -> BOOLEAN] /\ Low(SYNC + 1) \in [1 .. SYNC + 1 -> BOOLEAN]
  BY <1>2, <1>3
<1>5. [a \in Addr |-> 0] \in [Addr -> Nat]
  OBVIOUS
<1>6. /\ txparamfifo \in Fifo(Frame) /\ txbackfifo \in Fifo(Frame)
      /\ enaSync \in [1 .. SYNC -> BOOLEAN] /\ enaretSync \in [1 .. SYNC -> BOOLEAN]
      /\ rdenaSync \in [1 .. SYNC + 1 -> BOOLEAN] /\ rdenaretSync \in [1 .. SYNC -> BOOLEAN]
      /\ txdatabuf \in [Addr -> Nat]
  BY <1>1, <1>4, <1>5 DEF Init
<1>7. /\ freelen \in 0 .. 2 * BUFLEN - 1 /\ baseptr \in Addr
      /\ datalen \in 0 .. SLOTLEN - 1
  BY <1>3, TxPortAssumption DEF Init
<1> QED BY <1>6, <1>7 DEF Init, TypeOK

\* Every step keeps the types.
LEMMA NextType == TypeOK /\ [Next]_vars => TypeOK'
<1> SUFFICES ASSUME TypeOK, [Next]_vars PROVE TypeOK'
  OBVIOUS
<1>1. CASE UNCHANGED vars
  BY <1>1 DEF TypeOK, vars, inputVars, wrVars, rdVars, rdenaVars, syncVars, memVars, histVars
<1>2. CASE Next
  BY <1>2, WrType, RunType, Clk2Type, SyncType DEF Next
<1> QED BY <1>1, <1>2

\* Every variable keeps its type in every behaviour.
THEOREM TypeCorrect == Spec => []TypeOK
  BY InitType, NextType, PTL DEF Spec

-----------------------------------------------------------------------------
(* The handshake. *)

\* Shifting a level into a chain: what becomes of the three shapes of a chain.
LEMMA ShiftShape ==
  ASSUME NEW c \in [1 .. SYNC -> BOOLEAN], NEW level \in BOOLEAN
  PROVE  /\ Shift(c, level) \in [1 .. SYNC -> BOOLEAN]
         /\ level /\ Rises(c) => Rises(Shift(c, level))
         /\ ~level /\ Falls(c) => Falls(Shift(c, level))
         /\ level /\ AllHigh(c) => AllHigh(Shift(c, level))
         /\ ~level /\ AllLow(c) => AllLow(Shift(c, level))
         /\ ~level /\ Falls(c) /\ ~Out(c) => ~Out(Shift(c, level))
<1> USE TxPortAssumption
<1>1. /\ Shift(c, level) \in [1 .. SYNC -> BOOLEAN]
      /\ \A k \in 1 .. SYNC : Shift(c, level)[k] = IF k = 1 THEN level ELSE c[k - 1]
      /\ \A k \in 1 .. SYNC : k # 1 => k - 1 \in 1 .. SYNC
  BY DEF Shift
<1>2. level /\ Rises(c) => Rises(Shift(c, level))
  <2> SUFFICES ASSUME level, Rises(c), NEW j \in 1 .. SYNC, NEW k \in 1 .. SYNC,
                      j <= k, Shift(c, level)[k]
               PROVE  Shift(c, level)[j]
    BY DEF Rises
  <2>1. CASE j = 1
    BY <1>1, <2>1
  <2>2. CASE j # 1
    <3>1. k # 1 /\ j - 1 \in 1 .. SYNC /\ k - 1 \in 1 .. SYNC /\ j - 1 <= k - 1
      BY <2>2
    <3>2. c[k - 1]
      BY <1>1, <3>1
    <3>3. c[j - 1]
      BY <3>1, <3>2 DEF Rises
    <3> QED BY <1>1, <2>2, <3>3
  <2> QED BY <2>1, <2>2
<1>3. ~level /\ Falls(c) => Falls(Shift(c, level))
  BY <1>1 DEF Falls
<1>4. level /\ AllHigh(c) => AllHigh(Shift(c, level))
  BY <1>1 DEF AllHigh
<1>5. ~level /\ AllLow(c) => AllLow(Shift(c, level))
  BY <1>1 DEF AllLow
<1>6. ~level /\ Falls(c) /\ ~Out(c) => ~Out(Shift(c, level))
  BY <1>1 DEF Falls, Out
<1> QED BY <1>1, <1>2, <1>3, <1>4, <1>5, <1>6

\* The receiving end of a chain stands for the whole chain when the chain
\* changes in one direction only.
LEMMA EndStands ==
  ASSUME NEW c \in [1 .. SYNC -> BOOLEAN]
  PROVE  /\ Rises(c) /\ Out(c) => AllHigh(c)
         /\ Falls(c) /\ ~Out(c) => AllLow(c)
         /\ AllHigh(c) => Rises(c) /\ Falls(c) /\ Out(c)
         /\ AllLow(c) => Rises(c) /\ Falls(c) /\ ~Out(c)
  BY TxPortAssumption DEF Rises, Falls, AllHigh, AllLow, Out

\* Steps of the writer turn the command round only when the ring is settled.
LEMMA WrHandshake == TypeOK /\ Handshake /\ WrStep => Handshake'
<1> SUFFICES ASSUME TypeOK, Handshake, WrStep PROVE Handshake'
  OBVIOUS
<1>0. /\ enaSync \in [1 .. SYNC -> BOOLEAN] /\ enaretSync \in [1 .. SYNC -> BOOLEAN]
      /\ FSMtxportwr \in {"S0", "S1", "S1_1", "S2_0", "S2_1", "S2_2"}
      /\ txportena \in BOOLEAN /\ txportenaret \in BOOLEAN
  BY DEF TypeOK
<1>1. UNCHANGED <<enaSync, enaretSync, FSMtxportrd, txportenaret>>
  BY DEF WrStep, WrReset, WrInit, WrEnable, WrStop, WrBusy, WrFlush, WrDisable, wrFrame,
     rdVars, syncVars
<1>2. /\ Rises(enaSync)' = Rises(enaSync) /\ Falls(enaSync)' = Falls(enaSync)
      /\ AllHigh(enaSync)' = AllHigh(enaSync) /\ AllLow(enaSync)' = AllLow(enaSync)
      /\ Rises(enaretSync)' = Rises(enaretSync) /\ Falls(enaretSync)' = Falls(enaretSync)
      /\ AllHigh(enaretSync)' = AllHigh(enaretSync) /\ AllLow(enaretSync)' = AllLow(enaretSync)
      /\ Out(enaSync)' = Out(enaSync)
  BY <1>1 DEF Rises, Falls, AllHigh, AllLow, Out
<1>3. CASE WrReset \/ WrInit
  BY <1>0, <1>1, <1>2, <1>3, EndStands DEF Handshake, WrReset, WrInit
<1>4. CASE WrEnable
  BY <1>0, <1>1, <1>2, <1>4, EndStands DEF Handshake, WrEnable
<1>5. CASE WrStop \/ WrBusy
  BY <1>0, <1>1, <1>2, <1>5 DEF Handshake, WrStop, WrBusy
<1>6. CASE WrFlush
  BY <1>0, <1>1, <1>2, <1>6, EndStands DEF Handshake, WrFlush
<1>7. CASE WrDisable
  BY <1>0, <1>1, <1>2, <1>7, EndStands DEF Handshake, WrDisable
<1> QED BY <1>3, <1>4, <1>5, <1>6, <1>7 DEF WrStep

\* The read side returns a level only where it has arrived.
LEMMA RdHandshake ==
  ASSUME TypeOK, Handshake, RdStep \/ Request \/ Grant \/ Done \/ AckFlush,
         FSMtxscheduler # "idle" => FSMtxportrd = "S2"
  PROVE  Handshake'
<1>0. /\ enaSync \in [1 .. SYNC -> BOOLEAN] /\ enaretSync \in [1 .. SYNC -> BOOLEAN]
      /\ FSMtxportwr \in {"S0", "S1", "S1_1", "S2_0", "S2_1", "S2_2"}
      /\ FSMtxportrd \in {"S0", "S1", "S2", "S3", "S4"}
      /\ txportena \in BOOLEAN /\ txportenaret \in BOOLEAN
  BY DEF TypeOK
<1>1. UNCHANGED <<enaSync, enaretSync, FSMtxportwr, txportena>>
  BY DEF RdStep, RdReset, RdIdle, RdFlush, RdDiscard, Request, Grant, Done, AckFlush,
     rdFrame, schedFrame, wrVars, syncVars
<1>2. /\ Rises(enaSync)' = Rises(enaSync) /\ Falls(enaSync)' = Falls(enaSync)
      /\ AllHigh(enaSync)' = AllHigh(enaSync) /\ AllLow(enaSync)' = AllLow(enaSync)
      /\ Rises(enaretSync)' = Rises(enaretSync) /\ Falls(enaretSync)' = Falls(enaretSync)
      /\ AllHigh(enaretSync)' = AllHigh(enaretSync) /\ AllLow(enaretSync)' = AllLow(enaretSync)
      /\ Out(enaSync)' = Out(enaSync)
  BY <1>1 DEF Rises, Falls, AllHigh, AllLow, Out
<1>3. CASE RdReset
  BY <1>0, <1>1, <1>2, <1>3 DEF Handshake, RdReset
<1>4. CASE RdIdle
  BY <1>0, <1>1, <1>2, <1>4 DEF Handshake, RdIdle
<1>5. CASE RdFlush
  BY <1>0, <1>1, <1>2, <1>5 DEF Handshake, RdFlush
<1>6. CASE RdDiscard
  <2>1. Out(enaSync) \in BOOLEAN
    BY <1>0, TxPortAssumption DEF Out
  <2> QED BY <1>0, <1>1, <1>2, <1>6, <2>1, EndStands DEF Handshake, RdDiscard
<1>7. CASE Request \/ Grant \/ Done \/ AckFlush
  BY <1>0, <1>1, <1>2, <1>7 DEF Handshake, Request, Grant, Done, AckFlush, schedFrame
<1> QED
  BY <1>3, <1>4, <1>5, <1>6, <1>7 DEF RdStep

\* A synchroniser moves one change of level along.
LEMMA SyncHandshake ==
  ASSUME TypeOK, Handshake, SyncToWclk \/ SyncToClk2
  PROVE  Handshake'
<1>0. /\ enaSync \in [1 .. SYNC -> BOOLEAN] /\ enaretSync \in [1 .. SYNC -> BOOLEAN]
      /\ FSMtxportwr \in {"S0", "S1", "S1_1", "S2_0", "S2_1", "S2_2"}
      /\ FSMtxportrd \in {"S0", "S1", "S2", "S3", "S4"}
      /\ txportena \in BOOLEAN /\ txportenaret \in BOOLEAN
  BY DEF TypeOK
<1>1. UNCHANGED <<FSMtxportwr, txportena, FSMtxportrd, txportenaret>>
  BY DEF SyncToWclk, SyncToClk2, syncFrame, wrVars, rdVars
<1>2. CASE SyncToWclk
  <2>1. enaSync' = enaSync /\ enaretSync' = Shift(enaretSync, txportenaret)
    BY <1>2 DEF SyncToWclk
  <2> QED BY <1>0, <1>1, <2>1, ShiftShape, EndStands DEF Handshake
<1>3. CASE SyncToClk2
  <2>1. enaretSync' = enaretSync /\ enaSync' = Shift(enaSync, txportena)
    BY <1>3 DEF SyncToClk2
  <2> QED BY <1>0, <1>1, <2>1, ShiftShape, EndStands DEF Handshake
<1> QED BY <1>2, <1>3

-----------------------------------------------------------------------------
(* Occupancy. *)

\* What the FIFO operations do to the words really stored.
LEMMA FifoSteps ==
  ASSUME NEW f \in Fifo(Frame), f.hid <= Len(f.q)
  PROVE  /\ RdEmpty(f) <=> ~(Len(f.q) > f.hid)
         /\ ~RdEmpty(f) => /\ f.q # <<>>
                           /\ Pop(f).q = Tail(f.q) /\ Pop(f).hid <= Len(Pop(f).q)
         /\ f.hid > 0 => /\ Reveal(f).q = f.q /\ Reveal(f).hid <= Len(f.q)
                         /\ ~RdEmpty(f) => ~RdEmpty(Reveal(f))
         /\ f.stale > 0 => /\ Reclaim(f).q = f.q /\ Reclaim(f).hid <= Len(f.q)
                           /\ ~RdEmpty(f) => ~RdEmpty(Reclaim(f))
         /\ WrEmpty(f) => f.q = <<>>
         /\ \A w \in Frame : ~WrFull(f) =>
              /\ Push(f, w).q = Append(f.q, w) /\ Push(f, w).hid <= Len(Push(f, w).q)
              /\ ~RdEmpty(f) => ~RdEmpty(Push(f, w))
<1>1. f.q \in Seq(Frame) /\ f.hid \in Nat /\ f.stale \in Nat /\ Len(f.q) \in Nat
  BY DEF Fifo
<1>2. ~RdEmpty(f) => /\ f.q # <<>>
                     /\ Pop(f).q = Tail(f.q) /\ Pop(f).hid <= Len(Pop(f).q)
  BY <1>1, PopFrame DEF RdEmpty, Pop
<1>3. f.hid > 0 => /\ Reveal(f).q = f.q /\ Reveal(f).hid <= Len(f.q)
                   /\ ~RdEmpty(f) => ~RdEmpty(Reveal(f))
  BY <1>1 DEF RdEmpty, Reveal, Fifo
<1>4. f.stale > 0 => /\ Reclaim(f).q = f.q /\ Reclaim(f).hid <= Len(f.q)
                     /\ ~RdEmpty(f) => ~RdEmpty(Reclaim(f))
  BY <1>1 DEF RdEmpty, Reclaim, Fifo
<1>5. WrEmpty(f) => f.q = <<>>
  BY <1>1 DEF WrEmpty
<1>6. \A w \in Frame : ~WrFull(f) =>
        /\ Push(f, w).q = Append(f.q, w) /\ Push(f, w).hid <= Len(Push(f, w).q)
        /\ ~RdEmpty(f) => ~RdEmpty(Push(f, w))
  BY <1>1, PushFrame DEF RdEmpty, Push
<1> QED BY <1>1, <1>2, <1>3, <1>4, <1>5, <1>6 DEF RdEmpty

\* The de-allocation logic only takes words off txbackfifo.
LEMMA ReleaseOccupancy ==
  ASSUME TypeOK, Occupancy, NEW free, NEW freed, Release(free, freed)
  PROVE  /\ txbackfifo'.hid <= Len(txbackfifo'.q)
         /\ txbackfifo.q = <<>> => txbackfifo'.q = <<>>
<1>1. txbackfifo \in Fifo(Frame) /\ txbackfifo.hid <= Len(txbackfifo.q)
  BY DEF TypeOK, Occupancy
<1> QED BY <1>1, FifoSteps DEF Release

\* Only the writer's start and the crossing of the request concern it.
LEMMA RequestNext ==
  ASSUME TypeOK, RequestStays, [Next]_vars
  PROVE  RequestStays'
<1>0. /\ SYNC \in Nat \ {0} /\ txportrdena \in BOOLEAN
      /\ rdenaSync \in [1 .. SYNC + 1 -> BOOLEAN]
  BY TxPortAssumption DEF TypeOK
<1>1. CASE WrStep \/ \E wreq, wtxclr, wtxreq \in BOOLEAN : WrRun(wreq, wtxclr, wtxreq)
  <2>1. UNCHANGED <<txportrdena, rdenaSync>>
    BY <1>1 DEF WrStep, WrReset, WrInit, WrEnable, WrStop, WrBusy, WrFlush, WrDisable, WrRun,
       wrFrame, rdenaVars, syncVars
  <2>2. Running' => Out(rdenaSync)
    BY <1>1 DEF RequestStays, WrStep, WrReset, WrInit, WrEnable, WrStop, WrBusy, WrFlush,
       WrDisable, WrRun, Running
  <2> QED BY <2>1, <2>2 DEF RequestStays, Out
<1>2. CASE RdStep \/ Request \/ Grant \/ Done \/ AckFlush \/ SetInputs
           \/ SyncToClk2 \/ ParamFifoSync \/ BackFifoSync \/ UNCHANGED vars
  <2>1. UNCHANGED <<txportrdena, rdenaSync, FSMtxportwr>>
    BY <1>2 DEF RdStep, RdReset, RdIdle, RdFlush, RdDiscard, Request, Grant, Done, AckFlush,
       SetInputs, SyncToClk2, ParamFifoSync, BackFifoSync, vars, rdFrame, schedFrame, syncFrame,
       wrVars, rdenaVars, syncVars
  <2> QED BY <2>1 DEF RequestStays, Running, Out
<1>3. CASE RdenaStep
  <2>1. /\ UNCHANGED <<rdenaSync, FSMtxportwr>>
        /\ txportrdena => txportrdena'
    BY <1>3 DEF RdenaStep, wrVars, syncVars
  <2> QED BY <2>1 DEF RequestStays, Running, Out
<1>4. CASE SyncToWclk
  <2>1. UNCHANGED <<txportrdena, FSMtxportwr>>
    BY <1>4 DEF SyncToWclk, syncFrame, wrVars, rdenaVars
  <2>2. rdenaSync' = [k \in 1 .. SYNC + 1 |-> IF k = 1 THEN txportrdena ELSE rdenaSync[k - 1]]
    BY <1>0, <1>4 DEF SyncToWclk, Shift
  <2>3. \A k \in 1 .. SYNC + 1 : rdenaSync'[k] => txportrdena
    BY <1>0, <2>2 DEF RequestStays
  <2>4. ASSUME NEW k \in 2 .. SYNC + 1, rdenaSync'[k] PROVE rdenaSync'[k - 1]
    <3>1. k \in 1 .. SYNC + 1 /\ k - 1 \in 1 .. SYNC + 1 /\ k # 1
      BY <1>0
    <3>2. rdenaSync[k - 1]
      BY <2>2, <2>4, <3>1
    <3>3. CASE k - 1 = 1
      BY <2>2, <3>1, <3>2, <3>3 DEF RequestStays
    <3>4. CASE k - 1 # 1
      <4>1. k - 1 \in 2 .. SYNC + 1
        BY <1>0, <3>4
      <4>2. rdenaSync[(k - 1) - 1]
        BY <3>2, <4>1 DEF RequestStays
      <4> QED BY <2>2, <3>1, <3>4, <4>2
    <3> QED BY <3>3, <3>4
  <2>5. Running => rdenaSync'[SYNC]
    <3>1. SYNC \in 1 .. SYNC + 1
      BY <1>0
    <3>2. CASE SYNC = 1
      BY <2>2, <3>1, <3>2 DEF RequestStays, Out
    <3>3. CASE SYNC # 1
      <4>1. SYNC \in 2 .. SYNC + 1
        BY <1>0, <3>3
      <4> QED BY <2>2, <3>1, <3>3, <4>1 DEF RequestStays, Out
    <3> QED BY <3>2, <3>3
  <2> QED BY <2>1, <2>3, <2>4, <2>5 DEF RequestStays, Running, Out
<1> QED BY <1>1, <1>2, <1>3, <1>4 DEF Next

\* The writer restarts only when nothing is stored, and queues only in S2_0.
LEMMA WrOccupancy ==
  ASSUME TypeOK, Handshake, RequestStays, Occupancy,
         WrStep \/ \E wreq, wtxclr, wtxreq \in BOOLEAN : WrRun(wreq, wtxclr, wtxreq)
  PROVE  Occupancy'
<1>0. /\ enaretSync \in [1 .. SYNC -> BOOLEAN] /\ txparamfifo \in Fifo(Frame)
      /\ FSMtxportwr \in {"S0", "S1", "S1_1", "S2_0", "S2_1", "S2_2"}
      /\ txportenaret \in BOOLEAN
  BY DEF TypeOK
<1>1. UNCHANGED <<FSMtxportrd, txportenaret, FSMtxscheduler>>
  BY DEF WrStep, WrReset, WrInit, WrEnable, WrStop, WrBusy, WrFlush, WrDisable, WrRun, wrFrame, rdVars
<1>2. /\ txbackfifo'.hid <= Len(txbackfifo'.q)
      /\ txbackfifo.q = <<>> => txbackfifo'.q = <<>>
  BY ReleaseOccupancy DEF WrStep, WrReset, WrInit, WrEnable, WrStop, WrBusy, WrFlush, WrDisable, WrRun
<1>3. CASE WrReset \/ WrInit \/ WrEnable \/ WrStop \/ WrBusy
  BY <1>0, <1>1, <1>2, <1>3 DEF Occupancy, WrReset, WrInit, WrEnable, WrStop, WrBusy, RdEmpty
<1>6. CASE WrFlush
  <2>1. Out(rdenaSync)
    BY <1>6 DEF WrFlush, RequestStays, Running
  <2>2. WrEmpty(txparamfifo) => txparamfifo.q = <<>>
    BY <1>0, FifoSteps DEF Occupancy
  <2> QED BY <1>0, <1>1, <1>2, <1>6, <2>1, <2>2 DEF Occupancy, WrFlush, RdEmpty
<1>4. CASE WrDisable
  <2>1. ~Out(enaretSync) /\ FSMtxportwr = "S2_2" => ~txportenaret
    BY <1>0, EndStands DEF Handshake
  <2>2. WrEmpty(txparamfifo) => txparamfifo.q = <<>>
    BY <1>0, FifoSteps DEF Occupancy
  <2> QED BY <1>0, <1>1, <1>2, <1>4, <2>1, <2>2 DEF Occupancy, WrDisable, RdEmpty
<1>5. ASSUME NEW wreq \in BOOLEAN, NEW wtxclr \in BOOLEAN, NEW wtxreq \in BOOLEAN,
             WrRun(wreq, wtxclr, wtxreq)
      PROVE  Occupancy'
  <2> DEFINE len == IF wreq /\ ~DataFull THEN datalen + WBYTES ELSE datalen
             frame == [base |-> baseptr, len |-> len, pos |-> wpos]
  <2>1. frame \in Frame
    BY TxPortAssumption DEF TypeOK, Frame, Addr
  <2>2. txparamfifo' = txparamfifo \/ (txparamfifo' = Push(txparamfifo, frame) /\ ~WrFull(txparamfifo))
    BY <1>5 DEF WrRun
  <2>3. FSMtxportwr' = "S2_0" /\ txparamfifo.hid <= Len(txparamfifo.q)
    BY <1>5 DEF WrRun, Occupancy
  <2>4. /\ txparamfifo'.hid <= Len(txparamfifo'.q)
        /\ ~RdEmpty(txparamfifo) => ~RdEmpty(txparamfifo')
    BY <1>0, <2>1, <2>2, <2>3, FifoSteps
  <2> QED BY <1>0, <1>1, <1>2, <2>3, <2>4 DEF Occupancy, RdEmpty
<1> QED BY <1>3, <1>4, <1>5, <1>6 DEF WrStep

\* The read side takes a frame off only in S3 and S4, and gives a length back
\* only while the return level is high.
LEMMA RdOccupancy ==
  ASSUME TypeOK, Handshake, Occupancy,
         RdStep \/ Request \/ Grant \/ Done \/ AckFlush
  PROVE  Occupancy'
<1>0. /\ txparamfifo \in Fifo(Frame) /\ txbackfifo \in Fifo(Frame)
      /\ txparamfifo.hid <= Len(txparamfifo.q) /\ txbackfifo.hid <= Len(txbackfifo.q)
      /\ FSMtxportrd \in {"S0", "S1", "S2", "S3", "S4"} /\ txportenaret \in BOOLEAN
      /\ FSMtxscheduler \in {"idle", "S1_1", "S2"}
  BY DEF TypeOK, Occupancy
<1>1. UNCHANGED FSMtxportwr
  BY DEF RdStep, RdReset, RdIdle, RdFlush, RdDiscard, Request, Grant, Done, AckFlush,
     rdFrame, schedFrame, wrVars
<1>2. CASE RdReset \/ RdIdle
  BY <1>0, <1>1, <1>2 DEF Occupancy, RdReset, RdIdle, RdEmpty, rdFrame
<1>3. CASE RdFlush
  <2>1. ~RdEmpty(txparamfifo) /\ FSMtxportrd = "S3" /\ txportenaret
    BY <1>3 DEF RdFlush, Occupancy, Handshake
  <2>2. Head(txparamfifo.q) \in Frame /\ txparamfifo.q # <<>>
    BY <1>0, <2>1, FifoSteps, PopFrame DEF Fifo
  <2>3. /\ txparamfifo'.hid <= Len(txparamfifo'.q) /\ txbackfifo'.hid <= Len(txbackfifo'.q)
        /\ FSMtxportrd' = "S1" /\ UNCHANGED <<txportenaret, FSMtxscheduler>>
    BY <1>0, <1>3, <2>1, <2>2, FifoSteps DEF RdFlush, rdFrame
  <2> QED BY <1>1, <2>1, <2>2, <2>3 DEF Occupancy
<1>4. CASE RdDiscard
  <2>1. /\ txparamfifo'.hid <= Len(txparamfifo'.q)
        /\ txparamfifo.q = <<>> => txparamfifo'.q = <<>>
    BY <1>0, <1>4, FifoSteps DEF RdDiscard
  <2>2. WrEmpty(txbackfifo) => txbackfifo.q = <<>>
    BY <1>0, FifoSteps
  <2> QED BY <1>0, <1>1, <1>4, <2>1, <2>2 DEF Occupancy, RdDiscard, rdFrame
<1>5. CASE Request \/ Grant \/ Done \/ AckFlush
  BY <1>0, <1>1, <1>5 DEF Occupancy, Request, Grant, Done, AckFlush, schedFrame, memVars, RdEmpty
<1> QED BY <1>2, <1>3, <1>4, <1>5 DEF RdStep

\* A pointer that crosses a FIFO changes no word.
LEMMA SyncOccupancy ==
  ASSUME TypeOK, Occupancy,
         SetInputs \/ RdenaStep \/ SyncToWclk \/ SyncToClk2 \/ ParamFifoSync \/ BackFifoSync
  PROVE  /\ Occupancy' /\ txparamfifo'.q = txparamfifo.q /\ txbackfifo'.q = txbackfifo.q
         /\ UNCHANGED <<wrVars, rdVars, FSMtxscheduler, wpos, fpos>>
<1>0. /\ txparamfifo \in Fifo(Frame) /\ txbackfifo \in Fifo(Frame)
      /\ txparamfifo.hid <= Len(txparamfifo.q) /\ txbackfifo.hid <= Len(txbackfifo.q)
  BY DEF TypeOK, Occupancy
<1>1. UNCHANGED <<wrVars, rdVars, FSMtxscheduler, wpos, fpos>>
  BY DEF SetInputs, RdenaStep, SyncToWclk, SyncToClk2, ParamFifoSync, BackFifoSync, syncFrame, histVars
<1>2. CASE SetInputs \/ RdenaStep \/ SyncToWclk \/ SyncToClk2
  <2>1. UNCHANGED <<txparamfifo, txbackfifo>>
    BY <1>2 DEF SetInputs, RdenaStep, SyncToWclk, SyncToClk2, memVars
  <2> QED BY <1>1, <2>1 DEF Occupancy, wrVars, rdVars, RdEmpty
<1>3. CASE ParamFifoSync
  <2>1. /\ txparamfifo'.q = txparamfifo.q /\ txparamfifo'.hid <= Len(txparamfifo'.q)
        /\ ~RdEmpty(txparamfifo) => ~RdEmpty(txparamfifo') /\ UNCHANGED txbackfifo
    BY <1>0, <1>3, FifoSteps DEF ParamFifoSync
  <2>2. UNCHANGED txbackfifo
    BY <1>3 DEF ParamFifoSync
  <2> QED BY <1>0, <1>1, <2>1, <2>2 DEF Occupancy, wrVars, rdVars, RdEmpty
<1>4. CASE BackFifoSync
  <2>1. /\ txbackfifo'.q = txbackfifo.q /\ txbackfifo'.hid <= Len(txbackfifo'.q)
        /\ UNCHANGED txparamfifo
    BY <1>0, <1>4, FifoSteps DEF BackFifoSync
  <2> QED BY <1>0, <1>1, <2>1 DEF Occupancy, wrVars, rdVars, RdEmpty
<1> QED BY <1>1, <1>2, <1>3, <1>4

-----------------------------------------------------------------------------
(* The stretch of the stream held in memory. *)

\* An empty stretch, a stretch without its first frame, and with one more.
LEMMA CoversSteps ==
  ASSUME NEW s \in Seq(Frame), NEW from \in Nat, NEW to \in Nat, Covers(s, from, to)
  PROVE  /\ s # <<>> => /\ s[1] \in Frame /\ s[1].pos = from /\ from + s[1].len <= to
                        /\ Covers(Tail(s), from + s[1].len, to)
                        /\ Tail(s) # <<>> => Tail(s)[1].pos = from + s[1].len
                        /\ Tail(s) = <<>> => to = from + s[1].len
         /\ \A f \in Frame : from <= to /\ f.pos = to =>
              Covers(Append(s, f), from, to + f.len)
<1>0. Len(s) \in Nat /\ \A i \in 1 .. Len(s) : s[i] \in Frame /\ s[i].pos \in Nat /\ s[i].len \in Nat
  <2>1. Len(s) \in Nat /\ \A i \in 1 .. Len(s) : s[i] \in Frame
    OBVIOUS
  <2>2. \A f \in Frame : f.pos \in Nat /\ f.len \in Nat
    BY DEF Frame
  <2> QED BY <2>1, <2>2
<1>1. ASSUME s # <<>>
      PROVE  /\ s[1] \in Frame /\ s[1].pos = from /\ from + s[1].len <= to
             /\ Covers(Tail(s), from + s[1].len, to)
             /\ Tail(s) # <<>> => Tail(s)[1].pos = from + s[1].len
             /\ Tail(s) = <<>> => to = from + s[1].len
  <2>1. /\ Len(s) \in Nat \ {0} /\ Tail(s) \in Seq(Frame) /\ Len(Tail(s)) = Len(s) - 1
        /\ \A i \in 1 .. Len(s) - 1 : Tail(s)[i] = s[i + 1]
    BY <1>1, PopFrame
  <2>2. s[1] \in Frame /\ s[1].pos = from /\ from + s[1].len <= to
    BY <1>0, <1>1, <2>1 DEF Covers
  <2>3. ASSUME Tail(s) = <<>> PROVE to = from + s[1].len
    <3>0. Len(Tail(s)) = 0
      BY <2>1, <2>3, EmptyQueue
    <3>1. Len(s) = 1
      <4>1. Len(s) - 1 = 0
        BY <2>1, <3>0
      <4>2. Len(s) \in Nat
        BY <2>1
      <4> QED BY <4>1, <4>2
    <3> QED BY <1>1, <2>2, <3>1 DEF Covers
  <2>4. ASSUME Tail(s) # <<>>
        PROVE  /\ Len(s) - 1 \in Nat \ {0} /\ Tail(s)[1] = s[2]
               /\ s[2].pos = from + s[1].len
               /\ Tail(s)[Len(s) - 1] = s[Len(s)]
    <3>1. Len(s) - 1 \in Nat \ {0}
      BY <2>1, <2>4, EmptyQueue
    <3>2. 1 \in 1 .. Len(s) - 1 /\ Len(s) - 1 \in 1 .. Len(s) - 1 /\ Len(s) - 1 + 1 = Len(s)
      BY <2>1, <3>1
    <3>3. Tail(s)[1] = s[2] /\ Tail(s)[Len(s) - 1] = s[Len(s)]
      BY <2>1, <3>1, <3>2
    <3>4. s[1].pos + s[1].len = s[2].pos
      BY <3>2 DEF Covers
    <3> QED BY <2>2, <3>1, <3>3, <3>4
  <2> QED BY <1>0, <1>1, <2>1, <2>2, <2>3, <2>4 DEF Covers
<1>2. ASSUME NEW f \in Frame, from <= to, f.pos = to
      PROVE  Covers(Append(s, f), from, to + f.len)
  <2>1. /\ Append(s, f) # <<>> /\ Len(Append(s, f)) = Len(s) + 1
        /\ \A i \in 1 .. Len(s) : Append(s, f)[i] = s[i]
        /\ Append(s, f)[Len(s) + 1] = f /\ f.len \in Nat
    BY PushFrame DEF Frame
  <2>2. Append(s, f)[1].pos = from
    BY <1>0, <1>2, <2>1 DEF Covers
  <2>3. \A i \in 1 .. Len(s) + 1 :
          Append(s, f)[i].pos + Append(s, f)[i].len <= to + f.len
    BY <1>0, <1>2, <2>1 DEF Covers
  <2>4. \A i \in 1 .. Len(s) :
          Append(s, f)[i].pos + Append(s, f)[i].len = Append(s, f)[i + 1].pos
    BY <1>0, <1>2, <2>1 DEF Covers
  <2> QED BY <1>0, <1>2, <2>1, <2>2, <2>3, <2>4 DEF Covers
<1> QED BY <1>1, <1>2

\* The de-allocation logic moves the start of the stretch and keeps the sum.
LEMMA ReleaseStretch ==
  ASSUME TypeOK, Occupancy,
         NEW free \in Nat, NEW freed \in Nat, NEW to \in Nat, NEW top \in Nat,
         Covers(txbackfifo.q, freed, to), freed <= to, to <= top,
         free = BUFLEN - (top - freed), Release(free, freed)
  PROVE  /\ Covers(txbackfifo'.q, fpos', to) /\ fpos' \in Nat /\ fpos' <= to
         /\ freelen' = BUFLEN - (top - fpos') /\ freelen' >= free
<1>0. txbackfifo \in Fifo(Frame) /\ txbackfifo.q \in Seq(Frame) /\ BUFLEN \in Nat \ {0}
  BY TxPortAssumption DEF TypeOK, Fifo
<1>1. CASE RdEmpty(txbackfifo)
  BY <1>0, <1>1 DEF Release
<1>2. CASE ~RdEmpty(txbackfifo)
  <2> DEFINE len == Head(txbackfifo.q).len
  <2>1. txbackfifo.q # <<>> /\ Head(txbackfifo.q) = txbackfifo.q[1]
        /\ Pop(txbackfifo).q = Tail(txbackfifo.q) /\ len \in Nat
    BY <1>0, <1>2, FifoSteps, PopFrame DEF Occupancy, Frame
  <2>2. freed + len <= to /\ Covers(Tail(txbackfifo.q), freed + len, to)
    BY <1>0, <2>1, CoversSteps
  <2>3. Width13(free + len) = free + len
    <3> HIDE DEF len
    <3>1. free + len <= BUFLEN
      BY <1>0, <2>1, <2>2
    <3>2. free + len \in Nat /\ 2 * BUFLEN \in Nat \ {0} /\ free + len < 2 * BUFLEN
      BY <1>0, <2>1, <3>1
    <3> QED BY <3>2, ModSmall DEF Width13
  <2>4. txbackfifo' = Pop(txbackfifo) /\ fpos' = freed + len /\ freelen' = Width13(free + len)
    BY <1>2 DEF Release
  <2> HIDE DEF len
  <2>5. fpos' = freed + len /\ freelen' = free + len
    BY <2>3, <2>4
  <2>6. fpos' \in Nat /\ fpos' <= to /\ freelen' >= free
    BY <2>1, <2>2, <2>5
  <2>7. freelen' = BUFLEN - (top - fpos')
    BY <1>0, <2>1, <2>5
  <2>8. Covers(txbackfifo'.q, fpos', to)
    BY <2>1, <2>2, <2>4, <2>5
  <2> QED BY <2>6, <2>7, <2>8
<1> QED BY <1>1, <1>2

\* The steps of the writer keep the stretch gapless and the sum exact.
LEMMA WrStretch == Inv /\ WrStep => (Stretch /\ SpaceAccounting)'
<1> SUFFICES ASSUME Inv, WrStep PROVE (Stretch /\ SpaceAccounting)'
  OBVIOUS
<1>0. /\ TypeOK /\ Occupancy /\ Handshake /\ BUFLEN \in Nat \ {0}
      /\ wpos \in Nat /\ fpos \in Nat /\ freelen \in Nat /\ datalen \in Nat
      /\ FSMtxportwr \in {"S0", "S1", "S1_1", "S2_0", "S2_1", "S2_2"}
      /\ \A f \in Frame : f.pos \in Nat
      /\ txparamfifo.q \in Seq(Frame) /\ UNCHANGED txparamfifo
  BY TxPortAssumption DEF Inv, TypeOK, Fifo, Frame, WrStep, WrReset, WrInit, WrEnable, WrStop, WrBusy,
     WrFlush, WrDisable
<1>1. CASE ~Running'
  BY <1>1 DEF Stretch, SpaceAccounting
<1>2. CASE WrInit /\ Running'
  <2>1. /\ txparamfifo.q = <<>> /\ txbackfifo.q = <<>> /\ RdEmpty(txbackfifo)
    <3>1. txparamfifo.q = <<>> /\ txbackfifo.q = <<>>
      BY <1>0, <1>2 DEF WrInit, Occupancy
    <3>2. Len(txbackfifo.q) = 0 /\ txbackfifo.hid \in Nat
      BY <1>0, <3>1, EmptyQueue DEF TypeOK, Fifo
    <3> QED BY <3>1, <3>2 DEF RdEmpty
  <2>2. txparamfifo'.q = <<>> /\ txbackfifo'.q = <<>> /\ wpos' = 0 /\ fpos' = 0 /\ freelen' = BUFLEN
        /\ datalen' = 0
    BY <1>0, <1>2, <2>1 DEF WrInit, Release
  <2> QED BY <1>0, <2>2 DEF Stretch, SpaceAccounting, Covers, RdPos
<1>3. CASE ~WrInit /\ Running'
  <2>1. Running /\ Release(freelen, fpos) /\ wpos' = wpos /\ datalen' = datalen
    BY <1>0, <1>3 DEF Running, WrStep, WrReset, WrEnable, WrStop, WrBusy, WrFlush, WrDisable
  <2>2. RdPos' = RdPos
    BY <1>0, <2>1 DEF RdPos
  <2>3. RdPos \in Nat
    BY <1>0, PopFrame DEF RdPos
  <2>4. /\ Covers(txparamfifo.q, RdPos, wpos) /\ Covers(txbackfifo.q, fpos, RdPos)
        /\ fpos <= RdPos /\ RdPos <= wpos
        /\ freelen = BUFLEN - (wpos - fpos) /\ datalen <= freelen
    BY <2>1 DEF Inv, Stretch, SpaceAccounting
  <2>5. /\ Covers(txbackfifo'.q, fpos', RdPos) /\ fpos' \in Nat /\ fpos' <= RdPos
        /\ freelen' = BUFLEN - (wpos - fpos') /\ freelen' >= freelen
    BY <1>0, <2>1, <2>3, <2>4, ReleaseStretch
  <2>6. Covers(txparamfifo'.q, RdPos', wpos') /\ Covers(txbackfifo'.q, fpos', RdPos')
    BY <1>0, <2>1, <2>2, <2>4, <2>5
  <2>7. freelen' \in Int
    BY <1>0, <2>1, <2>5
  <2>8. fpos' <= RdPos' /\ RdPos' <= wpos'
    BY <2>1, <2>2, <2>4, <2>5
  <2>9. freelen' = BUFLEN - (wpos' - fpos') /\ datalen' <= freelen'
    <3>1. freelen' = BUFLEN - (wpos - fpos') /\ wpos' = wpos
      BY <2>1, <2>5
    <3>2. datalen' = datalen /\ datalen <= freelen /\ freelen <= freelen'
      BY <1>0, <2>1, <2>4, <2>5, <2>7
    <3> QED BY <1>0, <2>7, <3>1, <3>2
  <2> QED BY <2>6, <2>8, <2>9 DEF Stretch, SpaceAccounting
<1> QED BY <1>1, <1>2, <1>3

\* Writing and queueing: a queued frame extends the stretch by its length.
LEMMA RunStretch ==
  ASSUME Inv, NEW wreq \in BOOLEAN, NEW wtxclr \in BOOLEAN, NEW wtxreq \in BOOLEAN,
         WrRun(wreq, wtxclr, wtxreq)
  PROVE  (Stretch /\ SpaceAccounting)'
<1> DEFINE len == IF wreq /\ ~DataFull THEN datalen + WBYTES ELSE datalen
           queue == wtxreq /\ ~wtxclr
           frame == [base |-> baseptr, len |-> len, pos |-> wpos]
<1>0. /\ TypeOK /\ Occupancy /\ BUFLEN \in Nat \ {0} /\ WBYTES \in Nat
      /\ wpos \in Nat /\ fpos \in Nat /\ freelen \in Nat /\ datalen \in Nat
      /\ baseptr \in Nat /\ txparamfifo \in Fifo(Frame) /\ txparamfifo.q \in Seq(Frame)
  <2>1. TypeOK /\ Occupancy
    BY DEF Inv
  <2>2. /\ wpos \in Nat /\ fpos \in Nat /\ freelen \in Nat /\ datalen \in Nat
        /\ baseptr \in Nat
    BY <2>1, TxPortAssumption DEF TypeOK, Addr
  <2>3. txparamfifo \in Fifo(Frame) /\ txparamfifo.q \in Seq(Frame)
    BY <2>1 DEF TypeOK, Fifo
  <2> QED BY <2>1, <2>2, <2>3, TxPortAssumption
<1>1. FSMtxportwr' = "S2_0" /\ Running /\ ~WrFull(txparamfifo)
  BY DEF WrRun, Running
<1>2. /\ Covers(txparamfifo.q, RdPos, wpos) /\ Covers(txbackfifo.q, fpos, RdPos)
      /\ fpos <= RdPos /\ RdPos <= wpos
      /\ freelen = BUFLEN - (wpos - fpos) /\ datalen <= freelen
  BY <1>1 DEF Inv, Stretch, SpaceAccounting
<1>3. RdPos \in Nat
  <2>1. txparamfifo.q # <<>> => txparamfifo.q[1].pos \in Nat
    BY <1>0, PopFrame DEF Frame
  <2> QED BY <1>0, <2>1 DEF RdPos
<1>4. len \in Nat /\ len <= freelen
  BY <1>0, <1>2 DEF DataFull
<1>5. CASE queue
  <2>1. /\ txparamfifo' = Push(txparamfifo, frame) /\ wpos' = wpos + len /\ datalen' = 0
        /\ Release(Width13(freelen - len), fpos)
    BY <1>5 DEF WrRun
  <2>2. frame \in Frame /\ frame.pos = wpos /\ frame.len = len
    BY <1>0, <1>4 DEF Frame
  <2>3. txparamfifo'.q = Append(txparamfifo.q, frame)
    BY <1>0, <1>1, <2>1, <2>2, FifoSteps DEF Occupancy
  <2> HIDE DEF len, frame
  <2>4. Covers(txparamfifo'.q, RdPos, wpos + len)
    <3>1. Covers(Append(txparamfifo.q, frame), RdPos, wpos + frame.len)
      BY <1>0, <1>2, <1>3, <2>2, CoversSteps
    <3> QED BY <2>2, <2>3, <3>1
  <2>5. RdPos' = RdPos
    <3>1. CASE txparamfifo.q = <<>>
      <4>1. Append(txparamfifo.q, frame)[1] = frame /\ Append(txparamfifo.q, frame) # <<>>
        BY <1>0, <2>2, <3>1, PushFrame
      <4> QED BY <2>2, <2>3, <3>1, <4>1 DEF RdPos
    <3>2. CASE txparamfifo.q # <<>>
      <4>1. 1 \in 1 .. Len(txparamfifo.q)
        BY <1>0, <3>2, EmptyQueue
      <4>2. Append(txparamfifo.q, frame)[1] = txparamfifo.q[1] /\ Append(txparamfifo.q, frame) # <<>>
        BY <1>0, <2>2, <4>1, PushFrame
      <4> QED BY <2>3, <3>2, <4>2 DEF RdPos
    <3> QED BY <3>1, <3>2
  <2>6. Width13(freelen - len) = freelen - len /\ freelen - len \in Nat
    <3>1. freelen - len \in Nat /\ 2 * BUFLEN \in Nat \ {0} /\ freelen - len < 2 * BUFLEN
      BY <1>0, <1>2, <1>3, <1>4
    <3> QED BY <3>1, ModSmall DEF Width13
  <2>7. freelen - len = BUFLEN - ((wpos + len) - fpos) /\ RdPos <= wpos + len /\ wpos + len \in Nat
    BY <1>0, <1>2, <1>3, <1>4
  <2>8. Release(freelen - len, fpos)
    BY <2>1, <2>6
  <2>9. /\ Covers(txbackfifo'.q, fpos', RdPos) /\ fpos' \in Nat /\ fpos' <= RdPos
        /\ freelen' = BUFLEN - ((wpos + len) - fpos') /\ freelen' >= freelen - len
    BY <1>0, <1>2, <1>3, <2>6, <2>7, <2>8, ReleaseStretch
  <2>10. 0 <= freelen'
    BY <1>0, <1>3, <2>6, <2>7, <2>9
  <2> QED BY <2>1, <2>4, <2>5, <2>7, <2>9, <2>10 DEF Stretch, SpaceAccounting
<1>6. CASE ~queue
  <2>1. UNCHANGED <<txparamfifo, wpos>> /\ Release(freelen, fpos) /\ datalen' \in {0, len}
    BY <1>6 DEF WrRun
  <2>2. RdPos' = RdPos
    BY <2>1 DEF RdPos
  <2>3. /\ Covers(txbackfifo'.q, fpos', RdPos) /\ fpos' \in Nat /\ fpos' <= RdPos
        /\ freelen' = BUFLEN - (wpos - fpos') /\ freelen' >= freelen
    BY <1>0, <1>2, <1>3, <2>1, ReleaseStretch
  <2> HIDE DEF len
  <2>4. datalen' <= freelen'
    <3>1. freelen' \in Int /\ len \in Nat /\ len <= freelen
      BY <1>0, <1>4, <2>3
    <3>2. datalen' = 0 \/ datalen' = len
      BY <2>1
    <3>3. freelen' >= freelen /\ freelen \in Nat
      BY <1>0, <2>3
    <3>4. CASE datalen' = 0
      BY <3>1, <3>3, <3>4
    <3>5. CASE datalen' = len
      BY <3>1, <3>3, <3>5
    <3> QED BY <3>2, <3>4, <3>5
  <2> QED BY <1>2, <2>1, <2>2, <2>3, <2>4 DEF Stretch, SpaceAccounting
<1> QED BY <1>5, <1>6

\* The read side moves the boundary between the two FIFOs, never the ends.
LEMMA RdStretch ==
  ASSUME Inv, RdStep \/ Request \/ Grant \/ Done \/ AckFlush
  PROVE  (Stretch /\ SpaceAccounting)'
<1>0. /\ txparamfifo \in Fifo(Frame) /\ txbackfifo \in Fifo(Frame)
      /\ txparamfifo.q \in Seq(Frame) /\ txbackfifo.q \in Seq(Frame)
      /\ txparamfifo.hid <= Len(txparamfifo.q) /\ txbackfifo.hid <= Len(txbackfifo.q)
      /\ wpos \in Nat /\ fpos \in Nat
  BY DEF Inv, TypeOK, Fifo, Occupancy
<1>1. UNCHANGED <<FSMtxportwr, wpos, fpos, freelen, datalen>>
  BY DEF RdStep, RdReset, RdIdle, RdFlush, RdDiscard, Request, Grant, Done, AckFlush,
     rdFrame, schedFrame, wrVars, histVars
<1>2. SpaceAccounting'
  BY <1>1 DEF Inv, SpaceAccounting, Running
<1>3. CASE UNCHANGED <<txparamfifo, txbackfifo>>
  <2>1. RdPos' = RdPos /\ Running' = Running
    BY <1>1, <1>3 DEF RdPos, Running
  <2> QED BY <1>1, <1>2, <1>3, <2>1 DEF Inv, Stretch
<1>4. CASE RdFlush /\ Running
  <2> DEFINE f == Head(txparamfifo.q)
  <2>1. FSMtxportrd = "S3" /\ ~RdEmpty(txparamfifo) /\ ~WrFull(txbackfifo)
    BY <1>4 DEF RdFlush, Inv, Occupancy
  <2>2. /\ Covers(txparamfifo.q, RdPos, wpos) /\ Covers(txbackfifo.q, fpos, RdPos)
        /\ fpos <= RdPos /\ RdPos <= wpos
    BY <1>4 DEF Inv, Stretch
  <2>3. txparamfifo.q # <<>> /\ f = txparamfifo.q[1] /\ f \in Frame
    BY <1>0, <2>1, FifoSteps, PopFrame
  <2>4. RdPos = f.pos /\ RdPos \in Nat /\ f.len \in Nat
    BY <2>3 DEF RdPos, Frame
  <2>5. txparamfifo' = Pop(txparamfifo) /\ txbackfifo' = Push(txbackfifo, f)
    BY <1>4, <2>1 DEF RdFlush
  <2>6. txparamfifo'.q = Tail(txparamfifo.q) /\ txbackfifo'.q = Append(txbackfifo.q, f)
    BY <1>0, <2>1, <2>3, <2>5, FifoSteps
  <2> HIDE DEF f
  <2>7. /\ f.pos + f.len <= wpos /\ Covers(Tail(txparamfifo.q), RdPos + f.len, wpos)
        /\ Tail(txparamfifo.q) # <<>> => Tail(txparamfifo.q)[1].pos = RdPos + f.len
        /\ Tail(txparamfifo.q) = <<>> => wpos = RdPos + f.len
    BY <1>0, <2>2, <2>3, <2>4, CoversSteps
  <2>8. RdPos' = RdPos + f.len
    BY <1>1, <2>6, <2>7 DEF RdPos
  <2>9. Covers(txbackfifo'.q, fpos, RdPos + f.len)
    BY <1>0, <2>2, <2>3, <2>4, <2>6, CoversSteps
  <2>10. fpos <= RdPos + f.len /\ RdPos + f.len <= wpos
    BY <1>0, <2>2, <2>4, <2>7
  <2> QED BY <1>1, <1>2, <2>6, <2>7, <2>8, <2>9, <2>10 DEF Stretch
<1>5. CASE RdDiscard /\ Running
  <2>1. FSMtxportwr = "S1_1"
    <3>1. FSMtxportrd = "S4" /\ enaSync \in [1 .. SYNC -> BOOLEAN]
      BY <1>5 DEF RdDiscard, Inv, TypeOK
    <3>2. FSMtxportwr \notin {"S2_0", "S2_1"}
      BY <3>1, EndStands DEF Inv, Handshake
    <3> QED BY <1>5, <3>2 DEF Running
  <2>2. txparamfifo.q = <<>> /\ RdEmpty(txparamfifo)
    <3>1. txparamfifo.q = <<>> /\ Len(txparamfifo.q) = 0 /\ txparamfifo.hid \in Nat
      BY <1>0, <2>1, EmptyQueue DEF Inv, Occupancy, Fifo
    <3> QED BY <3>1 DEF RdEmpty
  <2> QED BY <1>3, <1>5, <2>2 DEF RdDiscard
<1>6. CASE ~Running
  BY <1>1, <1>2, <1>6 DEF Stretch, Running
<1>7. CASE RdReset \/ RdIdle \/ Request \/ Grant \/ Done \/ AckFlush
  BY <1>3, <1>7 DEF RdReset, RdIdle, Request, Grant, Done, AckFlush, schedFrame, memVars
<1> QED BY <1>4, <1>5, <1>6, <1>7 DEF RdStep

-----------------------------------------------------------------------------
(* The invariant, and what follows from it. *)

\* The inductive invariant holds in every state.
THEOREM Invariance == Spec => []Inv
<1>1. Init => Inv
  <2> SUFFICES ASSUME Init PROVE Inv
    OBVIOUS
  <2>1. TypeOK
    BY InitType
  <2>2. Handshake
    BY TxPortAssumption DEF Init, Handshake, AllLow, Low
  <2>3. Occupancy
    BY DEF Init, Occupancy, EmptyFifo
  <2>5. RequestStays
    BY TxPortAssumption DEF Init, RequestStays, Running, Low
  <2>4. Stretch /\ SpaceAccounting
    BY DEF Init, Stretch, SpaceAccounting, Running
  <2> QED BY <2>1, <2>2, <2>3, <2>4, <2>5 DEF Inv
<1>2. Inv /\ [Next]_vars => Inv'
  <2> SUFFICES ASSUME Inv, [Next]_vars PROVE Inv'
    OBVIOUS
  <2>0. TypeOK /\ Handshake /\ RequestStays /\ Occupancy /\ Stretch /\ SpaceAccounting
    BY DEF Inv
  <2>1. TypeOK' /\ RequestStays'
    BY <2>0, NextType, RequestNext
  <2>2. CASE WrStep
    BY <2>0, <2>1, <2>2, WrHandshake, WrOccupancy, WrStretch DEF Inv
  <2>3. ASSUME NEW wreq \in BOOLEAN, NEW wtxclr \in BOOLEAN, NEW wtxreq \in BOOLEAN,
               WrRun(wreq, wtxclr, wtxreq)
        PROVE  Inv'
    <3>1. Handshake'
      BY <2>0, <2>3 DEF Handshake, WrRun, wrFrame, rdVars, syncVars, AllHigh, AllLow, Rises, Falls, Out
    <3> QED BY <2>0, <2>1, <2>3, <3>1, WrOccupancy, RunStretch DEF Inv
  <2>4. CASE RdStep \/ Request \/ Grant \/ Done \/ AckFlush
    BY <2>0, <2>1, <2>4, RdHandshake, RdOccupancy, RdStretch DEF Inv, Occupancy
  <2>5. CASE SetInputs \/ RdenaStep \/ SyncToWclk \/ SyncToClk2 \/ ParamFifoSync \/ BackFifoSync
    <3>1. /\ Occupancy' /\ txparamfifo'.q = txparamfifo.q /\ txbackfifo'.q = txbackfifo.q
          /\ UNCHANGED <<wrVars, rdVars, FSMtxscheduler, wpos, fpos>>
      BY <2>0, <2>5, SyncOccupancy
    <3>2. RdPos' = RdPos /\ Running' = Running
      BY <3>1 DEF RdPos, Running, wrVars
    <3>3. (Stretch /\ SpaceAccounting)'
      BY <2>0, <3>1, <3>2 DEF Stretch, SpaceAccounting, wrVars
    <3>4. CASE SyncToWclk \/ SyncToClk2
      BY <2>0, <2>1, <3>1, <3>3, <3>4, SyncHandshake DEF Inv
    <3>5. CASE SetInputs \/ RdenaStep \/ ParamFifoSync \/ BackFifoSync
      <4>1. UNCHANGED <<enaSync, enaretSync>>
        BY <3>5 DEF SetInputs, RdenaStep, ParamFifoSync, BackFifoSync, syncVars
      <4>2. Handshake'
        BY <2>0, <3>1, <4>1 DEF Handshake, wrVars, rdVars, AllHigh, AllLow, Rises, Falls, Out
      <4> QED BY <2>1, <3>1, <3>3, <4>2 DEF Inv
    <3> QED BY <2>5, <3>4, <3>5
  <2>6. CASE UNCHANGED vars
    <3>1. UNCHANGED <<wrVars, rdVars, FSMtxscheduler, syncVars, memVars, wpos, fpos>>
      BY <2>6 DEF vars, histVars
    <3>2. RdPos' = RdPos /\ Running' = Running
      BY <3>1 DEF RdPos, Running, wrVars, memVars
    <3>3. (Stretch /\ SpaceAccounting)'
      BY <2>0, <3>1, <3>2 DEF Stretch, SpaceAccounting, wrVars, memVars
    <3>4. Handshake'
      BY <2>0, <3>1 DEF Handshake, wrVars, rdVars, syncVars, AllHigh, AllLow, Rises, Falls, Out
    <3>5. Occupancy'
      BY <2>0, <3>1 DEF Occupancy, wrVars, rdVars, memVars, RdEmpty
    <3> QED BY <2>1, <3>3, <3>4, <3>5 DEF Inv
  <2> QED BY <2>2, <2>3, <2>4, <2>5, <2>6 DEF Next
<1> QED BY <1>1, <1>2, PTL DEF Spec

\* While the port is enabled the free count is exactly the memory not held by
\* frames queued, being flushed or being loaded.
THEOREM SpaceIsAccounted == Spec => []SpaceAccounting
<1>1. Inv => SpaceAccounting
  BY DEF Inv
<1> QED BY <1>1, Invariance, PTL

\* The writer restarts only over two FIFOs that really are empty.
THEOREM RestartIsClean == Spec => []CleanRestart
<1>1. Inv => CleanRestart
  BY DEF Inv, Occupancy, CleanRestart
<1> QED BY <1>1, Invariance, PTL

\* A frame is offered, sent and flushed only where there is one.
THEOREM FrameIsOnOffer == Spec => []FrameOnOffer
<1>1. Inv => FrameOnOffer
  BY DEF Inv, Occupancy, FrameOnOffer
<1> QED BY <1>1, Invariance, PTL

\* The client can queue frames only when the read side has left its cleanup.
THEOREM RunExcludesDiscard == Spec => []NoRunDuringDiscard
<1>1. Inv => NoRunDuringDiscard
  BY TxPortAssumption, EndStands DEF Inv, TypeOK, Handshake, NoRunDuringDiscard
<1> QED BY <1>1, Invariance, PTL

\* Whatever the client does with wena, every queued frame is offered until it
\* has been sent: none is discarded and no request is withdrawn.
THEOREM NoFrameIsDiscarded == Spec => []NothingDiscarded
<1>1. Inv => NothingDiscarded
  <2> SUFFICES ASSUME Inv PROVE NothingDiscarded
    OBVIOUS
  <2>0. /\ FSMtxportwr \in {"S0", "S1", "S1_1", "S2_0", "S2_1", "S2_2"}
        /\ txportenaret \in BOOLEAN /\ SYNC \in 1 .. SYNC
    BY TxPortAssumption DEF Inv, TypeOK
  <2>1. FSMtxportwr \in {"S2_0", "S2_1"} => txportenaret /\ Out(enaSync)
    BY <2>0 DEF Inv, Handshake, AllHigh, Out
  <2>2. FSMtxportwr \notin {"S2_0", "S2_1"} => txparamfifo.q = <<>>
    BY <2>0 DEF Inv, Occupancy
  <2>3. FSMtxportrd = "S4" => FSMtxportwr \notin {"S2_0", "S2_1"}
    BY <2>1 DEF Inv, Handshake
  <2>4. FSMtxscheduler = "S1_1" => FSMtxportwr \in {"S2_0", "S2_1"}
    <3>1. FSMtxscheduler = "S1_1" => ~RdEmpty(txparamfifo)
      BY DEF Inv, Occupancy
    <3>2. txparamfifo.q = <<>> => RdEmpty(txparamfifo)
      BY EmptyQueue DEF Inv, TypeOK, Fifo, RdEmpty, Occupancy
    <3> QED BY <2>2, <3>1, <3>2
  <2> QED BY <2>1, <2>2, <2>3, <2>4 DEF NothingDiscarded
<1> QED BY <1>1, Invariance, PTL

=============================================================================
