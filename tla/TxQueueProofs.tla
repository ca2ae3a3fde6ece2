---------------------------- MODULE TxQueueProofs ----------------------------
(***************************************************************************)
(* The memory of a transmit port is a circle; the port is a queue.         *)
(*                                                                         *)
(* On top of the invariant of TxPortProofs, Memory says where the bytes    *)
(* are: the stream position p is at address p modulo the size, for every   *)
(* byte of the frames queued and of the frame being loaded.  A word is     *)
(* written only when the free count, which is exact, has room for it, and  *)
(* then none of its addresses is that of a byte still needed.  With it     *)
(* every transmission is that of the head of an abstract queue.            *)
(***************************************************************************)
EXTENDS TxPortProofs, SequenceTheorems

Memory ==
  Running =>
    /\ baseptr = wpos % BUFLEN
    /\ \A i \in 1 .. Len(txparamfifo.q) :
         txparamfifo.q[i].base = txparamfifo.q[i].pos % BUFLEN
    /\ \A i, j \in 1 .. Len(txparamfifo.q) : i < j => txparamfifo.q[i].pos <= txparamfifo.q[j].pos
    /\ \A p \in Nat : RdPos <= p /\ p < wpos + datalen => txdatabuf[p % BUFLEN] = p

-----------------------------------------------------------------------------
(* Arithmetic of the circle. *)

\* A positive multiple of n is at least n.
LEMMA Multiple ==
  ASSUME NEW n \in Nat \ {0}, NEW k \in Int
  PROVE  /\ k >= 1 => n * k >= n
         /\ k <= -1 => n * k <= -n
  OBVIOUS

\* What a remainder is.
LEMMA Division ==
  ASSUME NEW n \in Nat \ {0}, NEW x \in Int
  PROVE  x \div n \in Int /\ x = n * (x \div n) + (x % n) /\ x % n \in 0 .. n - 1
  OBVIOUS

\* Dividing with rest has one result.
LEMMA Unique ==
  ASSUME NEW n \in Nat \ {0}, NEW q \in Int, NEW r \in 0 .. n - 1
  PROVE  (n * q + r) % n = r
<1> DEFINE x == n * q + r
           k == x \div n
           s == x % n
<1>1. x \in Int /\ k \in Int /\ x = n * k + s /\ s \in 0 .. n - 1
  <2>1. x \in Int
    OBVIOUS
  <2> QED BY <2>1, Division
<1> HIDE DEF k, s
<1>2. n * (k - q) = r - s
  <2>1. n * (k - q) = n * k - n * q
    BY <1>1
  <2>2. n * k \in Int /\ n * q \in Int
    BY <1>1
  <2> QED BY <1>1, <2>1, <2>2
<1>3. k = q
  <2>1. k - q \in Int
    BY <1>1
  <2>2. ~(k - q >= 1) /\ ~(k - q <= -1)
    BY <1>1, <1>2, <2>1, Multiple
  <2> QED BY <1>1, <2>1, <2>2
<1>4. r = s
  <2>1. n * (k - q) = 0
    BY <1>3
  <2> QED BY <1>1, <1>2, <2>1
<1> QED BY <1>4 DEF s

\* Going round the circle changes no address.
LEMMA Rounds ==
  ASSUME NEW n \in Nat \ {0}, NEW x \in Int, NEW k \in Int
  PROVE  (x + n * k) % n = x % n
<1> DEFINE q == x \div n
           r == x % n
<1>1. q \in Int /\ x = n * q + r /\ r \in 0 .. n - 1
  BY Division
<1> HIDE DEF q, r
<1>2. x + n * k = n * (q + k) + r
  <2>1. n * (q + k) = n * q + n * k
    BY <1>1
  <2>2. n * q \in Int /\ n * k \in Int
    BY <1>1
  <2> QED BY <1>1, <2>1, <2>2
<1>3. (n * (q + k) + r) % n = r
  <2>1. q + k \in Int
    BY <1>1
  <2> QED BY <1>1, <2>1, Unique
<1> QED BY <1>2, <1>3 DEF r

\* Adding to a wrapped address, or taking one away, wraps as with the position.
LEMMA ModAdd ==
  ASSUME NEW n \in Nat \ {0}, NEW x \in Int, NEW c \in Int
  PROVE  /\ ((x % n) + c) % n = (x + c) % n
         /\ (c - (x % n)) % n = (c - x) % n
<1> DEFINE q == x \div n
           r == x % n
<1>1. q \in Int /\ x = n * q + r /\ r \in 0 .. n - 1
  BY Division
<1> HIDE DEF q, r
<1>2. n * q \in Int /\ -q \in Int /\ n * (-q) = -(n * q)
  BY <1>1
<1>3. r + c = (x + c) + n * (-q) /\ c - r = (c - x) + n * q
  BY <1>1, <1>2
<1>4. ((x + c) + n * (-q)) % n = (x + c) % n
  <2>1. x + c \in Int
    OBVIOUS
  <2> QED BY <1>2, <2>1, Rounds, Zenon
<1>5. ((c - x) + n * q) % n = (c - x) % n
  <2>1. c - x \in Int
    OBVIOUS
  <2> QED BY <1>1, <2>1, Rounds, Zenon
<1> QED BY <1>3, <1>4, <1>5 DEF r

\* A distance within one round.
LEMMA ModNear ==
  ASSUME NEW n \in Nat \ {0}, NEW x \in Int
  PROVE  /\ 0 <= x /\ x < n => x % n = x
         /\ -n <= x /\ x < 0 => x % n = x + n
<1>1. ASSUME 0 <= x, x < n PROVE x % n = x
  BY <1>1, ModSmall
<1>2. ASSUME -n <= x, x < 0 PROVE x % n = x + n
  <2>1. (x + n * 1) % n = x % n
    <3>1. 1 \in Int
      OBVIOUS
    <3> QED BY <3>1, Rounds, Zenon
  <2>2. x + n * 1 = x + n /\ x + n \in Nat /\ x + n < n
    BY <1>2
  <2> QED BY <2>1, <2>2, ModSmall
<1> QED BY <1>1, <1>2

-----------------------------------------------------------------------------
(* The memory. *)

\* The numbers of the books, and the first position needed.
LEMMA Books ==
  ASSUME Inv
  PROVE  /\ BUFLEN \in Nat \ {0} /\ WBYTES \in Nat \ {0} /\ wpos \in Nat /\ fpos \in Nat
         /\ datalen \in Nat /\ freelen \in Nat /\ baseptr \in Addr /\ RdPos \in Nat
         /\ txdatabuf \in [Addr -> Nat]
         /\ txparamfifo \in Fifo(Frame) /\ txparamfifo.q \in Seq(Frame)
         /\ txparamfifo.hid <= Len(txparamfifo.q)
<1>1. /\ wpos \in Nat /\ fpos \in Nat /\ datalen \in Nat /\ freelen \in Nat /\ baseptr \in Addr
      /\ txdatabuf \in [Addr -> Nat]
  BY DEF Inv, TypeOK
<1>2. txparamfifo \in Fifo(Frame) /\ txparamfifo.q \in Seq(Frame) /\ txparamfifo.hid <= Len(txparamfifo.q)
  BY DEF Inv, TypeOK, Fifo, Occupancy
<1>3. txparamfifo.q # <<>> => txparamfifo.q[1].pos \in Nat
  BY <1>2, PopFrame DEF Frame
<1> QED BY <1>1, <1>2, <1>3, TxPortAssumption DEF RdPos

\* While the port runs no byte needed is older than the memory is large.
LEMMA Span ==
  ASSUME Inv, Running
  PROVE  /\ fpos <= RdPos /\ RdPos <= wpos /\ datalen <= freelen
         /\ freelen = BUFLEN - (wpos - fpos)
         /\ Covers(txparamfifo.q, RdPos, wpos)
  BY DEF Inv, Stretch, SpaceAccounting

\* A word goes behind the frame being loaded and leaves every byte needed alone.
LEMMA WordStored ==
  ASSUME Inv, Memory, Running, ~DataFull,
         NEW p \in Nat, RdPos <= p, p < wpos + datalen + WBYTES
  PROVE  Stored[p % BUFLEN] = p
<1> DEFINE a == p % BUFLEN
           end == wpos + datalen
           d == p - end
<1>1. /\ BUFLEN \in Nat \ {0} /\ WBYTES \in Nat \ {0} /\ wpos \in Nat /\ fpos \in Nat
      /\ datalen \in Nat /\ freelen \in Nat /\ RdPos \in Nat
  BY Books
<1>2. a \in Addr
  BY <1>1, ModRange DEF Addr
<1>3. Offset(a) = d % BUFLEN
  <2> DEFINE b == wpos % BUFLEN
  <2>1. baseptr = b
    BY DEF Memory
  <2>2. b \in Int /\ a \in Int
    BY <1>1, ModRange
  <2>3. (a + (-(b + datalen))) % BUFLEN = (p + (-(b + datalen))) % BUFLEN
    <3>1. -(b + datalen) \in Int /\ p \in Int
      BY <1>1, <2>2
    <3> HIDE DEF b
    <3> QED BY <1>1, <3>1, ModAdd, Zenon
  <2>4. ((p - datalen) - b) % BUFLEN = ((p - datalen) - wpos) % BUFLEN
    <3>1. p - datalen \in Int /\ wpos \in Int
      BY <1>1
    <3> QED BY <1>1, <3>1, ModAdd, Zenon
  <2> HIDE DEF a, b
  <2>5. /\ a + (-(b + datalen)) = a - (b + datalen)
        /\ p + (-(b + datalen)) = (p - datalen) - b
        /\ (p - datalen) - wpos = p - (wpos + datalen)
    BY <1>1, <2>2
  <2> QED BY <2>1, <2>3, <2>4, <2>5 DEF Offset
<1>4. -BUFLEN + WBYTES <= d /\ d < WBYTES /\ WBYTES <= BUFLEN /\ d \in Int
  <2>1. fpos <= RdPos /\ freelen = BUFLEN - (wpos - fpos) /\ RdPos <= wpos
    BY Span
  <2>2. datalen + WBYTES <= freelen
    BY <1>1 DEF DataFull
  <2> QED BY <1>1, <2>1, <2>2
<1>5. Stored[a] = IF Offset(a) < WBYTES THEN end + Offset(a) ELSE txdatabuf[a]
  BY <1>2 DEF Stored
<1>6. CASE p >= end
  <2>1. 0 <= d /\ d < BUFLEN /\ end + d = p
    BY <1>1, <1>4, <1>6
  <2>2. Offset(a) = d
    BY <1>1, <1>3, <1>4, <2>1, ModNear
  <2> HIDE DEF a, d
  <2>3. Stored[a] = end + d
    BY <1>4, <1>5, <2>2
  <2> QED BY <2>1, <2>3 DEF a
<1>7. CASE p < end
  <2>1. -BUFLEN <= d /\ d < 0 /\ d + BUFLEN >= WBYTES
    BY <1>1, <1>4, <1>7
  <2>2. Offset(a) = d + BUFLEN
    BY <1>1, <1>3, <1>4, <2>1, ModNear
  <2>3. txdatabuf[a] = p
    BY <1>7 DEF Memory
  <2>4. ~(Offset(a) < WBYTES)
    BY <1>1, <1>4, <2>1, <2>2
  <2> HIDE DEF a
  <2> QED BY <1>5, <2>3, <2>4 DEF a
<1>8. p >= end \/ p < end
  BY <1>1
<1> QED BY <1>6, <1>7, <1>8

\* The discard state of the reader finds nothing to discard.
LEMMA DiscardsNothing ==
  ASSUME Inv, FSMtxportrd = "S4"
  PROVE  txparamfifo.q = <<>>
<1>1. /\ FSMtxportwr \in {"S0", "S1", "S1_1", "S2_0", "S2_1", "S2_2"}
      /\ txportenaret \in BOOLEAN /\ SYNC \in 1 .. SYNC
  BY TxPortAssumption DEF Inv, TypeOK
<1>2. FSMtxportwr \in {"S2_0", "S2_1"} => txportenaret /\ Out(enaSync)
  BY <1>1 DEF Inv, Handshake, AllHigh, Out
<1>3. FSMtxportwr \notin {"S2_0", "S2_1"}
  BY <1>2 DEF Inv, Handshake
<1> QED BY <1>1, <1>3 DEF Inv, Occupancy

\* Inputs, requests and pointers that cross leave queue and books alone.
LEMMA OthersMove ==
  ASSUME Inv,
         SetInputs \/ RdenaStep \/ SyncToWclk \/ SyncToClk2 \/ ParamFifoSync \/ BackFifoSync
  PROVE  /\ txparamfifo'.q = txparamfifo.q
         /\ UNCHANGED <<FSMtxportwr, txportena, baseptr, datalen, txdatabuf, wpos,
                        FSMtxportrd, sent>>
<1>1. /\ txparamfifo'.q = txparamfifo.q /\ UNCHANGED <<wrVars, rdVars, wpos>>
  BY SyncOccupancy DEF Inv
<1>2. UNCHANGED <<txdatabuf, sent>>
  BY DEF SetInputs, RdenaStep, SyncToWclk, SyncToClk2, ParamFifoSync, BackFifoSync,
     syncFrame, memVars, histVars
<1> QED BY <1>1, <1>2 DEF wrVars, rdVars

\* A step that leaves the memory, its books and the queue alone.
LEMMA MemoryKept ==
  ASSUME Memory, Running, UNCHANGED <<baseptr, wpos, datalen, txdatabuf>>,
         txparamfifo'.q = txparamfifo.q
  PROVE  Memory'
<1>1. RdPos' = RdPos
  BY DEF RdPos
<1> QED BY <1>1 DEF Memory

\* The writer starts with an empty circle; its other states leave it alone.
LEMMA WrMemory ==
  ASSUME Inv, Memory, WrStep
  PROVE  Memory'
<1>1. CASE ~Running'
  BY <1>1 DEF Memory
<1>2. CASE WrInit /\ Running'
  <2>1. txparamfifo'.q = <<>> /\ wpos' = 0 /\ datalen' = 0 /\ baseptr' = 0
    BY <1>2 DEF WrInit, Inv, Occupancy
  <2>2. RdPos' = 0 /\ 0 % BUFLEN = 0 /\ Len(<<>>) = 0
    BY <2>1, Books, ModSmall DEF RdPos
  <2>3. Len(txparamfifo'.q) = 0
    BY <2>1, <2>2
  <2>4. ASSUME NEW i \in 1 .. Len(txparamfifo'.q) PROVE FALSE
    BY <2>3
  <2>5. ASSUME NEW p \in Nat, RdPos' <= p, p < wpos' + datalen' PROVE FALSE
    BY <2>1, <2>2, <2>5
  <2>6. \A i \in 1 .. Len(txparamfifo'.q) : FALSE
    BY <2>4
  <2> QED BY <2>1, <2>2, <2>6, <2>5 DEF Memory
<1>3. CASE ~WrInit /\ Running'
  <2>1. Running /\ UNCHANGED <<baseptr, wpos, datalen, txdatabuf, txparamfifo>>
    BY <1>3 DEF Running, WrStep, WrReset, WrEnable, WrStop, WrBusy, WrFlush, WrDisable
  <2> QED BY <2>1, MemoryKept
<1> QED BY <1>1, <1>2, <1>3


\* Writing extends what the memory holds, queueing fixes where a frame lies.
LEMMA RunMemory ==
  ASSUME Inv, Memory, NEW wreq \in BOOLEAN, NEW wtxclr \in BOOLEAN, NEW wtxreq \in BOOLEAN,
         WrRun(wreq, wtxclr, wtxreq)
  PROVE  Memory'
<1> DEFINE write == wreq /\ ~DataFull
           len == IF write THEN datalen + WBYTES ELSE datalen
           queue == wtxreq /\ ~wtxclr
           frame == [base |-> baseptr, len |-> len, pos |-> wpos]
<1>0. /\ BUFLEN \in Nat \ {0} /\ WBYTES \in Nat \ {0} /\ wpos \in Nat /\ datalen \in Nat
      /\ RdPos \in Nat /\ baseptr \in Nat
      /\ txparamfifo \in Fifo(Frame) /\ txparamfifo.q \in Seq(Frame)
      /\ txparamfifo.hid <= Len(txparamfifo.q)
  BY Books DEF Addr
<1>1. Running /\ ~WrFull(txparamfifo)
  BY DEF WrRun, Running
<1>2. /\ baseptr = wpos % BUFLEN
      /\ \A i \in 1 .. Len(txparamfifo.q) :
           txparamfifo.q[i].base = txparamfifo.q[i].pos % BUFLEN
      /\ \A i, j \in 1 .. Len(txparamfifo.q) :
           i < j => txparamfifo.q[i].pos <= txparamfifo.q[j].pos
  BY <1>1 DEF Memory
<1>3. len \in Nat
  BY <1>0
<1>4. ASSUME NEW p \in Nat, RdPos <= p, p < wpos + len PROVE txdatabuf'[p % BUFLEN] = p
  <2>1. CASE write
    <3>1. txdatabuf' = Stored /\ wpos + len = wpos + datalen + WBYTES
      BY <1>0, <2>1 DEF WrRun
    <3>2. p < wpos + datalen + WBYTES
      BY <1>4, <3>1
    <3> QED BY <1>1, <1>4, <2>1, <3>1, <3>2, WordStored
  <2>2. CASE ~write
    <3>1. txdatabuf' = txdatabuf /\ len = datalen
      BY <2>2 DEF WrRun
    <3> QED BY <1>1, <1>4, <3>1 DEF Memory
  <2> QED BY <2>1, <2>2
<1>5. CASE queue
  <2>1. /\ txparamfifo' = Push(txparamfifo, frame) /\ wpos' = wpos + len /\ datalen' = 0
        /\ baseptr' = Width12(baseptr + len)
    BY <1>5 DEF WrRun
  <2>2. frame \in Frame /\ frame.pos = wpos /\ frame.base = baseptr
    BY <1>0, <1>3 DEF Frame
  <2>3. txparamfifo'.q = Append(txparamfifo.q, frame)
    BY <1>0, <1>1, <2>1, <2>2, FifoSteps
  <2> HIDE DEF len, frame
  <2>4. baseptr' = wpos' % BUFLEN
    <3>1. ((wpos % BUFLEN) + len) % BUFLEN = (wpos + len) % BUFLEN
      <4>1. len \in Int /\ wpos \in Int
        BY <1>0, <1>3
      <4> QED BY <1>0, <4>1, ModAdd, Zenon
    <3> QED BY <1>2, <2>1, <3>1 DEF Width12
  <2>5. /\ Len(txparamfifo.q) \in Nat /\ txparamfifo'.q # <<>>
        /\ Len(txparamfifo'.q) = Len(txparamfifo.q) + 1
        /\ \A i \in 1 .. Len(txparamfifo.q) : txparamfifo'.q[i] = txparamfifo.q[i]
        /\ txparamfifo'.q[Len(txparamfifo.q) + 1] = frame
    BY <1>0, <2>2, <2>3, PushFrame
  <2>6. ASSUME NEW i \in 1 .. Len(txparamfifo'.q)
        PROVE  txparamfifo'.q[i].base = txparamfifo'.q[i].pos % BUFLEN
    <3>1. CASE i \in 1 .. Len(txparamfifo.q)
      BY <1>2, <2>5, <3>1
    <3>2. CASE i = Len(txparamfifo.q) + 1
      BY <1>2, <2>2, <2>5, <3>2
    <3> QED BY <2>5, <3>1, <3>2
  <2>7. RdPos' = RdPos
    <3>1. CASE txparamfifo.q = <<>>
      <4>1. txparamfifo'.q[1] = frame
        BY <2>5, <3>1
      <4> QED BY <2>2, <2>5, <3>1, <4>1 DEF RdPos
    <3>2. CASE txparamfifo.q # <<>>
      <4>1. 1 \in 1 .. Len(txparamfifo.q)
        BY <1>0, <3>2, EmptyQueue
      <4> QED BY <2>5, <3>2, <4>1 DEF RdPos
    <3> QED BY <3>1, <3>2
  <2>8. \A p \in Nat : RdPos' <= p /\ p < wpos' + datalen' => txdatabuf'[p % BUFLEN] = p
    <3>1. wpos' + datalen' = wpos + len
      BY <1>0, <1>3, <2>1
    <3> QED BY <1>4, <2>7, <3>1
  <2>9. \A i \in 1 .. Len(txparamfifo.q) : txparamfifo.q[i].pos <= wpos
    <3>1. \A i \in 1 .. Len(txparamfifo.q) :
            /\ txparamfifo.q[i].pos \in Nat /\ txparamfifo.q[i].len \in Nat
            /\ txparamfifo.q[i].pos + txparamfifo.q[i].len <= wpos
      <4>1. \A i \in 1 .. Len(txparamfifo.q) : txparamfifo.q[i] \in Frame
        BY <1>0
      <4>2. \A f \in Frame : f.pos \in Nat /\ f.len \in Nat
        BY DEF Frame
      <4> QED BY <1>1, <4>1, <4>2, Span DEF Covers
    <3> QED BY <1>0, <3>1
  <2>10. ASSUME NEW i \in 1 .. Len(txparamfifo'.q), NEW j \in 1 .. Len(txparamfifo'.q), i < j
         PROVE  txparamfifo'.q[i].pos <= txparamfifo'.q[j].pos
    <3>1. i \in 1 .. Len(txparamfifo.q)
      BY <2>5, <2>10
    <3>2. CASE j \in 1 .. Len(txparamfifo.q)
      BY <1>2, <2>5, <2>10, <3>1, <3>2
    <3>3. CASE j = Len(txparamfifo.q) + 1
      BY <2>2, <2>5, <2>9, <3>1, <3>3
    <3> QED BY <2>5, <3>2, <3>3
  <2> QED BY <2>4, <2>6, <2>8, <2>10 DEF Memory
<1>6. CASE ~queue
  <2>1. UNCHANGED <<txparamfifo, baseptr, wpos>> /\ datalen' \in {0, len}
    BY <1>6 DEF WrRun
  <2>2. RdPos' = RdPos
    BY <2>1 DEF RdPos
  <2> HIDE DEF len
  <2>3. ASSUME NEW p \in Nat, p < wpos + datalen' PROVE p < wpos + len
    <3>1. datalen' = 0 \/ datalen' = len
      BY <2>1
    <3>2. CASE datalen' = 0
      BY <1>0, <1>3, <2>3, <3>2
    <3> QED BY <2>3, <3>1, <3>2
  <2> QED BY <1>2, <1>4, <2>1, <2>2, <2>3 DEF Memory
<1> QED BY <1>5, <1>6

\* The read side only takes the oldest frame off the queue.
LEMMA RdMoves ==
  ASSUME Inv, RdStep \/ Request \/ Grant \/ Done \/ AckFlush
  PROVE  /\ UNCHANGED <<FSMtxportwr, txportena, baseptr, wpos, datalen, txdatabuf>>
         /\ ~RdFlush => txparamfifo'.q = txparamfifo.q
         /\ RdFlush => /\ txparamfifo.q # <<>> /\ txparamfifo'.q = Tail(txparamfifo.q)
                       /\ FSMtxportrd = "S3" /\ FSMtxportrd' = "S1"
<1>0. txparamfifo \in Fifo(Frame) /\ txparamfifo.hid <= Len(txparamfifo.q)
  BY Books
<1>1. UNCHANGED <<FSMtxportwr, txportena, baseptr, wpos, datalen, txdatabuf>>
  BY DEF RdStep, RdReset, RdIdle, RdFlush, RdDiscard, Request, Grant, Done, AckFlush,
     rdFrame, schedFrame, wrVars, memVars, histVars
<1>2. CASE RdFlush
  <2>1. ~RdEmpty(txparamfifo) /\ txparamfifo' = Pop(txparamfifo) /\ FSMtxportrd = "S3"
        /\ FSMtxportrd' = "S1"
    BY <1>2 DEF RdFlush, Inv, Occupancy
  <2> QED BY <1>0, <1>1, <1>2, <2>1, FifoSteps
<1>3. CASE RdDiscard
  <2>1. txparamfifo.q = <<>>
    BY <1>3, DiscardsNothing DEF RdDiscard
  <2>2. RdEmpty(txparamfifo)
    BY <1>0, <2>1, EmptyQueue DEF RdEmpty, Fifo
  <2>3. txparamfifo' = txparamfifo /\ ~RdFlush
    BY <1>3, <2>2 DEF RdDiscard, RdFlush
  <2> QED BY <1>1, <2>3
<1>4. CASE RdReset \/ RdIdle \/ Request \/ Grant \/ Done \/ AckFlush
  <2>1. txparamfifo' = txparamfifo
    BY <1>4 DEF RdReset, RdIdle, Request, Grant, Done, AckFlush, schedFrame, memVars
  <2>2. ~RdFlush
    BY <1>4 DEF RdReset, RdIdle, Request, Grant, Done, AckFlush, RdFlush, schedFrame, Inv, Occupancy
  <2> QED BY <1>1, <2>1, <2>2
<1> QED BY <1>2, <1>3, <1>4 DEF RdStep

\* A frame that leaves the queue only shortens what is needed.
LEMMA RdMemory ==
  ASSUME Inv, Memory, RdStep \/ Request \/ Grant \/ Done \/ AckFlush
  PROVE  Memory'
<1>0. /\ UNCHANGED <<FSMtxportwr, txportena, baseptr, wpos, datalen, txdatabuf>>
      /\ ~RdFlush => txparamfifo'.q = txparamfifo.q
      /\ RdFlush => txparamfifo.q # <<>> /\ txparamfifo'.q = Tail(txparamfifo.q)
  BY RdMoves
<1>1. CASE ~Running
  BY <1>0, <1>1 DEF Memory, Running
<1>2. CASE Running /\ ~RdFlush
  BY <1>0, <1>2, MemoryKept
<1>3. CASE Running /\ RdFlush
  <2>1. /\ txparamfifo.q # <<>> /\ txparamfifo.q \in Seq(Frame) /\ wpos \in Nat /\ RdPos \in Nat
        /\ datalen \in Nat
    BY <1>0, <1>3, Books
  <2>2. /\ Len(txparamfifo.q) \in Nat \ {0} /\ Len(txparamfifo'.q) = Len(txparamfifo.q) - 1
        /\ \A i \in 1 .. Len(txparamfifo.q) - 1 : txparamfifo'.q[i] = txparamfifo.q[i + 1]
    BY <1>0, <1>3, <2>1, PopFrame
  <2>3. Covers(txparamfifo.q, RdPos, wpos) /\ RdPos <= wpos
    BY <1>3, Span
  <2>4. /\ txparamfifo.q[1] \in Frame
        /\ Tail(txparamfifo.q) # <<>> => Tail(txparamfifo.q)[1].pos = RdPos + txparamfifo.q[1].len
    BY <2>1, <2>3, CoversSteps
  <2>5. txparamfifo.q[1].len \in Nat
    BY <2>4 DEF Frame
  <2>6. RdPos' >= RdPos
    <3>1. CASE txparamfifo'.q = <<>>
      <4>1. RdPos' = wpos
        BY <1>0, <3>1 DEF RdPos
      <4> QED BY <2>3, <4>1
    <3>2. CASE txparamfifo'.q # <<>>
      <4>1. RdPos' = RdPos + txparamfifo.q[1].len
        BY <1>0, <1>3, <2>4, <3>2 DEF RdPos
      <4> QED BY <2>1, <2>5, <4>1
    <3> QED BY <3>1, <3>2
  <2>7. ASSUME NEW i \in 1 .. Len(txparamfifo'.q)
        PROVE  txparamfifo'.q[i].base = txparamfifo'.q[i].pos % BUFLEN
    <3>1. i \in 1 .. Len(txparamfifo.q) - 1 /\ i + 1 \in 1 .. Len(txparamfifo.q)
      BY <2>2
    <3> QED BY <1>3, <2>2, <3>1 DEF Memory
  <2>8. RdPos' \in Nat
    <3>1. Tail(txparamfifo.q) # <<>> => RdPos + txparamfifo.q[1].len \in Nat
      BY <2>1, <2>5
    <3> QED BY <1>0, <1>3, <2>1, <2>4, <3>1 DEF RdPos
  <2>9. ASSUME NEW p \in Nat, RdPos' <= p, p < wpos' + datalen'
        PROVE  txdatabuf'[p % BUFLEN] = p
    <3>1. RdPos <= p /\ p < wpos + datalen
      BY <1>0, <2>1, <2>6, <2>8, <2>9
    <3> QED BY <1>0, <1>3, <3>1 DEF Memory
  <2>10. ASSUME NEW i \in 1 .. Len(txparamfifo'.q), NEW j \in 1 .. Len(txparamfifo'.q), i < j
         PROVE  txparamfifo'.q[i].pos <= txparamfifo'.q[j].pos
    <3>1. /\ i \in 1 .. Len(txparamfifo.q) - 1 /\ i + 1 \in 1 .. Len(txparamfifo.q)
          /\ j \in 1 .. Len(txparamfifo.q) - 1 /\ j + 1 \in 1 .. Len(txparamfifo.q)
          /\ i + 1 < j + 1
      BY <2>2, <2>10
    <3> QED BY <1>3, <2>2, <3>1 DEF Memory
  <2> QED BY <1>0, <1>3, <2>7, <2>9, <2>10 DEF Memory
<1> QED BY <1>1, <1>2, <1>3

\* The bytes needed lie where they belong in every state.
THEOREM MemoryHolds == Spec => []Memory
<1>1. Init => Memory
  BY DEF Init, Memory, Running
<1>2. ASSUME Inv, Memory, [Next]_vars PROVE Memory'
  <2>1. CASE WrStep
    BY <1>2, <2>1, WrMemory
  <2>2. ASSUME NEW wreq \in BOOLEAN, NEW wtxclr \in BOOLEAN, NEW wtxreq \in BOOLEAN,
               WrRun(wreq, wtxclr, wtxreq)
        PROVE  Memory'
    BY <1>2, <2>2, RunMemory
  <2>3. CASE RdStep \/ Request \/ Grant \/ Done \/ AckFlush
    BY <1>2, <2>3, RdMemory
  <2>4. CASE SetInputs \/ RdenaStep \/ SyncToWclk \/ SyncToClk2 \/ ParamFifoSync \/ BackFifoSync
    <3>1. /\ txparamfifo'.q = txparamfifo.q
          /\ UNCHANGED <<FSMtxportwr, baseptr, datalen, txdatabuf, wpos>>
      BY <1>2, <2>4, OthersMove
    <3> QED BY <1>2, <3>1, MemoryKept DEF Memory, Running
  <2>5. CASE UNCHANGED vars
    <3>1. UNCHANGED <<FSMtxportwr, baseptr, datalen, txparamfifo, txdatabuf, wpos>>
      BY <2>5 DEF vars, wrVars, memVars, histVars
    <3> QED BY <1>2, <3>1, MemoryKept DEF Memory, Running
  <2> QED BY <1>2, <2>1, <2>2, <2>3, <2>4, <2>5 DEF Next
<1> QED BY <1>1, <1>2, Invariance, PTL DEF Spec


-----------------------------------------------------------------------------
(* Frames. *)

\* What the read side fetches for a queued frame are the bytes stored for it.
LEMMA Intact ==
  ASSUME Inv, Memory, Running, NEW i \in 1 .. Len(txparamfifo.q)
  PROVE  Fetched(txparamfifo.q[i]) = Payload(txparamfifo.q[i])
<1> DEFINE f == txparamfifo.q[i]
<1>0. /\ BUFLEN \in Nat \ {0} /\ wpos \in Nat /\ datalen \in Nat
      /\ txparamfifo.q \in Seq(Frame) /\ Len(txparamfifo.q) \in Nat
  BY Books
<1>1. f.base \in Nat /\ f.pos \in Nat /\ f.len \in Nat
  <2>1. f \in Frame
    BY <1>0
  <2> HIDE DEF f
  <2> QED BY <2>1 DEF Frame
<1>2. f.base = f.pos % BUFLEN /\ f.pos + f.len <= wpos
  BY <1>0, Span DEF Memory, Covers
<1>3. RdPos <= f.pos
  <2>1. txparamfifo.q # <<>> /\ 1 \in 1 .. Len(txparamfifo.q) /\ (i = 1 \/ 1 < i)
    BY <1>0, EmptyQueue
  <2>2. RdPos = txparamfifo.q[1].pos
    BY <2>1 DEF RdPos
  <2> QED BY <1>1, <2>1, <2>2 DEF Memory
<1> HIDE DEF f
<1>4. ASSUME NEW k \in 1 .. f.len
      PROVE  txdatabuf[(f.base + k - 1) % BUFLEN] = f.pos + k - 1
  <2>1. k - 1 \in Int /\ f.pos \in Int
    BY <1>1
  <2>2. ((f.pos % BUFLEN) + (k - 1)) % BUFLEN = (f.pos + (k - 1)) % BUFLEN
    BY <1>0, <2>1, ModAdd, Zenon
  <2>3. f.base + k - 1 = f.base + (k - 1) /\ f.pos + k - 1 = f.pos + (k - 1)
    BY <1>1
  <2>4. /\ f.pos + (k - 1) \in Nat /\ RdPos <= f.pos + (k - 1)
        /\ f.pos + (k - 1) < wpos + datalen
    <3>1. RdPos \in Nat
      BY Books
    <3>2. k \in Nat /\ 1 <= k /\ k <= f.len
      BY <1>1
    <3> QED BY <1>0, <1>1, <1>2, <1>3, <3>1, <3>2
  <2>5. txdatabuf[(f.pos + (k - 1)) % BUFLEN] = f.pos + (k - 1)
    BY <2>4 DEF Memory
  <2> QED BY <1>2, <2>2, <2>3, <2>5
<1> QED BY <1>4 DEF Fetched, Payload, f

\* A queued frame keeps every byte stored for it until it is flushed, for every
\* size of the memory and every sequence of frames, whatever their lengths.
THEOREM FramesStayIntact == Spec => []FramesIntact
<1>1. Inv /\ Memory => FramesIntact
  BY Intact DEF FramesIntact
<1> QED BY <1>1, Invariance, MemoryHolds, PTL


-----------------------------------------------------------------------------
(* Refinement. *)

\* What the frames of a sequence are to the abstract queue.
Strips(s) == [i \in 1 .. Len(s) |-> Strip(s[i])]
Cut == [pos : Nat, len : Nat]

\* Every frame of the port has its image in the abstract queue.
LEMMA StripsType ==
  ASSUME NEW s \in Seq(Frame)
  PROVE  /\ Strips(s) \in Seq(Cut) /\ Len(Strips(s)) = Len(s) /\ Len(s) \in Nat
         /\ \A i \in 1 .. Len(s) : Strips(s)[i] = Strip(s[i]) /\ Strip(s[i]) \in Cut
<1>1. Len(s) \in Nat /\ \A i \in 1 .. Len(s) : s[i] \in Frame
  OBVIOUS
<1>2. \A f \in Frame : Strip(f) \in Cut
  BY DEF Strip, Cut, Frame
<1>3. Strips(s) \in [1 .. Len(s) -> Cut]
  BY <1>1, <1>2 DEF Strips
<1> QED BY <1>1, <1>2, <1>3 DEF Strips

\* Adding to, and taking from, any sequence.
LEMMA Ends ==
  ASSUME NEW S, NEW s \in Seq(S)
  PROVE  /\ \A x \in S : /\ Append(s, x) \in Seq(S) /\ Append(s, x) # <<>>
                         /\ Len(Append(s, x)) = Len(s) + 1
                         /\ \A i \in 1 .. Len(s) : Append(s, x)[i] = s[i]
                         /\ Append(s, x)[Len(s) + 1] = x
         /\ s # <<>> => /\ Len(s) \in Nat \ {0} /\ Head(s) = s[1]
                        /\ Tail(s) \in Seq(S) /\ Len(Tail(s)) = Len(s) - 1
                        /\ \A i \in 1 .. Len(s) - 1 : Tail(s)[i] = s[i + 1]
         /\ s = <<>> <=> Len(s) = 0
         /\ Len(s) \in Nat
  OBVIOUS

\* A frame queued joins the abstract queue at its end.
LEMMA StripsAppend ==
  ASSUME NEW s \in Seq(Frame), NEW f \in Frame
  PROVE  Strips(Append(s, f)) = Append(Strips(s), Strip(f))
<1> DEFINE t == Append(s, f)
           u == Strips(s)
<1>1. /\ t \in Seq(Frame) /\ Len(t) = Len(s) + 1 /\ Len(s) \in Nat
      /\ \A i \in 1 .. Len(s) : t[i] = s[i]
      /\ t[Len(s) + 1] = f
  BY PushFrame
<1>2. /\ u \in Seq(Cut) /\ Len(u) = Len(s)
      /\ \A i \in 1 .. Len(s) : u[i] = Strip(s[i])
  BY StripsType
<1>3. Strip(f) \in Cut
  BY DEF Strip, Cut, Frame
<1> HIDE DEF t, u
<1>4. /\ Strips(t) \in Seq(Cut) /\ Len(Strips(t)) = Len(t)
      /\ \A i \in 1 .. Len(t) : Strips(t)[i] = Strip(t[i])
  BY <1>1, StripsType
<1>5. /\ Append(u, Strip(f)) \in Seq(Cut) /\ Len(Append(u, Strip(f))) = Len(s) + 1
      /\ \A i \in 1 .. Len(s) : Append(u, Strip(f))[i] = u[i]
      /\ Append(u, Strip(f))[Len(s) + 1] = Strip(f)
  BY <1>2, <1>3, Ends
<1>6. ASSUME NEW i \in 1 .. Len(Strips(t)) PROVE Strips(t)[i] = Append(u, Strip(f))[i]
  <2>1. CASE i \in 1 .. Len(s)
    BY <1>1, <1>2, <1>4, <1>5, <2>1
  <2>2. CASE i = Len(s) + 1
    BY <1>1, <1>4, <1>5, <2>2
  <2>3. i \in 1 .. Len(s) + 1
    BY <1>1, <1>4
  <2>4. i \in 1 .. Len(s) \/ i = Len(s) + 1
    BY <1>1, <2>3
  <2> QED BY <2>1, <2>2, <2>4
<1>7. Len(Strips(t)) = Len(Append(u, Strip(f)))
  BY <1>1, <1>4, <1>5
<1>8. Strips(t) = Append(u, Strip(f))
  BY <1>4, <1>5, <1>6, <1>7, SeqEqual
<1> QED BY <1>8 DEF t, u

\* A frame flushed leaves it at its head.
LEMMA StripsTail ==
  ASSUME NEW s \in Seq(Frame), s # <<>>
  PROVE  Strips(s) # <<>> /\ Head(Strips(s)) = Strip(s[1]) /\ Tail(Strips(s)) = Strips(Tail(s))
<1> DEFINE t == Tail(s)
           u == Strips(s)
<1>1. /\ t \in Seq(Frame) /\ Len(t) = Len(s) - 1 /\ Len(s) \in Nat \ {0}
      /\ \A i \in 1 .. Len(s) - 1 : t[i] = s[i + 1]
  BY PopFrame
<1>2. /\ u \in Seq(Cut) /\ Len(u) = Len(s)
      /\ \A i \in 1 .. Len(s) : u[i] = Strip(s[i])
  BY StripsType
<1> HIDE DEF t, u
<1>3. /\ Strips(t) \in Seq(Cut) /\ Len(Strips(t)) = Len(t)
      /\ \A i \in 1 .. Len(t) : Strips(t)[i] = Strip(t[i])
  BY <1>1, StripsType
<1>4. u # <<>>
  BY <1>1, <1>2, Ends
<1>5. /\ Tail(u) \in Seq(Cut) /\ Len(Tail(u)) = Len(s) - 1 /\ Head(u) = u[1]
      /\ \A i \in 1 .. Len(s) - 1 : Tail(u)[i] = u[i + 1]
  BY <1>2, <1>4, Ends
<1>6. ASSUME NEW i \in 1 .. Len(Tail(u)) PROVE Tail(u)[i] = Strips(t)[i]
  <2>1. i \in 1 .. Len(s) - 1 /\ i + 1 \in 1 .. Len(s) /\ i \in 1 .. Len(t)
    BY <1>1, <1>5
  <2> QED BY <1>1, <1>2, <1>3, <1>5, <2>1
<1>7. Len(Tail(u)) = Len(Strips(t))
  BY <1>1, <1>3, <1>5
<1>8. Tail(u) = Strips(t)
  BY <1>3, <1>5, <1>6, <1>7, SeqEqual
<1>9. Head(u) = Strip(s[1])
  <2>1. 1 \in 1 .. Len(s)
    BY <1>1
  <2> QED BY <1>2, <1>5, <2>1
<1> QED BY <1>4, <1>8, <1>9 DEF t, u

\* Taking the head off does not disturb the end.
LEMMA TailAppend ==
  ASSUME NEW s \in Seq(Frame), s # <<>>, NEW f \in Frame
  PROVE  Tail(Append(s, f)) = Append(Tail(s), f)
<1> DEFINE t == Append(s, f)
           u == Tail(s)
<1>1. /\ t \in Seq(Frame) /\ t # <<>> /\ Len(t) = Len(s) + 1
      /\ \A i \in 1 .. Len(s) : t[i] = s[i]
      /\ t[Len(s) + 1] = f
  BY PushFrame
<1>2. /\ u \in Seq(Frame) /\ Len(u) = Len(s) - 1 /\ Len(s) \in Nat \ {0}
      /\ \A i \in 1 .. Len(s) - 1 : u[i] = s[i + 1]
  BY PopFrame
<1> HIDE DEF t, u
<1>3. /\ Tail(t) \in Seq(Frame) /\ Len(Tail(t)) = Len(t) - 1
      /\ \A i \in 1 .. Len(t) - 1 : Tail(t)[i] = t[i + 1]
  BY <1>1, PopFrame
<1>4. /\ Append(u, f) \in Seq(Frame) /\ Len(Append(u, f)) = Len(u) + 1
      /\ \A i \in 1 .. Len(u) : Append(u, f)[i] = u[i]
      /\ Append(u, f)[Len(u) + 1] = f
  BY <1>2, PushFrame
<1>5. ASSUME NEW i \in 1 .. Len(Tail(t)) PROVE Tail(t)[i] = Append(u, f)[i]
  <2>1. i \in 1 .. Len(t) - 1 /\ Tail(t)[i] = t[i + 1]
    BY <1>1, <1>2, <1>3
  <2>2. CASE i \in 1 .. Len(s) - 1
    <3>1. i + 1 \in 1 .. Len(s) /\ i \in 1 .. Len(u)
      BY <1>2, <2>2
    <3> QED BY <1>1, <1>2, <1>4, <2>1, <2>2, <3>1
  <2>3. CASE i = Len(s)
    <3>1. i = Len(u) + 1
      BY <1>2, <2>3
    <3> QED BY <1>1, <1>4, <2>1, <2>3, <3>1
  <2> QED BY <1>1, <1>2, <2>1, <2>2, <2>3
<1>6. Len(Tail(t)) = Len(Append(u, f))
  BY <1>1, <1>2, <1>3, <1>4
<1>7. Tail(t) = Append(u, f)
  BY <1>3, <1>4, <1>5, <1>6, SeqEqual
<1> QED BY <1>7 DEF t, u


\* The queue now and after a step.
LEMMA QueuedIs ==
  /\ FSMtxportrd # "S3" => Queued = Strips(txparamfifo.q)
  /\ FSMtxportrd = "S3" => Queued = Strips(Tail(txparamfifo.q))
  /\ FSMtxportrd' # "S3" => Queued' = Strips(txparamfifo'.q)
  /\ FSMtxportrd' = "S3" => Queued' = Strips(Tail(txparamfifo'.q))
  BY DEF Queued, Unsent, Strips

\* A frame is on its way out only where there is one, and the port then runs.
LEMMA Leaving ==
  ASSUME Inv, FSMtxportrd \in {"S2", "S3"}
  PROVE  txparamfifo.q # <<>> /\ Running
<1>1. txparamfifo.q # <<>>
  BY FifoSteps DEF Inv, TypeOK, Occupancy
<1>2. FSMtxportwr \in {"S0", "S1", "S1_1", "S2_0", "S2_1", "S2_2"}
  BY DEF Inv, TypeOK
<1> QED BY <1>1, <1>2 DEF Inv, Occupancy, Running

\* An empty FIFO is an empty queue.
LEMMA NothingQueued ==
  ASSUME Inv, txparamfifo.q = <<>>
  PROVE  Queued = <<>> /\ FSMtxportrd # "S3"
<1>1. FSMtxportrd # "S3"
  BY Leaving
<1>2. Strips(<<>>) = <<>>
  <2>1. <<>> \in Seq(Frame) /\ <<>> \in Seq(Cut)
    OBVIOUS
  <2>2. Len(Strips(<<>>)) = Len(<<>>) /\ Strips(<<>>) \in Seq(Cut)
    BY <2>1, StripsType
  <2>3. Len(<<>>) = 0
    OBVIOUS
  <2> QED BY <2>2, <2>3, Ends
<1> QED BY <1>1, <1>2, QueuedIs

\* A step that the abstract queue does not see.
LEMMA SameView ==
  ASSUME txparamfifo'.q = txparamfifo.q, UNCHANGED <<wpos, sent, txportena>>,
         FSMtxportrd' = "S3" <=> FSMtxportrd = "S3"
  PROVE  UNCHANGED Queue!vars
<1>1. Queued' = Queued
  BY QueuedIs
<1> QED BY <1>1 DEF Queue!vars

\* The writer opens and closes the queue, each time over an empty one.
LEMMA WrImplements ==
  ASSUME Inv, WrStep
  PROVE  Queue!Next \/ UNCHANGED Queue!vars
<1>0. /\ txportena \in BOOLEAN /\ UNCHANGED <<txparamfifo, FSMtxportrd, sent>>
      /\ txparamfifo \in Fifo(Frame) /\ txparamfifo.hid <= Len(txparamfifo.q)
  <2>1. txportena \in BOOLEAN
    BY DEF Inv, TypeOK
  <2> QED BY <2>1, Books DEF WrStep, WrReset, WrInit, WrEnable, WrStop, WrBusy, WrFlush, WrDisable,
     wrFrame, rdVars
<1>1. Queued' = Queued
  BY <1>0, QueuedIs
<1>2. CASE WrInit
  <2>1. ~txportena /\ Queued = <<>> /\ wpos' = 0 /\ txportena' \in BOOLEAN
    <3>1. FSMtxportwr = "S1" /\ wpos' = 0 /\ txportena' = (wena /\ Out(rdenaSync))
      BY <1>2 DEF WrInit
    <3>2. ~txportena /\ txparamfifo.q = <<>>
      BY <3>1 DEF Inv, Handshake, Occupancy
    <3> QED BY <3>1, <3>2, NothingQueued
  <2>2. CASE txportena' = TRUE
    BY <1>0, <1>1, <2>1, <2>2 DEF Queue!Open, Queue!Next
  <2>3. CASE txportena' = FALSE
    BY <1>0, <1>1, <2>1, <2>3 DEF Queue!Rewind, Queue!Next
  <2> QED BY <2>1, <2>2, <2>3
<1>3. CASE WrFlush
  <2>1. FSMtxportwr = "S2_1" /\ wpos' = wpos /\ Out(rdenaSync)
    BY <1>3 DEF WrFlush, Inv, RequestStays, Running
  <2>2. CASE WrEmpty(txparamfifo)
    <3>1. Queued = <<>> /\ txportena' = FALSE
      BY <1>0, <1>3, <2>2, FifoSteps, NothingQueued DEF WrFlush
    <3> QED BY <1>0, <1>1, <2>1, <3>1 DEF Queue!Close, Queue!Next
  <2>3. CASE ~WrEmpty(txparamfifo)
    <3>1. txportena' = txportena
      BY <1>0, <1>3, <2>1, <2>3 DEF WrFlush
    <3> QED BY <1>0, <1>1, <2>1, <3>1 DEF Queue!vars
  <2> QED BY <2>2, <2>3
<1>4. CASE WrReset \/ WrEnable \/ WrStop \/ WrBusy \/ WrDisable
  <2>1. wpos' = wpos /\ txportena' = txportena
    BY <1>0, <1>4 DEF WrReset, WrEnable, WrStop, WrBusy, WrDisable, Inv, Handshake
  <2> QED BY <1>0, <1>1, <2>1 DEF Queue!vars
<1> QED BY <1>2, <1>3, <1>4 DEF WrStep

\* A frame that the client queues joins the abstract queue.
LEMMA RunImplements ==
  ASSUME Inv, NEW wreq \in BOOLEAN, NEW wtxclr \in BOOLEAN, NEW wtxreq \in BOOLEAN,
         WrRun(wreq, wtxclr, wtxreq)
  PROVE  Queue!Next \/ UNCHANGED Queue!vars
<1> DEFINE len == IF wreq /\ ~DataFull THEN datalen + WBYTES ELSE datalen
           queue == wtxreq /\ ~wtxclr
           frame == [base |-> baseptr, len |-> len, pos |-> wpos]
<1>0. /\ wpos \in Nat /\ datalen \in Nat /\ WBYTES \in Nat /\ baseptr \in Nat
      /\ txparamfifo \in Fifo(Frame) /\ txparamfifo.q \in Seq(Frame)
      /\ txparamfifo.hid <= Len(txparamfifo.q)
  BY Books DEF Addr
<1>1. /\ ~WrFull(txparamfifo) /\ FSMtxportwr = "S2_0" /\ UNCHANGED <<txportena, FSMtxportrd, sent>>
  BY DEF WrRun, wrFrame, rdVars
<1>2. txportena
  BY <1>1 DEF Inv, Handshake
<1>3. CASE ~queue
  <2>1. UNCHANGED <<txparamfifo, wpos>>
    BY <1>3 DEF WrRun
  <2> QED BY <1>1, <2>1, SameView
<1>4. CASE queue
  <2>1. txparamfifo' = Push(txparamfifo, frame) /\ wpos' = wpos + len /\ len \in Nat
    BY <1>0, <1>4 DEF WrRun
  <2>2. frame \in Frame /\ Strip(frame) = [pos |-> wpos, len |-> len]
    BY <1>0, <2>1 DEF Frame, Strip
  <2>3. txparamfifo'.q = Append(txparamfifo.q, frame)
    BY <1>0, <1>1, <2>1, <2>2, FifoSteps
  <2> HIDE DEF len, frame
  <2>4. Queued' = Append(Queued, Strip(frame))
    <3>1. CASE FSMtxportrd # "S3"
      BY <1>0, <1>1, <2>2, <2>3, <3>1, StripsAppend, QueuedIs
    <3>2. CASE FSMtxportrd = "S3"
      <4>1. txparamfifo.q # <<>>
        BY <3>2, Leaving
      <4>2. Tail(txparamfifo'.q) = Append(Tail(txparamfifo.q), frame) /\ Tail(txparamfifo.q) \in Seq(Frame)
        BY <1>0, <2>2, <2>3, <4>1, TailAppend, PopFrame
      <4> QED BY <1>1, <2>2, <3>2, <4>2, StripsAppend, QueuedIs
    <3> QED BY <3>1, <3>2
  <2>5. wpos' \in Nat /\ wpos' >= wpos /\ wpos' - wpos = len
    BY <1>0, <2>1
  <2>6. Queue!Enqueue
    BY <1>1, <1>2, <2>2, <2>4, <2>5 DEF Queue!Enqueue
  <2> QED BY <2>6 DEF Queue!Next
<1> QED BY <1>3, <1>4

\* What is sent is the head of the queue, whole; what is flushed has left it.
LEMMA RdImplements ==
  ASSUME Inv, Memory, RdStep \/ Request \/ Grant \/ Done \/ AckFlush
  PROVE  Queue!Next \/ UNCHANGED Queue!vars
<1>0. /\ UNCHANGED <<txportena, wpos>>
      /\ ~RdFlush => txparamfifo'.q = txparamfifo.q
      /\ RdFlush => /\ txparamfifo.q # <<>> /\ txparamfifo'.q = Tail(txparamfifo.q)
                    /\ FSMtxportrd = "S3" /\ FSMtxportrd' = "S1"
      /\ txparamfifo.q \in Seq(Frame)
  BY RdMoves, Books
<1>1. ~RdFlush /\ ~Done /\ ~AckFlush => (FSMtxportrd' = "S3" <=> FSMtxportrd = "S3") /\ sent' = sent
  BY DEF RdStep, RdReset, RdIdle, RdDiscard, Request, Grant, rdFrame, schedFrame, histVars
<1>2. CASE RdFlush
  <2>1. Queued' = Queued /\ sent' = sent
    BY <1>0, <1>2, QueuedIs DEF RdFlush, rdFrame, histVars
  <2> QED BY <1>0, <2>1 DEF Queue!vars
<1>3. CASE Done
  <2>1. FSMtxportrd = "S2" /\ FSMtxscheduler = "S2"
    BY <1>3 DEF Done, Inv, Occupancy
  <2>2. txparamfifo.q # <<>> /\ Running
    BY <2>1, Leaving
  <2>3. /\ 1 \in 1 .. Len(txparamfifo.q) /\ Head(txparamfifo.q) = txparamfifo.q[1]
        /\ txparamfifo.q[1] \in Frame
    BY <1>0, <2>2, PopFrame
  <2>4. ~RdFlush
    BY <2>1 DEF RdFlush
  <2>5. sent' = Payload(txparamfifo.q[1])
    BY <1>3, <2>2, <2>3, Intact DEF Done
  <2>6. /\ Queued # <<>> /\ Head(Queued) = Strip(txparamfifo.q[1])
        /\ Tail(Queued) = Strips(Tail(txparamfifo.q)) /\ Queued = Strips(txparamfifo.q)
    BY <1>0, <2>1, <2>2, StripsTail, QueuedIs
  <2>7. Queue!Bytes(Head(Queued)) = Payload(txparamfifo.q[1])
    <3>1. Strip(txparamfifo.q[1]).pos = txparamfifo.q[1].pos
          /\ Strip(txparamfifo.q[1]).len = txparamfifo.q[1].len
      BY DEF Strip
    <3> QED BY <2>6, <3>1 DEF Queue!Bytes, Payload
  <2>8. Queued' = IF AckMode THEN Queued ELSE Tail(Queued)
    <3>1. CASE AckMode
      <4>1. FSMtxportrd' = "S2"
        BY <1>3, <2>1, <3>1 DEF Done
      <4> QED BY <1>0, <2>4, <2>6, <3>1, <4>1, QueuedIs
    <3>2. CASE ~AckMode
      <4>1. FSMtxportrd' = "S3"
        BY <1>3, <3>2 DEF Done
      <4> QED BY <1>0, <2>4, <2>6, <3>2, <4>1, QueuedIs
    <3> QED BY <3>1, <3>2
  <2>9. Queue!Send
    BY <1>0, <2>5, <2>6, <2>7, <2>8 DEF Queue!Send
  <2> QED BY <2>9 DEF Queue!Next
<1>4. CASE AckFlush
  <2>1. AckMode /\ FSMtxportrd = "S2" /\ FSMtxportrd' = "S3" /\ sent' = sent /\ ~RdFlush
    BY <1>4 DEF AckFlush, RdFlush
  <2>2. txparamfifo.q # <<>>
    BY <2>1, Leaving
  <2>3. Queued # <<>> /\ Queued' = Tail(Queued)
    BY <1>0, <2>1, <2>2, StripsTail, QueuedIs
  <2>4. Queue!Acknowledge
    BY <1>0, <2>1, <2>3 DEF Queue!Acknowledge
  <2> QED BY <2>4 DEF Queue!Next
<1>5. CASE ~RdFlush /\ ~Done /\ ~AckFlush
  BY <1>0, <1>1, <1>5, SameView
<1> QED BY <1>2, <1>3, <1>4, <1>5

\* The port is a queue of frames, for any memory, FIFO depth, chain length and
\* mode: each queued frame is sent whole, in order, once in datagram mode and
\* unchanged until acknowledged in connection mode, and none is lost.
THEOREM QueueImplemented == Spec => ImplementsQueue
<1>1. Init => Queue!Init
  <2> SUFFICES ASSUME Init PROVE Queue!Init
    OBVIOUS
  <2>1. FSMtxportrd = "S0" /\ txparamfifo.q = <<>> /\ wpos = 0 /\ sent = <<>> /\ txportena = FALSE
    BY DEF Init, EmptyFifo
  <2>2. Queued = <<>>
    BY <2>1 DEF Queued, Unsent
  <2> QED BY <2>1, <2>2 DEF Queue!Init
<1>2. ASSUME Inv, Memory, [Next]_vars PROVE [Queue!Next]_(Queue!vars)
  <2>1. CASE WrStep
    BY <1>2, <2>1, WrImplements
  <2>2. ASSUME NEW wreq \in BOOLEAN, NEW wtxclr \in BOOLEAN, NEW wtxreq \in BOOLEAN,
               WrRun(wreq, wtxclr, wtxreq)
        PROVE  Queue!Next \/ UNCHANGED Queue!vars
    BY <1>2, <2>2, RunImplements
  <2>3. CASE RdStep \/ Request \/ Grant \/ Done \/ AckFlush
    BY <1>2, <2>3, RdImplements
  <2>4. CASE SetInputs \/ RdenaStep \/ SyncToWclk \/ SyncToClk2 \/ ParamFifoSync \/ BackFifoSync
    BY <1>2, <2>4, OthersMove, SameView
  <2>5. CASE UNCHANGED vars
    <3>1. UNCHANGED <<txparamfifo, wpos, sent, txportena, FSMtxportrd>>
      BY <2>5 DEF vars, wrVars, rdVars, memVars, histVars
    <3> QED BY <3>1, SameView
  <2> QED BY <1>2, <2>1, <2>2, <2>3, <2>4, <2>5 DEF Next
<1> QED BY <1>1, <1>2, Invariance, MemoryHolds, PTL DEF Spec, ImplementsQueue, Queue!Spec


=============================================================================
