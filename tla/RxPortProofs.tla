---------------------------- MODULE RxPortProofs ----------------------------
(***************************************************************************)
(* Safety of one receive port, for every FIFO depth, synchroniser length,  *)
(* set of frame lengths and number of bytes: the types, that none of the   *)
(* conditions that "should never appear" does, that the port is enabled    *)
(* again over two empty FIFOs, and that it implements RxQueue.             *)
(*                                                                         *)
(* The inductive invariant has four parts on top of the types:             *)
(*   Handshake   the enable command travels the ring rxportena -> enaSync  *)
(*               -> rxportenaret -> enaretSync, and at most one change of  *)
(*               level is on its way round it;                             *)
(*   Room        a frame that was let in has room for what is missing of   *)
(*               it, in both FIFOs;                                        *)
(*   Lines       each FIFO is a gapless stretch that ends where the writer *)
(*               is, and a frame whose parameters are visible has all its  *)
(*               bytes visible;                                            *)
(*   Alignment   the oldest byte stored is the one the reader is at.       *)
(* The write-side enable request is not in it: the argument holds whatever *)
(* level the reader samples.                                               *)
(***************************************************************************)
EXTENDS RxPort, SequenceTheorems, TLAPS

\* The words of the two FIFOs, how many the reader does not see, how many the
\* writer still counts.
pq == rxparamfifo.q
ph == rxparamfifo.hid
ps == rxparamfifo.stale
dq == rxfifo.q
dh == rxfifo.hid
ds == rxfifo.stale

\* A chain a rising (falling) level is entering: the earlier register leads.
Rises(c) == \A j, k \in 1 .. SYNC : j <= k /\ c[k] => c[j]
Falls(c) == \A j, k \in 1 .. SYNC : j <= k /\ c[j] => c[k]
AllHigh(c) == \A k \in 1 .. SYNC : c[k]
AllLow(c) == \A k \in 1 .. SYNC : ~c[k]

\* The command is up and has come back.
Settled == rxportena /\ AllHigh(enaSync) /\ rxportenaret /\ AllHigh(enaretSync)

Handshake ==
  /\ FSMrxportrd \in {"S0", "S1"} =>
       ~rxportena /\ AllLow(enaSync) /\ ~rxportenaret /\ AllLow(enaretSync)
  /\ FSMrxportrd = "S1_1" =>
       /\ rxportena /\ Rises(enaSync) /\ Rises(enaretSync)
       /\ rxportenaret => AllHigh(enaSync)
       /\ ~rxportenaret => AllLow(enaretSync)
  /\ FSMrxportrd \in {"S1_2", "S1_3", "S2_0", "S2_1", "S2_2"} => Settled
  /\ FSMrxportrd = "S3" =>
       \/ Settled
       \/ /\ ~rxportena /\ Falls(enaSync) /\ Falls(enaretSync)
          /\ ~rxportenaret => AllLow(enaSync)
          /\ rxportenaret => AllHigh(enaretSync)
  /\ FSMrxportwr \in {"S1", "S1_1", "S1_2", "S2_0"} => rxportenaret
  /\ FSMrxportwr = "S0" => ~rxportenaret
  /\ FSMrxportwr = "S4" /\ rxportenaret => ~Out(enaSync)

Room ==
  /\ ~err_rxportwrfull
  /\ FSMrxportwr = "S1_2" /\ ~rxfifofull_test => wdatalen + Len(dq) + ds < DATADEPTH
  /\ FSMrxportwr = "S2_0" => /\ written <= wdatalen
                             /\ wdatalen + Len(dq) + ds < DATADEPTH + written
                             /\ Len(pq) + ps < PARAMDEPTH
  /\ FSMrxportwr \in {"S1", "S1_1", "S1_2"} => written = 0
  /\ FSMrxportwr \in {"S1_1", "S1_2", "S2_0"} => wdatalen \in Lens /\ wpos + wdatalen <= MaxBytes

\* Bytes s are the last ones up to position to; frames s the last ones up to
\* position to, and the first n of them are complete at position seen.
ByteLine(s, to) == \A i \in 1 .. Len(s) : s[i] = to - Len(s) + i - 1
FrameLine(s, to) ==
  /\ \A i \in 1 .. Len(s) : ~s[i].err /\ s[i].len \in Lens /\ s[i].pos + s[i].len <= to
  /\ \A i \in 1 .. Len(s) - 1 : s[i].pos + s[i].len = s[i + 1].pos
  /\ s # <<>> => s[Len(s)].pos + s[Len(s)].len = to
Complete(s, n, seen) == \A i \in 1 .. n : s[i].pos + s[i].len <= seen

Lines ==
  /\ dh <= Len(dq) /\ ph <= Len(pq) /\ wpos <= MaxBytes
  /\ ByteLine(dq, wpos + written) /\ FrameLine(pq, wpos)
  /\ Complete(pq, Len(pq) - ph, Seen)
  /\ ~rxportenaret => pq = <<>> /\ dq = <<>>

\* Position behind the frame in hand.
Following == IF pq = <<>> THEN wpos ELSE pq[1].pos

InHand ==
  /\ rframe.pos + rframe.len = Following /\ rframe.pos + rframe.len <= Seen
  /\ ~rframe.err /\ rframe.len \in Lens /\ rframe.pos <= MaxBytes

Alignment ==
  /\ FSMrxportrd \in {"S1_1", "S1_2"} /\ rxportenaret => Len(dq) = wpos + written - Following
  /\ FSMrxportrd = "S1_3" => InHand /\ Len(dq) = wpos + written - rframe.pos
  /\ FSMrxportrd \in {"S2_0", "S2_1"} =>
       InHand /\ Len(dq) = wpos + written - (rframe.pos + rdatacnt)
  /\ ~rerrempty /\ FSMrxportrd # "S2_2"

Inv == TypeOK /\ Handshake /\ Room /\ Lines /\ Alignment

-----------------------------------------------------------------------------
(* Sequences. *)

\* The sizes, as numbers.
LEMMA Sizes ==
  /\ PARAMDEPTH \in Nat \ {0} /\ DATADEPTH \in Nat \ {0} /\ SYNC \in Nat \ {0}
  /\ MaxBytes \in Nat /\ \A len \in Lens : len \in Nat
  BY RxPortAssumption

\* Adding a word at the end.
LEMMA AppendFacts ==
  ASSUME NEW S, NEW s \in Seq(S), NEW x \in S
  PROVE  /\ Append(s, x) \in Seq(S) /\ Append(s, x) # <<>>
         /\ Len(s) \in Nat /\ Len(Append(s, x)) = Len(s) + 1
         /\ \A i \in 1 .. Len(s) : Append(s, x)[i] = s[i]
         /\ Append(s, x)[Len(s) + 1] = x
  OBVIOUS

\* Taking the oldest word off.
LEMMA TailFacts ==
  ASSUME NEW S, NEW s \in Seq(S), s # <<>>
  PROVE  /\ Len(s) \in Nat \ {0} /\ Head(s) = s[1] /\ Head(s) \in S
         /\ Tail(s) \in Seq(S) /\ Len(Tail(s)) = Len(s) - 1
         /\ \A i \in 1 .. Len(s) - 1 : Tail(s)[i] = s[i + 1]
  OBVIOUS

\* The empty sequence is the one of length zero.
LEMMA Empty == ASSUME NEW S, NEW s \in Seq(S) PROVE s = <<>> <=> Len(s) = 0
  OBVIOUS

\* The line of bytes grows at its end and is read from its beginning.
LEMMA ByteSteps ==
  ASSUME NEW s \in Seq(Nat), NEW to \in Nat, ByteLine(s, to)
  PROVE  /\ ByteLine(Append(s, to), to + 1)
         /\ s # <<>> => ByteLine(Tail(s), to) /\ s[1] = to - Len(s)
<1>0. Len(s) \in Nat
  OBVIOUS
<1>1. ByteLine(Append(s, to), to + 1)
  <2> DEFINE t == Append(s, to)
  <2>1. /\ Len(t) = Len(s) + 1 /\ t[Len(s) + 1] = to
        /\ \A i \in 1 .. Len(s) : t[i] = s[i]
    BY AppendFacts
  <2> HIDE DEF t
  <2>2. ASSUME NEW i \in 1 .. Len(t) PROVE t[i] = (to + 1) - Len(t) + i - 1
    <3>1. CASE i \in 1 .. Len(s)
      BY <1>0, <2>1, <3>1 DEF ByteLine
    <3>2. CASE i = Len(s) + 1
      BY <1>0, <2>1, <3>2
    <3> QED
      BY <1>0, <2>1, <3>1, <3>2
  <2> QED
    BY <2>2 DEF ByteLine, t
<1>2. ASSUME s # <<>> PROVE ByteLine(Tail(s), to) /\ s[1] = to - Len(s)
  <2> DEFINE t == Tail(s)
  <2>1. /\ Len(s) \in Nat \ {0} /\ Len(t) = Len(s) - 1
        /\ \A i \in 1 .. Len(s) - 1 : t[i] = s[i + 1]
    BY <1>2, TailFacts
  <2> HIDE DEF t
  <2>2. ASSUME NEW i \in 1 .. Len(t) PROVE t[i] = to - Len(t) + i - 1
    <3>1. i \in 1 .. Len(s) - 1 /\ i + 1 \in 1 .. Len(s)
      BY <2>1
    <3>2. t[i] = s[i + 1] /\ s[i + 1] = to - Len(s) + (i + 1) - 1
      BY <2>1, <3>1 DEF ByteLine
    <3> QED
      BY <2>1, <3>1, <3>2
  <2>3. s[1] = to - Len(s)
    <3>1. 1 \in 1 .. Len(s)
      BY <2>1
    <3>2. s[1] = to - Len(s) + 1 - 1
      BY <3>1 DEF ByteLine
    <3> QED
      BY <2>1, <3>2
  <2> QED
    BY <2>2, <2>3 DEF ByteLine, t
<1> QED
  BY <1>1, <1>2

\* A frame that begins where the line of frames ends makes it longer.
LEMMA FrameAppend ==
  ASSUME NEW s \in Seq(Param), NEW to \in Nat, FrameLine(s, to),
         NEW f \in Param, f.pos = to, ~f.err, f.len \in Lens
  PROVE  /\ FrameLine(Append(s, f), to + f.len)
         /\ (IF Append(s, f) = <<>> THEN to + f.len ELSE Append(s, f)[1].pos)
              = (IF s = <<>> THEN to ELSE s[1].pos)
<1> DEFINE t == Append(s, f)
<1>1. /\ Len(s) \in Nat /\ Len(t) = Len(s) + 1 /\ t[Len(s) + 1] = f /\ t # <<>>
      /\ \A i \in 1 .. Len(s) : t[i] = s[i]
  BY AppendFacts
<1>2. /\ \A i \in 1 .. Len(s) : ~s[i].err /\ s[i].len \in Lens /\ s[i].pos + s[i].len <= to
      /\ \A i \in 1 .. Len(s) - 1 : s[i].pos + s[i].len = s[i + 1].pos
      /\ s # <<>> => s[Len(s)].pos + s[Len(s)].len = to
  BY DEF FrameLine
<1>3. f.len \in Nat /\ \A i \in 1 .. Len(s) : s[i].pos \in Nat /\ s[i].len \in Nat
  <2>1. \A i \in 1 .. Len(s) : s[i] \in Param
    OBVIOUS
  <2> QED
    BY <2>1 DEF Param
<1> HIDE DEF t
<1>4. ASSUME NEW i \in 1 .. Len(t)
      PROVE  ~t[i].err /\ t[i].len \in Lens /\ t[i].pos + t[i].len <= to + f.len
  <2>1. CASE i \in 1 .. Len(s)
    <3>1. s[i].pos + s[i].len <= to /\ s[i].pos + s[i].len \in Nat
      BY <1>2, <1>3, <2>1
    <3>2. s[i].pos + s[i].len <= to + f.len
      BY <1>3, <3>1
    <3> QED
      BY <1>1, <1>2, <2>1, <3>2
  <2>2. CASE i = Len(s) + 1
    BY <1>1, <1>3, <2>2
  <2> QED
    BY <1>1, <2>1, <2>2
<1>5. ASSUME NEW i \in 1 .. Len(t) - 1 PROVE t[i].pos + t[i].len = t[i + 1].pos
  <2>1. CASE i + 1 \in 1 .. Len(s)
    <3>1. i \in 1 .. Len(s) - 1 /\ i \in 1 .. Len(s)
      BY <1>1, <2>1
    <3> QED
      BY <1>1, <1>2, <2>1, <3>1
  <2>2. CASE i = Len(s)
    <3>1. s # <<>> /\ i \in 1 .. Len(s)
      BY <1>1, <2>2
    <3> QED
      BY <1>1, <1>2, <2>2, <3>1
  <2> QED
    BY <1>1, <2>1, <2>2
<1>6. t[Len(t)].pos + t[Len(t)].len = to + f.len
  BY <1>1
<1>7. (IF t = <<>> THEN to + f.len ELSE t[1].pos) = (IF s = <<>> THEN to ELSE s[1].pos)
  <2>1. CASE s = <<>>
    <3>1. Len(s) = 0
      BY <2>1
    <3> QED
      BY <1>1, <2>1, <3>1
  <2>2. CASE s # <<>>
    <3>1. 1 \in 1 .. Len(s)
      BY <1>1, <2>2, Empty
    <3> QED
      BY <1>1, <2>2, <3>1
  <2> QED
    BY <2>1, <2>2
<1> QED
  BY <1>4, <1>5, <1>6, <1>7 DEF FrameLine, t

\* Without its oldest frame it begins where that frame ended.
LEMMA FrameTail ==
  ASSUME NEW s \in Seq(Param), NEW to \in Nat, FrameLine(s, to), s # <<>>
  PROVE  /\ FrameLine(Tail(s), to)
         /\ s[1].pos + s[1].len = IF Tail(s) = <<>> THEN to ELSE Tail(s)[1].pos
         /\ ~s[1].err /\ s[1].len \in Lens /\ s[1].pos + s[1].len <= to
<1> DEFINE t == Tail(s)
<1>1. /\ Len(s) \in Nat \ {0} /\ Len(t) = Len(s) - 1 /\ t \in Seq(Param)
      /\ \A i \in 1 .. Len(s) - 1 : t[i] = s[i + 1]
  BY TailFacts
<1>2. /\ \A i \in 1 .. Len(s) : ~s[i].err /\ s[i].len \in Lens /\ s[i].pos + s[i].len <= to
      /\ \A i \in 1 .. Len(s) - 1 : s[i].pos + s[i].len = s[i + 1].pos
      /\ s[Len(s)].pos + s[Len(s)].len = to
  BY DEF FrameLine
<1> HIDE DEF t
<1>3. ASSUME NEW i \in 1 .. Len(t)
      PROVE  ~t[i].err /\ t[i].len \in Lens /\ t[i].pos + t[i].len <= to
  <2>1. i \in 1 .. Len(s) - 1 /\ i + 1 \in 1 .. Len(s)
    BY <1>1
  <2> QED
    BY <1>1, <1>2, <2>1
<1>4. ASSUME NEW i \in 1 .. Len(t) - 1 PROVE t[i].pos + t[i].len = t[i + 1].pos
  <2>1. i \in 1 .. Len(s) - 1 /\ i + 1 \in 1 .. Len(s) - 1
    BY <1>1
  <2> QED
    BY <1>1, <1>2, <2>1
<1>5. t # <<>> => t[Len(t)].pos + t[Len(t)].len = to
  <2> SUFFICES ASSUME t # <<>> PROVE t[Len(t)].pos + t[Len(t)].len = to
    OBVIOUS
  <2>1. Len(t) # 0
    BY <1>1, Empty
  <2>2. Len(s) - 1 \in 1 .. Len(s) - 1 /\ (Len(s) - 1) + 1 = Len(s)
    BY <1>1, <2>1
  <2>3. t[Len(t)] = s[Len(s)]
    BY <1>1, <2>2
  <2> QED
    BY <1>2, <2>3
<1>6. s[1].pos + s[1].len = IF t = <<>> THEN to ELSE t[1].pos
  <2>1. CASE t = <<>>
    <3>1. Len(s) = 1
      BY <1>1, <2>1, Empty
    <3> QED
      BY <1>2, <2>1, <3>1
  <2>2. CASE t # <<>>
    <3>1. Len(t) # 0
      BY <1>1, <2>2, Empty
    <3>2. 1 \in 1 .. Len(s) - 1
      BY <1>1, <3>1
    <3> QED
      BY <1>1, <1>2, <2>2, <3>2
  <2> QED
    BY <2>1, <2>2
<1>7. 1 \in 1 .. Len(s)
  BY <1>1
<1> QED
  BY <1>2, <1>3, <1>4, <1>5, <1>6, <1>7 DEF FrameLine, t

-----------------------------------------------------------------------------
(* Types. *)

\* The fields of the two FIFOs.
LEMMA Fields ==
  ASSUME TypeOK
  PROVE  /\ pq \in Seq(Param) /\ ph \in Nat /\ ps \in Nat /\ Len(pq) \in Nat
         /\ dq \in Seq(Nat) /\ dh \in Nat /\ ds \in Nat /\ Len(dq) \in Nat
         /\ rxparamfifo = [q |-> pq, hid |-> ph, stale |-> ps]
         /\ rxfifo = [q |-> dq, hid |-> dh, stale |-> ds]
  BY DEF TypeOK, P!Fifo, D!Fifo, pq, ph, ps, dq, dh, ds

\* The FIFO operations keep the types.
LEMMA ParamOps ==
  ASSUME TypeOK
  PROVE  /\ pq # <<>> => P!Pop(rxparamfifo) \in P!Fifo(Param)
         /\ \A w \in Param : P!Push(rxparamfifo, w) \in P!Fifo(Param)
         /\ rxparamfifo.hid > 0 => P!Reveal(rxparamfifo) \in P!Fifo(Param)
         /\ rxparamfifo.stale > 0 => P!Reclaim(rxparamfifo) \in P!Fifo(Param)
<1>1. /\ pq \in Seq(Param) /\ ph \in Nat /\ ps \in Nat
      /\ rxparamfifo = [q |-> pq, hid |-> ph, stale |-> ps] /\ rxparamfifo \in P!Fifo(Param)
  BY Fields DEF TypeOK
<1>2. pq # <<>> => P!Pop(rxparamfifo) \in P!Fifo(Param)
  BY <1>1, TailFacts DEF P!Pop, P!Fifo
<1>3. \A w \in Param : P!Push(rxparamfifo, w) \in P!Fifo(Param)
  BY <1>1, AppendFacts DEF P!Push, P!Fifo
<1>4. ph > 0 => ph - 1 \in Nat
  BY <1>1
<1>5. ps > 0 => ps - 1 \in Nat
  BY <1>1
<1> QED
  BY <1>1, <1>2, <1>3, <1>4, <1>5 DEF P!Reveal, P!Reclaim, P!Fifo

\* The same of the FIFO of bytes.
LEMMA DataOps ==
  ASSUME TypeOK
  PROVE  /\ dq # <<>> => D!Pop(rxfifo) \in D!Fifo(Nat)
         /\ \A w \in Nat : D!Push(rxfifo, w) \in D!Fifo(Nat)
         /\ rxfifo.hid > 0 => D!Reveal(rxfifo) \in D!Fifo(Nat)
         /\ rxfifo.stale > 0 => D!Reclaim(rxfifo) \in D!Fifo(Nat)
<1>1. /\ dq \in Seq(Nat) /\ dh \in Nat /\ ds \in Nat
      /\ rxfifo = [q |-> dq, hid |-> dh, stale |-> ds] /\ rxfifo \in D!Fifo(Nat)
  BY Fields DEF TypeOK
<1>2. dq # <<>> => D!Pop(rxfifo) \in D!Fifo(Nat)
  BY <1>1, TailFacts DEF D!Pop, D!Fifo
<1>3. \A w \in Nat : D!Push(rxfifo, w) \in D!Fifo(Nat)
  BY <1>1, AppendFacts DEF D!Push, D!Fifo
<1>4. dh > 0 => dh - 1 \in Nat
  BY <1>1
<1>5. ds > 0 => ds - 1 \in Nat
  BY <1>1
<1> QED
  BY <1>1, <1>2, <1>3, <1>4, <1>5 DEF D!Reveal, D!Reclaim, D!Fifo

\* A FIFO that does not show empty is not.
LEMMA Shown ==
  ASSUME TypeOK
  PROVE  /\ ~P!RdEmpty(rxparamfifo) => pq # <<>> /\ Len(pq) > ph
         /\ ~D!RdEmpty(rxfifo) => dq # <<>> /\ Len(dq) > dh
<1>1. /\ pq \in Seq(Param) /\ ph \in Nat /\ Len(pq) \in Nat
      /\ dq \in Seq(Nat) /\ dh \in Nat /\ Len(dq) \in Nat
  BY Fields
<1>2. ~P!RdEmpty(rxparamfifo) => Len(pq) > ph
  BY <1>1 DEF P!RdEmpty, pq, ph
<1>3. ~D!RdEmpty(rxfifo) => Len(dq) > dh
  BY <1>1 DEF D!RdEmpty, dq, dh
<1> QED
  BY <1>1, <1>2, <1>3, Empty

\* The next byte keeps the types.
LEMMA TakeType ==
  ASSUME TypeOK, TakeByte, FSMrxportrd \in {"S2_0", "S2_1"}
  PROVE  TypeOK'
<1>1. rframe \in Param /\ rdatacnt \in Nat /\ rframe.len \in Nat /\ rdatacnt + 1 \in Nat
      /\ rdatacnt + 1 <= rframe.len
  BY DEF TypeOK, Param, TakeByte
<1>2. CASE D!RdEmpty(rxfifo)
  BY <1>1, <1>2 DEF TakeByte, TypeOK, rdFrame, inputVars, wrVars, wrenaVars, syncVars
<1>3. CASE ~D!RdEmpty(rxfifo)
  <2>1. rxfifo' \in D!Fifo(Nat)
    BY <1>3, Shown, DataOps DEF TakeByte
  <2> QED
    BY <1>1, <1>3, <2>1 DEF TakeByte, TypeOK, rdFrame, inputVars, wrVars, wrenaVars, syncVars
<1> QED
  BY <1>2, <1>3

\* So do the other steps of the reader.
LEMMA RdType == ASSUME TypeOK, RdStep \/ RdRead \/ RdAck PROVE TypeOK'
<1> USE DEF rdFrame, inputVars, wrVars, wrenaVars, syncVars, fifoVars
<1>1. CASE RdReset
  BY <1>1 DEF RdReset, TypeOK
<1>2. CASE RdInit
  <2>1. On \in BOOLEAN
    BY Sizes DEF TypeOK, On, Out
  <2> QED
    BY <1>2, <2>1 DEF RdInit, TypeOK
<1>3. CASE RdEnable
  BY <1>3 DEF RdEnable, TypeOK
<1>4. CASE RdNext
  <2>1. /\ rxparamfifo' \in P!Fifo(Param) /\ rframe' \in Param
    BY <1>4, Shown, ParamOps, Fields, TailFacts DEF RdNext, pq
  <2> QED
    BY <1>4, <2>1 DEF RdNext, TypeOK
<1>5. CASE RdOffer
  <2>1. rframe.len \in Nat /\ rframe.err \in BOOLEAN
    BY DEF TypeOK, Param
  <2> QED
    BY <1>5, <2>1 DEF RdOffer, TypeOK
<1>6. CASE RdRead
  BY <1>6, TakeType DEF RdRead
<1>7. CASE RdAck
  BY <1>7 DEF RdAck, TypeOK
<1>8. CASE RdSkip
  <2>1. CASE TakeByte
    BY <1>8, <2>1, TakeType DEF RdSkip
  <2>2. CASE ~TakeByte
    BY <1>8, <2>2 DEF RdSkip, TypeOK
  <2> QED
    BY <2>1, <2>2
<1>9. CASE RdStop
  BY <1>9 DEF RdStop, TypeOK
<1>10. CASE RdFlush
  <2>1. rxparamfifo' \in P!Fifo(Param)
    BY <1>10, Shown, ParamOps DEF RdFlush, TypeOK
  <2>2. rxfifo' \in D!Fifo(Nat)
    BY <1>10, Shown, DataOps DEF RdFlush, TypeOK
  <2>3. /\ FSMrxportrd' \in {"S1", "S3"} /\ rxportena' \in BOOLEAN
        /\ UNCHANGED <<rframe, rdatacnt, rerrempty, rerrfull, rdFrame>>
    BY <1>10 DEF RdFlush
  <2> QED
    BY <2>1, <2>2, <2>3 DEF TypeOK
<1> QED
  BY <1>1, <1>2, <1>3, <1>4, <1>5, <1>6, <1>7, <1>8, <1>9, <1>10 DEF RdStep

WrActs == \/ WrStep \/ (\E len \in Lens : WrStart(len)) \/ \E pass \in BOOLEAN : WrTest(pass)

\* The steps of the writer keep the types.
LEMMA WrType == ASSUME TypeOK, WrActs PROVE TypeOK'
<1> USE DEF wrFrame, inputVars, rdVars, wrenaVars, syncVars, fifoVars
<1>1. CASE WrReset
  BY <1>1 DEF WrReset, TypeOK
<1>2. CASE WrStop
  <2>1. /\ FSMrxportwr' = "S4" /\ wdatalen' \in Nat /\ rxfifofull_test' \in BOOLEAN
        /\ UNCHANGED <<rxportenaret, written, err_rxportwrfull, wpos, fifoVars, wrFrame>>
    BY <1>2 DEF WrStop
  <2> QED
    BY <2>1 DEF TypeOK
<1>3. ASSUME NEW len \in Lens, WrStart(len) PROVE TypeOK'
  BY <1>3, Sizes DEF WrStart, TypeOK
<1>4. ASSUME NEW pass \in BOOLEAN, WrTest(pass) PROVE TypeOK'
  BY <1>4 DEF WrTest, TypeOK
<1>5. CASE WrRoom
  <2>1. /\ FSMrxportwr' \in {"S1", "S2_0"} /\ wdatalen' \in Nat /\ rxfifofull_test' \in BOOLEAN
        /\ UNCHANGED <<rxportenaret, written, err_rxportwrfull, wpos, fifoVars, wrFrame>>
    BY <1>5 DEF WrRoom, TypeOK
  <2> QED
    BY <2>1 DEF TypeOK
<1>6. CASE WrByte
  <2>1. wpos + written \in Nat /\ written + 1 \in Nat
    BY DEF TypeOK
  <2>2. rxfifo' \in D!Fifo(Nat) /\ err_rxportwrfull' \in BOOLEAN
    BY <1>6, <2>1, DataOps DEF WrByte, TypeOK, D!WrFull
  <2> QED
    BY <1>6, <2>1, <2>2 DEF WrByte, TypeOK
<1>7. CASE WrEnd
  <2>1. [pos |-> wpos, len |-> wdatalen, err |-> err_rxportwrfull] \in Param
    BY DEF TypeOK, Param
  <2>2. rxparamfifo' \in P!Fifo(Param) /\ err_rxportwrfull' \in BOOLEAN
    BY <1>7, <2>1, ParamOps DEF WrEnd, TypeOK, P!WrFull
  <2> QED
    BY <1>7, <2>2 DEF WrEnd, TypeOK
<1>8. CASE WrFlush
  <2>1. Out(enaSync) \in BOOLEAN
    BY Sizes DEF TypeOK, Out
  <2> QED
    BY <1>8, <2>1 DEF WrFlush, TypeOK
<1> QED
  BY <1>1, <1>2, <1>3, <1>4, <1>5, <1>6, <1>7, <1>8 DEF WrActs, WrStep

SyncActs == SetInputs \/ WrenaStep \/ SyncToRclk \/ SyncToClk2 \/ ParamFifoSync \/ DataFifoSync

\* So do inputs, request and synchronisers.
LEMMA SyncType == ASSUME TypeOK, SyncActs PROVE TypeOK'
<1> USE DEF inputVars, rdVars, wrVars, wrenaVars, syncVars, fifoVars, syncFrame
<1>0. \A c \in [1 .. SYNC -> BOOLEAN], level \in BOOLEAN : Shift(c, level) \in [1 .. SYNC -> BOOLEAN]
  BY Sizes DEF Shift
<1>1. CASE SetInputs
  BY <1>1 DEF SetInputs, TypeOK
<1>2. CASE WrenaStep
  <2>1. Out(wrenaretSync) \in BOOLEAN
    BY Sizes DEF TypeOK, Out
  <2>2. FSMrxportwrena' \in {"S0", "S1_0", "S1_1"}
    BY <1>2, <2>1 DEF WrenaStep, TypeOK
  <2>3. rxportwrena' \in BOOLEAN
    BY <1>2, <2>1 DEF WrenaStep, TypeOK
  <2>4. UNCHANGED <<inputVars, rdVars, wrVars, syncVars, fifoVars>>
    BY <1>2 DEF WrenaStep
  <2> QED
    BY <2>2, <2>3, <2>4 DEF TypeOK
<1>3. CASE SyncToRclk
  <2>1. wrenaSync' \in [1 .. SYNC -> BOOLEAN] /\ enaretSync' \in [1 .. SYNC -> BOOLEAN]
    BY <1>0, <1>3 DEF SyncToRclk, TypeOK
  <2> QED
    BY <1>3, <2>1 DEF SyncToRclk, TypeOK
<1>4. CASE SyncToClk2
  <2>1. wrenaretSync' \in [1 .. SYNC -> BOOLEAN] /\ enaSync' \in [1 .. SYNC -> BOOLEAN]
    <3>1. Out(wrenaSync) \in BOOLEAN /\ rxportena \in BOOLEAN
      BY Sizes DEF TypeOK, Out
    <3> QED
      BY <1>0, <1>4, <3>1 DEF SyncToClk2, TypeOK
  <2> QED
    BY <1>4, <2>1 DEF SyncToClk2, TypeOK
<1>5. CASE ParamFifoSync
  <2>1. rxparamfifo' \in P!Fifo(Param)
    BY <1>5, ParamOps DEF ParamFifoSync
  <2> QED
    BY <1>5, <2>1 DEF ParamFifoSync, TypeOK
<1>6. CASE DataFifoSync
  <2>1. rxfifo' \in D!Fifo(Nat)
    BY <1>6, DataOps DEF DataFifoSync
  <2> QED
    BY <1>6, <2>1 DEF DataFifoSync, TypeOK
<1> QED
  BY <1>1, <1>2, <1>3, <1>4, <1>5, <1>6 DEF SyncActs

\* A port starts with values of the types.
LEMMA InitType == Init => TypeOK
<1> SUFFICES ASSUME Init PROVE TypeOK
  OBVIOUS
<1>1. P!EmptyFifo \in P!Fifo(Param) /\ D!EmptyFifo \in D!Fifo(Nat)
  BY DEF P!EmptyFifo, P!Fifo, D!EmptyFifo, D!Fifo
<1>2. Low(SYNC) \in [1 .. SYNC -> BOOLEAN]
  BY DEF Low
<1>3. [pos |-> 0, len |-> 0, err |-> FALSE] \in Param
  BY DEF Param
<1> QED
  BY <1>1, <1>2, <1>3 DEF Init, TypeOK

\* Every step is one of the reader, of the writer, of the others or none.
LEMMA Steps ==
  ASSUME [Next]_vars
  PROVE  (RdStep \/ RdRead \/ RdAck) \/ WrActs \/ SyncActs \/ UNCHANGED vars
  BY DEF Next, WrActs, SyncActs

\* Every step keeps the types.
LEMMA NextType == TypeOK /\ [Next]_vars => TypeOK'
<1> SUFFICES ASSUME TypeOK, [Next]_vars PROVE TypeOK'
  OBVIOUS
<1>1. CASE UNCHANGED vars
  BY <1>1 DEF TypeOK, vars, inputVars, rdVars, wrVars, wrenaVars, syncVars, fifoVars
<1> QED
  BY <1>1, Steps, RdType, WrType, SyncType

\* Every variable keeps its type in every behaviour, and the client is never
\* behind the end of its frame.
THEOREM TypeCorrect == Spec => []TypeOK
  BY InitType, NextType, PTL DEF Spec

-----------------------------------------------------------------------------
(* The handshake. *)

\* Shifting a level into a chain of one of the four shapes.
LEMMA ShiftShape ==
  ASSUME NEW c \in [1 .. SYNC -> BOOLEAN], NEW level \in BOOLEAN
  PROVE  /\ level /\ Rises(c) => Rises(Shift(c, level))
         /\ ~level /\ Falls(c) => Falls(Shift(c, level))
         /\ level /\ AllHigh(c) => AllHigh(Shift(c, level))
         /\ ~level /\ AllLow(c) => AllLow(Shift(c, level))
         /\ ~level /\ Falls(c) /\ ~Out(c) => ~Out(Shift(c, level))
<1>1. /\ \A k \in 1 .. SYNC : Shift(c, level)[k] = IF k = 1 THEN level ELSE c[k - 1]
      /\ \A k \in 1 .. SYNC : k # 1 => k - 1 \in 1 .. SYNC
      /\ SYNC \in 1 .. SYNC
  BY Sizes DEF Shift
<1>2. ASSUME level, Rises(c) PROVE Rises(Shift(c, level))
  <2> SUFFICES ASSUME NEW j \in 1 .. SYNC, NEW k \in 1 .. SYNC, j <= k, Shift(c, level)[k], j # 1
               PROVE  Shift(c, level)[j]
    BY <1>1, <1>2 DEF Rises
  <2>1. k # 1 /\ j - 1 \in 1 .. SYNC /\ k - 1 \in 1 .. SYNC /\ j - 1 <= k - 1
    BY Sizes
  <2>2. c[k - 1]
    BY <1>1, <2>1
  <2>3. c[j - 1]
    BY <1>2, <2>1, <2>2 DEF Rises
  <2> QED
    BY <1>1, <2>3
<1>3. ASSUME ~level, Falls(c) PROVE Falls(Shift(c, level))
  <2> SUFFICES ASSUME NEW j \in 1 .. SYNC, NEW k \in 1 .. SYNC, j <= k, Shift(c, level)[j]
               PROVE  Shift(c, level)[k]
    BY DEF Falls
  <2>1. j # 1 /\ k # 1
    BY <1>1, <1>3
  <2>2. j - 1 \in 1 .. SYNC /\ k - 1 \in 1 .. SYNC /\ j - 1 <= k - 1
    BY <2>1, Sizes
  <2>3. c[j - 1]
    BY <1>1, <2>1
  <2>4. c[k - 1]
    BY <1>3, <2>2, <2>3 DEF Falls
  <2> QED
    BY <1>1, <2>1, <2>4
<1>4. level /\ AllHigh(c) => AllHigh(Shift(c, level))
  BY <1>1 DEF AllHigh
<1>5. ~level /\ AllLow(c) => AllLow(Shift(c, level))
  BY <1>1 DEF AllLow
<1>6. ~level /\ Falls(c) /\ ~Out(c) => ~Out(Shift(c, level))
  <2> SUFFICES ASSUME ~level, Falls(c), ~Out(c), Out(Shift(c, level)) PROVE FALSE
    OBVIOUS
  <2>1. SYNC # 1 /\ SYNC - 1 \in 1 .. SYNC /\ SYNC - 1 <= SYNC /\ c[SYNC - 1]
    BY <1>1, Sizes DEF Out
  <2> QED
    BY <1>1, <2>1 DEF Falls, Out
<1> QED
  BY <1>2, <1>3, <1>4, <1>5, <1>6

\* The receiving end stands for the whole chain when it changes one way only.
LEMMA EndStands ==
  ASSUME NEW c \in [1 .. SYNC -> BOOLEAN]
  PROVE  /\ Rises(c) /\ Out(c) => AllHigh(c)
         /\ Falls(c) /\ ~Out(c) => AllLow(c)
         /\ AllHigh(c) => Rises(c) /\ Falls(c) /\ Out(c)
         /\ AllLow(c) => Rises(c) /\ Falls(c) /\ ~Out(c)
         /\ Out(c) \in BOOLEAN
  BY Sizes DEF Rises, Falls, AllHigh, AllLow, Out

\* The states of the two machines and the levels of the ring.
LEMMA Ring ==
  ASSUME TypeOK
  PROVE  /\ enaSync \in [1 .. SYNC -> BOOLEAN] /\ enaretSync \in [1 .. SYNC -> BOOLEAN]
         /\ FSMrxportrd \in {"S0", "S1", "S1_1", "S1_2", "S1_3", "S2_0", "S2_1", "S2_2", "S3"}
         /\ FSMrxportwr \in {"S0", "S1", "S1_1", "S1_2", "S2_0", "S4"}
         /\ rxportena \in BOOLEAN /\ rxportenaret \in BOOLEAN
  BY DEF TypeOK

\* Where the chains stay as they are, so do their shapes.
LEMMA SameShape ==
  ASSUME UNCHANGED <<enaSync, enaretSync>>
  PROVE  /\ Rises(enaSync)' = Rises(enaSync) /\ Falls(enaSync)' = Falls(enaSync)
         /\ AllHigh(enaSync)' = AllHigh(enaSync) /\ AllLow(enaSync)' = AllLow(enaSync)
         /\ Rises(enaretSync)' = Rises(enaretSync) /\ Falls(enaretSync)' = Falls(enaretSync)
         /\ AllHigh(enaretSync)' = AllHigh(enaretSync) /\ AllLow(enaretSync)' = AllLow(enaretSync)
         /\ Out(enaSync)' = Out(enaSync) /\ Out(enaretSync)' = Out(enaretSync)
  BY DEF Rises, Falls, AllHigh, AllLow, Out

\* The reader turns the command round only when the ring has settled.
LEMMA RdHandshake ==
  ASSUME TypeOK, Handshake, RdStep \/ RdRead \/ RdAck
  PROVE  Handshake'
<1>0. UNCHANGED <<enaSync, enaretSync, FSMrxportwr, rxportenaret>>
  BY DEF RdStep, RdReset, RdInit, RdEnable, RdNext, RdOffer, RdSkip, RdStop, RdFlush, RdRead,
     RdAck, TakeByte, rdFrame, wrVars, syncVars
<1>1. CASE RdReset
  BY <1>0, <1>1, SameShape DEF RdReset, Handshake
<1>2. CASE RdInit
  <2>1. On \in BOOLEAN
    BY Sizes DEF TypeOK, On, Out
  <2> QED
    BY <1>0, <1>2, <2>1, Ring, SameShape, EndStands DEF RdInit, Handshake
<1>3. CASE RdEnable
  BY <1>0, <1>3, Ring, SameShape, EndStands DEF RdEnable, Handshake, Settled
<1>4. CASE RdFlush
  <2>1. CASE Settled
    <3>1. Out(enaretSync) /\ FSMrxportrd' = "S3" /\ ~rxportena'
      BY <1>4, <2>1, Ring, EndStands DEF RdFlush, Settled
    <3> QED
      BY <1>0, <2>1, <3>1, Ring, SameShape, EndStands DEF Settled, Handshake
  <2>2. CASE ~Settled
    <3>1. /\ ~rxportena /\ Falls(enaSync) /\ Falls(enaretSync)
          /\ ~rxportenaret => AllLow(enaSync)
          /\ rxportenaret => AllHigh(enaretSync)
      BY <1>4, <2>2 DEF RdFlush, Handshake
    <3>2. ~rxportena' /\ FSMrxportrd' \in {"S1", "S3"}
          /\ (FSMrxportrd' = "S1" => ~Out(enaretSync))
      BY <1>4 DEF RdFlush
    <3>3. FSMrxportrd' = "S1" => ~rxportenaret /\ AllLow(enaretSync)
      BY <3>1, <3>2, Ring, EndStands
    <3> QED
      BY <1>0, <3>1, <3>2, <3>3, SameShape DEF Handshake
  <2> QED
    BY <2>1, <2>2
<1>5. CASE RdNext \/ RdOffer \/ RdSkip \/ RdStop \/ RdRead \/ RdAck
  <2>1. /\ rxportena' = rxportena
        /\ FSMrxportrd \in {"S1_2", "S1_3", "S2_0", "S2_1", "S2_2"}
        /\ FSMrxportrd' \in {"S1_2", "S1_3", "S2_0", "S2_1", "S2_2", "S3"}
    BY <1>5 DEF RdNext, RdOffer, RdSkip, RdStop, RdRead, RdAck, TakeByte
  <2>2. Settled /\ Settled'
    BY <1>0, <2>1, SameShape DEF Settled, Handshake
  <2> QED
    BY <1>0, <2>1, <2>2, SameShape DEF Handshake
<1> QED
  BY <1>1, <1>2, <1>3, <1>4, <1>5 DEF RdStep

\* The writer returns a level only where it has arrived.
LEMMA WrHandshake ==
  ASSUME TypeOK, Handshake, WrActs
  PROVE  Handshake'
<1>0. UNCHANGED <<enaSync, enaretSync, FSMrxportrd, rxportena>>
  BY DEF WrActs, WrStep, WrReset, WrStop, WrStart, WrTest, WrRoom, WrByte, WrEnd, WrFlush,
     wrFrame, rdVars, syncVars
<1>1. CASE WrReset
  BY <1>0, <1>1, SameShape DEF WrReset, Handshake, Settled
<1>2. CASE WrStop
  BY <1>0, <1>2, SameShape DEF WrStop, Handshake, Settled
<1>3. CASE WrFlush
  <2>1. Out(enaSync) \in BOOLEAN
    BY Ring, EndStands
  <2>2. CASE UNCHANGED <<rxportenaret, FSMrxportwr>>
    BY <1>0, <2>2, SameShape DEF Handshake, Settled
  <2>3. CASE Out(enaSync) /\ ~rxportenaret
    <3> DEFINE empty == P!WrEmpty(rxparamfifo) /\ D!WrEmpty(rxfifo)
    <3>e. /\ rxportenaret' = IF empty THEN Out(enaSync) ELSE rxportenaret
          /\ FSMrxportwr' = IF empty /\ Out(enaSync) THEN "S1" ELSE "S4"
      BY <1>3 DEF WrFlush
    <3> HIDE DEF empty
    <3>1. /\ rxportenaret' \in BOOLEAN /\ FSMrxportwr' \in {"S1", "S4"}
          /\ FSMrxportwr' = "S1" => rxportenaret'
          /\ FSMrxportwr' = "S4" => ~rxportenaret'
      <4>1. CASE empty
        BY <2>1, <2>3, <3>e, <4>1
      <4>2. CASE ~empty
        BY <2>3, <3>e, <4>2, Ring
      <4> QED
        BY <4>1, <4>2
    <3>2. FSMrxportrd = "S1_1" /\ AllHigh(enaSync)
      BY <2>3, Ring, EndStands DEF Handshake, Settled
    <3> QED
      BY <1>0, <3>1, <3>2, <2>3, SameShape, EndStands, Ring DEF Handshake
  <2>4. CASE Out(enaSync) /\ rxportenaret
    BY <1>3, <2>4 DEF WrFlush, Handshake
  <2>5. CASE ~Out(enaSync)
    <3>1. FSMrxportwr' = "S4" /\ (rxportenaret' = rxportenaret \/ rxportenaret' = FALSE)
      BY <1>3, <2>1, <2>5 DEF WrFlush
    <3>2. CASE rxportenaret' = rxportenaret
      BY <1>3, <2>2, <3>1, <3>2 DEF WrFlush
    <3>3. CASE ~rxportenaret' /\ rxportenaret = TRUE
      <4>1. FSMrxportrd = "S3" /\ ~Settled
        BY <2>5, <3>3, Ring, EndStands DEF Handshake, Settled
      <4>2. /\ ~rxportena /\ Falls(enaSync) /\ Falls(enaretSync) /\ AllLow(enaSync)
        BY <2>5, <4>1, Ring, EndStands DEF Handshake
      <4> QED
        BY <1>0, <3>1, <3>3, <4>1, <4>2, SameShape DEF Handshake
    <3> QED
      BY <3>1, <3>2, <3>3, Ring
  <2> QED
    BY <2>1, <2>3, <2>4, <2>5
<1>4. CASE WrRoom \/ WrByte \/ WrEnd \/ (\E len \in Lens : WrStart(len))
           \/ \E pass \in BOOLEAN : WrTest(pass)
  <2>1. /\ rxportenaret' = rxportenaret /\ FSMrxportwr \in {"S1", "S1_1", "S1_2", "S2_0"}
        /\ FSMrxportwr' \in {"S1", "S1_1", "S1_2", "S2_0"}
    BY <1>4 DEF WrRoom, WrByte, WrEnd, WrStart, WrTest
  <2>2. Settled' = Settled
    BY <1>0, <2>1, SameShape DEF Settled
  <2> QED
    BY <1>0, <2>1, <2>2, SameShape DEF Handshake
<1> QED
  BY <1>1, <1>2, <1>3, <1>4 DEF WrActs, WrStep

\* A synchroniser moves one change of level along; nothing else concerns it.
LEMMA SyncHandshake ==
  ASSUME TypeOK, Handshake, SyncActs \/ UNCHANGED vars
  PROVE  Handshake'
<1>0. UNCHANGED <<FSMrxportwr, rxportenaret, FSMrxportrd, rxportena>>
  BY DEF SyncActs, SetInputs, WrenaStep, SyncToRclk, SyncToClk2, ParamFifoSync, DataFifoSync,
     syncFrame, vars, rdVars, wrVars
<1>1. CASE SyncToRclk
  <2>1. enaSync' = enaSync /\ enaretSync' = Shift(enaretSync, rxportenaret)
    BY <1>1 DEF SyncToRclk
  <2>2. /\ AllHigh(enaSync)' = AllHigh(enaSync) /\ AllLow(enaSync)' = AllLow(enaSync)
        /\ Rises(enaSync)' = Rises(enaSync) /\ Falls(enaSync)' = Falls(enaSync)
        /\ Out(enaSync)' = Out(enaSync)
    BY <2>1 DEF Rises, Falls, AllHigh, AllLow, Out
  <2>3. Settled => Settled'
    BY <1>0, <2>1, <2>2, Ring, ShiftShape DEF Settled
  <2>4. /\ rxportenaret /\ Rises(enaretSync) => Rises(enaretSync')
        /\ ~rxportenaret /\ Falls(enaretSync) => Falls(enaretSync')
        /\ rxportenaret /\ AllHigh(enaretSync) => AllHigh(enaretSync')
        /\ ~rxportenaret /\ AllLow(enaretSync) => AllLow(enaretSync')
        /\ AllHigh(enaretSync') => Falls(enaretSync')
        /\ AllLow(enaretSync') => Rises(enaretSync')
        /\ enaretSync' \in [1 .. SYNC -> BOOLEAN]
    <3>1. enaretSync' \in [1 .. SYNC -> BOOLEAN]
      BY <2>1, Ring, Sizes DEF Shift
    <3> QED
      BY <2>1, <3>1, Ring, ShiftShape, EndStands
  <2>5. CASE FSMrxportrd \in {"S0", "S1", "S1_1"}
    BY <1>0, <2>2, <2>4, <2>5, Ring DEF Handshake
  <2>6. CASE FSMrxportrd \in {"S1_2", "S1_3", "S2_0", "S2_1", "S2_2"}
    BY <1>0, <2>2, <2>3, <2>6 DEF Handshake
  <2>7. CASE FSMrxportrd = "S3"
    <3>1. CASE Settled
      BY <1>0, <2>2, <2>3, <2>7, <3>1 DEF Handshake
    <3>2. CASE ~Settled
      BY <1>0, <2>2, <2>4, <2>7, <3>2, Ring DEF Handshake
    <3> QED
      BY <3>1, <3>2
  <2> QED
    BY <2>5, <2>6, <2>7, Ring
<1>2. CASE SyncToClk2
  <2>1. enaretSync' = enaretSync /\ enaSync' = Shift(enaSync, rxportena)
    BY <1>2 DEF SyncToClk2
  <2>2. /\ AllHigh(enaretSync)' = AllHigh(enaretSync) /\ AllLow(enaretSync)' = AllLow(enaretSync)
        /\ Rises(enaretSync)' = Rises(enaretSync) /\ Falls(enaretSync)' = Falls(enaretSync)
    BY <2>1 DEF Rises, Falls, AllHigh, AllLow
  <2>3. Settled => Settled'
    BY <1>0, <2>1, <2>2, Ring, ShiftShape DEF Settled
  <2>4. FSMrxportwr = "S4" /\ rxportenaret => ~Out(enaSync')
    <3> SUFFICES ASSUME FSMrxportwr = "S4", rxportenaret PROVE ~Out(enaSync')
      OBVIOUS
    <3>1. ~Out(enaSync)
      BY DEF Handshake
    <3>2. ~rxportena /\ Falls(enaSync)
      BY <3>1, Ring, EndStands DEF Handshake, Settled
    <3> QED
      BY <2>1, <3>1, <3>2, Ring, ShiftShape
  <2> QED
    BY <1>0, <2>1, <2>2, <2>3, <2>4, Ring, ShiftShape, EndStands DEF Handshake
<1>3. CASE SetInputs \/ WrenaStep \/ ParamFifoSync \/ DataFifoSync \/ UNCHANGED vars
  <2>1. UNCHANGED <<enaSync, enaretSync>>
    BY <1>3 DEF SetInputs, WrenaStep, ParamFifoSync, DataFifoSync, vars, syncVars
  <2>2. Settled' = Settled
    BY <1>0, <2>1, SameShape DEF Settled
  <2> QED
    BY <1>0, <2>1, <2>2, SameShape DEF Handshake
<1> QED
  BY <1>1, <1>2, <1>3 DEF SyncActs

-----------------------------------------------------------------------------
(* What the steps do to the FIFOs. *)

PSame == pq' = pq /\ ph' = ph /\ ps' = ps
PPop  == pq # <<>> /\ Len(pq) > ph /\ pq' = Tail(pq) /\ ph' = ph /\ ps' = ps + 1
DSame == dq' = dq /\ dh' = dh /\ ds' = ds
DPop  == dq # <<>> /\ Len(dq) > dh /\ dq' = Tail(dq) /\ dh' = dh /\ ds' = ds + 1

\* Where the writer is: the positions and the command it has returned.
Position == <<wpos, written, rxportenaret>>

\* A FIFO that a step leaves alone keeps its numbers.
LEMMA Untouched ==
  /\ UNCHANGED rxparamfifo => PSame
  /\ UNCHANGED rxfifo => DSame
  BY DEF PSame, DSame, pq, ph, ps, dq, dh, ds

\* What a read does to the numbers of a FIFO.
LEMMA Popped ==
  ASSUME TypeOK
  PROVE  /\ ~P!RdEmpty(rxparamfifo) /\ rxparamfifo' = P!Pop(rxparamfifo) => PPop
         /\ ~D!RdEmpty(rxfifo) /\ rxfifo' = D!Pop(rxfifo) => DPop
<1>1. rxparamfifo' = P!Pop(rxparamfifo) => pq' = Tail(pq) /\ ph' = ph /\ ps' = ps + 1
  BY DEF P!Pop, pq, ph, ps
<1>2. rxfifo' = D!Pop(rxfifo) => dq' = Tail(dq) /\ dh' = dh /\ ds' = ds + 1
  BY DEF D!Pop, dq, dh, ds
<1> QED
  BY <1>1, <1>2, Shown DEF PPop, DPop

\* The reader only takes words off, and only where it sees them.
LEMMA RdMoves ==
  ASSUME TypeOK, RdStep \/ RdRead \/ RdAck
  PROVE  /\ PSame \/ PPop
         /\ DSame \/ DPop
         /\ UNCHANGED <<wrVars, enaSync, enaretSync>>
<1>1. CASE RdReset \/ RdInit \/ RdEnable \/ RdOffer \/ RdStop \/ RdAck
  BY <1>1, Untouched DEF RdReset, RdInit, RdEnable, RdOffer, RdStop, RdAck, fifoVars, rdFrame, syncVars
<1>2. CASE RdNext
  BY <1>2, Untouched, Popped DEF RdNext, rdFrame, syncVars
<1>3. CASE TakeByte
  BY <1>3, Untouched, Popped DEF TakeByte, rdFrame, syncVars
<1>4. CASE RdSkip /\ ~TakeByte
  BY <1>4, Untouched DEF RdSkip, fifoVars, rdFrame, syncVars
<1>5. CASE RdFlush
  BY <1>5, Untouched, Popped DEF RdFlush, rdFrame, syncVars
<1> QED
  BY <1>1, <1>2, <1>3, <1>4, <1>5 DEF RdStep, RdRead, RdSkip

\* Pointers and levels that cross move no word.
LEMMA SyncMoves ==
  ASSUME TypeOK, SyncActs \/ UNCHANGED vars
  PROVE  /\ pq' = pq /\ ph' <= ph /\ ps' <= ps /\ dq' = dq /\ dh' <= dh /\ ds' <= ds
         /\ \/ ph' = ph
            \/ ph' = ph - 1 /\ pq[Len(pq) - ph + 1].pos + pq[Len(pq) - ph + 1].len <= Seen /\ dh' = dh
         /\ UNCHANGED <<wrVars, rdVars>>
<1>0. /\ ph \in Nat /\ ps \in Nat /\ dh \in Nat /\ ds \in Nat
      /\ rxparamfifo = [q |-> pq, hid |-> ph, stale |-> ps]
      /\ rxfifo = [q |-> dq, hid |-> dh, stale |-> ds]
  BY Fields
<1>1. UNCHANGED <<wrVars, rdVars>>
  BY DEF SyncActs, SetInputs, WrenaStep, SyncToRclk, SyncToClk2, ParamFifoSync, DataFifoSync,
     syncFrame, vars
<1>2. CASE ParamFifoSync
  <2>1. DSame
    BY <1>2, Untouched DEF ParamFifoSync
  <2>2. CASE rxparamfifo' = P!Reveal(rxparamfifo) /\ Newest.pos + Newest.len <= Seen
    <3>1. pq' = pq /\ ph' = ph - 1 /\ ps' = ps
      BY <1>0, <2>2 DEF P!Reveal, pq, ph, ps
    <3>2. Newest = pq[Len(pq) - ph + 1]
      BY DEF Newest, pq, ph
    <3> QED
      BY <1>0, <1>1, <2>1, <2>2, <3>1, <3>2 DEF DSame
  <2>3. CASE rxparamfifo' = P!Reclaim(rxparamfifo)
    <3>1. pq' = pq /\ ph' = ph /\ ps' = ps - 1
      BY <1>0, <2>3 DEF P!Reclaim, pq, ph, ps
    <3> QED
      BY <1>0, <1>1, <2>1, <3>1 DEF DSame
  <2> QED
    BY <1>2, <2>2, <2>3 DEF ParamFifoSync
<1>3. CASE DataFifoSync
  <2>1. PSame
    BY <1>3, Untouched DEF DataFifoSync
  <2>2. CASE rxfifo' = D!Reveal(rxfifo)
    <3>1. dq' = dq /\ dh' = dh - 1 /\ ds' = ds
      BY <1>0, <2>2 DEF D!Reveal, dq, dh, ds
    <3> QED
      BY <1>0, <1>1, <2>1, <3>1 DEF PSame
  <2>3. CASE rxfifo' = D!Reclaim(rxfifo)
    <3>1. dq' = dq /\ dh' = dh /\ ds' = ds - 1
      BY <1>0, <2>3 DEF D!Reclaim, dq, dh, ds
    <3> QED
      BY <1>0, <1>1, <2>1, <3>1 DEF PSame
  <2> QED
    BY <1>3, <2>2, <2>3 DEF DataFifoSync
<1>4. CASE SetInputs \/ WrenaStep \/ SyncToRclk \/ SyncToClk2 \/ UNCHANGED vars
  <2>1. PSame /\ DSame
    BY <1>4, Untouched DEF SetInputs, WrenaStep, SyncToRclk, SyncToClk2, vars, fifoVars
  <2> QED
    BY <1>0, <1>1, <2>1 DEF PSame, DSame
<1> QED
  BY <1>2, <1>3, <1>4 DEF SyncActs

\* A write request that finds room adds the word, for the writer at once.
LEMMA Pushed ==
  ASSUME TypeOK
  PROVE  /\ \A w : /\ Len(pq) + ps < PARAMDEPTH /\ rxparamfifo' = P!Push(rxparamfifo, w)
                   => pq' = Append(pq, w) /\ ph' = ph + 1 /\ ps' = ps
         /\ \A w : /\ Len(dq) + ds < DATADEPTH /\ rxfifo' = D!Push(rxfifo, w)
                   => dq' = Append(dq, w) /\ dh' = dh + 1 /\ ds' = ds
<1>0. ps \in Nat /\ Len(pq) \in Nat /\ ds \in Nat /\ Len(dq) \in Nat
  BY Fields
<1>1. /\ Len(pq) + ps < PARAMDEPTH => ~P!WrFull(rxparamfifo)
      /\ Len(dq) + ds < DATADEPTH => ~D!WrFull(rxfifo)
  BY <1>0, Sizes DEF P!WrFull, D!WrFull, pq, ps, dq, ds
<1> QED
  BY <1>1 DEF P!Push, D!Push, pq, ph, ps, dq, dh, ds

-----------------------------------------------------------------------------
(* Room. *)

\* The numbers the arithmetic below is about, and where the visible bytes end.
LEMMA NumbersOf ==
  ASSUME TypeOK
  PROVE  /\ wpos \in Nat /\ written \in Nat /\ wdatalen \in Nat /\ rdatacnt \in Nat
         /\ ph \in Nat /\ ps \in Nat /\ Len(pq) \in Nat
         /\ dh \in Nat /\ ds \in Nat /\ Len(dq) \in Nat
         /\ rframe.pos \in Nat /\ rframe.len \in Nat /\ Seen = wpos + written - dh
         /\ FSMrxportwr \in {"S0", "S1", "S1_1", "S1_2", "S2_0", "S4"}
         /\ rxfifofull_test \in BOOLEAN /\ err_rxportwrfull \in BOOLEAN
  BY Fields DEF TypeOK, Param, Seen, dh

\* Nobody but the writer fills the FIFOs.
LEMMA OthersRoom ==
  ASSUME TypeOK, TypeOK', Room, (RdStep \/ RdRead \/ RdAck) \/ SyncActs \/ UNCHANGED vars
  PROVE  Room'
<1>1. UNCHANGED wrVars /\ Len(pq') + ps' <= Len(pq) + ps /\ Len(dq') + ds' <= Len(dq) + ds
  <2>1. CASE RdStep \/ RdRead \/ RdAck
    <3>1. (PSame \/ PPop) /\ (DSame \/ DPop) /\ UNCHANGED wrVars
      BY <2>1, RdMoves
    <3>2. Len(pq') + ps' <= Len(pq) + ps
      <4>1. CASE PSame
        BY <4>1, NumbersOf DEF PSame
      <4>2. CASE PPop
        <5>1. Len(Tail(pq)) = Len(pq) - 1
          BY <4>2, Fields, TailFacts DEF PPop
        <5> QED
          BY <4>2, <5>1, NumbersOf DEF PPop
      <4> QED
        BY <3>1, <4>1, <4>2
    <3>3. Len(dq') + ds' <= Len(dq) + ds
      <4>1. CASE DSame
        BY <4>1, NumbersOf DEF DSame
      <4>2. CASE DPop
        <5>1. Len(Tail(dq)) = Len(dq) - 1
          BY <4>2, Fields, TailFacts DEF DPop
        <5> QED
          BY <4>2, <5>1, NumbersOf DEF DPop
      <4> QED
        BY <3>1, <4>1, <4>2
    <3> QED
      BY <3>1, <3>2, <3>3
  <2>2. CASE SyncActs \/ UNCHANGED vars
    <3>1. pq' = pq /\ ps' <= ps /\ dq' = dq /\ ds' <= ds /\ UNCHANGED wrVars
      BY <2>2, SyncMoves
    <3>2. /\ ps \in Nat /\ ds \in Nat /\ ps' \in Nat /\ ds' \in Nat
          /\ Len(pq) \in Nat /\ Len(dq) \in Nat
      <4>1. (ps \in Nat)' /\ (ds \in Nat)'
        BY DEF TypeOK, P!Fifo, D!Fifo, ps, ds
      <4> QED
        BY <4>1, NumbersOf
    <3> QED
      BY <3>1, <3>2
  <2> QED
    BY <2>1, <2>2
<1>2. /\ written \in Nat /\ wdatalen \in Nat
      /\ ps \in Nat /\ ps' \in Nat /\ Len(pq) \in Nat /\ Len(pq') \in Nat
  <2>1. (ps \in Nat /\ Len(pq) \in Nat)'
    BY DEF TypeOK, P!Fifo, pq, ps
  <2> QED
    BY <2>1, NumbersOf
<1>3. UNCHANGED <<FSMrxportwr, wdatalen, written, rxfifofull_test, err_rxportwrfull, wpos>>
  BY <1>1 DEF wrVars
<1>4. ASSUME FSMrxportwr = "S1_2", ~rxfifofull_test
      PROVE  wdatalen + Len(dq') + ds' < DATADEPTH
  <2>1. wdatalen + Len(dq) + ds < DATADEPTH
    BY <1>4 DEF Room
  <2>2. (Len(dq') \in Nat /\ ds' \in Nat) /\ Len(dq) \in Nat /\ ds \in Nat
    <3>1. (Len(dq) \in Nat /\ ds \in Nat)'
      BY DEF TypeOK, D!Fifo, dq, ds
    <3> QED
      BY <3>1, NumbersOf
  <2> QED
    BY <1>1, <1>2, <2>1, <2>2, Sizes
<1>5. ASSUME FSMrxportwr = "S2_0"
      PROVE  /\ written <= wdatalen /\ wdatalen + Len(dq') + ds' < DATADEPTH + written
             /\ Len(pq') + ps' < PARAMDEPTH
  <2>1. /\ written <= wdatalen /\ wdatalen + Len(dq) + ds < DATADEPTH + written
        /\ Len(pq) + ps < PARAMDEPTH
    BY <1>5 DEF Room
  <2>2. (Len(dq') \in Nat /\ ds' \in Nat) /\ Len(dq) \in Nat /\ ds \in Nat
    <3>1. (Len(dq) \in Nat /\ ds \in Nat)'
      BY DEF TypeOK, D!Fifo, dq, ds
    <3> QED
      BY <3>1, NumbersOf
  <2> QED
    BY <1>1, <1>2, <2>1, <2>2, Sizes
<1> QED
  BY <1>3, <1>4, <1>5 DEF Room

\* The writer lets a frame in only where both FIFOs have room for all of it.
LEMMA WrRoomed ==
  ASSUME TypeOK, Room, WrActs
  PROVE  Room'
<1>0. /\ wpos \in Nat /\ written \in Nat /\ wdatalen \in Nat
      /\ ps \in Nat /\ Len(pq) \in Nat /\ ds \in Nat /\ Len(dq) \in Nat
      /\ rxfifofull_test \in BOOLEAN /\ err_rxportwrfull \in BOOLEAN
  BY NumbersOf
<1>1. CASE WrReset \/ WrStop \/ WrFlush
  <2>0. err_rxportwrfull = FALSE
    BY <1>0 DEF Room
  <2>1. ~err_rxportwrfull' /\ FSMrxportwr' \in {"S4", "S1"}
    BY <1>1, <2>0 DEF WrReset, WrStop, WrFlush
  <2>2. FSMrxportwr' = "S1" => written' = 0
    BY <1>1 DEF WrReset, WrStop, WrFlush
  <2> QED
    BY <2>1, <2>2 DEF Room
<1>2. ASSUME NEW len \in Lens, WrStart(len) PROVE Room'
  BY <1>2 DEF WrStart, Room
<1>3. ASSUME NEW pass \in BOOLEAN, WrTest(pass) PROVE Room'
  <2>1. /\ FSMrxportwr' = IF pass THEN "S1_2" ELSE "S1"
        /\ rxfifofull_test' = (pass /\ wdatalen + Len(dq) + ds >= DATADEPTH)
        /\ pass => wdatalen' = wdatalen
        /\ UNCHANGED <<written, err_rxportwrfull, wpos>> /\ dq' = dq /\ ds' = ds
        /\ FSMrxportwr = "S1_1"
    BY <1>3 DEF WrTest, fifoVars, dq, ds
  <2>2. pass /\ ~rxfifofull_test' => wdatalen + Len(dq) + ds < DATADEPTH
    <3> SUFFICES ASSUME pass, ~rxfifofull_test' PROVE wdatalen + Len(dq) + ds < DATADEPTH
      OBVIOUS
    <3>1. ~(wdatalen + Len(dq) + ds >= DATADEPTH)
      BY <2>1
    <3> QED
      BY <1>0, <3>1, Sizes
  <2> QED
    BY <2>1, <2>2 DEF Room
<1>4. CASE WrRoom
  <2> DEFINE full == P!WrFull(rxparamfifo) \/ rxfifofull_test
  <2>1. /\ FSMrxportwr = "S1_2" /\ FSMrxportwr' = IF full THEN "S1" ELSE "S2_0"
        /\ ~full => wdatalen' = wdatalen
        /\ UNCHANGED <<written, err_rxportwrfull, wpos>>
        /\ pq' = pq /\ ps' = ps /\ dq' = dq /\ ds' = ds
    BY <1>4 DEF WrRoom, fifoVars, pq, ps, dq, ds
  <2>2. ~full => Len(pq) + ps < PARAMDEPTH
    BY <1>0, Sizes DEF P!WrFull, pq, ps
  <2>3. written = 0 /\ wdatalen \in Lens /\ wpos + wdatalen <= MaxBytes /\ ~err_rxportwrfull
        /\ (~full => wdatalen + Len(dq) + ds < DATADEPTH)
    BY <2>1 DEF Room
  <2> HIDE DEF full
  <2>4. CASE full
    BY <2>1, <2>3, <2>4 DEF Room
  <2>5. CASE ~full
    <3>1. written <= wdatalen /\ wdatalen + Len(dq) + ds < DATADEPTH + written
      BY <1>0, <2>3, <2>5, Sizes
    <3> QED
      BY <2>1, <2>2, <2>3, <2>5, <3>1 DEF Room
  <2> QED
    BY <2>4, <2>5
<1>5. CASE WrByte
  <2>1. /\ FSMrxportwr = "S2_0" /\ FSMrxportwr' = "S2_0" /\ written < wdatalen
        /\ rxfifo' = D!Push(rxfifo, wpos + written) /\ written' = written + 1
        /\ err_rxportwrfull' = (err_rxportwrfull \/ D!WrFull(rxfifo))
        /\ UNCHANGED <<wdatalen, wpos>> /\ pq' = pq /\ ps' = ps
    BY <1>5 DEF WrByte, pq, ps
  <2>2. /\ wdatalen + Len(dq) + ds < DATADEPTH + written /\ Len(pq) + ps < PARAMDEPTH
        /\ ~err_rxportwrfull /\ wdatalen \in Lens /\ wpos + wdatalen <= MaxBytes
    BY <2>1 DEF Room
  <2>3. Len(dq) + ds < DATADEPTH
    BY <1>0, <2>1, <2>2, Sizes
  <2>4. ~D!WrFull(rxfifo)
    BY <1>0, <2>3, Sizes DEF D!WrFull, dq, ds
  <2>5. dq' = Append(dq, wpos + written) /\ ds' = ds
    BY <2>1, <2>3, Pushed
  <2>6. Len(dq') = Len(dq) + 1
    BY <1>0, <2>5, Fields, AppendFacts
  <2>7. written' <= wdatalen /\ wdatalen + Len(dq') + ds' < DATADEPTH + written'
    BY <1>0, <2>1, <2>2, <2>5, <2>6, Sizes
  <2> QED
    BY <2>1, <2>2, <2>4, <2>7 DEF Room
<1>6. CASE WrEnd
  <2>1. /\ FSMrxportwr = "S2_0" /\ FSMrxportwr' = "S1" /\ written' = 0
        /\ err_rxportwrfull' = (err_rxportwrfull \/ P!WrFull(rxparamfifo))
    BY <1>6 DEF WrEnd
  <2>2. ~err_rxportwrfull /\ Len(pq) + ps < PARAMDEPTH
    BY <2>1 DEF Room
  <2>3. ~P!WrFull(rxparamfifo)
    BY <1>0, <2>2, Sizes DEF P!WrFull, pq, ps
  <2> QED
    BY <2>1, <2>2, <2>3 DEF Room
<1> QED
  BY <1>1, <1>2, <1>3, <1>4, <1>5, <1>6 DEF WrActs, WrStep

-----------------------------------------------------------------------------
(* The lines. *)

\* What the reader takes off leaves the lines as they are.
LEMMA ReadLines ==
  ASSUME TypeOK, Lines, PSame \/ PPop, DSame \/ DPop, UNCHANGED Position
  PROVE  Lines' /\ Seen' = Seen
<1>0. /\ wpos \in Nat /\ written \in Nat /\ wpos + written \in Nat
      /\ ph \in Nat /\ Len(pq) \in Nat /\ pq \in Seq(Param)
      /\ dh \in Nat /\ Len(dq) \in Nat /\ dq \in Seq(Nat)
      /\ Seen = wpos + written - dh
  BY NumbersOf, Fields
<1>1. wpos' = wpos /\ written' = written /\ rxportenaret' = rxportenaret
  BY DEF Position
<1>2. dh' <= Len(dq') /\ ByteLine(dq', wpos + written) /\ dh' = dh /\ (dq = <<>> => dq' = <<>>)
  <2>1. CASE DSame
    BY <2>1 DEF DSame, Lines
  <2>2. CASE DPop
    <3>1. Len(Tail(dq)) = Len(dq) - 1
      BY <1>0, <2>2, TailFacts DEF DPop
    <3>2. ByteLine(Tail(dq), wpos + written)
      BY <1>0, <2>2, ByteSteps DEF DPop, Lines
    <3> QED
      BY <1>0, <2>2, <3>1, <3>2 DEF DPop
  <2> QED
    BY <2>1, <2>2
<1>3. Seen' = Seen
  <2>1. Seen' = wpos' + written' - dh'
    BY DEF Seen, dh
  <2> QED
    BY <1>0, <1>1, <1>2, <2>1
<1>4. /\ ph' <= Len(pq') /\ FrameLine(pq', wpos) /\ Complete(pq', Len(pq') - ph', Seen)
      /\ pq = <<>> => pq' = <<>>
  <2>1. CASE PSame
    BY <2>1 DEF PSame, Lines
  <2>2. CASE PPop
    <3>1. /\ Len(pq') = Len(pq) - 1 /\ ph' = ph /\ Len(pq) > ph /\ pq # <<>>
          /\ \A i \in 1 .. Len(pq) - 1 : pq'[i] = pq[i + 1]
      BY <1>0, <2>2, TailFacts DEF PPop
    <3>2. FrameLine(pq', wpos)
      BY <1>0, <2>2, FrameTail DEF PPop, Lines
    <3>3. ASSUME NEW i \in 1 .. Len(pq') - ph' PROVE pq'[i].pos + pq'[i].len <= Seen
      <4>1. i \in 1 .. Len(pq) - 1 /\ i + 1 \in 1 .. Len(pq) - ph
        BY <1>0, <3>1
      <4>2. pq[i + 1].pos + pq[i + 1].len <= Seen
        BY <4>1 DEF Lines, Complete
      <4> QED
        BY <3>1, <4>1, <4>2
    <3> QED
      BY <1>0, <3>1, <3>2, <3>3 DEF Complete
  <2> QED
    BY <2>1, <2>2
<1> QED
  BY <1>1, <1>2, <1>3, <1>4 DEF Lines

\* Fewer bytes out of sight, more in sight.
LEMMA Sooner ==
  ASSUME NEW a \in Nat, NEW b \in Nat, NEW d \in Nat, NEW e \in Nat, e <= d
  PROVE  a + b - d <= a + b - e /\ a + b - d \in Int /\ a + b - e \in Int
  OBVIOUS

\* A pointer that crosses shows the reader complete frames only.
LEMMA SyncLines ==
  ASSUME TypeOK, TypeOK', Lines, SyncActs \/ UNCHANGED vars
  PROVE  Lines' /\ Seen <= Seen' /\ UNCHANGED <<wrVars, rdVars>> /\ pq' = pq /\ dq' = dq
<1>0. /\ wpos \in Nat /\ written \in Nat
      /\ ph \in Nat /\ Len(pq) \in Nat /\ pq \in Seq(Param)
      /\ dh \in Nat /\ Len(dq) \in Nat /\ dh' \in Nat /\ Seen = wpos + written - dh
  <2>1. (dh \in Nat)'
    BY DEF TypeOK, D!Fifo, dh
  <2> QED
    BY <2>1, NumbersOf, Fields
<1>1. /\ pq' = pq /\ ph' <= ph /\ dq' = dq /\ dh' <= dh
      /\ \/ ph' = ph
         \/ ph' = ph - 1 /\ pq[Len(pq) - ph + 1].pos + pq[Len(pq) - ph + 1].len <= Seen /\ dh' = dh
      /\ UNCHANGED <<wrVars, rdVars>>
  BY SyncMoves
<1>2. wpos' = wpos /\ written' = written /\ rxportenaret' = rxportenaret
  BY <1>1 DEF wrVars
<1>3. Seen <= Seen' /\ Seen \in Int /\ Seen' \in Int
  <2>1. Seen' = wpos' + written' - dh'
    BY DEF Seen, dh
  <2>2. wpos + written - dh' = Seen' /\ wpos + written - dh = Seen
    BY <1>0, <1>2, <2>1
  <2>3. wpos \in Nat /\ written \in Nat /\ dh \in Nat /\ dh' \in Nat /\ dh' <= dh
    BY <1>0, <1>1
  <2>4. /\ wpos + written - dh <= wpos + written - dh'
        /\ wpos + written - dh \in Int /\ wpos + written - dh' \in Int
    BY <2>3, Sooner, Zenon
  <2> QED
    BY <2>2, <2>4, Zenon
<1>4. dh' <= Len(dq') /\ ph' <= Len(pq')
  <2>1. dh <= Len(dq) /\ ph <= Len(pq)
    BY DEF Lines
  <2>2. ph' \in Int
    BY <1>0, <1>1
  <2> QED
    BY <1>0, <1>1, <2>1, <2>2
<1>5. ASSUME NEW i \in 1 .. Len(pq) - ph' PROVE pq[i].pos + pq[i].len <= Seen'
  <2>1. pq[i].pos + pq[i].len \in Int
    <3>1. i \in 1 .. Len(pq)
      <4>1. ph' \in Nat
        <5>1. (ph \in Nat)'
          BY DEF TypeOK, P!Fifo, ph
        <5> QED
          BY <5>1
      <4> QED
        BY <1>0, <4>1
    <3>2. pq[i] \in Param
      BY <1>0, <3>1
    <3> QED
      BY <3>2 DEF Param
  <2>2. pq[i].pos + pq[i].len <= Seen
    <3>1. CASE i \in 1 .. Len(pq) - ph
      BY <3>1 DEF Lines, Complete
    <3>2. CASE i \notin 1 .. Len(pq) - ph
      <4>1. i = Len(pq) - ph + 1 /\ ph' # ph
        BY <1>0, <1>1, <3>2
      <4> QED
        BY <1>1, <4>1
    <3> QED
      BY <3>1, <3>2
  <2> QED
    BY <1>3, <2>1, <2>2
<1>6. Complete(pq', Len(pq') - ph', Seen')
  BY <1>1, <1>5 DEF Complete
<1> QED
  BY <1>1, <1>2, <1>3, <1>4, <1>6 DEF Lines

\* A byte goes to the end of its line, and is not seen yet.
LEMMA ByteWritten ==
  ASSUME TypeOK, Room, Lines, rxportenaret, WrByte
  PROVE  /\ Lines' /\ Seen' = Seen /\ pq' = pq /\ dq' = Append(dq, wpos + written)
         /\ Len(dq') = Len(dq) + 1 /\ wpos' = wpos /\ written' = written + 1
<1>0. /\ wpos \in Nat /\ written \in Nat /\ wdatalen \in Nat /\ wpos + written \in Nat
      /\ dh \in Nat /\ ds \in Nat /\ Len(dq) \in Nat /\ dq \in Seq(Nat)
      /\ Seen = wpos + written - dh
  BY NumbersOf, Fields
<1>1. /\ FSMrxportwr = "S2_0" /\ written < wdatalen
      /\ rxfifo' = D!Push(rxfifo, wpos + written) /\ written' = written + 1
      /\ wpos' = wpos /\ rxportenaret' = rxportenaret /\ pq' = pq /\ ph' = ph
  BY DEF WrByte, pq, ph
<1>2. wdatalen + Len(dq) + ds < DATADEPTH + written
  BY <1>1 DEF Room
<1>3. Len(dq) + ds < DATADEPTH
  BY <1>0, <1>1, <1>2, Sizes
<1>4. dq' = Append(dq, wpos + written) /\ dh' = dh + 1
  BY <1>1, <1>3, Pushed
<1>5. Len(dq') = Len(dq) + 1
  BY <1>0, <1>4, AppendFacts
<1>6. Seen' = Seen
  <2>1. Seen' = wpos' + written' - dh'
    BY DEF Seen, dh
  <2> QED
    BY <1>0, <1>1, <1>4, <2>1
<1>7. ByteLine(dq', wpos' + written')
  <2>1. ByteLine(Append(dq, wpos + written), (wpos + written) + 1)
    BY <1>0, ByteSteps DEF Lines
  <2>2. wpos' + written' = (wpos + written) + 1
    BY <1>0, <1>1
  <2> QED
    BY <1>4, <2>1, <2>2
<1>8. dh' <= Len(dq')
  <2>1. dh <= Len(dq)
    BY DEF Lines
  <2> QED
    BY <1>0, <1>4, <1>5, <2>1
<1> QED
  BY <1>1, <1>4, <1>5, <1>6, <1>7, <1>8 DEF Lines

\* The parameters of a frame go to the end of theirs.
LEMMA FrameWritten ==
  ASSUME TypeOK, Room, Lines, rxportenaret, WrEnd
  PROVE  /\ Lines' /\ Seen' = Seen /\ dq' = dq /\ Following' = Following
         /\ wpos' + written' = wpos + written
         /\ pq' = Append(pq, [pos |-> wpos, len |-> wdatalen, err |-> FALSE])
         /\ wdatalen \in Lens /\ wpos \in 0 .. MaxBytes
<1> DEFINE f == [pos |-> wpos, len |-> wdatalen, err |-> FALSE]
<1>0. /\ wpos \in Nat /\ written \in Nat /\ wdatalen \in Nat
      /\ ph \in Nat /\ ps \in Nat /\ Len(pq) \in Nat /\ pq \in Seq(Param)
      /\ dh \in Nat /\ Seen = wpos + written - dh /\ err_rxportwrfull \in BOOLEAN
  BY NumbersOf, Fields
<1>1. /\ FSMrxportwr = "S2_0" /\ written = wdatalen
      /\ rxparamfifo' = P!Push(rxparamfifo, [pos |-> wpos, len |-> wdatalen, err |-> err_rxportwrfull])
      /\ wpos' = wpos + wdatalen /\ written' = 0 /\ rxportenaret' = rxportenaret
      /\ dq' = dq /\ dh' = dh
  BY DEF WrEnd, dq, dh
<1>2. Len(pq) + ps < PARAMDEPTH /\ err_rxportwrfull = FALSE /\ wdatalen \in Lens
      /\ wpos + wdatalen <= MaxBytes
  BY <1>0, <1>1 DEF Room
<1>3. f \in Param /\ f.pos = wpos /\ ~f.err /\ f.len = wdatalen
  BY <1>0 DEF Param
<1>4. pq' = Append(pq, f) /\ ph' = ph + 1
  BY <1>1, <1>2, Pushed
<1> HIDE DEF f
<1>5. /\ Len(pq') = Len(pq) + 1 /\ pq' # <<>>
      /\ \A i \in 1 .. Len(pq) : pq'[i] = pq[i]
  BY <1>0, <1>3, <1>4, AppendFacts
<1>6. /\ FrameLine(pq', wpos + wdatalen)
      /\ (IF pq' = <<>> THEN wpos + wdatalen ELSE pq'[1].pos) = Following
  <2>1. FrameLine(pq, wpos)
    BY DEF Lines
  <2> QED
    BY <1>0, <1>2, <1>3, <1>4, <2>1, FrameAppend DEF Following
<1>7. Following' = Following
  BY <1>1, <1>6 DEF Following
<1>8. wpos' + written' = wpos + written /\ Seen' = Seen
  <2>1. Seen' = wpos' + written' - dh'
    BY DEF Seen, dh
  <2> QED
    BY <1>0, <1>1, <2>1
<1>9. ph' <= Len(pq') /\ Complete(pq', Len(pq') - ph', Seen')
  <2>1. ph <= Len(pq) /\ Complete(pq, Len(pq) - ph, Seen)
    BY DEF Lines
  <2>2. ph' <= Len(pq') /\ Len(pq') - ph' = Len(pq) - ph
    BY <1>0, <1>4, <1>5, <2>1
  <2>3. ASSUME NEW i \in 1 .. Len(pq) - ph PROVE pq'[i].pos + pq'[i].len <= Seen
    <3>1. i \in 1 .. Len(pq)
      BY <1>0
    <3> QED
      BY <1>5, <2>1, <3>1 DEF Complete
  <2> QED
    BY <1>8, <2>2, <2>3 DEF Complete
<1>10. Lines'
  <2>1. dh <= Len(dq) /\ ByteLine(dq, wpos + written)
    BY DEF Lines
  <2> QED
    BY <1>1, <1>2, <1>6, <1>8, <1>9, <2>1 DEF Lines
<1>11. wpos \in 0 .. MaxBytes
  BY <1>0, <1>2, Sizes
<1> QED
  BY <1>1, <1>2, <1>4, <1>7, <1>8, <1>10, <1>11 DEF f

\* The flush of the writer restarts both lines where they are empty.
LEMMA FlushLines ==
  ASSUME TypeOK, Lines, WrFlush
  PROVE  /\ Lines' /\ pq' = pq /\ dq' = dq
         /\ \/ UNCHANGED Position
            \/ UNCHANGED <<wpos, written>> /\ rxportenaret' = Out(enaSync)
               /\ ~(rxportenaret' /\ ~rxportenaret)
            \/ Out(enaSync) /\ wpos' = 0 /\ written' = 0 /\ pq = <<>> /\ dq = <<>>
<1>0. /\ wpos \in Nat /\ written \in Nat
      /\ ph \in Nat /\ ps \in Nat /\ Len(pq) \in Nat /\ pq \in Seq(Param)
      /\ dh \in Nat /\ ds \in Nat /\ Len(dq) \in Nat /\ dq \in Seq(Nat)
  BY NumbersOf, Fields
<1> DEFINE empty == P!WrEmpty(rxparamfifo) /\ D!WrEmpty(rxfifo)
<1>1. /\ rxportenaret' = IF empty THEN Out(enaSync) ELSE rxportenaret
      /\ wpos' = IF empty /\ Out(enaSync) THEN 0 ELSE wpos
      /\ written' = IF empty /\ Out(enaSync) THEN 0 ELSE written
      /\ pq' = pq /\ ph' = ph /\ dq' = dq /\ dh' = dh
  BY DEF WrFlush, fifoVars, pq, ph, dq, dh
<1>2. empty => pq = <<>> /\ dq = <<>> /\ Len(pq) = 0 /\ Len(dq) = 0
  <2>0. empty => Len(pq) + ps = 0 /\ Len(dq) + ds = 0
    BY DEF P!WrEmpty, D!WrEmpty, pq, ps, dq, ds
  <2>1. empty => Len(pq) = 0 /\ Len(dq) = 0
    <3> HIDE DEF empty
    <3> QED
      BY <1>0, <2>0
  <2> QED
    BY <1>0, <2>1, Empty
<1> HIDE DEF empty
<1>3. Seen' = wpos' + written' - dh' /\ Seen = wpos + written - dh
  BY DEF Seen, dh
<1>4. CASE empty /\ Out(enaSync)
  <2>1. wpos' = 0 /\ written' = 0 /\ pq' = <<>> /\ dq' = <<>> /\ Len(pq') = 0 /\ Len(dq') = 0
    BY <1>1, <1>2, <1>4
  <2>2. dh' = 0 /\ ph' = 0
    <3>1. dh <= Len(dq) /\ ph <= Len(pq)
      BY DEF Lines
    <3> QED
      BY <1>0, <1>1, <1>2, <1>4, <3>1
  <2>3. ByteLine(dq', wpos' + written') /\ FrameLine(pq', wpos') /\ Complete(pq', Len(pq') - ph', Seen')
    <3>1. 1 .. 0 = {} /\ 1 .. 0 - 1 = {} /\ 0 - 0 = 0
      OBVIOUS
    <3> QED
      BY <2>1, <2>2, <3>1 DEF ByteLine, FrameLine, Complete
  <2>4. wpos' <= MaxBytes /\ dh' <= Len(dq') /\ ph' <= Len(pq')
    BY <2>1, <2>2, Sizes
  <2> QED
    BY <1>1, <1>2, <1>4, <2>1, <2>3, <2>4 DEF Lines
<1>5. CASE ~(empty /\ Out(enaSync))
  <2>1. wpos' = wpos /\ written' = written /\ Seen' = Seen
    BY <1>1, <1>3, <1>5
  <2>2. ~rxportenaret' => pq = <<>> /\ dq = <<>>
    BY <1>1, <1>2 DEF Lines
  <2>3. Lines'
    BY <1>1, <2>1, <2>2 DEF Lines
  <2>4. CASE empty
    BY <1>1, <1>5, <2>1, <2>3, <2>4
  <2>5. CASE ~empty
    BY <1>1, <2>1, <2>3, <2>5 DEF Position
  <2> QED
    BY <2>4, <2>5
<1> QED
  BY <1>4, <1>5

\* The other steps of the writer move nothing.
LEMMA WrRest ==
  ASSUME TypeOK, Room, Handshake,
         WrReset \/ WrStop \/ WrRoom \/ (\E len \in Lens : WrStart(len))
                 \/ \E pass \in BOOLEAN : WrTest(pass)
  PROVE  PSame /\ DSame /\ UNCHANGED Position
<1>1. CASE WrReset \/ WrStop \/ WrRoom \/ \E pass \in BOOLEAN : WrTest(pass)
  BY <1>1, Untouched DEF WrReset, WrStop, WrRoom, WrTest, fifoVars, Position
<1>2. ASSUME NEW len \in Lens, WrStart(len) PROVE PSame /\ DSame /\ UNCHANGED Position
  <2>1. written = 0 /\ written' = 0
    BY <1>2 DEF WrStart, Room
  <2> QED
    BY <1>2, <2>1, Untouched DEF WrStart, fifoVars, Position
<1> QED
  BY <1>1, <1>2

-----------------------------------------------------------------------------
(* Alignment. *)

\* The next byte is there, and it is seen.
LEMMA ByteThere ==
  ASSUME TypeOK, Alignment, FSMrxportrd \in {"S2_0", "S2_1"}, TakeByte
  PROVE  /\ DPop /\ PSame /\ rdatacnt' = rdatacnt + 1 /\ rdatacnt + 1 <= rframe.len
         /\ FSMrxportrd' = FSMrxportrd /\ UNCHANGED <<rframe, rerrempty>>
<1>0. /\ wpos \in Nat /\ written \in Nat /\ dh \in Nat /\ Len(dq) \in Nat
      /\ rframe.pos \in Nat /\ rframe.len \in Nat /\ rdatacnt \in Nat
      /\ Seen = wpos + written - dh
  BY NumbersOf
<1>1. /\ rframe.pos + rframe.len <= Seen
      /\ Len(dq) = wpos + written - (rframe.pos + rdatacnt)
  BY DEF Alignment, InHand
<1>2. rdatacnt < rframe.len
  BY DEF TakeByte
<1>3. Len(dq) > dh
  <2>1. \A w, v, d, p, l, c, n \in Nat :
          p + l <= w + v - d /\ n = w + v - (p + c) /\ c < l => n > d
    OBVIOUS
  <2>2. rframe.pos + rframe.len <= wpos + written - dh
    BY <1>0, <1>1, Zenon
  <2> QED
    BY <1>0, <1>1, <1>2, <2>1, <2>2, Zenon
<1>4. ~D!RdEmpty(rxfifo)
  BY <1>0, <1>3 DEF D!RdEmpty, dq, dh
<1>5. rdatacnt + 1 <= rframe.len
  BY <1>0, <1>2
<1> QED
  BY <1>4, <1>5, Popped, Untouched DEF TakeByte

\* The position behind the frame in hand, where the frames stay.
LEMMA SameFollowing ==
  ASSUME pq' = pq, wpos' = wpos
  PROVE  Following' = Following
  BY DEF Following

\* The reader moves on in the line of bytes as in the line of frames.
LEMMA RdAligned ==
  ASSUME TypeOK, Handshake, Lines, Alignment, RdStep \/ RdRead \/ RdAck
  PROVE  Alignment'
<1>0. /\ wpos \in Nat /\ written \in Nat /\ Len(dq) \in Nat /\ dq \in Seq(Nat) /\ pq \in Seq(Param)
      /\ rframe.pos \in Nat /\ rframe.len \in Nat /\ rdatacnt \in Nat
      /\ ph \in Nat /\ Len(pq) \in Nat
  BY NumbersOf, Fields
<1>1. /\ wpos' = wpos /\ written' = written /\ rxportenaret' = rxportenaret
  BY RdMoves DEF wrVars
<1>2. Seen' = Seen
  BY RdMoves, <1>1, ReadLines DEF Position
<1>e. rerrempty = FALSE /\ FSMrxportrd # "S2_2"
  BY DEF Alignment, TypeOK
<1>3. CASE RdReset
  BY <1>3, <1>e DEF RdReset, Alignment
<1>4. CASE RdInit
  <2>1. ~rxportenaret /\ FSMrxportrd' \in {"S1", "S1_1"} /\ rerrempty' = FALSE
    BY <1>4, <1>e DEF RdInit, Handshake
  <2> QED
    BY <1>1, <2>1 DEF Alignment
<1>5. CASE RdEnable
  <2>1. rxportenaret
    BY <1>5, Ring, EndStands DEF RdEnable, Handshake
  <2>2. FSMrxportrd = "S1_1" /\ FSMrxportrd' = "S1_2" /\ rerrempty' = FALSE /\ PSame /\ DSame
    BY <1>5, Untouched DEF RdEnable, fifoVars
  <2>3. Following' = Following
    BY <1>1, <2>2, SameFollowing DEF PSame
  <2> QED
    BY <1>1, <2>1, <2>2, <2>3 DEF Alignment, DSame
<1>6. CASE RdNext
  <2>1. /\ FSMrxportrd = "S1_2" /\ FSMrxportrd' = "S1_3" /\ rerrempty' = rerrempty
        /\ PPop /\ DSame /\ rframe' = Head(pq)
    BY <1>6, Popped, Untouched DEF RdNext, pq
  <2>2. pq # <<>> /\ Len(pq) > ph /\ pq' = Tail(pq) /\ Head(pq) = pq[1] /\ pq[1] \in Param
    BY <1>0, <2>1, TailFacts DEF PPop
  <2>3. Following = pq[1].pos /\ rxportenaret
    BY <2>1, <2>2 DEF Following, Handshake, Settled
  <2>4. /\ pq[1].pos + pq[1].len = Following'
        /\ ~pq[1].err /\ pq[1].len \in Lens /\ pq[1].pos + pq[1].len <= wpos
    BY <1>0, <1>1, <2>2, FrameTail DEF Lines, Following
  <2>5. pq[1].pos + pq[1].len <= Seen
    <3>1. 1 \in 1 .. Len(pq) - ph
      BY <1>0, <2>2
    <3> QED
      BY <3>1 DEF Lines, Complete
  <2>6. pq[1].pos <= MaxBytes
    <3>1. pq[1].pos \in Nat /\ pq[1].len \in Nat /\ wpos <= MaxBytes
      BY <2>2 DEF Param, Lines
    <3> QED
      BY <1>0, <2>4, <3>1, Sizes
  <2>7. InHand'
    BY <1>2, <2>1, <2>2, <2>4, <2>5, <2>6 DEF InHand
  <2>8. Len(dq') = wpos' + written' - rframe'.pos
    BY <1>1, <2>1, <2>2, <2>3 DEF Alignment, DSame
  <2> QED
    BY <1>e, <2>1, <2>7, <2>8 DEF Alignment
<1>7. CASE RdOffer
  <2>1. InHand /\ Len(dq) = wpos + written - rframe.pos
    BY <1>7 DEF RdOffer, Alignment
  <2>2. rframe.err = FALSE
    BY <2>1 DEF InHand, TypeOK, Param
  <2>3. /\ FSMrxportrd' = "S2_0" /\ rdatacnt' = 0 /\ rframe' = rframe /\ rerrempty' = rerrempty
        /\ PSame /\ DSame
    BY <1>7, <2>2, Untouched DEF RdOffer, fifoVars
  <2>4. InHand'
    BY <1>1, <1>2, <2>1, <2>3, SameFollowing DEF InHand, PSame
  <2>5. Len(dq') = wpos' + written' - (rframe'.pos + rdatacnt')
    <3>1. rframe.pos + 0 = rframe.pos
      BY <1>0
    <3> QED
      BY <1>1, <2>1, <2>3, <3>1 DEF DSame
  <2> QED
    BY <1>e, <2>3, <2>4, <2>5 DEF Alignment
<1>8. CASE FSMrxportrd \in {"S2_0", "S2_1"} /\ TakeByte
  <2>1. /\ DPop /\ PSame /\ rdatacnt' = rdatacnt + 1
        /\ FSMrxportrd' = FSMrxportrd /\ UNCHANGED <<rframe, rerrempty>>
    BY <1>8, ByteThere
  <2>2. InHand /\ Len(dq) = wpos + written - (rframe.pos + rdatacnt)
    BY <1>8 DEF Alignment
  <2>3. Len(dq') = Len(dq) - 1
    BY <1>0, <2>1, TailFacts DEF DPop
  <2>4. Len(dq') = wpos' + written' - (rframe'.pos + rdatacnt')
    <3>2. Len(dq) - 1 = wpos + written - (rframe.pos + (rdatacnt + 1))
      <4>1. Len(dq) = (wpos + written) - (rframe.pos + rdatacnt)
        BY <1>0, <2>2
      <4>2. Len(dq) - 1 = (wpos + written) - (rframe.pos + (rdatacnt + 1))
        <5> DEFINE n == Len(dq)
                   at == rframe.pos
        <5>1. n \in Nat /\ at \in Nat /\ n = (wpos + written) - (at + rdatacnt)
          BY <1>0, <4>1
        <5> HIDE DEF n, at
        <5>2. n - 1 = (wpos + written) - (at + (rdatacnt + 1))
          BY <1>0, <5>1
        <5> QED
          BY <5>2 DEF n, at
      <4> QED
        BY <1>0, <4>2
    <3> QED
      BY <1>1, <2>1, <2>3, <3>2
  <2>5. InHand'
    BY <1>1, <1>2, <2>1, <2>2, SameFollowing DEF InHand, PSame
  <2> QED
    BY <1>8, <1>e, <2>1, <2>4, <2>5 DEF Alignment
<1>9. CASE RdAck
  <2>1. /\ FSMrxportrd = "S2_0" /\ FSMrxportrd' = "S2_1" /\ PSame /\ DSame
        /\ UNCHANGED <<rframe, rdatacnt, rerrempty>>
    BY <1>9, Untouched DEF RdAck, fifoVars
  <2>2. InHand'
    BY <1>1, <1>2, <2>1, SameFollowing DEF Alignment, InHand, PSame
  <2> QED
    BY <1>1, <1>e, <2>1, <2>2 DEF Alignment, DSame
<1>10. CASE RdSkip /\ ~TakeByte
  <2>1. /\ FSMrxportrd = "S2_1" /\ FSMrxportrd' = "S1_2" /\ rdatacnt = rframe.len
        /\ PSame /\ DSame /\ UNCHANGED <<rframe, rdatacnt, rerrempty>>
    BY <1>10, Untouched DEF RdSkip, fifoVars
  <2>2. Len(dq) = wpos + written - Following
    BY <2>1 DEF Alignment, InHand
  <2>3. Following' = Following
    BY <1>1, <2>1, SameFollowing DEF PSame
  <2> QED
    BY <1>1, <1>e, <2>1, <2>2, <2>3 DEF Alignment, DSame
<1>11. CASE RdStop \/ RdFlush
  <2>1. FSMrxportrd' \in {"S1", "S3"} /\ rerrempty' = rerrempty
    BY <1>11 DEF RdStop, RdFlush
  <2> QED
    BY <1>e, <2>1 DEF Alignment
<1> QED
  BY <1>3, <1>4, <1>5, <1>6, <1>7, <1>8, <1>9, <1>10, <1>11 DEF RdStep, RdRead, RdSkip

\* What comes in at the end of the lines does not move their beginning.
LEMMA WrAligned ==
  ASSUME TypeOK, Handshake, Room, Lines, Alignment, WrActs
  PROVE  Lines' /\ Alignment'
<1>0. /\ wpos \in Nat /\ written \in Nat /\ Len(dq) \in Nat
      /\ rframe.pos \in Nat /\ rdatacnt \in Nat
  BY NumbersOf
<1>1. UNCHANGED <<FSMrxportrd, rframe, rdatacnt, rerrempty, enaSync>>
  BY DEF WrActs, WrStep, WrReset, WrStop, WrStart, WrTest, WrRoom, WrByte, WrEnd, WrFlush,
     wrFrame, rdVars, syncVars
<1>2. FSMrxportwr = "S2_0" => rxportenaret
  BY DEF Handshake
<1>3. CASE WrReset \/ WrStop \/ WrRoom \/ (\E len \in Lens : WrStart(len))
           \/ \E pass \in BOOLEAN : WrTest(pass)
  <2>1. PSame /\ DSame /\ UNCHANGED Position
    BY <1>3, WrRest
  <2>2. Lines' /\ Seen' = Seen
    BY <2>1, ReadLines
  <2>3. Following' = Following
    BY <2>1, SameFollowing DEF PSame, Position
  <2>4. InHand' = InHand
    BY <1>1, <2>2, <2>3 DEF InHand
  <2> QED
    BY <1>1, <2>1, <2>2, <2>3, <2>4 DEF Alignment, DSame, Position
<1>4. CASE WrByte
  <2>1. /\ Lines' /\ Seen' = Seen /\ pq' = pq /\ Len(dq') = Len(dq) + 1
        /\ wpos' = wpos /\ written' = written + 1
    BY <1>2, <1>4, ByteWritten DEF WrByte
  <2>2. Following' = Following
    BY <2>1, SameFollowing
  <2>3. InHand' = InHand
    BY <1>1, <2>1, <2>2 DEF InHand
  <2>4. \A x \in Int : Len(dq) = wpos + written - x => Len(dq') = wpos' + written' - x
    <3>1. \A w, v, n \in Nat, x \in Int : n = w + v - x => n + 1 = w + (v + 1) - x
      OBVIOUS
    <3>2. \A x \in Int : Len(dq) = wpos + written - x => Len(dq) + 1 = wpos + (written + 1) - x
      BY <1>0, <3>1, Zenon
    <3> QED
      BY <2>1, <3>2
  <2>5. rxportenaret /\ Following \in Int
    <3>1. pq # <<>> => pq[1].pos \in Nat
      <4>1. pq # <<>> => pq[1] \in Param
        BY Fields, TailFacts
      <4> QED
        BY <4>1 DEF Param
    <3> QED
      BY <1>0, <1>2, <1>4, <3>1 DEF WrByte, Following
  <2>6. rframe.pos + rdatacnt \in Int /\ rframe.pos \in Int
    BY <1>0
  <2> QED
    BY <1>1, <2>1, <2>2, <2>3, <2>4, <2>5, <2>6 DEF Alignment
<1>5. CASE WrEnd
  <2>1. /\ Lines' /\ Seen' = Seen /\ dq' = dq /\ Following' = Following
        /\ wpos' + written' = wpos + written /\ rxportenaret
        /\ wpos' \in Nat /\ written' \in Nat
    <3>1. wpos' = wpos + wdatalen /\ written' = 0 /\ wdatalen \in Nat
      BY <1>5, NumbersOf DEF WrEnd
    <3>2. wpos' \in Nat /\ written' \in Nat
      BY <1>0, <3>1
    <3> QED
      BY <1>2, <1>5, <3>2, FrameWritten DEF WrEnd
  <2>2. InHand' = InHand
    BY <1>1, <2>1 DEF InHand
  <2>3. \A x \in Int : Len(dq) = wpos + written - x => Len(dq') = wpos' + written' - x
    <3>1. wpos' \in Nat /\ written' \in Nat /\ wpos' + written' = wpos + written
      BY <2>1
    <3>2. ASSUME NEW x \in Int PROVE wpos' + written' - x = wpos + written - x
      <4>1. wpos + written - x = (wpos + written) - x
        BY <1>0
      <4>2. wpos' + written' - x = (wpos' + written') - x
        BY <3>1
      <4> QED
        BY <3>1, <4>1, <4>2
    <3> QED
      BY <2>1, <3>2
  <2>4. Following \in Int
    <3>1. pq # <<>> => pq[1].pos \in Nat
      <4>1. pq # <<>> => pq[1] \in Param
        BY Fields, TailFacts
      <4> QED
        BY <4>1 DEF Param
    <3> QED
      BY <1>0, <3>1 DEF Following
  <2>5. rframe.pos + rdatacnt \in Int /\ rframe.pos \in Int
    BY <1>0
  <2> QED
    BY <1>1, <2>1, <2>2, <2>3, <2>4, <2>5 DEF Alignment
<1>6. CASE WrFlush
  <2>1. /\ Lines' /\ pq' = pq /\ dq' = dq
        /\ \/ UNCHANGED Position
           \/ UNCHANGED <<wpos, written>> /\ rxportenaret' = Out(enaSync)
              /\ ~(rxportenaret' /\ ~rxportenaret)
           \/ Out(enaSync) /\ wpos' = 0 /\ written' = 0 /\ pq = <<>> /\ dq = <<>>
    BY <1>6, FlushLines
  <2>2. CASE UNCHANGED <<wpos, written>> /\ (rxportenaret' => rxportenaret)
    <3>1. Following' = Following
      BY <2>1, <2>2, SameFollowing
    <3>2. Seen' = Seen
      BY <1>6, <2>2 DEF Seen, WrFlush, fifoVars
    <3>3. InHand' = InHand
      BY <1>1, <3>1, <3>2 DEF InHand
    <3> QED
      BY <1>1, <2>1, <2>2, <3>1, <3>3 DEF Alignment
  <2>3. CASE Out(enaSync) /\ wpos' = 0 /\ written' = 0 /\ pq = <<>> /\ dq = <<>>
    <3>1. FSMrxportrd = "S1_1"
      <4>1. ~rxportenaret
        BY <1>6, <2>3 DEF WrFlush, Handshake
      <4> QED
        BY <2>3, <4>1, Ring, EndStands DEF Handshake, Settled
    <3>2. Following' = 0 /\ Len(dq') = 0
      BY <2>1, <2>3 DEF Following
    <3>3. Len(dq') = wpos' + written' - Following'
      BY <2>3, <3>2
    <3> QED
      BY <1>1, <2>1, <3>1, <3>3 DEF Alignment
  <2>4. UNCHANGED Position => UNCHANGED <<wpos, written>> /\ (rxportenaret' => rxportenaret)
    BY DEF Position
  <2> QED
    BY <2>1, <2>2, <2>3, <2>4
<1> QED
  BY <1>3, <1>4, <1>5, <1>6 DEF WrActs, WrStep

\* Nor does what becomes visible.
LEMMA SyncAligned ==
  ASSUME TypeOK, TypeOK', Lines, Alignment, SyncActs \/ UNCHANGED vars
  PROVE  Alignment'
<1>1. Seen <= Seen' /\ UNCHANGED <<wrVars, rdVars>> /\ pq' = pq /\ dq' = dq
  BY SyncLines
<1>2. /\ UNCHANGED <<wpos, written, rxportenaret>>
      /\ UNCHANGED <<FSMrxportrd, rframe, rdatacnt, rerrempty>>
  BY <1>1 DEF wrVars, rdVars
<1>3. Following' = Following
  BY <1>1, <1>2, SameFollowing
<1>4. InHand => InHand'
  <2> SUFFICES ASSUME InHand PROVE InHand'
    OBVIOUS
  <2>1. rframe.pos + rframe.len \in Int /\ Seen \in Int /\ Seen' \in Int
    <3>1. /\ rframe.pos \in Nat /\ rframe.len \in Nat
          /\ wpos \in Nat /\ written \in Nat /\ dh \in Nat /\ Seen = wpos + written - dh
      BY NumbersOf
    <3>2. (wpos \in Nat /\ written \in Nat /\ dh \in Nat /\ Seen = wpos + written - dh)'
      BY DEF TypeOK, D!Fifo, dh, Seen
    <3> QED
      BY <3>1, <3>2
  <2>2. rframe.pos + rframe.len <= Seen'
    BY <1>1, <2>1 DEF InHand
  <2> QED
    BY <1>2, <1>3, <2>2 DEF InHand
<1> QED
  BY <1>1, <1>2, <1>3, <1>4 DEF Alignment

-----------------------------------------------------------------------------
(* The invariant, and what follows from it. *)

\* The invariant holds at reset.
LEMMA InitInv == Init => Inv
<1> SUFFICES ASSUME Init PROVE Inv
  OBVIOUS
<1>1. TypeOK
  BY InitType
<1>2. /\ FSMrxportrd = "S0" /\ FSMrxportwr = "S0" /\ ~rxportena /\ ~rxportenaret
      /\ ~err_rxportwrfull /\ ~rerrempty /\ wpos = 0 /\ written = 0
      /\ pq = <<>> /\ ph = 0 /\ dq = <<>> /\ dh = 0
  BY DEF Init, P!EmptyFifo, D!EmptyFifo, pq, ph, dq, dh
<1>3. AllLow(enaSync) /\ AllLow(enaretSync)
  BY DEF Init, AllLow, Low
<1>4. Handshake
  BY <1>2, <1>3 DEF Handshake
<1>5. Room /\ Alignment
  BY <1>2 DEF Room, Alignment
<1>6. Lines
  <2>1. Len(<<>>) = 0 /\ 1 .. 0 = {} /\ 1 .. 0 - 1 = {} /\ 0 - 0 = 0 /\ 0 <= MaxBytes /\ 0 <= 0
    BY Sizes
  <2>2. ByteLine(dq, wpos + written) /\ FrameLine(pq, wpos) /\ Complete(pq, Len(pq) - ph, Seen)
    BY <1>2, <2>1 DEF ByteLine, FrameLine, Complete
  <2> QED
    BY <1>2, <2>1, <2>2 DEF Lines
<1> QED
  BY <1>1, <1>4, <1>5, <1>6 DEF Inv

\* Every step keeps every part of the invariant.
LEMMA NextInv == Inv /\ [Next]_vars => Inv'
<1> SUFFICES ASSUME Inv, [Next]_vars PROVE Inv'
  OBVIOUS
<1>1. TypeOK /\ Handshake /\ Room /\ Lines /\ Alignment
  BY DEF Inv
<1>2. TypeOK'
  BY <1>1, NextType
<1>3. CASE RdStep \/ RdRead \/ RdAck
  <2>1. (PSame \/ PPop) /\ (DSame \/ DPop) /\ UNCHANGED Position
    BY <1>1, <1>3, RdMoves DEF wrVars, Position
  <2>2. Lines'
    BY <1>1, <2>1, ReadLines
  <2> QED
    BY <1>1, <1>2, <1>3, <2>2, RdHandshake, OthersRoom, RdAligned DEF Inv
<1>4. CASE WrActs
  BY <1>1, <1>2, <1>4, WrHandshake, WrRoomed, WrAligned DEF Inv
<1>5. CASE SyncActs \/ UNCHANGED vars
  BY <1>1, <1>2, <1>5, SyncHandshake, OthersRoom, SyncLines, SyncAligned DEF Inv
<1> QED
  BY <1>3, <1>4, <1>5, Steps

\* The inductive invariant holds in every state.
THEOREM Invariance == Spec => []Inv
  BY InitInv, NextInv, PTL DEF Spec

\* A frame that was let in never finds a FIFO full, and the reader never misses
\* a byte: the conditions that "should never appear" in rxport1.vhd do not.
THEOREM NothingAppears == Spec => []NeverAppears
<1>1. Inv => NeverAppears
  BY DEF Inv, Room, Alignment, NeverAppears
<1> QED
  BY <1>1, Invariance, PTL

\* The port is enabled again only over two FIFOs that really are empty.
THEOREM RestartIsClean == Spec => []CleanRestart
<1>1. Inv => CleanRestart
  BY DEF Inv, Handshake, Lines, CleanRestart, pq, dq
<1> QED
  BY <1>1, Invariance, PTL

-----------------------------------------------------------------------------
(* The refinement. *)

\* What the frames of a sequence are to the client.
LEMMA ImagesType ==
  ASSUME NEW s \in Seq(Param)
  PROVE  /\ Images(s) \in Seq(Seq(Nat)) /\ Len(Images(s)) = Len(s) /\ Len(s) \in Nat
         /\ \A k \in 1 .. Len(s) : Images(s)[k] = Bytes(s[k]) /\ Bytes(s[k]) \in Seq(Nat)
<1>1. Len(s) \in Nat /\ \A k \in 1 .. Len(s) : s[k] \in Param
  OBVIOUS
<1>2. ASSUME NEW f \in Param PROVE Bytes(f) \in Seq(Nat)
  <2>1. f.pos \in Nat /\ f.len \in Nat
    BY DEF Param
  <2>2. Bytes(f) \in [1 .. f.len -> Nat]
    BY <2>1 DEF Bytes
  <2> QED
    BY <2>1, <2>2
<1>3. Images(s) \in [1 .. Len(s) -> Seq(Nat)]
  BY <1>1, <1>2 DEF Images
<1> QED
  BY <1>1, <1>2, <1>3 DEF Images

\* Parameters written to rxparamfifo append their frame to the abstract queue.
LEMMA ImagesAppend ==
  ASSUME NEW s \in Seq(Param), NEW f \in Param
  PROVE  Images(Append(s, f)) = Append(Images(s), Bytes(f))
<1> DEFINE t == Append(s, f)
           u == Images(s)
<1>1. t \in Seq(Param) /\ Len(t) = Len(s) + 1 /\ t[Len(s) + 1] = f /\ Len(s) \in Nat
      /\ \A k \in 1 .. Len(s) : t[k] = s[k]
  BY AppendFacts
<1>2. /\ u \in Seq(Seq(Nat)) /\ Len(u) = Len(s)
      /\ \A k \in 1 .. Len(s) : u[k] = Bytes(s[k])
      /\ Images(t) \in Seq(Seq(Nat)) /\ Len(Images(t)) = Len(t)
      /\ \A k \in 1 .. Len(t) : Images(t)[k] = Bytes(t[k]) /\ Bytes(t[k]) \in Seq(Nat)
  BY <1>1, ImagesType
<1>3. Bytes(f) \in Seq(Nat)
  <2>1. Len(s) + 1 \in 1 .. Len(t)
    BY <1>1
  <2> QED
    BY <1>1, <1>2, <2>1
<1>4. /\ Append(u, Bytes(f)) \in Seq(Seq(Nat)) /\ Len(Append(u, Bytes(f))) = Len(s) + 1
      /\ \A k \in 1 .. Len(s) : Append(u, Bytes(f))[k] = u[k]
      /\ Append(u, Bytes(f))[Len(s) + 1] = Bytes(f)
  BY <1>2, <1>3, AppendFacts
<1> HIDE DEF t, u
<1>5. ASSUME NEW k \in 1 .. Len(Images(t)) PROVE Images(t)[k] = Append(u, Bytes(f))[k]
  <2>1. CASE k \in 1 .. Len(s)
    BY <1>1, <1>2, <1>4, <2>1
  <2>2. CASE k = Len(s) + 1
    BY <1>1, <1>2, <1>4, <2>2
  <2> QED
    BY <1>1, <1>2, <2>1, <2>2
<1>6. Len(Images(t)) = Len(Append(u, Bytes(f)))
  BY <1>1, <1>2, <1>4
<1>7. Images(t) = Append(u, Bytes(f))
  BY <1>2, <1>4, <1>5, <1>6, SeqEqual
<1> QED
  BY <1>7 DEF t, u

\* Parameters read from it take the head of the abstract queue.
LEMMA ImagesTail ==
  ASSUME NEW s \in Seq(Param), s # <<>>
  PROVE  Images(s) # <<>> /\ Head(Images(s)) = Bytes(s[1]) /\ Tail(Images(s)) = Images(Tail(s))
<1> DEFINE t == Tail(s)
           u == Images(s)
<1>1. /\ t \in Seq(Param) /\ Len(t) = Len(s) - 1 /\ Len(s) \in Nat \ {0}
      /\ \A k \in 1 .. Len(s) - 1 : t[k] = s[k + 1]
  BY TailFacts
<1>2. /\ u \in Seq(Seq(Nat)) /\ Len(u) = Len(s)
      /\ \A k \in 1 .. Len(s) : u[k] = Bytes(s[k])
      /\ Images(t) \in Seq(Seq(Nat)) /\ Len(Images(t)) = Len(t)
      /\ \A k \in 1 .. Len(t) : Images(t)[k] = Bytes(t[k])
  BY <1>1, ImagesType
<1>3. u # <<>>
  BY <1>1, <1>2, Empty
<1>4. /\ Tail(u) \in Seq(Seq(Nat)) /\ Len(Tail(u)) = Len(s) - 1 /\ Head(u) = u[1]
      /\ \A k \in 1 .. Len(s) - 1 : Tail(u)[k] = u[k + 1]
  BY <1>2, <1>3, TailFacts
<1> HIDE DEF t, u
<1>5. ASSUME NEW k \in 1 .. Len(Tail(u)) PROVE Tail(u)[k] = Images(t)[k]
  <2>1. k \in 1 .. Len(s) - 1 /\ k + 1 \in 1 .. Len(s) /\ k \in 1 .. Len(t)
    BY <1>1, <1>4
  <2> QED
    BY <1>1, <1>2, <1>4, <2>1
<1>6. Len(Tail(u)) = Len(Images(t))
  BY <1>1, <1>2, <1>4
<1>7. Tail(u) = Images(t)
  BY <1>2, <1>4, <1>5, <1>6, SeqEqual
<1>8. Head(u) = Bytes(s[1])
  <2>1. 1 \in 1 .. Len(s)
    BY <1>1
  <2> QED
    BY <1>2, <1>4, <2>1
<1> QED
  BY <1>3, <1>7, <1>8 DEF t, u

\* The frame in hand before those that follow it.
LEMMA ConsFacts ==
  ASSUME NEW s \in Seq(Param), NEW f \in Param
  PROVE  /\ <<f>> \o s \in Seq(Param) /\ <<f>> \o s # <<>> /\ (<<f>> \o s)[1] = f
         /\ Tail(<<f>> \o s) = s
         /\ \A g \in Param : <<f>> \o Append(s, g) = Append(<<f>> \o s, g)
<1>1. /\ <<f>> \in Seq(Param) /\ Len(<<f>>) = 1 /\ <<f>>[1] = f /\ Len(s) \in Nat
  OBVIOUS
<1> DEFINE t == <<f>> \o s
<1>2. /\ t \in Seq(Param) /\ Len(t) = 1 + Len(s)
      /\ \A i \in 1 .. 1 + Len(s) : t[i] = IF i <= 1 THEN <<f>>[i] ELSE s[i - 1]
  BY <1>1, ConcatProperties
<1> HIDE DEF t
<1>3. t # <<>> /\ t[1] = f
  <2>1. 1 \in 1 .. 1 + Len(s) /\ 1 <= 1 /\ Len(t) # 0
    BY <1>1, <1>2
  <2> QED
    BY <1>1, <1>2, <2>1, Empty
<1>4. Tail(t) = s
  <2>1. /\ Tail(t) \in Seq(Param) /\ Len(Tail(t)) = Len(s)
        /\ \A i \in 1 .. Len(s) : Tail(t)[i] = t[i + 1]
    BY <1>1, <1>2, <1>3, TailFacts
  <2>2. ASSUME NEW i \in 1 .. Len(s) PROVE Tail(t)[i] = s[i]
    <3>1. i + 1 \in 1 .. 1 + Len(s) /\ ~(i + 1 <= 1) /\ (i + 1) - 1 = i
      BY <1>1
    <3> QED
      BY <1>2, <2>1, <3>1
  <2> QED
    BY <2>1, <2>2, SeqEqual
<1>5. ASSUME NEW g \in Param PROVE <<f>> \o Append(s, g) = Append(<<f>> \o s, g)
  <2>1. Append(s, g) = s \o <<g>> /\ Append(<<f>> \o s, g) = (<<f>> \o s) \o <<g>>
    BY <1>2, AppendIsConcat DEF t
  <2>2. <<g>> \in Seq(Param)
    OBVIOUS
  <2>3. (<<f>> \o s) \o <<g>> = <<f>> \o (s \o <<g>>)
    BY <1>1, <2>2, ConcatAssociative
  <2> QED
    BY <2>1, <2>3
<1> QED
  BY <1>2, <1>3, <1>4, <1>5 DEF t

\* A sequence is its head followed by its tail.
LEMMA Rejoined ==
  ASSUME NEW s \in Seq(Param), s # <<>>
  PROVE  <<s[1]>> \o Tail(s) = s
<1>1. /\ Len(s) \in Nat \ {0} /\ Tail(s) \in Seq(Param) /\ Len(Tail(s)) = Len(s) - 1
      /\ \A i \in 1 .. Len(s) - 1 : Tail(s)[i] = s[i + 1]
      /\ s[1] \in Param
  BY TailFacts
<1>2. <<s[1]>> \in Seq(Param) /\ Len(<<s[1]>>) = 1 /\ <<s[1]>>[1] = s[1]
  BY <1>1
<1> DEFINE t == <<s[1]>> \o Tail(s)
<1>3. /\ t \in Seq(Param) /\ Len(t) = 1 + (Len(s) - 1)
      /\ \A i \in 1 .. 1 + (Len(s) - 1) : t[i] = IF i <= 1 THEN <<s[1]>>[i] ELSE Tail(s)[i - 1]
  BY <1>1, <1>2, ConcatProperties
<1> HIDE DEF t
<1>4. Len(t) = Len(s) /\ 1 + (Len(s) - 1) = Len(s)
  BY <1>1, <1>3
<1>5. ASSUME NEW i \in 1 .. Len(t) PROVE t[i] = s[i]
  <2>1. CASE i = 1
    BY <1>2, <1>3, <1>4, <2>1
  <2>2. CASE i # 1
    <3>1. ~(i <= 1) /\ i - 1 \in 1 .. Len(s) - 1 /\ (i - 1) + 1 = i
      BY <1>1, <1>4, <2>2
    <3> QED
      BY <1>1, <1>3, <1>4, <3>1
  <2> QED
    BY <2>1, <2>2
<1>6. t = s
  BY <1>3, <1>4, <1>5, SeqEqual
<1> QED
  BY <1>6 DEF t

\* The first n bytes of the line.
LEMMA FirstBytes ==
  ASSUME NEW s \in Seq(Nat), NEW n \in 0 .. Len(s)
  PROVE  /\ SubSeq(s, 1, n) \in Seq(Nat) /\ Len(SubSeq(s, 1, n)) = n
         /\ \A i \in 1 .. n : SubSeq(s, 1, n)[i] = s[i]
<1>1. Len(s) \in Nat /\ n \in Int /\ \A i \in 1 .. n : s[i] \in Nat
  OBVIOUS
<1>2. /\ SubSeq(s, 1, n) \in Seq(Nat)
      /\ Len(SubSeq(s, 1, n)) = IF 1 <= n THEN n - 1 + 1 ELSE 0
      /\ \A i \in 1 .. n - 1 + 1 : SubSeq(s, 1, n)[i] = s[1 + i - 1]
  BY <1>1, SubSeqProperties
<1>3. Len(SubSeq(s, 1, n)) = n
  BY <1>1, <1>2
<1>4. ASSUME NEW i \in 1 .. n PROVE SubSeq(s, 1, n)[i] = s[i]
  <2>1. i \in 1 .. n - 1 + 1 /\ 1 + i - 1 = i
    BY <1>1
  <2> QED
    BY <1>2, <2>1
<1> QED
  BY <1>2, <1>3, <1>4

\* The first bytes do not change when one is written behind them.
LEMMA FirstAppend ==
  ASSUME NEW s \in Seq(Nat), NEW n \in 0 .. Len(s), NEW x \in Nat
  PROVE  SubSeq(Append(s, x), 1, n) = SubSeq(s, 1, n)
<1> DEFINE t == Append(s, x)
<1>1. t \in Seq(Nat) /\ Len(t) = Len(s) + 1 /\ Len(s) \in Nat /\ \A i \in 1 .. Len(s) : t[i] = s[i]
  BY AppendFacts
<1> HIDE DEF t
<1>2. n \in 0 .. Len(t) /\ \A i \in 1 .. n : i \in 1 .. Len(s)
  BY <1>1
<1>3. /\ SubSeq(s, 1, n) \in Seq(Nat) /\ Len(SubSeq(s, 1, n)) = n
      /\ \A i \in 1 .. n : SubSeq(s, 1, n)[i] = s[i]
      /\ SubSeq(t, 1, n) \in Seq(Nat) /\ Len(SubSeq(t, 1, n)) = n
      /\ \A i \in 1 .. n : SubSeq(t, 1, n)[i] = t[i]
  BY <1>1, <1>2, FirstBytes
<1>4. SubSeq(t, 1, n) = SubSeq(s, 1, n)
  BY <1>1, <1>2, <1>3, SeqEqual
<1> QED
  BY <1>4 DEF t

\* A byte read shortens the first bytes by their head.
LEMMA FirstTail ==
  ASSUME NEW s \in Seq(Nat), NEW n \in 1 .. Len(s)
  PROVE  /\ SubSeq(s, 1, n) # <<>>
         /\ SubSeq(Tail(s), 1, n - 1) = Tail(SubSeq(s, 1, n))
<1> DEFINE t == Tail(s)
           u == SubSeq(s, 1, n)
<1>0. Len(s) \in Nat /\ s # <<>> /\ n \in 0 .. Len(s) /\ n \in Nat /\ n >= 1 /\ n <= Len(s)
  BY Empty
<1>1. t \in Seq(Nat) /\ Len(t) = Len(s) - 1 /\ \A i \in 1 .. Len(s) - 1 : t[i] = s[i + 1]
  BY <1>0, TailFacts
<1>2. u \in Seq(Nat) /\ Len(u) = n /\ \A i \in 1 .. n : u[i] = s[i]
  BY <1>0, FirstBytes
<1> HIDE DEF t, u
<1>3. u # <<>>
  BY <1>0, <1>2, Empty
<1>4. Tail(u) \in Seq(Nat) /\ Len(Tail(u)) = n - 1 /\ \A i \in 1 .. n - 1 : Tail(u)[i] = u[i + 1]
  BY <1>2, <1>3, TailFacts
<1>5. n - 1 \in 0 .. Len(t)
  BY <1>0, <1>1
<1>6. /\ SubSeq(t, 1, n - 1) \in Seq(Nat) /\ Len(SubSeq(t, 1, n - 1)) = n - 1
      /\ \A i \in 1 .. n - 1 : SubSeq(t, 1, n - 1)[i] = t[i]
  BY <1>1, <1>5, FirstBytes
<1>7. ASSUME NEW i \in 1 .. n - 1 PROVE SubSeq(t, 1, n - 1)[i] = Tail(u)[i]
  <2>1. i \in 1 .. Len(s) - 1 /\ i + 1 \in 1 .. n
    BY <1>0
  <2> QED
    BY <1>1, <1>2, <1>4, <1>6, <2>1
<1>8. SubSeq(t, 1, n - 1) = Tail(u)
  BY <1>4, <1>6, <1>7, SeqEqual
<1> QED
  BY <1>3, <1>8 DEF t, u

\* Nothing the client can see changes where the reader and the words stay.
LEMMA SameView ==
  ASSUME UNCHANGED <<FSMrxportrd, rframe, rdatacnt>>, pq' = pq, dq' = dq
  PROVE  UNCHANGED Queue!vars
<1>1. IsOpen' = IsOpen
  BY DEF IsOpen
<1>2. Waiting' = Waiting
  BY DEF Waiting, pq
<1>3. Queued' = Queued
  BY <1>1, <1>2 DEF Queued
<1>4. Offered' = Offered
  BY DEF Offered, dq
<1> QED
  BY <1>1, <1>3, <1>4 DEF Queue!vars

\* Nor does anything while the port is closed.
LEMMA ClosedView ==
  ASSUME ~IsOpen, ~IsOpen'
  PROVE  UNCHANGED Queue!vars
<1>1. FSMrxportrd # "S2_0" /\ FSMrxportrd' # "S2_0"
  BY DEF IsOpen
<1>2. Queued = <<>> /\ Queued' = <<>> /\ Offered = <<>> /\ Offered' = <<>>
  BY <1>1 DEF Queued, Offered
<1>3. IsOpen' = IsOpen
  BY DEF IsOpen
<1> QED
  BY <1>2, <1>3 DEF Queue!vars

\* The frames the client has not been offered yet.
LEMMA QueuedIs ==
  /\ IsOpen /\ FSMrxportrd # "S1_3" => Queued = Images(pq)
  /\ FSMrxportrd = "S1_3" => IsOpen /\ Queued = Images(<<rframe>> \o pq)
  /\ FSMrxportrd # "S2_0" => Offered = <<>>
  /\ FSMrxportrd = "S2_0" => IsOpen /\ Offered = SubSeq(dq, 1, rframe.len - rdatacnt)
  /\ IsOpen <=> FSMrxportrd \notin {"S0", "S1", "S3"}
  BY DEF Queued, Offered, Waiting, IsOpen, pq, dq

\* The same in the next state.
LEMMA QueuedNext ==
  /\ IsOpen' /\ FSMrxportrd' # "S1_3" => Queued' = Images(pq')
  /\ FSMrxportrd' = "S1_3" => IsOpen' /\ Queued' = Images(<<rframe'>> \o pq')
  /\ FSMrxportrd' # "S2_0" => Offered' = <<>>
  /\ FSMrxportrd' = "S2_0" => IsOpen' /\ Offered' = SubSeq(dq', 1, rframe'.len - rdatacnt')
  /\ IsOpen' <=> FSMrxportrd' \notin {"S0", "S1", "S3"}
  BY DEF Queued, Offered, Waiting, IsOpen, pq, dq

\* What is left of the frame on offer is stored.
LEMMA OfferStored ==
  ASSUME TypeOK, Alignment, FSMrxportrd = "S2_0"
  PROVE  rframe.len - rdatacnt \in 0 .. Len(dq)
<1>0. /\ wpos \in Nat /\ written \in Nat /\ dh \in Nat /\ Len(dq) \in Nat
      /\ rframe.pos \in Nat /\ rframe.len \in Nat /\ rdatacnt \in Nat
      /\ Seen = wpos + written - dh
  BY NumbersOf
<1>1. /\ rframe.pos + rframe.len <= wpos + written - dh
      /\ Len(dq) = wpos + written - (rframe.pos + rdatacnt) /\ rdatacnt <= rframe.len
  BY <1>0 DEF Alignment, InHand, TypeOK
<1>2. \A w, v, d, p, l, c, n \in Nat :
        p + l <= w + v - d /\ n = w + v - (p + c) /\ c <= l => l - c \in 0 .. n
  OBVIOUS
<1> QED
  BY <1>0, <1>1, <1>2, Zenon

\* The bytes stored first are those of the frame in hand.
LEMMA FrameStored ==
  ASSUME TypeOK, Lines, Alignment, FSMrxportrd = "S1_3"
  PROVE  SubSeq(dq, 1, rframe.len) = Bytes(rframe)
<1>0. /\ wpos \in Nat /\ written \in Nat /\ dh \in Nat /\ Len(dq) \in Nat
      /\ rframe.pos \in Nat /\ rframe.len \in Nat /\ dq \in Seq(Nat) /\ rframe \in Param
      /\ Seen = wpos + written - dh
  BY NumbersOf, Fields DEF TypeOK
<1>1. /\ rframe.pos + rframe.len <= wpos + written - dh
      /\ Len(dq) = wpos + written - rframe.pos
  BY <1>0 DEF Alignment, InHand
<1>2. rframe.len \in 0 .. Len(dq)
  <2>1. \A w, v, d, p, l, n \in Nat : p + l <= w + v - d /\ n = w + v - p => l \in 0 .. n
    OBVIOUS
  <2> QED
    BY <1>0, <1>1, <2>1, Zenon
<1>3. /\ SubSeq(dq, 1, rframe.len) \in Seq(Nat) /\ Len(SubSeq(dq, 1, rframe.len)) = rframe.len
      /\ \A i \in 1 .. rframe.len : SubSeq(dq, 1, rframe.len)[i] = dq[i]
  BY <1>0, <1>2, FirstBytes
<1>4. /\ Bytes(rframe) \in Seq(Nat) /\ Len(Bytes(rframe)) = rframe.len
      /\ \A i \in 1 .. rframe.len : Bytes(rframe)[i] = rframe.pos + i - 1
  <2>1. Bytes(rframe) \in [1 .. rframe.len -> Nat]
    BY <1>0 DEF Bytes
  <2> QED
    BY <1>0, <2>1 DEF Bytes
<1>5. ASSUME NEW i \in 1 .. rframe.len PROVE dq[i] = rframe.pos + i - 1
  <2>1. i \in 1 .. Len(dq) /\ i \in Nat
    BY <1>0, <1>2
  <2>2. dq[i] = (wpos + written) - Len(dq) + i - 1
    BY <2>1 DEF Lines, ByteLine
  <2>3. (wpos + written) - Len(dq) = rframe.pos
    BY <1>0, <1>1
  <2> QED
    BY <2>2, <2>3
<1>6. \A i \in 1 .. rframe.len : SubSeq(dq, 1, rframe.len)[i] = Bytes(rframe)[i]
  BY <1>3, <1>4, <1>5
<1> QED
  BY <1>3, <1>4, <1>6, SeqEqual

\* Every step of the reader is a step of the client's queue, or none.
LEMMA RdImplements ==
  ASSUME Inv, RdStep \/ RdRead \/ RdAck
  PROVE  Queue!Next \/ UNCHANGED Queue!vars
<1>0. TypeOK /\ Handshake /\ Lines /\ Alignment /\ rframe \in Param /\ pq \in Seq(Param) /\ dq \in Seq(Nat)
  BY Fields DEF Inv, TypeOK
<1>1. CASE RdReset \/ RdFlush
  BY <1>1, QueuedIs, QueuedNext, ClosedView DEF RdReset, RdFlush
<1>2. CASE RdInit
  <2>1. ~IsOpen /\ FSMrxportrd' \in {"S1", "S1_1"} /\ pq' = pq
    BY <1>2, QueuedIs DEF RdInit, fifoVars, pq
  <2>2. CASE FSMrxportrd' = "S1"
    BY <2>1, <2>2, QueuedNext, ClosedView
  <2>3. CASE FSMrxportrd' = "S1_1"
    <3>1. pq' = <<>>
      BY <1>0, <1>2, <2>1 DEF RdInit, Handshake, Lines
    <3>2. Images(<<>>) = <<>>
      BY DEF Images
    <3>3. IsOpen' /\ Queued' = <<>> /\ Offered' = <<>>
      BY <2>3, <3>1, <3>2, QueuedNext
    <3>4. Queued = <<>> /\ Offered = <<>>
      BY <2>1, QueuedIs DEF Queued
    <3>5. Queue!Open
      BY <2>1, <3>3, <3>4 DEF Queue!Open, IsOpen
    <3> QED
      BY <3>5 DEF Queue!Next
  <2> QED
    BY <2>1, <2>2, <2>3
<1>3. CASE RdEnable \/ (RdSkip /\ FSMrxportrd' = "S1_2" /\ ~TakeByte)
  <2>1. /\ FSMrxportrd \in {"S1_1", "S2_1"} /\ FSMrxportrd' = "S1_2" /\ pq' = pq
    BY <1>3 DEF RdEnable, RdSkip, fifoVars, pq
  <2>2. IsOpen /\ IsOpen' /\ Queued' = Queued /\ Offered' = Offered
    BY <2>1, QueuedIs, QueuedNext
  <2> QED
    BY <2>2 DEF Queue!vars, IsOpen
<1>4. CASE RdNext
  <2>1. /\ FSMrxportrd = "S1_2" /\ FSMrxportrd' = "S1_3" /\ PPop /\ rframe' = Head(pq)
    BY <1>0, <1>4, Popped DEF RdNext, pq
  <2>2. <<rframe'>> \o pq' = pq
    BY <1>0, <2>1, Rejoined, TailFacts DEF PPop
  <2>3. IsOpen /\ IsOpen' /\ Queued' = Queued /\ Offered' = Offered
    BY <2>1, <2>2, QueuedIs, QueuedNext
  <2> QED
    BY <2>3 DEF Queue!vars, IsOpen
<1>5. CASE RdOffer
  <2>1. FSMrxportrd = "S1_3" /\ rframe.err = FALSE /\ rframe.len \in Nat
    BY <1>0, <1>5 DEF RdOffer, Alignment, InHand, Param
  <2>2. /\ FSMrxportrd' = "S2_0" /\ rframe' = rframe /\ rdatacnt' = 0 /\ pq' = pq /\ dq' = dq
    BY <1>5, <2>1 DEF RdOffer, fifoVars, pq, dq
  <2>3. Offered' = Bytes(rframe)
    <3>1. rframe.len - 0 = rframe.len
      BY <2>1
    <3> QED
      BY <1>0, <2>1, <2>2, <3>1, FrameStored, QueuedNext
  <2>4. /\ Queued # <<>> /\ Head(Queued) = Bytes(rframe) /\ Tail(Queued) = Images(pq)
    BY <1>0, <2>1, ConsFacts, ImagesTail, QueuedIs
  <2>5. IsOpen /\ IsOpen' /\ Queued' = Images(pq) /\ Offered = <<>>
    BY <2>1, <2>2, QueuedIs, QueuedNext
  <2>6. Queue!Offer
    BY <2>3, <2>4, <2>5 DEF Queue!Offer, IsOpen
  <2> QED
    BY <2>6 DEF Queue!Next
<1>6. CASE RdRead
  <2>1. FSMrxportrd = "S2_0" /\ TakeByte
    BY <1>6 DEF RdRead
  <2>2. /\ DPop /\ PSame /\ rdatacnt' = rdatacnt + 1 /\ rdatacnt + 1 <= rframe.len
        /\ FSMrxportrd' = "S2_0" /\ rframe' = rframe
    BY <1>0, <2>1, ByteThere
  <2>3. rframe.len - rdatacnt \in 1 .. Len(dq)
    <3>1. rframe.len - rdatacnt \in 0 .. Len(dq) /\ Len(dq) \in Nat
      BY <1>0, <2>1, OfferStored, NumbersOf
    <3>2. rframe.len \in Nat /\ rdatacnt \in Nat
      BY <1>0, NumbersOf
    <3> QED
      BY <2>2, <3>1, <3>2
  <2>4. rframe.len - (rdatacnt + 1) = (rframe.len - rdatacnt) - 1
    BY <1>0, NumbersOf
  <2>5. Offered # <<>> /\ Offered' = Tail(Offered)
    BY <1>0, <2>1, <2>2, <2>3, <2>4, FirstTail, QueuedIs, QueuedNext DEF DPop
  <2>6. IsOpen /\ IsOpen' /\ Queued' = Queued
    BY <2>1, <2>2, QueuedIs, QueuedNext DEF PSame
  <2>7. Queue!Read
    BY <2>5, <2>6 DEF Queue!Read, IsOpen
  <2> QED
    BY <2>7 DEF Queue!Next
<1>7. CASE RdAck
  <2>1. FSMrxportrd = "S2_0" /\ FSMrxportrd' = "S2_1" /\ pq' = pq
    BY <1>7 DEF RdAck, fifoVars, pq
  <2>2. IsOpen /\ IsOpen' /\ Queued' = Queued /\ Offered' = <<>>
    BY <2>1, QueuedIs, QueuedNext
  <2>3. Queue!Leave
    BY <2>2 DEF Queue!Leave, IsOpen
  <2> QED
    BY <2>3 DEF Queue!Next
<1>8. CASE RdSkip /\ TakeByte
  <2>1. FSMrxportrd = "S2_1" /\ FSMrxportrd' = "S2_1" /\ PSame
    BY <1>0, <1>8, ByteThere DEF RdSkip
  <2>2. IsOpen /\ IsOpen' /\ Queued' = Queued /\ Offered' = Offered
    BY <2>1, QueuedIs, QueuedNext DEF PSame
  <2> QED
    BY <2>2 DEF Queue!vars, IsOpen
<1>9. CASE RdStop
  <2>1. FSMrxportrd' = "S3"
    BY <1>9 DEF RdStop
  <2>2. ~IsOpen' /\ Queued' = <<>> /\ Offered' = <<>>
    BY <2>1, QueuedNext DEF Queued
  <2>3. Queue!Close
    BY <2>2 DEF Queue!Close, IsOpen
  <2> QED
    BY <2>3 DEF Queue!Next
<1> QED
  BY <1>1, <1>2, <1>3, <1>4, <1>5, <1>6, <1>7, <1>8, <1>9 DEF RdStep, RdSkip

\* So is every step of the writer: the last one of a frame is its acceptance.
LEMMA WrImplements ==
  ASSUME Inv, WrActs
  PROVE  Queue!Next \/ UNCHANGED Queue!vars
<1>0. /\ TypeOK /\ Handshake /\ Room /\ Lines /\ Alignment
      /\ rframe \in Param /\ pq \in Seq(Param) /\ dq \in Seq(Nat)
  BY Fields DEF Inv, TypeOK
<1>1. UNCHANGED <<FSMrxportrd, rframe, rdatacnt>>
  BY DEF WrActs, WrStep, WrReset, WrStop, WrStart, WrTest, WrRoom, WrByte, WrEnd, WrFlush,
     wrFrame, rdVars
<1>2. FSMrxportwr = "S2_0" => rxportenaret
  BY <1>0 DEF Handshake
<1>3. CASE WrReset \/ WrStop \/ WrRoom \/ (\E len \in Lens : WrStart(len))
           \/ \E pass \in BOOLEAN : WrTest(pass)
  BY <1>0, <1>1, <1>3, WrRest, SameView DEF PSame, DSame
<1>4. CASE WrFlush
  BY <1>0, <1>1, <1>4, FlushLines, SameView
<1>5. CASE WrByte
  <2>1. pq' = pq /\ dq' = Append(dq, wpos + written) /\ wpos + written \in Nat
    <3>1. wpos \in Nat /\ written \in Nat
      BY <1>0, NumbersOf
    <3> QED
      BY <1>0, <1>2, <1>5, <3>1, ByteWritten DEF WrByte
  <2>2. Queued' = Queued
    BY <1>1, <2>1 DEF Queued, IsOpen, Waiting, pq
  <2>3. Offered' = Offered
    <3>1. CASE FSMrxportrd = "S2_0"
      BY <1>0, <1>1, <2>1, <3>1, OfferStored, FirstAppend, QueuedIs, QueuedNext
    <3>2. CASE FSMrxportrd # "S2_0"
      BY <1>1, <3>2, QueuedIs, QueuedNext
    <3> QED
      BY <3>1, <3>2
  <2>4. IsOpen' = IsOpen
    BY <1>1 DEF IsOpen
  <2> QED
    BY <2>2, <2>3, <2>4 DEF Queue!vars
<1>6. CASE WrEnd
  <2> DEFINE f == [pos |-> wpos, len |-> wdatalen, err |-> FALSE]
  <2>1. /\ dq' = dq /\ pq' = Append(pq, f) /\ wdatalen \in Lens /\ wpos \in 0 .. MaxBytes
    BY <1>0, <1>2, <1>6, FrameWritten DEF WrEnd
  <2>2. f \in Param /\ f.pos = wpos /\ f.len = wdatalen
    BY <1>0, NumbersOf DEF Param
  <2>3. IsOpen' = IsOpen /\ Offered' = Offered
    BY <1>1, <2>1 DEF IsOpen, Offered, dq
  <2>4. Bytes(f) \in {Bytes(g) : g \in [pos : 0 .. MaxBytes, len : Lens]}
    <3>1. [pos |-> wpos, len |-> wdatalen] \in [pos : 0 .. MaxBytes, len : Lens]
      BY <2>1
    <3>2. Bytes(f) = Bytes([pos |-> wpos, len |-> wdatalen])
      BY DEF Bytes
    <3> QED
      BY <3>1, <3>2
  <2> HIDE DEF f
  <2>5. CASE IsOpen
    <3>1. Queued' = Append(Queued, Bytes(f))
      <4>1. CASE FSMrxportrd = "S1_3"
        <5>1. Queued = Images(<<rframe>> \o pq) /\ Queued' = Images(<<rframe>> \o Append(pq, f))
          BY <1>1, <2>1, <4>1, QueuedIs, QueuedNext
        <5>2. <<rframe>> \o Append(pq, f) = Append(<<rframe>> \o pq, f) /\ <<rframe>> \o pq \in Seq(Param)
          BY <1>0, <2>2, ConsFacts
        <5> QED
          BY <2>2, <5>1, <5>2, ImagesAppend
      <4>2. CASE FSMrxportrd # "S1_3"
        <5>1. Queued = Images(pq) /\ Queued' = Images(Append(pq, f))
          BY <1>1, <2>1, <2>3, <2>5, <4>2, QueuedIs, QueuedNext
        <5> QED
          BY <1>0, <2>2, <5>1, ImagesAppend
      <4> QED
        BY <4>1, <4>2
    <3>2. Queue!Accept(Bytes(f))
      BY <2>3, <2>5, <3>1 DEF Queue!Accept
    <3> QED
      BY <2>4, <3>2 DEF Queue!Next
  <2>6. CASE ~IsOpen
    BY <2>3, <2>6, ClosedView
  <2> QED
    BY <2>5, <2>6
<1> QED
  BY <1>3, <1>4, <1>5, <1>6 DEF WrActs, WrStep

\* Every step of the port is a step of the abstract queue or changes nothing of it.
LEMMA QueueStep == Inv /\ [Next]_vars => [Queue!Next]_(Queue!vars)
<1> SUFFICES ASSUME Inv, [Next]_vars PROVE Queue!Next \/ UNCHANGED Queue!vars
  OBVIOUS
<1>1. CASE SyncActs \/ UNCHANGED vars
  <2>1. pq' = pq /\ dq' = dq /\ UNCHANGED rdVars
    BY <1>1, SyncMoves DEF Inv
  <2> QED
    BY <2>1, SameView DEF rdVars
<1> QED
  BY <1>1, Steps, RdImplements, WrImplements

\* The client reads exactly the frames that were let in, whole, in order, each
\* once, with the bytes that rxfifo really holds at that moment.
THEOREM QueueImplemented == Spec => ImplementsQueue
<1>1. Init => Queue!Init
  <2> SUFFICES ASSUME Init PROVE Queue!Init
    OBVIOUS
  <2>1. FSMrxportrd = "S0"
    BY DEF Init
  <2>2. IsOpen = FALSE /\ Queued = <<>> /\ Offered = <<>>
    BY <2>1 DEF IsOpen, Queued, Offered
  <2> QED
    BY <2>2 DEF Queue!Init
<1> QED
  BY <1>1, Invariance, QueueStep, PTL DEF Spec, ImplementsQueue, Queue!Spec

=============================================================================
