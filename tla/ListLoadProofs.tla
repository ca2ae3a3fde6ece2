--------------------------- MODULE ListLoadProofs ---------------------------
(***************************************************************************)
(* Proofs about ListLoad for any sizes: the types, that the dispatcher     *)
(* never waits while it is stopped, that no word vanishes between the two  *)
(* FIFOs and the RAM, that the RAM is filled in order, and that a frame    *)
(* which has ended is moved on whole.                                      *)
(***************************************************************************)
EXTENDS ListLoad, TLAPS

Word == 1 .. NWORDS

LEMMA Sizes ==
  /\ LEN \in Nat \ {0} /\ DEPTH \in Nat \ {0} /\ FIFOSIZE \in Nat \ {0} /\ DMASIZE \in Nat \ {0}
  /\ LAG \in Nat \ {0} /\ NWORDS \in Nat /\ RAMSIZE \in Nat /\ SPACING \in Nat
  BY LoadAssumption

(* ethFifo reads in FSM 1 only, and asi_valid says that q was just read. *)
FifoInv ==
  /\ sent \in 0 .. NWORDS /\ length \in Nat /\ detectorUnderInit \in Det \cup {0}
  /\ ToRam \in Seq(Word) /\ Len(ToRam) <= FIFOSIZE
  /\ unseen \in 0 .. LAG /\ pause \in 0 .. SPACING
  /\ packetreceived \in 0 .. 2 /\ FSM \in {0, 1}
  /\ fifo_read \in BOOLEAN /\ asi_valid \in BOOLEAN
  /\ q \in 0 .. NWORDS /\ (asi_valid => q \in Word)
  /\ data \in Seq(Word) /\ Len(data) <= DMASIZE
  /\ lost \subseteq Word
  /\ unseen > 0 => ToRam # <<>>
  /\ FSM = 0 => ~asi_valid /\ ~fifo_read
  /\ FSM = 1 => fifo_read

(* A descriptor is written only where there was place for it, and below    *)
(* the end of the RAM.                                                     *)
DmaInv ==
  /\ descriptors \in Seq(0 .. RAMSIZE) /\ Len(descriptors) <= DEPTH
  /\ \A i \in 1 .. Len(descriptors) : descriptors[i] + LEN <= RAMSIZE
  /\ stopped \in BOOLEAN /\ (stopped => pc \in {"write", "run"})
  /\ left \in 0 .. LEN /\ at \in 0 .. RAMSIZE /\ at + left <= RAMSIZE
  /\ ram \in [0 .. RAMSIZE - 1 -> 0 .. NWORDS]
  /\ pc \in {"prompt", "done", "levels", "stop", "write", "run", "look"}
  /\ entry \in Det \cup {0} /\ wr_adr_p \in 0 .. RAMSIZE
  /\ pc \in {"stop", "write"} => Len(descriptors) < DEPTH
  /\ pc \in {"write", "run"} => wr_adr_p + LEN <= RAMSIZE

TypeInv == FifoInv /\ DmaInv

-----------------------------------------------------------------------------
(* Sequences. *)

LEMMA AppendFacts ==
  ASSUME NEW S, NEW s \in Seq(S), NEW x \in S
  PROVE  /\ Append(s, x) \in Seq(S) /\ Len(Append(s, x)) = Len(s) + 1 /\ Len(s) \in Nat
         /\ \A i \in 1 .. Len(s) : Append(s, x)[i] = s[i]
         /\ Append(s, x)[Len(s) + 1] = x
  OBVIOUS

LEMMA TailFacts ==
  ASSUME NEW S, NEW s \in Seq(S), s # <<>>
  PROVE  /\ Tail(s) \in Seq(S) /\ Len(Tail(s)) = Len(s) - 1 /\ Len(s) \in Nat \ {0}
         /\ Head(s) = s[1] /\ Head(s) \in S
         /\ \A i \in 1 .. Len(s) - 1 : Tail(s)[i] = s[i + 1]
  OBVIOUS

LEMMA Empty == ASSUME NEW S, NEW s \in Seq(S) PROVE s = <<>> <=> Len(s) = 0
  OBVIOUS

LEMMA Wider ==
  ASSUME NEW S, NEW T, S \subseteq T, NEW s \in Seq(S)
  PROVE  s \in Seq(T)
<1>1. Len(s) \in Nat /\ s \in [1 .. Len(s) -> S]
  OBVIOUS
<1>2. s \in [1 .. Len(s) -> T]
  BY <1>1
<1> QED
  BY <1>1, <1>2

LEMMA AmongAppend ==
  ASSUME NEW S, NEW s \in Seq(S), NEW x \in S
  PROVE  Among(Append(s, x)) = Among(s) \cup {x}
<1> DEFINE t == Append(s, x)
<1>1. /\ Len(t) = Len(s) + 1 /\ Len(s) \in Nat /\ t[Len(s) + 1] = x
      /\ \A i \in 1 .. Len(s) : t[i] = s[i]
  BY AppendFacts
<1>2. 1 .. Len(t) = 1 .. Len(s) \cup {Len(s) + 1}
  BY <1>1
<1> HIDE DEF t
<1>3. Among(t) = Among(s) \cup {x}
  BY <1>1, <1>2 DEF Among
<1> QED
  BY <1>3 DEF t

LEMMA AmongTail ==
  ASSUME NEW S, NEW s \in Seq(S), s # <<>>
  PROVE  Among(s) = {Head(s)} \cup Among(Tail(s))
<1> DEFINE t == Tail(s)
<1>1. /\ Len(t) = Len(s) - 1 /\ Len(s) \in Nat \ {0} /\ Head(s) = s[1]
      /\ \A i \in 1 .. Len(s) - 1 : t[i] = s[i + 1]
  BY TailFacts
<1> HIDE DEF t
<1>2. Among(s) \subseteq {s[1]} \cup Among(t)
  <2> SUFFICES ASSUME NEW i \in 1 .. Len(s), i # 1 PROVE s[i] \in Among(t)
    BY DEF Among
  <2>1. i - 1 \in 1 .. Len(t) /\ i - 1 \in 1 .. Len(s) - 1 /\ (i - 1) + 1 = i
    BY <1>1
  <2> QED
    BY <1>1, <2>1 DEF Among
<1>3. {s[1]} \cup Among(t) \subseteq Among(s)
  <2>1. 1 \in 1 .. Len(s)
    BY <1>1
  <2>2. ASSUME NEW i \in 1 .. Len(t) PROVE t[i] \in Among(s)
    <3>1. i + 1 \in 1 .. Len(s) /\ i \in 1 .. Len(s) - 1
      BY <1>1
    <3> QED
      BY <1>1, <3>1 DEF Among
  <2> QED
    BY <2>1, <2>2 DEF Among
<1> QED
  BY <1>1, <1>2, <1>3 DEF t

-----------------------------------------------------------------------------
(* Types. *)

LEMMA TypeInit == Init => TypeInv
<1> SUFFICES ASSUME Init PROVE TypeInv
  OBVIOUS
<1>1. /\ <<>> \in Seq(Word) /\ <<>> \in Seq(0 .. RAMSIZE) /\ Len(<<>>) = 0
      /\ 0 \in 0 .. NWORDS /\ 0 \in 0 .. RAMSIZE /\ 0 \in 0 .. LAG /\ 0 \in 0 .. LEN
      /\ 0 \in 0 .. SPACING
  BY Sizes
<1>2. FifoInv
  <2>1. 0 \in {0, 1} /\ 0 \in 0 .. 2 /\ 0 <= FIFOSIZE /\ 0 <= DMASIZE /\ ~(0 > 0)
        /\ 0 \in Nat /\ 0 # 1 /\ {} \subseteq Word
    BY Sizes
  <2> QED
    BY <1>1, <2>1, Zenon DEF Init, FifoInv
<1>3. DmaInv
  <2>1. 0 <= DEPTH /\ 0 + 0 <= RAMSIZE /\ 1 .. 0 = {}
    BY Sizes
  <2>2. ram \in [0 .. RAMSIZE - 1 -> 0 .. NWORDS]
    BY <1>1 DEF Init
  <2> QED
    BY <1>1, <2>1, <2>2 DEF Init, DmaInv
<1> QED
  BY <1>2, <1>3 DEF TypeInv

\* What is read, the FIFO cannot show as empty.
LEMMA ReadWord ==
  ASSUME FifoInv, ~rdempty
  PROVE  /\ ToRam # <<>> /\ Head(ToRam) \in Word /\ Tail(ToRam) \in Seq(Word)
         /\ Len(Tail(ToRam)) = Len(ToRam) - 1 /\ Len(ToRam) \in Nat \ {0}
         /\ unseen > 0 => Tail(ToRam) # <<>>
<1>1. ToRam # <<>>
  <2>1. CASE unseen > 0
    BY <2>1 DEF FifoInv
  <2>2. CASE ~(unseen > 0)
    BY <2>2 DEF FifoInv, rdempty
  <2> QED
    BY <2>1, <2>2
<1>2. /\ Tail(ToRam) \in Seq(Word) /\ Len(Tail(ToRam)) = Len(ToRam) - 1
      /\ Len(ToRam) \in Nat \ {0} /\ Head(ToRam) \in Word
  BY <1>1, TailFacts DEF FifoInv
<1>3. unseen > 0 => Len(Tail(ToRam)) # 0
  BY <1>2 DEF rdempty
<1>4. Len(<<>>) = 0
  OBVIOUS
<1> QED
  BY <1>1, <1>2, <1>3, <1>4, Zenon

\* A clock of ethFifo, seen from outside: a word read is a word offered next.
LEMMA Clock ==
  ASSUME FifoInv, EthFifo
  PROVE  /\ \/ /\ ~rdempty /\ asi_valid' /\ FSM' = 1
               /\ ToRam' = Tail(ToRam) /\ q' = Head(ToRam)
            \/ ~asi_valid' /\ ToRam' = ToRam /\ q' = q
         /\ FSM' \in {0, 1} /\ fifo_read' \in BOOLEAN /\ asi_valid' \in BOOLEAN
         /\ FSM' = 0 => ~asi_valid' /\ ~fifo_read'
         /\ FSM' = 1 => fifo_read'
<1>1. FSM \in {0, 1} /\ fifo_read \in BOOLEAN /\ (FSM = 0 => ~asi_valid /\ ~fifo_read)
      /\ asi_valid \in BOOLEAN /\ (FSM = 1 => fifo_read)
  BY DEF FifoInv
<1>2. Machine /\ Read
  BY DEF EthFifo
<1>3. CASE FSM = 0
  <2>1. /\ FSM' = IF packetreceived > 0 THEN 1 ELSE 0
        /\ fifo_read' = (packetreceived > 0) /\ asi_valid' = asi_valid
    BY <1>2, <1>3 DEF Machine
  <2>2. ToRam' = ToRam /\ q' = q
    BY <1>1, <1>2, <1>3 DEF Read
  <2>3. CASE packetreceived > 0
    BY <1>1, <1>3, <2>1, <2>2, <2>3
  <2>4. CASE ~(packetreceived > 0)
    BY <1>1, <1>3, <2>1, <2>2, <2>4
  <2> QED
    BY <2>3, <2>4
<1>4. CASE FSM = 1 /\ rdempty
  <2>0. FSM # 0
    BY <1>4
  <2>a. /\ FSM' = (IF rdempty THEN 0 ELSE 1)
        /\ fifo_read' = ~rdempty /\ asi_valid' = ~rdempty
    BY <1>2, <2>0, Zenon DEF Machine
  <2>1. FSM' = 0 /\ ~fifo_read' /\ ~asi_valid' /\ fifo_read' \in BOOLEAN /\ asi_valid' \in BOOLEAN
    BY <1>4, <2>a, Zenon
  <2>2. ToRam' = ToRam /\ q' = q
    BY <1>2, <1>4 DEF Read
  <2> QED
    BY <2>1, <2>2, 0 # 1, Zenon
<1>5. CASE FSM = 1 /\ ~rdempty
  <2>0. FSM # 0
    BY <1>5
  <2>a. /\ FSM' = (IF rdempty THEN 0 ELSE 1)
        /\ fifo_read' = ~rdempty /\ asi_valid' = ~rdempty
    BY <1>2, <2>0, Zenon DEF Machine
  <2>1. FSM' = 1 /\ fifo_read' /\ asi_valid' /\ fifo_read' \in BOOLEAN /\ asi_valid' \in BOOLEAN
    BY <1>5, <2>a, Zenon
  <2>2. ToRam' = Tail(ToRam) /\ q' = Head(ToRam)
    BY <1>1, <1>2, <1>5 DEF Read
  <2> QED
    BY <1>5, <2>1, <2>2, 0 # 1, Zenon
<1> QED
  BY <1>1, <1>3, <1>4, <1>5

LEMMA FifoStep == TypeInv /\ [Next]_vars => FifoInv'
<1> SUFFICES ASSUME TypeInv, [Next]_vars PROVE FifoInv'
  OBVIOUS
<1>t. FifoInv /\ DmaInv
  BY DEF TypeInv
<1>1. ASSUME NEW last \in BOOLEAN, Store(last) PROVE FifoInv'
  <2>1. sent' \in Word /\ length' \in Nat /\ packetreceived' \in 0 .. 2 /\ pause' \in 0 .. SPACING
    <3>1. sent' = sent + 1 /\ sent < NWORDS /\ sent \in 0 .. NWORDS /\ length \in Nat
      BY <1>1, <1>t DEF Store, FifoInv
    <3>2. sent' \in Word
      BY <3>1, Sizes DEF Word
    <3>3. pause' \in 0 .. SPACING
      BY <1>1, Sizes DEF Store
    <3> QED
      BY <1>1, <3>1, <3>2, <3>3 DEF Store, EndsFrame
  <2>2. /\ ToRam' \in Seq(Word) /\ Len(ToRam') <= FIFOSIZE /\ unseen' \in 0 .. LAG
        /\ lost' \subseteq Word /\ (unseen' > 0 => ToRam' # <<>>)
    <3>1. CASE Len(ToRam) < FIFOSIZE
      <4>1. ToRam' = Append(ToRam, sent') /\ unseen' = LAG /\ lost' = lost
        BY <1>1, <3>1 DEF Store
      <4>2. /\ Append(ToRam, sent') \in Seq(Word)
            /\ Len(Append(ToRam, sent')) = Len(ToRam) + 1 /\ Len(ToRam) \in Nat
        BY <1>t, <2>1, AppendFacts DEF FifoInv
      <4>3. Len(ToRam) + 1 <= FIFOSIZE /\ LAG \in 0 .. LAG /\ Len(ToRam) + 1 # 0
        BY <3>1, <4>2, Sizes
      <4>4. Len(<<>>) = 0
        OBVIOUS
      <4> QED
        BY <1>t, <4>1, <4>2, <4>3, <4>4, Zenon DEF FifoInv
    <3>2. CASE ~(Len(ToRam) < FIFOSIZE)
      <4>1. ToRam' = ToRam /\ unseen' = unseen /\ lost' = lost \cup {sent'}
        BY <1>1, <3>2 DEF Store
      <4> QED
        BY <1>t, <2>1, <4>1 DEF FifoInv
    <3> QED
      BY <3>1, <3>2
  <2>3. sent' \in 0 .. NWORDS
    BY <2>1, Sizes DEF Word
  <2>4. UNCHANGED <<detectorUnderInit, FSM, fifo_read, asi_valid, q, data>>
    BY <1>1 DEF Store
  <2> QED
    BY <1>t, <2>1, <2>2, <2>3, <2>4, Zenon DEF FifoInv
<1>2. ASSUME NEW d \in Det, NEW alone \in BOOLEAN, Announce(d, alone) PROVE FifoInv'
  <2>1. packetreceived' \in 0 .. 2 /\ detectorUnderInit' \in Det \cup {0}
        /\ pause' \in 0 .. SPACING
    BY <1>2, Sizes DEF Announce
  <2>2. UNCHANGED <<sent, length, ToRam, unseen, FSM, fifo_read, asi_valid, q, lost, data>>
    BY <1>2 DEF Announce
  <2> QED
    BY <1>t, <2>1, <2>2, Zenon DEF FifoInv
<1>3. CASE EthFifo
  <2>1. /\ FSM' \in {0, 1} /\ fifo_read' \in BOOLEAN /\ asi_valid' \in BOOLEAN
        /\ FSM' = 0 => ~asi_valid' /\ ~fifo_read'
        /\ FSM' = 1 => fifo_read'
    BY <1>t, <1>3, Clock
  <2>2. /\ unseen' \in 0 .. LAG /\ (unseen' > 0 => unseen > 0) /\ packetreceived' \in 0 .. 2
        /\ pause' \in 0 .. SPACING
    <3>1. /\ unseen' = IF unseen > 0 THEN unseen - 1 ELSE 0
          /\ pause' = IF pause > 0 THEN pause - 1 ELSE 0
      BY <1>3 DEF EthFifo
    <3>2. unseen \in 0 .. LAG /\ pause \in 0 .. SPACING
      BY <1>t DEF FifoInv
    <3>3. packetreceived' \in 0 .. 2
      BY <1>3 DEF EthFifo
    <3> QED
      BY <3>1, <3>2, <3>3, Sizes
  <2>3. /\ ToRam' \in Seq(Word) /\ Len(ToRam') <= FIFOSIZE /\ (unseen > 0 => ToRam' # <<>>)
        /\ q' \in 0 .. NWORDS /\ (asi_valid' => q' \in Word)
    <3>1. CASE ~rdempty /\ ToRam' = Tail(ToRam) /\ q' = Head(ToRam)
      <4>1. /\ Head(ToRam) \in Word /\ Tail(ToRam) \in Seq(Word)
            /\ Len(Tail(ToRam)) = Len(ToRam) - 1 /\ Len(ToRam) \in Nat \ {0}
            /\ unseen > 0 => Tail(ToRam) # <<>>
        BY <1>t, <3>1, ReadWord
      <4>2. Len(ToRam) - 1 <= FIFOSIZE
        BY <1>t, <4>1, Sizes DEF FifoInv
      <4>3. Head(ToRam) \in 0 .. NWORDS
        BY <4>1, Sizes DEF Word
      <4> QED
        BY <3>1, <4>1, <4>2, <4>3
    <3>2. CASE ~asi_valid' /\ ToRam' = ToRam /\ q' = q
      BY <1>t, <3>2 DEF FifoInv
    <3> QED
      BY <1>t, <1>3, <3>1, <3>2, Clock
  <2>4. data' \in Seq(Word) /\ Len(data') <= DMASIZE /\ lost' \subseteq Word
    <3>1. CASE asi_valid /\ Len(data) # DMASIZE
      <4>1. data' = Append(data, q) /\ lost' = lost /\ q \in Word
        BY <1>t, <1>3, <3>1 DEF EthFifo, Stream, FifoInv
      <4>2. /\ Append(data, q) \in Seq(Word) /\ Len(Append(data, q)) = Len(data) + 1
            /\ Len(data) \in Nat
        BY <1>t, <4>1, AppendFacts DEF FifoInv
      <4>3. Len(data) + 1 <= DMASIZE
        BY <1>t, <3>1, <4>2, Sizes DEF FifoInv
      <4> QED
        BY <1>t, <4>1, <4>2, <4>3 DEF FifoInv
    <3>2. CASE ~asi_valid \/ Len(data) = DMASIZE
      <4>1. data' = data /\ lost' \subseteq lost \cup {w \in {q} : asi_valid}
        BY <1>3, <3>2 DEF EthFifo, Stream
      <4> QED
        BY <1>t, <4>1 DEF FifoInv
    <3> QED
      BY <3>1, <3>2
  <2>5. UNCHANGED <<sent, length, detectorUnderInit>>
    BY <1>3 DEF EthFifo, netVars
  <2> QED
    BY <1>t, <2>1, <2>2, <2>3, <2>4, <2>5, Zenon DEF FifoInv
<1>4. CASE WriteRam
  <2>1. data' = Tail(data) /\ data # <<>> /\ UNCHANGED <<netVars, fifoVars>>
    BY <1>4 DEF WriteRam
  <2>2. data' \in Seq(Word) /\ Len(data') <= DMASIZE
    <3>1. data' \in Seq(Word) /\ Len(data') = Len(data) - 1 /\ Len(data) \in Nat
      BY <1>t, <2>1, TailFacts DEF FifoInv
    <3> QED
      BY <1>t, <3>1, Sizes DEF FifoInv
  <2> QED
    BY <1>t, <2>1, <2>2, Zenon DEF FifoInv, netVars, fifoVars
<1>5. CASE UNCHANGED <<netVars, fifoVars, data>>
  BY <1>t, <1>5, Zenon DEF FifoInv, netVars, fifoVars
<1>6. ASSUME NEW d \in Det, Choose(d) PROVE FifoInv'
  BY <1>5, <1>6 DEF Choose, hwVars
<1>7. CASE Issue \/ Finish \/ Loop \/ UNCHANGED vars
  BY <1>5, <1>7
     DEF Issue, Finish, Loop, Levels, Stop, WriteDescriptor, Run, Look, hwVars, vars
<1> QED
  BY <1>1, <1>2, <1>3, <1>4, <1>6, <1>7 DEF Next

LEMMA DmaStep == TypeInv /\ [Next]_vars => DmaInv'
<1> SUFFICES ASSUME TypeInv, [Next]_vars PROVE DmaInv'
  OBVIOUS
<1>t. FifoInv /\ DmaInv
  BY DEF TypeInv
<1>1. CASE Issue
  <2>1. /\ ~stopped /\ left = 0 /\ at' = Head(descriptors) /\ left' = LEN
        /\ descriptors' = Tail(descriptors) /\ descriptors # <<>>
        /\ UNCHANGED <<ram, stopped, pc, entry, wr_adr_p>>
    BY <1>1 DEF Issue, fwVars
  <2>2. /\ Tail(descriptors) \in Seq(0 .. RAMSIZE) /\ Head(descriptors) \in 0 .. RAMSIZE
        /\ Len(Tail(descriptors)) = Len(descriptors) - 1 /\ Len(descriptors) \in Nat \ {0}
        /\ Head(descriptors) = descriptors[1]
        /\ \A i \in 1 .. Len(descriptors) - 1 : Tail(descriptors)[i] = descriptors[i + 1]
    BY <1>t, <2>1, TailFacts DEF DmaInv
  <2>3. \A i \in 1 .. Len(descriptors) : descriptors[i] + LEN <= RAMSIZE
    BY <1>t DEF DmaInv
  <2>4. at' + left' <= RAMSIZE
    <3>1. 1 \in 1 .. Len(descriptors)
      BY <2>2
    <3> QED
      BY <2>1, <2>2, <2>3, <3>1
  <2>5. \A i \in 1 .. Len(descriptors') : descriptors'[i] + LEN <= RAMSIZE
    <3> SUFFICES ASSUME NEW i \in 1 .. Len(Tail(descriptors))
                 PROVE  Tail(descriptors)[i] + LEN <= RAMSIZE
      BY <2>1
    <3>1. i \in 1 .. Len(descriptors) - 1 /\ i + 1 \in 1 .. Len(descriptors)
      BY <2>2
    <3> QED
      BY <2>2, <2>3, <3>1
  <2>6. Len(descriptors') <= DEPTH /\ left' \in 0 .. LEN
        /\ (pc' \in {"stop", "write"} => Len(descriptors') < DEPTH)
    <3>1. Len(descriptors') = Len(descriptors) - 1 /\ Len(descriptors) \in Nat
          /\ Len(descriptors) <= DEPTH /\ (pc \in {"stop", "write"} => Len(descriptors) < DEPTH)
      BY <1>t, <2>1, <2>2 DEF DmaInv
    <3>2. Len(descriptors') <= DEPTH
      BY ONLY <3>1, Sizes
    <3>3. Len(descriptors) < DEPTH => Len(descriptors') < DEPTH
      BY ONLY <3>1, Sizes
    <3> QED
      BY <2>1, <3>1, <3>2, <3>3, Sizes
  <2> QED
    BY <1>t, <2>1, <2>2, <2>4, <2>5, <2>6, Zenon DEF DmaInv
<1>2. CASE WriteRam
  <2>1. /\ left > 0 /\ data # <<>> /\ ram' = [ram EXCEPT ![at] = Head(data)]
        /\ at' = at + 1 /\ left' = left - 1
        /\ UNCHANGED <<descriptors, stopped, pc, entry, wr_adr_p>>
    BY <1>2 DEF WriteRam, fwVars
  <2>2. Head(data) \in 0 .. NWORDS
    <3>1. Head(data) \in Word
      BY <1>t, <2>1, TailFacts DEF FifoInv
    <3> QED
      BY <3>1 DEF Word
  <2>3. /\ left \in 0 .. LEN /\ at \in 0 .. RAMSIZE /\ at + left <= RAMSIZE
        /\ ram \in [0 .. RAMSIZE - 1 -> 0 .. NWORDS]
    BY <1>t DEF DmaInv
  <2>4. left' \in 0 .. LEN /\ at' \in 0 .. RAMSIZE /\ at' + left' <= RAMSIZE
    BY ONLY <2>1, <2>3, Sizes
  <2>5. ram' \in [0 .. RAMSIZE - 1 -> 0 .. NWORDS]
    BY <2>1, <2>2, <2>3
  <2> QED
    BY <1>t, <2>1, <2>4, <2>5, Zenon DEF DmaInv
<1>h. ASSUME UNCHANGED dmaVars,
             /\ descriptors' \in Seq(0 .. RAMSIZE) /\ Len(descriptors') <= DEPTH
             /\ \A i \in 1 .. Len(descriptors') : descriptors'[i] + LEN <= RAMSIZE
             /\ stopped' \in BOOLEAN /\ (stopped' => pc' \in {"write", "run"})
             /\ pc' \in {"prompt", "done", "levels", "stop", "write", "run", "look"}
             /\ entry' \in Det \cup {0} /\ wr_adr_p' \in 0 .. RAMSIZE
             /\ pc' \in {"stop", "write"} => Len(descriptors') < DEPTH
             /\ pc' \in {"write", "run"} => wr_adr_p' + LEN <= RAMSIZE
      PROVE  DmaInv'
  BY <1>h, <1>t, Zenon DEF DmaInv, dmaVars
<1>d. /\ descriptors \in Seq(0 .. RAMSIZE) /\ Len(descriptors) <= DEPTH /\ Len(descriptors) \in Nat
      /\ \A i \in 1 .. Len(descriptors) : descriptors[i] + LEN <= RAMSIZE
      /\ entry \in Det \cup {0} /\ wr_adr_p \in 0 .. RAMSIZE
      /\ stopped \in BOOLEAN
  BY <1>t DEF DmaInv
<1>s. stopped => pc \in {"write", "run"}
  BY <1>t DEF DmaInv
<1>3. CASE Levels
  <2>1. /\ pc = "levels" /\ pc' \in {"look", "stop"} /\ (pc' = "stop" => ~(Len(descriptors) >= DEPTH))
        /\ UNCHANGED <<dmaVars, descriptors, stopped, entry, wr_adr_p>>
    BY <1>3 DEF Levels, hwVars
  <2>2. ~(Len(descriptors) >= DEPTH) => Len(descriptors) < DEPTH
    BY ONLY <1>d, Sizes
  <2>3. pc' \notin {"write", "run"} /\ ~stopped /\ pc' # "write"
    BY <1>s, <2>1
  <2> QED
    BY <1>d, <2>1, <2>2, <2>3, <1>h
<1>4. CASE Stop
  <2>1. /\ pc = "stop" /\ wr_adr_p + LEN <= RAMSIZE /\ stopped' = TRUE /\ pc' = "write"
        /\ UNCHANGED <<dmaVars, descriptors, entry, wr_adr_p>>
    BY <1>4 DEF Stop, hwVars
  <2>2. Len(descriptors) < DEPTH
    BY <1>t, <2>1 DEF DmaInv
  <2> QED
    BY <1>d, <2>1, <2>2, <1>h
<1>5. CASE WriteDescriptor
  <2>1. /\ pc = "write" /\ Len(descriptors) < DEPTH /\ descriptors' = Append(descriptors, wr_adr_p)
        /\ pc' = "run" /\ UNCHANGED <<dmaVars, stopped, entry, wr_adr_p>>
    BY <1>5 DEF WriteDescriptor, hwVars
  <2>2. wr_adr_p + LEN <= RAMSIZE
    BY <1>t, <2>1 DEF DmaInv
  <2>3. /\ descriptors' \in Seq(0 .. RAMSIZE) /\ Len(descriptors') = Len(descriptors) + 1
        /\ \A i \in 1 .. Len(descriptors) : descriptors'[i] = descriptors[i]
        /\ descriptors'[Len(descriptors) + 1] = wr_adr_p
    BY <1>d, <2>1, AppendFacts
  <2>4. Len(descriptors') <= DEPTH
    BY ONLY <1>d, <2>1, <2>3, Sizes
  <2>5. \A i \in 1 .. Len(descriptors') : descriptors'[i] + LEN <= RAMSIZE
    <3> SUFFICES ASSUME NEW i \in 1 .. Len(descriptors') PROVE descriptors'[i] + LEN <= RAMSIZE
      OBVIOUS
    <3>1. i \in 1 .. Len(descriptors) \/ i = Len(descriptors) + 1
      BY <1>d, <2>3
    <3> QED
      BY <1>d, <2>2, <2>3, <3>1
  <2> QED
    BY <1>d, <2>1, <2>2, <2>3, <2>4, <2>5, <1>h
<1>6. CASE Run
  <2>1. /\ pc = "run" /\ stopped' = FALSE /\ wr_adr_p' = wr_adr_p + LEN /\ pc' = "look"
        /\ UNCHANGED <<dmaVars, descriptors, entry>>
    BY <1>6 DEF Run, hwVars
  <2>2. wr_adr_p + LEN <= RAMSIZE
    BY <1>t, <2>1 DEF DmaInv
  <2>3. wr_adr_p' \in 0 .. RAMSIZE
    BY ONLY <1>d, <2>1, <2>2, Sizes
  <2> QED
    BY <1>d, <2>1, <2>3, <1>h
<1>7. ASSUME UNCHANGED <<dmaVars, descriptors, stopped, wr_adr_p>>,
             pc' \in {"prompt", "done", "levels", "look"}, entry' \in Det \cup {0}, ~stopped
      PROVE  DmaInv'
  <2>1. pc' \notin {"stop", "write", "run"}
    BY <1>7
  <2> QED
    BY <1>d, <1>7, <2>1, <1>h
<1>8. CASE Look \/ Finish \/ \E d \in Det : Choose(d)
  <2>1. /\ pc \in {"prompt", "look"} /\ pc' \in {"prompt", "done", "levels"}
        /\ entry' \in Det \cup {0}
        /\ UNCHANGED <<dmaVars, descriptors, stopped, wr_adr_p>>
    BY <1>8, <1>d DEF Look, Finish, Choose, hwVars
  <2>2. ~stopped
    BY <1>s, <2>1
  <2> QED
    BY <1>7, <2>1, <2>2
<1>9. CASE UNCHANGED <<descriptors, dmaVars, fwVars>>
  BY <1>t, <1>9, Zenon DEF DmaInv, dmaVars, fwVars
<1>10. CASE (\E last \in BOOLEAN : Store(last)) \/ EthFifo \/ UNCHANGED vars
             \/ \E d \in Det, alone \in BOOLEAN : Announce(d, alone)
  BY <1>9, <1>10, Zenon DEF Store, EthFifo, Announce, vars
<1> QED
  BY <1>1, <1>2, <1>3, <1>4, <1>5, <1>6, <1>8, <1>10, Zenon DEF Next, Loop

LEMMA TypeAlways == Spec => []TypeInv
<1>1. TypeInv /\ [Next]_vars => TypeInv'
  BY FifoStep, DmaStep DEF TypeInv
<1> QED
  BY <1>1, TypeInit, PTL DEF Spec

\* TypeOK holds for every size: neither FIFO nor the dispatcher's is written
\* beyond its place, and no descriptor reaches beyond the RAM.
THEOREM TypesHold == Spec => []TypeOK
<1>1. TypeInv => TypeOK
  BY DEF TypeInv, FifoInv, DmaInv, TypeOK, Word
<1> QED
  BY <1>1, TypeAlways, PTL

\* The driver finds a place at once whenever it has stopped the dispatcher:
\* the fill level it has read can only have fallen since.
THEOREM StoppedShortly == Spec => []NeverWaitsStopped
<1>1. TypeInv => NeverWaitsStopped
  BY DEF TypeInv, DmaInv, NeverWaitsStopped
<1> QED
  BY <1>1, TypeAlways, PTL

-----------------------------------------------------------------------------
(* Frames.  While ethFifo empties FifoToRAM (FSM 1) the FIFO gets shorter   *)
(* by a word per clock, and a word comes in every SPACING clocks: of the    *)
(* next frame it can take only so many words with it that at least LAG are  *)
(* left at its end.  With them the machine still reads when the last word   *)
(* becomes visible.                                                        *)

Pulse ==
  /\ unseen <= pause
  /\ packetreceived = 2 => pause = SPACING
  /\ packetreceived = 1 => pause = SPACING - 1
  /\ packetreceived > 0 => length = 0
  /\ pause = SPACING /\ length > 0 => ToRam # <<>>

Emptying ==
  FSM = 1 =>
    /\ (SPACING - 1) * length + Len(ToRam) - pause <= FIFOSIZE - SPACING + 1
    /\ length = 0 /\ unseen > 0 => Len(ToRam) > unseen

Ended ==
  FSM = 0 /\ packetreceived > 0 =>
    /\ unseen <= Len(ToRam)
    /\ packetreceived = 1 => ToRam = <<>>

Receiving ==
  FSM = 0 /\ packetreceived = 0 =>
    /\ Len(ToRam) <= length
    /\ Len(ToRam) >= LAG \/ (SPACING - 1) * (length - Len(ToRam)) <= FIFOSIZE

FrameInv == Pulse /\ Emptying /\ Ended /\ Receiving

\* The sizes, as the steps below use them.
LEMMA FrameSizes ==
  /\ FIFOSIZE \in Nat \ {0} /\ SPACING \in Nat /\ LAG \in Nat \ {0} /\ MINFRAME \in Nat
  /\ LAG <= FIFOSIZE /\ LAG <= SPACING /\ SPACING > 1 /\ MINFRAME > LAG
  /\ (SPACING - 1) * (MINFRAME - LAG) >= FIFOSIZE
  BY LoadAssumption

LEMMA Longer ==
  ASSUME NEW k \in Nat, NEW a \in Int, NEW b \in Int, a <= b
  PROVE  k * a <= k * b
<1>1. b - a \in Nat /\ b = a + (b - a)
  OBVIOUS
<1>2. k * (b - a) >= 0 /\ k * b = k * a + k * (b - a) /\ k * a \in Int /\ k * (b - a) \in Int
  BY <1>1
<1> QED
  BY <1>2

LEMMA OneMore ==
  ASSUME NEW k \in Nat, NEW a \in Int
  PROVE  k * (a + 1) = k * a + k /\ k * a \in Int /\ k * 0 = 0
  OBVIOUS

\* A frame cannot end while ethFifo empties the FIFO of the frame before it.
LEMMA EndsAfterEmptying ==
  ASSUME TypeInv, FrameInv, NEW last \in BOOLEAN, Store(last), last
  PROVE  FSM = 0
<1> SUFFICES ASSUME FSM = 1 PROVE FALSE
  BY DEF TypeInv, FifoInv
<1> DEFINE k == SPACING - 1
<1>1. length + 1 >= MINFRAME /\ pause = 0 /\ length \in Nat /\ Len(ToRam) \in Nat
  BY DEF Store, EndsFrame, TypeInv, FifoInv
<1>2. k * length + Len(ToRam) - pause <= FIFOSIZE - SPACING + 1
  BY DEF FrameInv, Emptying
<1>3. k \in Nat /\ MINFRAME - LAG <= length /\ MINFRAME - LAG \in Int /\ length \in Int
  BY <1>1, FrameSizes
<1> HIDE DEF k
<1>4. k * (MINFRAME - LAG) <= k * length /\ k * length \in Int
  BY <1>3, Longer, OneMore
<1>5. k * (MINFRAME - LAG) >= FIFOSIZE /\ k * (MINFRAME - LAG) \in Int
  BY <1>3, FrameSizes, OneMore DEF k
<1> QED
  BY <1>1, <1>2, <1>4, <1>5, FrameSizes

\* Enough of a frame is left at its end, so that the last word becomes visible
\* before ethFifo comes to it.
LEMMA EnoughLeft ==
  ASSUME TypeInv, FrameInv, FSM = 0, packetreceived = 0, length + 1 >= MINFRAME
  PROVE  Len(ToRam) + 1 >= LAG
<1> SUFFICES ASSUME ~(Len(ToRam) + 1 >= LAG) PROVE FALSE
  OBVIOUS
<1> DEFINE k == SPACING - 1
           m == MINFRAME - LAG
           out == length - Len(ToRam)
<1>1. length \in Nat /\ Len(ToRam) \in Nat
  BY DEF TypeInv, FifoInv
<1>2. k * out <= FIFOSIZE
  BY <1>1, FrameSizes DEF FrameInv, Receiving
<1>3. k \in Nat /\ k >= 1 /\ m + 1 <= out /\ m \in Int /\ out \in Int /\ k * m >= FIFOSIZE
  BY <1>1, FrameSizes
<1> HIDE DEF k, m, out
<1>4. k * (m + 1) <= k * out /\ k * (m + 1) = k * m + k /\ k * m \in Int /\ k * out \in Int
  BY <1>3, Longer, OneMore
<1> QED
  BY <1>2, <1>3, <1>4, FrameSizes

LEMMA FrameInit == Init => FrameInv
<1> SUFFICES ASSUME Init PROVE FrameInv
  OBVIOUS
<1>1. /\ ToRam = <<>> /\ Len(<<>>) = 0 /\ unseen = 0 /\ pause = 0 /\ packetreceived = 0
      /\ length = 0 /\ FSM = 0
  BY DEF Init
<1>2. (SPACING - 1) * (0 - 0) = 0
  BY FrameSizes
<1> QED
  BY <1>1, <1>2, FrameSizes DEF FrameInv, Pulse, Emptying, Ended, Receiving

LEMMA FrameStore ==
  ASSUME TypeInv, FrameInv, NEW last \in BOOLEAN, Store(last)
  PROVE  FrameInv'
<1> DEFINE k == SPACING - 1
           n == Len(ToRam)
<1>1. /\ pause = 0 /\ pause' = SPACING /\ FSM' = FSM
      /\ length' = (IF last THEN 0 ELSE length + 1)
      /\ packetreceived' = (IF last THEN 2 ELSE 0)
      /\ last => length + 1 >= MINFRAME
  BY DEF Store, EndsFrame
<1>2. /\ length \in Nat /\ n \in Nat /\ n <= FIFOSIZE /\ FSM \in {0, 1} /\ ToRam \in Seq(Word)
      /\ unseen \in 0 .. LAG /\ packetreceived \in 0 .. 2
  BY DEF TypeInv, FifoInv
<1>3. unseen = 0 /\ packetreceived = 0
  BY <1>1, <1>2, FrameSizes DEF FrameInv, Pulse
<1>4. \/ Len(ToRam') = n + 1 /\ unseen' = LAG
      \/ n = FIFOSIZE /\ Len(ToRam') = n /\ unseen' = 0
  <2>1. CASE n < FIFOSIZE
    <3>1. ToRam' = Append(ToRam, sent') /\ unseen' = LAG
      BY <2>1 DEF Store
    <3> QED
      BY <1>2, <3>1
  <2>2. CASE ~(n < FIFOSIZE)
    <3>1. ToRam' = ToRam /\ unseen' = unseen
      BY <2>2 DEF Store
    <3> QED
      BY <1>2, <1>3, <2>2, <3>1, FrameSizes
  <2> QED
    BY <2>1, <2>2
<1>5. Len(ToRam') \in Nat /\ Len(ToRam') >= 1 /\ ToRam' # <<>>
  <2>1. Len(ToRam') \in Nat /\ Len(ToRam') >= 1
    BY <1>2, <1>4, FrameSizes
  <2>2. Len(<<>>) = 0
    OBVIOUS
  <2> QED
    BY <2>1, <2>2
<1>6. k \in Nat /\ k * length \in Int /\ k * (length + 1) = k * length + k
  BY <1>2, FrameSizes, OneMore
<1> HIDE DEF n
<1>7. Pulse'
  BY <1>1, <1>4, <1>5, FrameSizes DEF Pulse
<1>8. Emptying'
  <2> SUFFICES ASSUME FSM = 1
               PROVE  /\ k * length' + Len(ToRam') - pause' <= FIFOSIZE - SPACING + 1
                      /\ length' # 0
    BY <1>1 DEF Emptying
  <2>1. ~last
    BY EndsAfterEmptying
  <2>2. length' = length + 1
    BY <1>1, <2>1
  <2>3. k * length + n - pause <= FIFOSIZE - SPACING + 1
    BY DEF FrameInv, Emptying, n
  <2>4. Len(ToRam') <= n + 1
    BY <1>2, <1>4
  <2>5. k * length' = k * length + k
    BY <1>6, <2>2
  <2>6. k = SPACING - 1
    OBVIOUS
  <2> HIDE DEF k
  <2>7. k * length' + Len(ToRam') - pause' <= FIFOSIZE - SPACING + 1
    BY <1>1, <1>2, <1>5, <1>6, <2>3, <2>4, <2>5, <2>6, FrameSizes
  <2> QED
    BY <1>2, <2>2, <2>7
<1>9. Ended'
  <2> SUFFICES ASSUME FSM = 0, last PROVE unseen' <= Len(ToRam')
    BY <1>1 DEF Ended
  <2>1. n + 1 >= LAG
    BY <1>1, <1>3, EnoughLeft DEF n
  <2> QED
    BY <1>2, <1>4, <2>1, FrameSizes
<1>10. Receiving'
  <2> SUFFICES ASSUME FSM = 0, ~last
               PROVE  /\ Len(ToRam') <= length'
                      /\ Len(ToRam') >= LAG \/ k * (length' - Len(ToRam')) <= FIFOSIZE
    BY <1>1 DEF Receiving
  <2>1. n <= length /\ (n >= LAG \/ k * (length - n) <= FIFOSIZE)
    BY <1>3 DEF FrameInv, Receiving, n
  <2>2. length' = length + 1
    BY <1>1
  <2>3. CASE Len(ToRam') = n + 1
    <3>1. length' - Len(ToRam') = length - n
      BY <1>2, <2>2, <2>3
    <3>2. Len(ToRam') <= length' /\ (n >= LAG => Len(ToRam') >= LAG)
      BY <1>2, <2>1, <2>2, <2>3, FrameSizes
    <3> QED
      BY <2>1, <3>1, <3>2
  <2>4. CASE n = FIFOSIZE /\ Len(ToRam') = n
    BY <1>2, <2>1, <2>2, <2>4, FrameSizes
  <2> QED
    BY <1>4, <2>3, <2>4
<1> QED
  BY <1>7, <1>8, <1>9, <1>10 DEF FrameInv

LEMMA FrameAnnounce ==
  ASSUME TypeInv, FrameInv, NEW d \in Det, NEW alone \in BOOLEAN, Announce(d, alone)
  PROVE  FrameInv'
<1>1. /\ pause = 0 /\ pause' = SPACING /\ length = 0
      /\ packetreceived' = (IF alone THEN 2 ELSE 0)
      /\ UNCHANGED <<length, ToRam, unseen, FSM>>
  BY DEF Announce
<1>2. Len(ToRam) \in Nat /\ unseen \in 0 .. LAG /\ packetreceived \in 0 .. 2
  BY DEF TypeInv, FifoInv
<1>3. unseen = 0 /\ packetreceived = 0
  BY <1>1, <1>2, FrameSizes DEF FrameInv, Pulse
<1>4. (SPACING - 1) * 0 = 0
  BY FrameSizes
<1>5. Pulse'
  BY <1>1, <1>3, FrameSizes DEF Pulse
<1>6. Emptying'
  BY <1>1, <1>2, <1>3, <1>4, FrameSizes DEF FrameInv, Emptying
<1>7. Ended'
  BY <1>1, <1>2, <1>3 DEF Ended
<1>8. Receiving'
  BY <1>1, <1>3 DEF FrameInv, Receiving
<1> QED
  BY <1>5, <1>6, <1>7, <1>8 DEF FrameInv

\* A clock of ethFifo, seen as lengths and states.
LEMMA ClockCounts ==
  ASSUME TypeInv, EthFifo
  PROVE  /\ UNCHANGED length
         /\ unseen' = (IF unseen > 0 THEN unseen - 1 ELSE 0)
         /\ pause' = (IF pause > 0 THEN pause - 1 ELSE 0)
         /\ packetreceived' = 0 \/ (packetreceived' = 1 /\ packetreceived = 2)
         /\ FSM = 0 => /\ ToRam' = ToRam
                       /\ FSM' = IF packetreceived > 0 THEN 1 ELSE 0
         /\ FSM = 1 /\ rdempty => ToRam' = ToRam /\ FSM' = 0
         /\ FSM = 1 /\ ~rdempty => /\ Len(ToRam') = Len(ToRam) - 1 /\ Len(ToRam) >= 1
                                   /\ FSM' = 1
<1>1. /\ FSM \in {0, 1} /\ fifo_read \in BOOLEAN /\ FSM = 0 => ~fifo_read
      /\ FSM = 1 => fifo_read
  BY DEF TypeInv, FifoInv
<1>2. Machine /\ Read
  BY DEF EthFifo
<1>3. /\ UNCHANGED length
      /\ unseen' = (IF unseen > 0 THEN unseen - 1 ELSE 0)
      /\ pause' = (IF pause > 0 THEN pause - 1 ELSE 0)
      /\ packetreceived' = 0 \/ (packetreceived' = 1 /\ packetreceived = 2)
  BY DEF EthFifo, netVars
<1>4. FSM = 0 => /\ ToRam' = ToRam
                 /\ FSM' = IF packetreceived > 0 THEN 1 ELSE 0
  <2> HAVE FSM = 0
  <2>1. ~fifo_read
    BY <1>1
  <2>2. ToRam' = ToRam
    BY <1>2, <2>1 DEF Read
  <2> QED
    BY <1>2, <2>2 DEF Machine
<1>5. FSM = 1 /\ rdempty => ToRam' = ToRam /\ FSM' = 0
  <2> HAVE FSM = 1 /\ rdempty
  <2>1. ToRam' = ToRam
    BY <1>2 DEF Read
  <2>2. FSM # 0
    OBVIOUS
  <2>3. FSM' = 0
    BY <1>2, <2>2, Zenon DEF Machine
  <2> QED
    BY <2>1, <2>3
<1>6. FSM = 1 /\ ~rdempty => /\ Len(ToRam') = Len(ToRam) - 1 /\ Len(ToRam) >= 1
                             /\ FSM' = 1
  <2> HAVE FSM = 1 /\ ~rdempty
  <2>1. ToRam' = Tail(ToRam)
    BY <1>1, <1>2 DEF Read
  <2>2. FSM # 0
    OBVIOUS
  <2>3. FSM' = 1
    BY <1>2, <2>2, Zenon DEF Machine
  <2>4. Len(Tail(ToRam)) = Len(ToRam) - 1 /\ Len(ToRam) \in Nat \ {0}
    BY ReadWord DEF TypeInv
  <2> QED
    BY <2>1, <2>3, <2>4
<1> QED
  BY <1>3, <1>4, <1>5, <1>6

LEMMA FrameClock ==
  ASSUME TypeInv, FrameInv, EthFifo
  PROVE  FrameInv'
<1> DEFINE k == SPACING - 1
           n == Len(ToRam)
<1>1. /\ length \in Nat /\ n \in Nat /\ n <= FIFOSIZE /\ FSM \in {0, 1} /\ ToRam \in Seq(Word)
      /\ unseen \in 0 .. LAG /\ packetreceived \in 0 .. 2 /\ pause \in 0 .. SPACING
  BY DEF TypeInv, FifoInv
<1>2. /\ length' = length
      /\ unseen' = (IF unseen > 0 THEN unseen - 1 ELSE 0)
      /\ pause' = (IF pause > 0 THEN pause - 1 ELSE 0)
      /\ packetreceived' = 0 \/ (packetreceived' = 1 /\ packetreceived = 2)
  BY ClockCounts
<1>3. FSM = 0 => /\ Len(ToRam') = n /\ ToRam' = ToRam
                 /\ FSM' = IF packetreceived > 0 THEN 1 ELSE 0
  BY ClockCounts
<1>4. FSM = 1 /\ rdempty => Len(ToRam') = n /\ ToRam' = ToRam /\ FSM' = 0
  BY ClockCounts
<1>5. FSM = 1 /\ ~rdempty => Len(ToRam') = n - 1 /\ n >= 1 /\ FSM' = 1
  BY ClockCounts
<1>6. rdempty <=> n = IF unseen > 0 THEN 1 ELSE 0
  BY DEF rdempty
<1>7. n = 0 <=> ToRam = <<>>
  BY <1>1, Empty
<1>8. k \in Nat /\ k >= 1 /\ k = SPACING - 1 /\ k * length \in Int /\ k * 0 = 0
  BY <1>1, FrameSizes, OneMore
<1>p. /\ unseen <= pause
      /\ packetreceived = 2 => pause = SPACING
      /\ packetreceived = 1 => pause = SPACING - 1
      /\ packetreceived > 0 => length = 0
      /\ pause = SPACING /\ length > 0 => n # 0
  BY <1>7 DEF FrameInv, Pulse
<1>e. FSM = 1 => /\ k * length + n - pause <= FIFOSIZE - SPACING + 1
                 /\ length = 0 /\ unseen > 0 => n > unseen
  BY DEF FrameInv, Emptying
<1>d. FSM = 0 /\ packetreceived > 0 => unseen <= n /\ (packetreceived = 1 => n = 0)
  BY <1>7 DEF FrameInv, Ended
<1>r. FSM = 0 /\ packetreceived = 0 =>
        n <= length /\ (n >= LAG \/ k * (length - n) <= FIFOSIZE)
  BY DEF FrameInv, Receiving
<1>o. k * (length - 1) = k * length - k
  BY <1>1, <1>8
<1> HIDE DEF k, n
<1>9. Pulse'
  BY <1>1, <1>2, <1>p, FrameSizes DEF Pulse
<1>10. Emptying'
  <2> SUFFICES ASSUME FSM' = 1
               PROVE  /\ k * length + Len(ToRam') - pause' <= FIFOSIZE - SPACING + 1
                      /\ length = 0 /\ unseen' > 0 => Len(ToRam') > unseen'
    BY <1>2 DEF Emptying, k
  <2>1. CASE FSM = 0
    <3>1. packetreceived > 0 /\ Len(ToRam') = n /\ length = 0
      BY <1>1, <1>3, <1>p, <2>1
    <3>2. n - pause + 1 <= FIFOSIZE - SPACING + 1 /\ pause' = pause - 1
      BY <1>1, <1>2, <1>p, <1>d, <2>1, <3>1, FrameSizes
    <3>3. k * length = 0
      BY <1>8, <3>1
    <3> QED
      BY <1>1, <1>2, <1>d, <2>1, <3>1, <3>2, <3>3, FrameSizes
  <2>2. CASE FSM = 1
    <3>1. ~rdempty /\ Len(ToRam') = n - 1
      BY <1>4, <1>5, <2>2
    <3>2. k * length + (n - 1) - pause' <= FIFOSIZE - SPACING + 1
      BY <1>1, <1>2, <1>8, <1>e, <2>2, FrameSizes
    <3>3. length = 0 /\ unseen' > 0 => n - 1 > unseen'
      BY <1>1, <1>2, <1>e, <2>2
    <3> QED
      BY <3>1, <3>2, <3>3
  <2> QED
    BY <1>1, <2>1, <2>2
<1>11. Ended'
  <2> SUFFICES ASSUME FSM' = 0, packetreceived' > 0
               PROVE  unseen' = 0 /\ Len(ToRam') \in Nat /\ ToRam' = <<>>
    BY DEF Ended
  <2>1. packetreceived = 2 /\ FSM = 1 /\ length = 0 /\ rdempty
    BY <1>1, <1>2, <1>3, <1>5, <1>p
  <2>2. unseen = 0 /\ n = 0
    BY <1>1, <1>6, <1>e, <2>1
  <2> QED
    BY <1>2, <1>4, <1>7, <2>1, <2>2, Len(<<>>) = 0
<1>12. Receiving'
  <2> SUFFICES ASSUME FSM' = 0, packetreceived' = 0
               PROVE  /\ Len(ToRam') <= length
                      /\ Len(ToRam') >= LAG \/ k * (length - Len(ToRam')) <= FIFOSIZE
    BY <1>2 DEF Receiving, k
  <2>1. CASE FSM = 0
    <3>1. packetreceived = 0 /\ Len(ToRam') = n
      BY <1>1, <1>3, <2>1
    <3> QED
      BY <1>r, <2>1, <3>1
  <2>2. CASE FSM = 1
    <3>1. rdempty /\ Len(ToRam') = n
      BY <1>4, <1>5, <2>2
    <3>2. CASE length = 0
      <4>1. n = 0
        BY <1>1, <1>6, <1>e, <2>2, <3>1, <3>2
      <4> QED
        BY <1>8, <3>1, <3>2, <4>1, FrameSizes
    <3>3. CASE length > 0 /\ unseen > 0
      <4>1. n = 1
        BY <1>6, <3>1, <3>3
      <4>2. k * (length - 1) <= FIFOSIZE
        BY <1>1, <1>8, <1>o, <1>e, <2>2, <4>1, FrameSizes
      <4> QED
        BY <1>1, <3>1, <3>3, <4>1, <4>2
    <3>4. CASE length > 0 /\ ~(unseen > 0)
      <4>1. n = 0 /\ pause <= SPACING - 1
        BY <1>1, <1>6, <1>p, <3>1, <3>4, FrameSizes
      <4>2. k * length <= FIFOSIZE /\ length - 0 = length
        BY <1>1, <1>8, <1>e, <2>2, <4>1, FrameSizes
      <4> QED
        BY <1>1, <3>1, <3>4, <4>1, <4>2
    <3> QED
      BY <1>1, <3>2, <3>3, <3>4
  <2> QED
    BY <1>1, <2>1, <2>2
<1> QED
  BY <1>9, <1>10, <1>11, <1>12 DEF FrameInv

LEMMA FrameStep == TypeInv /\ FrameInv /\ [Next]_vars => FrameInv'
<1> SUFFICES ASSUME TypeInv, FrameInv, [Next]_vars PROVE FrameInv'
  OBVIOUS
<1>1. ASSUME NEW last \in BOOLEAN, Store(last) PROVE FrameInv'
  BY <1>1, FrameStore
<1>2. ASSUME NEW d \in Det, NEW alone \in BOOLEAN, Announce(d, alone) PROVE FrameInv'
  BY <1>2, FrameAnnounce
<1>3. CASE EthFifo
  BY <1>3, FrameClock
<1>4. CASE UNCHANGED <<netVars, fifoVars>>
  BY <1>4, Zenon DEF netVars, fifoVars, FrameInv, Pulse, Emptying, Ended, Receiving
<1>5. CASE Issue \/ WriteRam \/ Finish \/ Loop \/ (\E d \in Det : Choose(d)) \/ UNCHANGED vars
  BY <1>4, <1>5
     DEF Issue, WriteRam, Finish, Loop, Levels, Stop, WriteDescriptor, Run, Look, Choose,
         hwVars, vars
<1> QED
  BY <1>1, <1>2, <1>3, <1>5 DEF Next

\* FrameMovesOn holds for every size and rate that keep the words of a frame
\* far enough apart: when a frame has ended FifoToRAM is emptied to its last
\* word, though this word becomes visible after the signal.
THEOREM FramesMoveOn == Spec => []FrameMovesOn
<1>1. TypeInv /\ FrameInv => FrameMovesOn
  <2> SUFFICES ASSUME TypeInv, FrameInv, length = 0, packetreceived = 0, FSM = 0
               PROVE  ToRam = <<>>
    BY DEF FrameMovesOn
  <2>1. Len(ToRam) <= 0 /\ Len(ToRam) \in Nat /\ ToRam \in Seq(Word)
    BY DEF FrameInv, Receiving, TypeInv, FifoInv
  <2> QED
    BY <2>1, Empty
<1> QED
  BY <1>1, FrameInit, FrameStep, TypeAlways, PTL DEF Spec

-----------------------------------------------------------------------------
(* Addresses: the descriptors queued follow the one issued, each LEN after *)
(* the one before, and the next one to be written follows them; the words  *)
(* below the address of the write master are the ones written.             *)

nextAdr == IF pc = "run" THEN wr_adr_p + LEN ELSE wr_adr_p

AddrInv ==
  /\ descriptors = <<>> => nextAdr = at + left
  /\ descriptors # <<>> => /\ descriptors[1] = at + left
                           /\ nextAdr = descriptors[Len(descriptors)] + LEN
  /\ \A i \in 1 .. Len(descriptors) - 1 : descriptors[i + 1] = descriptors[i] + LEN
  /\ \A a \in 0 .. RAMSIZE - 1 : ram[a] # 0 <=> a < at

LEMMA AddrInit == Init => AddrInv
<1> SUFFICES ASSUME Init PROVE AddrInv
  OBVIOUS
<1>1. descriptors = <<>> /\ Len(<<>>) = 0 /\ nextAdr = 0 /\ at = 0 /\ left = 0
  BY DEF Init, nextAdr
<1>2. \A a \in 0 .. RAMSIZE - 1 : ram[a] = 0 /\ ~(a < 0)
  BY Sizes DEF Init
<1>3. \A i \in 1 .. 0 - 1 : FALSE
  OBVIOUS
<1> QED
  BY <1>1, <1>2, <1>3 DEF AddrInv

LEMMA AddrStep == TypeInv /\ AddrInv /\ [Next]_vars => AddrInv'
<1> SUFFICES ASSUME TypeInv, AddrInv, [Next]_vars PROVE AddrInv'
  OBVIOUS
<1>t. /\ descriptors \in Seq(0 .. RAMSIZE) /\ Len(descriptors) \in Nat
      /\ left \in 0 .. LEN /\ at \in 0 .. RAMSIZE /\ at + left <= RAMSIZE
      /\ ram \in [0 .. RAMSIZE - 1 -> 0 .. NWORDS] /\ wr_adr_p \in 0 .. RAMSIZE
  BY DEF TypeInv, DmaInv
<1>1. CASE Issue
  <2>1. /\ left = 0 /\ at' = Head(descriptors) /\ left' = LEN
        /\ descriptors' = Tail(descriptors) /\ descriptors # <<>>
        /\ UNCHANGED <<ram, pc, wr_adr_p>>
    BY <1>1 DEF Issue, fwVars
  <2>2. /\ Tail(descriptors) \in Seq(0 .. RAMSIZE)
        /\ Len(Tail(descriptors)) = Len(descriptors) - 1 /\ Len(descriptors) \in Nat \ {0}
        /\ Head(descriptors) = descriptors[1]
        /\ \A i \in 1 .. Len(descriptors) - 1 : Tail(descriptors)[i] = descriptors[i + 1]
    BY <1>t, <2>1, TailFacts
  <2>3. /\ descriptors[1] = at /\ nextAdr = descriptors[Len(descriptors)] + LEN
        /\ \A i \in 1 .. Len(descriptors) - 1 : descriptors[i + 1] = descriptors[i] + LEN
    BY <1>t, <2>1 DEF AddrInv
  <2>4. at' = at /\ nextAdr' = nextAdr
    BY <2>1, <2>2, <2>3 DEF nextAdr
  <2>5. \A a \in 0 .. RAMSIZE - 1 : ram'[a] # 0 <=> a < at'
    BY <2>1, <2>4 DEF AddrInv
  <2>6. CASE Len(descriptors) = 1
    <3>1. Tail(descriptors) = <<>> /\ \A i \in 1 .. Len(Tail(descriptors)) - 1 : FALSE
      <4>1. Len(Tail(descriptors)) = 0
        BY <2>2, <2>6
      <4>2. Tail(descriptors) = <<>>
        BY <2>2, <4>1, Empty
      <4>3. \A i \in 1 .. 0 - 1 : FALSE
        OBVIOUS
      <4> QED
        BY <4>1, <4>2, <4>3, Zenon
    <3>2. nextAdr' = at' + left'
      BY <2>1, <2>3, <2>4, <2>6
    <3> QED
      BY <2>1, <2>5, <3>1, <3>2 DEF AddrInv
  <2>7. CASE Len(descriptors) > 1
    <3> DEFINE n == Len(descriptors)
               t == Tail(descriptors)
    <3>1. n \in Nat /\ n > 1 /\ 1 \in 1 .. n - 1 /\ n - 1 \in 1 .. n - 1
          /\ (n - 1) + 1 = n /\ Len(t) = n - 1
      BY <2>2, <2>7
    <3>2. t # <<>>
      <4>1. Len(t) # 0
        BY <3>1
      <4> QED
        BY <2>2, <4>1, Empty
    <3>3. t[1] = descriptors[2] /\ descriptors[2] = descriptors[1] + LEN
      BY <2>2, <2>3, <3>1
    <3>4. t[Len(t)] = descriptors[n]
      BY <2>2, <3>1
    <3>5. ASSUME NEW i \in 1 .. Len(t) - 1 PROVE t[i + 1] = t[i] + LEN
      <4>1. i \in 1 .. n - 1 /\ i + 1 \in 1 .. n - 1
        BY ONLY <3>1, i \in 1 .. Len(t) - 1
      <4>2. t[i] = descriptors[i + 1] /\ t[i + 1] = descriptors[(i + 1) + 1]
        BY <2>2, <4>1
      <4> QED
        BY <2>3, <4>1, <4>2
    <3> HIDE DEF n
    <3>6. t[1] = at' + left' /\ nextAdr' = t[Len(t)] + LEN
      BY <2>1, <2>3, <2>4, <3>3, <3>4 DEF n
    <3> QED
      BY <2>1, <2>5, <3>2, <3>5, <3>6 DEF AddrInv
  <2> QED
    BY <2>2, <2>6, <2>7
<1>2. CASE WriteRam
  <2>1. /\ left > 0 /\ data # <<>> /\ ram' = [ram EXCEPT ![at] = Head(data)]
        /\ at' = at + 1 /\ left' = left - 1
        /\ UNCHANGED <<descriptors, pc, wr_adr_p>>
    BY <1>2 DEF WriteRam, fwVars
  <2>2. at' + left' = at + left /\ nextAdr' = nextAdr
    BY <1>t, <2>1 DEF nextAdr
  <2>3. Head(data) # 0
    <3>1. Head(data) \in Word
      BY <2>1, TailFacts DEF TypeInv, FifoInv
    <3> QED
      BY <3>1 DEF Word
  <2>4. ASSUME NEW a \in 0 .. RAMSIZE - 1 PROVE ram'[a] # 0 <=> a < at'
    <3>1. (a < at' <=> a < at \/ a = at) /\ ~(at < at)
      BY <1>t, <2>1
    <3>2. ram'[a] = IF a = at THEN Head(data) ELSE ram[a]
      BY <1>t, <2>1
    <3>3. ram[a] # 0 <=> a < at
      BY DEF AddrInv
    <3> QED
      BY <2>3, <3>1, <3>2, <3>3, Zenon
  <2> QED
    BY <2>1, <2>2, <2>4 DEF AddrInv
<1>3. CASE WriteDescriptor
  <2>1. /\ pc = "write" /\ descriptors' = Append(descriptors, wr_adr_p)
        /\ pc' = "run" /\ UNCHANGED <<dmaVars, wr_adr_p>>
    BY <1>3 DEF WriteDescriptor, hwVars
  <2>2. nextAdr = wr_adr_p /\ nextAdr' = wr_adr_p + LEN
    BY <2>1 DEF nextAdr
  <2> DEFINE n == Len(descriptors)
  <2>3. /\ Len(descriptors') = n + 1 /\ n \in Nat /\ descriptors'[n + 1] = wr_adr_p
        /\ \A i \in 1 .. n : descriptors'[i] = descriptors[i]
    BY <1>t, <2>1, AppendFacts
  <2>4. descriptors' # <<>>
    BY <2>3
  <2>5. descriptors'[1] = at' + left'
    <3>1. CASE descriptors = <<>>
      BY <2>1, <2>2, <2>3, <3>1 DEF AddrInv, dmaVars
    <3>2. CASE descriptors # <<>>
      <4>1. 1 \in 1 .. n
        BY <1>t, <3>2
      <4> QED
        BY <2>1, <2>3, <3>2, <4>1 DEF AddrInv, dmaVars
    <3> QED
      BY <3>1, <3>2
  <2>6. ASSUME NEW i \in 1 .. Len(descriptors') - 1
        PROVE  descriptors'[i + 1] = descriptors'[i] + LEN
    <3>1. i \in 1 .. n /\ (i = n \/ (i \in 1 .. n - 1 /\ i + 1 \in 1 .. n))
      BY <2>3
    <3>2. CASE i = n
      <4>1. descriptors # <<>>
        BY <3>1, <3>2
      <4> QED
        BY <2>2, <2>3, <3>1, <3>2, <4>1 DEF AddrInv
    <3>3. CASE i \in 1 .. n - 1 /\ i + 1 \in 1 .. n
      <4>1. descriptors'[i] = descriptors[i] /\ descriptors'[i + 1] = descriptors[i + 1]
        BY <2>3, <3>1, <3>3
      <4> QED
        BY <3>3, <4>1 DEF AddrInv
    <3> QED
      BY <3>1, <3>2, <3>3
  <2>7. nextAdr' = descriptors'[Len(descriptors')] + LEN
    BY <2>2, <2>3
  <2>8. \A a \in 0 .. RAMSIZE - 1 : ram'[a] # 0 <=> a < at'
    BY <2>1 DEF dmaVars, AddrInv
  <2> QED
    BY <2>4, <2>5, <2>6, <2>7, <2>8 DEF AddrInv
<1>4. ASSUME UNCHANGED <<dmaVars, descriptors, nextAdr>> PROVE AddrInv'
  BY <1>4, Zenon DEF AddrInv, dmaVars
<1>5. CASE Run
  BY <1>4, <1>5 DEF Run, hwVars, nextAdr
<1>6. CASE Levels \/ Stop \/ Look \/ Finish \/ \E d \in Det : Choose(d)
  <2>1. UNCHANGED <<dmaVars, descriptors, wr_adr_p>> /\ pc # "run" /\ pc' # "run"
    BY <1>6 DEF Levels, Stop, Look, Finish, Choose, hwVars
  <2> QED
    BY <1>4, <2>1 DEF nextAdr
<1>7. CASE UNCHANGED <<descriptors, dmaVars, fwVars>>
  BY <1>4, <1>7 DEF fwVars, nextAdr
<1>8. CASE (\E last \in BOOLEAN : Store(last)) \/ EthFifo \/ UNCHANGED vars
             \/ \E d \in Det, alone \in BOOLEAN : Announce(d, alone)
  BY <1>7, <1>8, Zenon DEF Store, EthFifo, Announce, vars
<1> QED
  BY <1>1, <1>2, <1>3, <1>5, <1>6, <1>8, Zenon DEF Next, Loop

-----------------------------------------------------------------------------
(* Order: what is written, what the DMA has, what ethFifo offers and what  *)
(* is in FifoToRAM follow each other in the stream.                        *)

Offered == {w \in {q} : asi_valid}
Below(S, T) == \A v \in S, w \in T : v < w
Written == {ram[a] : a \in 0 .. at - 1}
Rise(s) == \A i, j \in 1 .. Len(s) : i < j => s[i] < s[j]

OrderInv ==
  /\ Rise(ToRam) /\ Rise(data)
  /\ \A a, b \in 0 .. at - 1 : a < b => ram[a] < ram[b]
  /\ Below(Written, Among(data) \cup Offered \cup Among(ToRam))
  /\ Below(Among(data), Offered \cup Among(ToRam))
  /\ Below(Offered, Among(ToRam))
  /\ \A w \in Written \cup Among(data) \cup Offered \cup Among(ToRam) : w <= sent

LEMMA AmongType == ASSUME NEW S, NEW s \in Seq(S) PROVE Among(s) \subseteq S
  BY DEF Among

LEMMA RiseAppend ==
  ASSUME NEW s \in Seq(Int), NEW x \in Int, Rise(s), \A w \in Among(s) : w < x
  PROVE  Rise(Append(s, x))
<1>1. /\ Len(Append(s, x)) = Len(s) + 1 /\ Len(s) \in Nat /\ Append(s, x)[Len(s) + 1] = x
      /\ \A i \in 1 .. Len(s) : Append(s, x)[i] = s[i]
  BY AppendFacts
<1> SUFFICES ASSUME NEW i \in 1 .. Len(s) + 1, NEW j \in 1 .. Len(s) + 1, i < j
             PROVE  Append(s, x)[i] < Append(s, x)[j]
  BY <1>1 DEF Rise
<1>2. i \in 1 .. Len(s) /\ (j \in 1 .. Len(s) \/ j = Len(s) + 1)
  BY <1>1
<1>3. s[i] \in Among(s)
  BY <1>2 DEF Among
<1>4. CASE j \in 1 .. Len(s)
  BY <1>1, <1>2, <1>4 DEF Rise
<1>5. CASE j = Len(s) + 1
  BY <1>1, <1>2, <1>3, <1>5
<1> QED
  BY <1>2, <1>4, <1>5

LEMMA RiseTail ==
  ASSUME NEW s \in Seq(Int), s # <<>>, Rise(s)
  PROVE  Rise(Tail(s)) /\ \A w \in Among(Tail(s)) : Head(s) < w
<1> DEFINE t == Tail(s)
<1>1. /\ Len(t) = Len(s) - 1 /\ Len(s) \in Nat \ {0} /\ Head(s) = s[1]
      /\ \A i \in 1 .. Len(s) - 1 : t[i] = s[i + 1]
  BY TailFacts
<1> HIDE DEF t
<1>2. ASSUME NEW i \in 1 .. Len(t) PROVE i + 1 \in 1 .. Len(s) /\ i \in 1 .. Len(s) - 1 /\ 1 < i + 1
  BY <1>1
<1>3. ASSUME NEW i \in 1 .. Len(t) PROVE Head(s) < t[i]
  <2>1. 1 \in 1 .. Len(s)
    BY <1>1
  <2> QED
    BY <1>1, <1>2, <2>1 DEF Rise
<1>4. Rise(t)
  <2> SUFFICES ASSUME NEW i \in 1 .. Len(t), NEW j \in 1 .. Len(t), i < j PROVE t[i] < t[j]
    BY DEF Rise
  <2>1. i + 1 < j + 1
    OBVIOUS
  <2>2. t[i] = s[i + 1] /\ t[j] = s[j + 1]
    BY <1>1, <1>2
  <2> QED
    BY <1>2, <2>1, <2>2 DEF Rise
<1> QED
  BY <1>3, <1>4 DEF t, Among

LEMMA OrderInit == Init => OrderInv
<1> SUFFICES ASSUME Init PROVE OrderInv
  OBVIOUS
<1>1. ToRam = <<>> /\ data = <<>> /\ Len(<<>>) = 0 /\ at = 0
  BY DEF Init
<1>2. Offered = {}
  BY DEF Init, Offered
<1>3. Among(<<>>) = {} /\ Rise(<<>>)
  BY <1>1 DEF Among, Rise
<1>4. Written = {} /\ 0 .. at - 1 = {}
  BY <1>1 DEF Written
<1> QED
  BY <1>1, <1>2, <1>3, <1>4, Zenon DEF OrderInv, Below

LEMMA WordTypes ==
  ASSUME TypeInv
  PROVE  /\ Among(data) \subseteq Word /\ Among(ToRam) \subseteq Word /\ Offered \subseteq Word
         /\ Written \subseteq Nat /\ Word \subseteq Int /\ sent \in Nat
         /\ data \in Seq(Int) /\ ToRam \in Seq(Int)
<1>1. data \in Seq(Word) /\ ToRam \in Seq(Word)
  BY DEF TypeInv, FifoInv
<1>2. Word \subseteq Int
  BY DEF Word
<1>3. data \in Seq(Int) /\ ToRam \in Seq(Int)
  BY <1>1, <1>2, Wider
<1>4. Offered \subseteq Word /\ sent \in Nat
  BY DEF TypeInv, FifoInv, Offered
<1>5. Written \subseteq Nat
  <2>1. at <= RAMSIZE /\ at \in Nat /\ ram \in [0 .. RAMSIZE - 1 -> 0 .. NWORDS]
    BY Sizes DEF TypeInv, DmaInv
  <2>2. \A a \in 0 .. at - 1 : a \in 0 .. RAMSIZE - 1
    BY <2>1, Sizes
  <2> QED
    BY <2>1, <2>2 DEF Written
<1> QED
  BY <1>1, <1>2, <1>3, <1>4, <1>5, AmongType

LEMMA OrderStep == TypeInv /\ AddrInv /\ OrderInv /\ [Next]_vars => OrderInv'
<1> SUFFICES ASSUME TypeInv, AddrInv, OrderInv, [Next]_vars PROVE OrderInv'
  OBVIOUS
<1>t. /\ Among(data) \subseteq Word /\ Among(ToRam) \subseteq Word /\ Offered \subseteq Word
      /\ Written \subseteq Nat /\ Word \subseteq Int /\ sent \in Nat
      /\ data \in Seq(Int) /\ ToRam \in Seq(Int)
  BY WordTypes
<1>s. data \in Seq(Word) /\ ToRam \in Seq(Word)
  BY DEF TypeInv, FifoInv
<1>r. ASSUME UNCHANGED <<at, ram>>
      PROVE  Written' = Written /\ (\A a, b \in 0 .. at' - 1 : a < b => ram'[a] < ram'[b])
  BY <1>r DEF OrderInv, Written
<1>1. ASSUME NEW last \in BOOLEAN, Store(last) PROVE OrderInv'
  <2>1. sent' = sent + 1 /\ UNCHANGED <<q, asi_valid, data, at, ram>>
    BY <1>1 DEF Store, dmaVars
  <2>2. Offered' = Offered /\ Among(data)' = Among(data)
    BY <2>1 DEF Offered
  <2>3. sent' \in Int /\ sent' \in Word
    <3>1. sent' \in Word
      BY <1>1, <2>1, <1>t, Sizes DEF Store, Word
    <3> QED
      BY <1>t, <3>1
  <2>4. \A w \in Written \cup Among(data) \cup Offered \cup Among(ToRam) : w < sent'
    <3> SUFFICES ASSUME NEW w \in Written \cup Among(data) \cup Offered \cup Among(ToRam)
                 PROVE  w < sent'
      OBVIOUS
    <3>1. w \in Int
      BY <1>t
    <3>2. w <= sent
      BY DEF OrderInv
    <3> QED
      BY <1>t, <2>1, <3>1, <3>2
  <2>5. Rise(ToRam') /\ Among(ToRam') \subseteq Among(ToRam) \cup {sent'}
    <3>1. CASE Len(ToRam) < FIFOSIZE
      <4>1. ToRam' = Append(ToRam, sent')
        BY <1>1, <3>1 DEF Store
      <4>2. Among(ToRam') = Among(ToRam) \cup {sent'}
        BY <1>s, <2>3, <4>1, AmongAppend
      <4>3. Rise(ToRam')
        BY <1>t, <2>3, <2>4, <4>1, RiseAppend DEF OrderInv
      <4> QED
        BY <4>2, <4>3
    <3>2. CASE ~(Len(ToRam) < FIFOSIZE)
      BY <1>1, <3>2 DEF Store, OrderInv
    <3> QED
      BY <3>1, <3>2
  <2>6. \A w \in Written \cup Among(data) \cup Offered \cup Among(ToRam) \cup {sent'} : w <= sent'
    <3>1. \A w \in Int : w < sent' \/ w = sent' => w <= sent'
      BY <2>3
    <3>2. Written \cup Among(data) \cup Offered \cup Among(ToRam) \subseteq Int
      <4>1. Nat \subseteq Int
        OBVIOUS
      <4> QED
        BY ONLY <1>t, <4>1, Zenon
    <3> QED
      BY <2>3, <2>4, <3>1, <3>2
  <2>7. Rise(data) /\ Below(Written, Among(data) \cup Offered \cup Among(ToRam))
        /\ Below(Among(data), Offered \cup Among(ToRam)) /\ Below(Offered, Among(ToRam))
    BY DEF OrderInv
  <2>8. /\ Below(Written, Among(data) \cup Offered \cup Among(ToRam)')
        /\ Below(Among(data), Offered \cup Among(ToRam)') /\ Below(Offered, Among(ToRam)')
    BY ONLY <2>4, <2>5, <2>7, Zenon DEF Below
  <2>9. \A w \in Written \cup Among(data) \cup Offered \cup Among(ToRam)' : w <= sent'
    BY ONLY <2>5, <2>6
  <2> QED
    BY <1>r, <2>1, <2>2, <2>5, <2>7, <2>8, <2>9, Zenon DEF OrderInv
<1>2. CASE EthFifo
  <2>1. UNCHANGED <<sent, at, ram>>
    BY <1>2 DEF EthFifo, netVars, dmaVars
  <2>2. FifoInv
    BY DEF TypeInv
  \* the word offered goes to the DMA or is dropped
  <2>3. Rise(data') /\ Among(data') \subseteq Among(data) \cup Offered
    <3>1. CASE asi_valid /\ Len(data) # DMASIZE
      <4>1. data' = Append(data, q) /\ q \in Word /\ q \in Offered
        BY <1>2, <2>2, <3>1 DEF EthFifo, Stream, FifoInv, Offered
      <4>2. Among(data') = Among(data) \cup {q}
        BY <1>s, <4>1, AmongAppend
      <4>3. \A w \in Among(data) : w < q
        BY <4>1 DEF OrderInv, Below
      <4>4. Rise(data')
        BY <1>t, <4>1, <4>3, RiseAppend DEF OrderInv
      <4> QED
        BY <4>1, <4>2, <4>4
    <3>2. CASE ~asi_valid \/ Len(data) = DMASIZE
      <4>1. data' = data
        BY <1>2, <3>2 DEF EthFifo, Stream
      <4> QED
        BY <4>1 DEF OrderInv
    <3> QED
      BY <3>1, <3>2
  \* and the next one, if any, comes from FifoToRAM
  <2>4. /\ Rise(ToRam') /\ Offered' \cup Among(ToRam') \subseteq Among(ToRam)
        /\ Below(Offered', Among(ToRam'))
    <3>1. CASE ~rdempty /\ ToRam' = Tail(ToRam) /\ q' = Head(ToRam)
      <4>1. ToRam # <<>>
        BY <2>2, <3>1, ReadWord
      <4>2. Among(ToRam) = {Head(ToRam)} \cup Among(Tail(ToRam))
        BY <1>s, <4>1, AmongTail
      <4>3. Rise(Tail(ToRam)) /\ \A w \in Among(Tail(ToRam)) : Head(ToRam) < w
        BY <1>t, <4>1, RiseTail DEF OrderInv
      <4>4. Offered' \subseteq {Head(ToRam)}
        BY <3>1 DEF Offered
      <4> QED
        BY <3>1, <4>2, <4>3, <4>4, Zenon DEF Below
    <3>2. CASE ~asi_valid' /\ ToRam' = ToRam /\ q' = q
      <4>1. Offered' = {}
        BY <3>2 DEF Offered
      <4> QED
        BY <3>2, <4>1 DEF OrderInv, Below
    <3> QED
      BY <1>2, <2>2, <3>1, <3>2, Clock
  <2>5. /\ Below(Written, Among(data) \cup Offered \cup Among(ToRam))
        /\ Below(Among(data), Offered \cup Among(ToRam)) /\ Below(Offered, Among(ToRam))
        /\ \A w \in Written \cup Among(data) \cup Offered \cup Among(ToRam) : w <= sent
    BY DEF OrderInv
  <2>6. /\ Below(Written, Among(data)' \cup Offered' \cup Among(ToRam)')
        /\ Below(Among(data)', Offered' \cup Among(ToRam)')
        /\ Below(Offered', Among(ToRam)')
    BY ONLY <2>3, <2>4, <2>5, Zenon DEF Below
  <2>7. \A w \in Written \cup Among(data)' \cup Offered' \cup Among(ToRam)' : w <= sent
    BY ONLY <2>3, <2>4, <2>5
  <2> QED
    BY <1>r, <2>1, <2>3, <2>4, <2>6, <2>7, Zenon DEF OrderInv
<1>3. CASE WriteRam
  <2>1. /\ left > 0 /\ data # <<>> /\ ram' = [ram EXCEPT ![at] = Head(data)]
        /\ at' = at + 1 /\ data' = Tail(data)
        /\ UNCHANGED <<sent, ToRam, q, asi_valid>>
    BY <1>3 DEF WriteRam, fifoVars, netVars
  <2>2. /\ left \in Nat /\ at \in Nat /\ at + left <= RAMSIZE
        /\ ram \in [0 .. RAMSIZE - 1 -> 0 .. NWORDS]
    BY Sizes DEF TypeInv, DmaInv
  <2>3. Offered' = Offered /\ Among(ToRam)' = Among(ToRam)
    BY <2>1 DEF Offered
  <2>4. Among(data) = {Head(data)} \cup Among(Tail(data)) /\ Rise(Tail(data))
        /\ (\A w \in Among(Tail(data)) : Head(data) < w)
    BY <1>s, <1>t, <2>1, AmongTail, RiseTail DEF OrderInv
  <2>5. /\ at \in 0 .. RAMSIZE - 1 /\ 0 .. at' - 1 = (0 .. at - 1) \cup {at}
        /\ \A a \in 0 .. at - 1 : a \in 0 .. RAMSIZE - 1 /\ a # at /\ a < at /\ ~(at < a)
        /\ ~(at < at)
    BY ONLY <2>1, <2>2, Sizes
  <2>6. ram'[at] = Head(data) /\ \A a \in 0 .. at - 1 : ram'[a] = ram[a]
    BY <2>1, <2>2, <2>5
  <2>7. Written' = Written \cup {Head(data)}
    BY <2>5, <2>6 DEF Written
  <2>8. ASSUME NEW a \in 0 .. at' - 1, NEW b \in 0 .. at' - 1, a < b PROVE ram'[a] < ram'[b]
    <3>1. a \in 0 .. at - 1 /\ (b \in 0 .. at - 1 \/ b = at)
      BY <2>5, <2>8
    <3>2. CASE b \in 0 .. at - 1
      BY <2>6, <2>8, <3>1, <3>2 DEF OrderInv
    <3>3. CASE b = at
      <4>1. ram[a] \in Written /\ Head(data) \in Among(data)
        BY <2>4, <3>1 DEF Written
      <4>2. ram[a] < Head(data)
        BY <4>1 DEF OrderInv, Below
      <4> QED
        BY <2>6, <3>1, <3>3, <4>2
    <3> QED
      BY <3>1, <3>2, <3>3
  <2>9. /\ Below(Written, Among(data) \cup Offered \cup Among(ToRam))
        /\ Below(Among(data), Offered \cup Among(ToRam)) /\ Below(Offered, Among(ToRam))
        /\ \A w \in Written \cup Among(data) \cup Offered \cup Among(ToRam) : w <= sent
        /\ Rise(ToRam)
    BY DEF OrderInv
  <2>10. /\ Below(Written', Among(data)' \cup Offered \cup Among(ToRam))
         /\ Below(Among(data)', Offered \cup Among(ToRam))
    BY ONLY <2>1, <2>4, <2>7, <2>9, Zenon DEF Below
  <2>11. \A w \in Written' \cup Among(data)' \cup Offered \cup Among(ToRam) : w <= sent
    BY ONLY <2>1, <2>4, <2>7, <2>9
  <2> QED
    BY <2>1, <2>3, <2>4, <2>8, <2>9, <2>10, <2>11, Zenon DEF OrderInv
<1>4. CASE UNCHANGED <<sent, ToRam, q, asi_valid, data, at, ram>>
  <2>1. Written' = Written /\ Offered' = Offered /\ Among(data)' = Among(data)
        /\ Among(ToRam)' = Among(ToRam)
    BY <1>4 DEF Written, Offered
  <2> QED
    BY <1>4, <2>1, Zenon DEF OrderInv
<1>5. CASE Issue
  <2>1. left = 0 /\ descriptors # <<>> /\ at' = Head(descriptors)
        /\ UNCHANGED <<sent, ToRam, q, asi_valid, data, ram>>
    BY <1>5 DEF Issue, netVars, fifoVars
  <2>2. at' = at
    <3>1. descriptors \in Seq(0 .. RAMSIZE) /\ at \in 0 .. RAMSIZE
      BY DEF TypeInv, DmaInv
    <3>2. descriptors[1] = at + left
      BY <2>1 DEF AddrInv
    <3> QED
      BY <2>1, <3>1, <3>2, TailFacts
  <2> QED
    BY <1>4, <2>1, <2>2
<1>6. CASE Loop \/ Finish \/ UNCHANGED vars \/ \E d \in Det : Choose(d)
  BY <1>4, <1>6
     DEF Loop, Levels, Stop, WriteDescriptor, Run, Look, Finish, Choose, hwVars, netVars,
         fifoVars, dmaVars, vars
<1>7. ASSUME NEW d \in Det, NEW alone \in BOOLEAN, Announce(d, alone) PROVE OrderInv'
  BY <1>4, <1>7 DEF Announce, dmaVars
<1> QED
  BY <1>1, <1>2, <1>3, <1>5, <1>6, <1>7, Zenon DEF Next

LEMMA OrderAlways == Spec => [](TypeInv /\ AddrInv /\ OrderInv)
<1>1. Init => TypeInv /\ AddrInv /\ OrderInv
  BY TypeInit, AddrInit, OrderInit
<1>2. TypeInv /\ AddrInv /\ OrderInv /\ [Next]_vars => (TypeInv /\ AddrInv /\ OrderInv)'
  <2>1. TypeInv /\ [Next]_vars => TypeInv'
    BY FifoStep, DmaStep DEF TypeInv
  <2> QED
    BY <2>1, AddrStep, OrderStep
<1> QED
  BY <1>1, <1>2, PTL DEF Spec

\* RamInOrder holds for every size: a call that fails for want of room leaves
\* no hole, and a word that is lost leaves the others in order.
THEOREM RamOrdered == Spec => []RamInOrder
<1>1. TypeInv /\ AddrInv /\ OrderInv => RamInOrder
  <2> SUFFICES ASSUME TypeInv, AddrInv, OrderInv,
                      NEW a \in 0 .. RAMSIZE - 1, ram[a] # 0, NEW b \in 0 .. a - 1
               PROVE  0 < ram[b] /\ ram[b] < ram[a]
    BY DEF RamInOrder
  <2>1. at \in 0 .. RAMSIZE /\ RAMSIZE \in Nat /\ ram \in [0 .. RAMSIZE - 1 -> 0 .. NWORDS]
    BY Sizes DEF TypeInv, DmaInv
  <2>2. a < at
    BY DEF AddrInv
  <2>3. b \in 0 .. RAMSIZE - 1 /\ b \in 0 .. at - 1 /\ a \in 0 .. at - 1 /\ b < a /\ b < at
    BY ONLY <2>1, <2>2, a \in 0 .. RAMSIZE - 1, b \in 0 .. a - 1
  <2>4. ram[b] # 0 /\ ram[b] \in 0 .. NWORDS
    BY <2>1, <2>3 DEF AddrInv
  <2>5. ram[b] < ram[a]
    BY <2>3 DEF OrderInv
  <2>6. 0 < ram[b]
    BY ONLY <2>4, Sizes
  <2> QED
    BY <2>5, <2>6
<1> QED
  BY <1>1, OrderAlways, PTL

-----------------------------------------------------------------------------
(* Words are not lost between the two FIFOs. *)

InRamWords == {ram[a] : a \in 0 .. RAMSIZE - 1} \ {0}

LEMMA VanishStep == TypeInv /\ AddrInv /\ NoWordVanishes /\ [Next]_vars => NoWordVanishes'
<1> SUFFICES ASSUME TypeInv, AddrInv, NoWordVanishes, [Next]_vars PROVE NoWordVanishes'
  OBVIOUS
<1> DEFINE All == lost \cup Among(ToRam) \cup Offered \cup Among(data) \cup InRamWords
<1>a. NoWordVanishes <=> 1 .. sent = All
  BY DEF NoWordVanishes, Offered, InRamWords
<1>b. 1 .. sent' = All' => NoWordVanishes'
  BY DEF NoWordVanishes, Offered, InRamWords
<1>n. 1 .. sent = All
  BY <1>a
<1>s. data \in Seq(Word) /\ ToRam \in Seq(Word) /\ FifoInv
  BY DEF TypeInv, FifoInv
<1>1. ASSUME NEW last \in BOOLEAN, Store(last) PROVE 1 .. sent' = All'
  <2>1. sent' = sent + 1 /\ UNCHANGED <<q, asi_valid, data, ram>>
    BY <1>1 DEF Store, dmaVars
  <2>2. Offered' = Offered /\ Among(data)' = Among(data) /\ InRamWords' = InRamWords
    BY <2>1 DEF Offered, InRamWords
  <2>3. 1 .. sent' = 1 .. sent \cup {sent'} /\ sent' \in Word
    <3>1. sent \in 0 .. NWORDS /\ sent < NWORDS
      BY <1>1, <1>s DEF Store, FifoInv
    <3>2. 1 .. sent' = 1 .. sent \cup {sent'}
      BY ONLY <2>1, <3>1, Sizes
    <3>3. sent' \in Word
      BY ONLY <2>1, <3>1, Sizes DEF Word
    <3> QED
      BY <3>2, <3>3
  <2>4. lost' \cup Among(ToRam') = lost \cup Among(ToRam) \cup {sent'}
    <3>1. CASE Len(ToRam) < FIFOSIZE
      <4>1. ToRam' = Append(ToRam, sent') /\ lost' = lost
        BY <1>1, <3>1 DEF Store
      <4>2. Among(ToRam') = Among(ToRam) \cup {sent'}
        BY <1>s, <2>3, <4>1, AmongAppend
      <4> QED
        BY <4>1, <4>2
    <3>2. CASE ~(Len(ToRam) < FIFOSIZE)
      <4>1. ToRam' = ToRam /\ lost' = lost \cup {sent'}
        BY <1>1, <3>2 DEF Store
      <4> QED
        BY <4>1
    <3> QED
      BY <3>1, <3>2
  <2> HIDE DEF All
  <2>5. All' = lost' \cup Among(ToRam') \cup Offered \cup Among(data) \cup InRamWords
    BY <2>2 DEF All
  <2>6. All = lost \cup Among(ToRam) \cup Offered \cup Among(data) \cup InRamWords
    BY DEF All
  <2> QED
    BY ONLY <1>n, <2>3, <2>4, <2>5, <2>6
<1>2. ASSUME EthFifo PROVE 1 .. sent' = All'
  <2>1. UNCHANGED <<sent, ram>>
    BY <1>2 DEF EthFifo, netVars, dmaVars
  <2>2. InRamWords' = InRamWords
    BY <2>1 DEF InRamWords
  <2>3. lost' \cup Among(data') = lost \cup Among(data) \cup Offered
    <3>1. CASE asi_valid /\ Len(data) # DMASIZE
      <4>1. data' = Append(data, q) /\ lost' = lost /\ q \in Word /\ Offered = {q}
        BY <1>2, <1>s, <3>1 DEF EthFifo, Stream, FifoInv, Offered
      <4>2. Among(data') = Among(data) \cup {q}
        BY <1>s, <4>1, AmongAppend
      <4> QED
        BY <4>1, <4>2
    <3>2. CASE asi_valid /\ Len(data) = DMASIZE
      <4>1. data' = data /\ lost' = lost \cup {q} /\ Offered = {q}
        BY <1>2, <3>2 DEF EthFifo, Stream, Offered
      <4> QED
        BY <4>1
    <3>3. CASE ~asi_valid
      <4>1. data' = data /\ lost' = lost /\ Offered = {}
        BY <1>2, <3>3 DEF EthFifo, Stream, Offered
      <4> QED
        BY <4>1
    <3> QED
      BY <3>1, <3>2, <3>3
  <2>4. Offered' \cup Among(ToRam') = Among(ToRam)
    <3>1. CASE ~rdempty /\ asi_valid' /\ ToRam' = Tail(ToRam) /\ q' = Head(ToRam)
      <4>1. ToRam # <<>>
        BY <1>s, <3>1, ReadWord
      <4>2. Among(ToRam) = {Head(ToRam)} \cup Among(Tail(ToRam))
        BY <1>s, <4>1, AmongTail
      <4>3. Offered' = {Head(ToRam)}
        BY <3>1 DEF Offered
      <4> QED
        BY <3>1, <4>2, <4>3
    <3>2. CASE ~asi_valid' /\ ToRam' = ToRam
      <4>1. Offered' = {}
        BY <3>2 DEF Offered
      <4> QED
        BY <3>2, <4>1
    <3> QED
      BY <1>2, <1>s, <3>1, <3>2, Clock
  <2> HIDE DEF All
  <2>5. All' = lost' \cup Among(ToRam') \cup Offered' \cup Among(data') \cup InRamWords
    BY <2>2 DEF All
  <2>6. All = lost \cup Among(ToRam) \cup Offered \cup Among(data) \cup InRamWords
    BY DEF All
  <2> QED
    BY ONLY <1>n, <2>1, <2>3, <2>4, <2>5, <2>6
<1>3. ASSUME WriteRam PROVE 1 .. sent' = All'
  <2>1. /\ left > 0 /\ data # <<>> /\ ram' = [ram EXCEPT ![at] = Head(data)]
        /\ data' = Tail(data) /\ UNCHANGED <<sent, ToRam, q, asi_valid, lost>>
    BY <1>3 DEF WriteRam, fifoVars, netVars
  <2>2. /\ left \in Nat /\ at \in Nat /\ at + left <= RAMSIZE
        /\ ram \in [0 .. RAMSIZE - 1 -> 0 .. NWORDS]
    BY Sizes DEF TypeInv, DmaInv
  <2>3. at \in 0 .. RAMSIZE - 1 /\ ~(at < at)
    BY ONLY <2>1, <2>2, Sizes
  <2>4. ram[at] = 0
    BY <2>3 DEF AddrInv
  <2>5. Head(data) # 0 /\ Among(data) = {Head(data)} \cup Among(Tail(data))
    <3>1. Head(data) \in Word
      BY <1>s, <2>1, TailFacts
    <3>2. Head(data) # 0
      BY <3>1 DEF Word
    <3> QED
      BY <1>s, <2>1, <3>2, AmongTail
  <2>6. InRamWords' = InRamWords \cup {Head(data)}
    <3>1. \A a \in 0 .. RAMSIZE - 1 : ram'[a] = IF a = at THEN Head(data) ELSE ram[a]
      BY <2>1, <2>2
    <3> QED
      BY <2>3, <2>4, <2>5, <3>1 DEF InRamWords
  <2>7. Offered' = Offered
    BY <2>1 DEF Offered
  <2> HIDE DEF All
  <2>8. All' = lost \cup Among(ToRam) \cup Offered \cup Among(Tail(data)) \cup InRamWords'
    BY <2>1, <2>7 DEF All
  <2>9. All = lost \cup Among(ToRam) \cup Offered \cup Among(data) \cup InRamWords
    BY DEF All
  <2> QED
    BY ONLY <1>n, <2>1, <2>5, <2>6, <2>8, <2>9
<1>4. ASSUME UNCHANGED <<sent, ToRam, q, asi_valid, data, lost, ram>> PROVE 1 .. sent' = All'
  <2>1. Offered' = Offered /\ InRamWords' = InRamWords
    BY <1>4 DEF Offered, InRamWords
  <2> QED
    BY <1>4, <1>n, <2>1
<1>5. CASE Issue
  BY <1>4, <1>5, <1>b DEF Issue, netVars, fifoVars
<1>6. CASE Loop \/ Finish \/ UNCHANGED vars \/ \E d \in Det : Choose(d)
  <2>1. UNCHANGED <<sent, ToRam, q, asi_valid, data, lost, ram>>
    BY <1>6
       DEF Loop, Levels, Stop, WriteDescriptor, Run, Look, Finish, Choose, hwVars, netVars,
           fifoVars, dmaVars, vars
  <2> QED
    BY <1>4, <1>b, <2>1
<1>7. ASSUME NEW d \in Det, NEW alone \in BOOLEAN, Announce(d, alone) PROVE NoWordVanishes'
  BY <1>4, <1>b, <1>7 DEF Announce, dmaVars
<1> HIDE DEF All
<1> QED
  BY <1>b, <1>1, <1>2, <1>3, <1>5, <1>6, <1>7, Zenon DEF Next

\* NoWordVanishes holds for every size: the read latency of FifoToRAM and the
\* asi_valid of ethFifo agree, so only a full FIFO or DMA drops a word.
THEOREM NothingVanishes == Spec => []NoWordVanishes
<1>1. Init => NoWordVanishes
  <2> SUFFICES ASSUME Init PROVE NoWordVanishes
    OBVIOUS
  <2>1. Among(<<>>) = {}
    BY DEF Among
  <2>2. {ram[a] : a \in 0 .. RAMSIZE - 1} \ {0} = {}
    BY DEF Init
  <2>3. {w \in {q} : asi_valid} = {} /\ 1 .. 0 = {}
    BY DEF Init
  <2> QED
    BY <2>1, <2>2, <2>3, Zenon DEF Init, NoWordVanishes
<1>2. TypeInv /\ AddrInv /\ NoWordVanishes /\ [Next]_vars => NoWordVanishes'
  BY VanishStep
<1> QED
  BY <1>1, <1>2, OrderAlways, PTL DEF Spec

=============================================================================
