--------------------------- MODULE PacketiserProofs ---------------------------
(***************************************************************************)
(* Proofs about Packetiser for any sizes and any lists: if the lines reach *)
(* the FIFO before frame OFFSET, every frame carries its entry, a frame is *)
(* queued every PERIOD clocks and nothing is left behind in bufferfifo.    *)
(***************************************************************************)
EXTENDS Packetiser, TLAPS

Line == [1 .. WPL -> Nat \X Nat]

(* Words and lines of the list l by their position.                        *)
NumLines(l) == Len(l) \div WPL + 2
Word(l, p) == IF p <= Len(l) THEN l[p] ELSE Stamp(0)
Base(i) == (i - 1) * WPL
LineAt(l, i) == [k \in 1 .. WPL |-> Word(l, Base(i) + k)]
Follow(l, s, a) == \A i \in 1 .. Len(s) : s[i] = LineAt(l, a + i)

(* The lines taken from the FIFO are the first of the list.                *)
taken == NumLines(list) - Len(load) - Len(fifo)
SourceInv ==
  /\ list \in Lists
  /\ load \in Seq(Line) /\ fifo \in Seq(Line) /\ line \in Line
  /\ taken \in Nat
  /\ Follow(list, fifo, taken) /\ Follow(list, load, taken + Len(fifo))
  /\ taken > 0 => line = LineAt(list, taken)

(* From frame LATEST on there is a line to take until the last is taken.   *)
Supply ==
  taken < NumLines(list) =>
    /\ framecounter > LATEST \/ (framecounter = LATEST /\ gap >= 1) => fifo # <<>>
    /\ framecounter > LATEST \/ (framecounter = LATEST /\ gap >= 2) => ~primitiveFIFOempty

TimeInv ==
  /\ framecounter \in Nat
  /\ gap \in 0 .. PERIOD - 1 /\ latency = PERIOD - 1 - gap
  /\ framecounter_copy = IF gap = 0 /\ framecounter > 0 THEN framecounter - 1 ELSE framecounter

(* The word FSMBuffer looks at next, and the time of the frame's entry.    *)
next ==
  IF taken = 0 THEN 1
  ELSE Base(taken) + rdpointer + (IF FSMBuffer = "S2_Latency" THEN 2 ELSE 1)
due == framecounter - OFFSET

Behind(l, p, t) == \A i \in 1 .. Len(l) : i < p => l[i][1] < t
Ahead(l, p, t) == p <= Len(l) => l[p][2] = 0 /\ l[p][1] > t
Taken(l, p, t, c) ==
  /\ p - 1 \in 1 .. Len(l) /\ l[p - 1] = <<t, c>>
  /\ \E i \in 1 .. Len(l) : l[i] = Stamp(t)

Waiting ==
  IF gap <= 1
  THEN Behind(list, next, due) /\ Ahead(list, next, due - 1) /\ primitiveinpacket = 0
  ELSE /\ Ahead(list, next, due)
       /\ IF primitiveinpacket = 0 THEN Behind(list, next, due)
                                   ELSE Taken(list, next, due, primitiveinpacket)

Early(n) == framecounter < LATEST \/ (framecounter = LATEST /\ gap <= n)

(* The first reads.                                                        *)
First == {"S0", "S1_Latency", "S1_1_Latency"}
FillFirstInv ==
  FSMBuffer \in First =>
    /\ rdpointer = 0 /\ primitiveinpacket = 0
    /\ taken = (IF FSMBuffer = "S1_1_Latency" THEN 1 ELSE 0)
    /\ Early(IF FSMBuffer = "S0" THEN 2 ELSE IF FSMBuffer = "S1_Latency" THEN 3 ELSE 4)
    /\ FSMBuffer = "S0" => primitiveFIFOempty \/ fifo # <<>>
    /\ FSMBuffer = "S1_Latency" => fifo # <<>>

(* The words of an entry are stored, and no later than this.               *)
Storing == {"S2", "S2_Latency", "S2_2_Latency"}
Slack ==
  IF FSMBuffer = "S2" /\ rdpointer = 0 THEN 4
  ELSE IF FSMBuffer = "S2_Latency" THEN 2 ELSE 3
FillStoreInv ==
  FSMBuffer \in Storing =>
    /\ taken > 0 /\ gap >= 2 /\ Taken(list, next, due, primitiveinpacket)
    /\ gap <= 2 * primitiveinpacket + Slack
    /\ FSMBuffer = "S2_Latency" => rdpointer = WPL - 1
    /\ FSMBuffer = "S2_2_Latency" => rdpointer = 0

FillWaitInv ==
  FSMBuffer \in {"S1", "S3"} =>
    /\ taken > 0 /\ Waiting
    /\ FSMBuffer = "S3" => /\ gap >= 2 /\ primitiveinpacket > 0
                           /\ gap <= 2 * primitiveinpacket + 5

FillInv ==
  /\ FSMBuffer \in First \cup Storing \cup {"S1", "S3"}
  /\ rdpointer \in 0 .. WPL - 1 /\ primitiveinpacket \in 0 .. COUNTMOD - 1
  /\ readfromfifo = (FSMBuffer = "S1_Latency" \/ FSMBuffer = "S2_Latency")
  /\ sendflag = (FSMBuffer = "S3")
  /\ FillFirstInv /\ FillStoreInv /\ FillWaitInv

(* What the frame and bufferfifo hold: the words a .. b - 1 of the entry of *)
(* time t, and a header with the words 0 .. n - 1.                         *)
Stretch(t, a, b) == [i \in 1 .. b - a |-> <<t, a + i - 1>>]
FrameOf(h, t, n) == [i \in 1 .. n + 1 |-> IF i = 1 THEN h ELSE <<t, i - 2>>]
header == <<"header", primitiveinpacket, framecounter>>

SendStartInv ==
  FSMSend = "S0" =>
    /\ frame = <<>> /\ npackets = 0
    /\ IF FSMBuffer \in Storing \cup {"S3"}
       THEN bufferfifo = Stretch(due, 0, primitiveinpacket + 1)
       ELSE bufferfifo = <<>> /\ primitiveinpacket = 0 /\ gap <= PERIOD - 5

SendEmptyInv ==
  FSMSend # "S0" /\ primitiveinpacket = 0 =>
    /\ FSMSend \in {"S1_header", "S1", "S2"} /\ bufferfifo = <<>> /\ npackets = 0
    /\ FSMSend = "S1_header" => frame = <<>> /\ gap = PERIOD - 4
    /\ FSMSend = "S1" => frame = FrameOf(header, due, 0) /\ gap >= PERIOD - 3 /\ gap <= PERIOD - 2
    /\ FSMSend = "S2" => frame = FrameOf(header, due, 0) /\ gap = PERIOD - 1

Pairs == {"S1_1", "S1_2", "S1_3"}
SendDataInv ==
  FSMSend # "S0" /\ primitiveinpacket > 0 =>
    LET c == primitiveinpacket IN
    /\ FSMSend = "S1_header" =>
         /\ frame = <<>> /\ npackets = 0
         /\ bufferfifo = Stretch(due, 0, c + 1) /\ gap <= 2 * c + 6
    /\ FSMSend = "S1" =>
         /\ frame = FrameOf(header, due, 0) /\ npackets = 0 /\ q = <<due, 0>>
         /\ bufferfifo = Stretch(due, 1, c + 1) /\ gap <= 2 * c + 7
    /\ FSMSend \in Pairs =>
         /\ npackets \in 1 .. c /\ q = <<due, npackets>>
         /\ bufferfifo = Stretch(due, npackets + 1, c + 1)
         /\ gap <= (IF npackets < c THEN 2 * c + 7 + npackets ELSE PERIOD - 2)
         /\ FSMSend = "S1_2" => frame = FrameOf(header, due, npackets)
         /\ FSMSend # "S1_2" => /\ frame = FrameOf(header, due, npackets - 1)
                                /\ tstmpword = <<due, npackets - 1>>
    /\ FSMSend = "S2" =>
         /\ npackets \in 0 .. COUNTMOD - 1
         /\ frame = FrameOf(header, due, c + 1) /\ bufferfifo = <<>> /\ gap = PERIOD - 1

SendInv ==
  /\ FSMSend \in {"S0", "S1_header", "S1", "S2"} \cup Pairs
  /\ FSMSend # "S0" => gap >= 2 /\ FSMBuffer \in First \cup {"S1"}
  /\ SendStartInv /\ SendEmptyInv /\ SendDataInv

Core == Supply /\ TimeInv /\ FillInv /\ SendInv

(* Before the burst.                                                       *)
Unstarted ==
  /\ ~startData /\ taken = 0 /\ FSMBuffer = "S0" /\ FSMSend = "S0"
  /\ readfromfifo = FALSE /\ sendflag = FALSE /\ rdpointer = 0 /\ bufferfifo = <<>>
  /\ primitiveinpacket = 0 /\ npackets = 0 /\ framecounter = 0 /\ framecounter_copy = 0
  /\ gap = 0 /\ latency = PERIOD - 1 /\ frame = <<>>

Inv ==
  /\ TypeOK /\ gap < PERIOD /\ SourceInv
  /\ started \in BOOLEAN /\ readfromfifo \in BOOLEAN
  /\ startData => started /\ Core /\ (framecounter = MAXFRAME => gap = 0)
  /\ ~started => Unstarted

-----------------------------------------------------------------------------
(* Numbers and sequences. *)

LEMMA Sizes ==
  /\ WPL \in Nat \ {0} /\ WPL > 1 /\ PERIOD \in Nat \ {0} /\ OFFSET \in Nat \ {0}
  /\ COUNTMOD \in Nat \ {0} /\ LATMOD \in Nat \ {0} /\ BUFSIZE \in Nat \ {0}
  /\ MAXFRAME \in Nat \ {0} /\ LATEST \in Nat
  /\ LATMOD > PERIOD /\ 2 * COUNTMOD <= BUFSIZE
  BY PacketiserAssumption

LEMMA ModSmall ==
  ASSUME NEW m \in Nat \ {0}, NEW x \in 0 .. m - 1
  PROVE  x % m = x
  OBVIOUS

LEMMA ModSelf == ASSUME NEW m \in Nat \ {0} PROVE m % m = 0
  OBVIOUS

LEMMA Longer ==
  ASSUME NEW k \in Nat, NEW a \in Int, NEW b \in Int, a <= b
  PROVE  a * k <= b * k /\ a * k \in Int /\ b * k \in Int
<1>1. b - a \in Nat /\ b = a + (b - a)
  OBVIOUS
<1>2. (b - a) * k >= 0 /\ b * k = a * k + (b - a) * k /\ a * k \in Int /\ (b - a) * k \in Int
  BY <1>1
<1> QED
  BY <1>2

LEMMA BaseFacts ==
  /\ Base(1) = 0
  /\ \A n \in Nat \ {0} : Base(n) \in Nat /\ Base(n + 1) = Base(n) + WPL
<1>1. Base(1) = 0
  BY Sizes DEF Base
<1>2. ASSUME NEW n \in Nat \ {0} PROVE Base(n) \in Nat /\ Base(n + 1) = Base(n) + WPL
  <2>1. n - 1 \in Nat /\ n = (n - 1) + 1 /\ (n + 1) - 1 = n
    OBVIOUS
  <2>2. (n - 1) * WPL \in Nat
    BY <2>1, Sizes
  <2>3. ((n - 1) + 1) * WPL = (n - 1) * WPL + WPL
    BY <2>1, Sizes
  <2> QED
    BY <2>1, <2>2, <2>3 DEF Base
<1> QED
  BY <1>1, <1>2

\* A position in the list is on one of its lines.
LEMMA BaseInside ==
  ASSUME NEW l, Len(l) \in Nat, NEW n \in Nat \ {0}, Base(n) < Len(l)
  PROVE  n < NumLines(l)
<1> DEFINE m == Len(l)
           d == m \div WPL
<1>1. m \in Nat /\ d \in Nat /\ m < (d + 1) * WPL /\ (d + 1) * WPL \in Int
  BY Sizes
<1> HIDE DEF d
<1>2. CASE n - 1 >= d + 1
  <2>1. (d + 1) * WPL <= (n - 1) * WPL /\ (n - 1) * WPL \in Int
    BY <1>1, <1>2, Longer, Sizes
  <2> QED
    BY <1>1, <2>1 DEF Base
<1>3. CASE n - 1 < d + 1
  BY <1>1, <1>3 DEF NumLines, d
<1> QED
  BY <1>1, <1>2, <1>3

LEMMA SeqEq ==
  ASSUME NEW S, NEW s \in Seq(S), NEW t \in Seq(S),
         Len(s) = Len(t), \A i \in 1 .. Len(s) : s[i] = t[i]
  PROVE  s = t
<1>1. s \in [1 .. Len(s) -> S] /\ t \in [1 .. Len(s) -> S]
  OBVIOUS
<1> QED
  BY <1>1

LEMMA AppendFacts ==
  ASSUME NEW S, NEW s \in Seq(S), NEW x \in S
  PROVE  /\ s \o <<x>> \in Seq(S) /\ Len(s \o <<x>>) = Len(s) + 1 /\ Len(s) \in Nat
         /\ s \o <<x>> = Append(s, x)
         /\ \A i \in 1 .. Len(s) : (s \o <<x>>)[i] = s[i]
         /\ (s \o <<x>>)[Len(s) + 1] = x
  OBVIOUS

LEMMA TailFacts ==
  ASSUME NEW S, NEW s \in Seq(S), s # <<>>
  PROVE  /\ Tail(s) \in Seq(S) /\ Len(Tail(s)) = Len(s) - 1 /\ Len(s) \in Nat \ {0}
         /\ Head(s) = s[1] /\ Head(s) \in S
         /\ \A i \in 1 .. Len(s) - 1 : Tail(s)[i] = s[i + 1]
  OBVIOUS

LEMMA ConcatEmpty == ASSUME NEW S, NEW s \in Seq(S) PROVE s \o <<>> = s
  OBVIOUS

LEMMA Empty == ASSUME NEW S, NEW s \in Seq(S) PROVE (s = <<>> <=> Len(s) = 0) /\ Len(s) \in Nat
  OBVIOUS

-----------------------------------------------------------------------------
(* Stretches of an entry and frames. *)

StretchSet(t) == {<<t, k>> : k \in Int}

LEMMA StretchType ==
  ASSUME NEW t \in Int, NEW a \in Nat, NEW b \in Nat, a <= b
  PROVE  /\ Stretch(t, a, b) \in Seq(StretchSet(t)) /\ Len(Stretch(t, a, b)) = b - a
         /\ \A i \in 1 .. b - a : Stretch(t, a, b)[i] = <<t, a + i - 1>>
<1>1. b - a \in Nat
  OBVIOUS
<1>2. Stretch(t, a, b) \in [1 .. b - a -> StretchSet(t)]
  BY DEF Stretch, StretchSet
<1>3. Stretch(t, a, b) \in Seq(StretchSet(t))
  BY <1>1, <1>2
<1> QED
  BY <1>1, <1>2, <1>3 DEF Stretch

LEMMA StretchEmpty ==
  ASSUME NEW t \in Int, NEW a \in Nat
  PROVE  Stretch(t, a, a) = <<>>
  BY StretchType, Empty, a <= a, a - a = 0

LEMMA StretchHead ==
  ASSUME NEW t \in Int, NEW a \in Nat, NEW b \in Nat, a < b
  PROVE  /\ Stretch(t, a, b) # <<>> /\ Head(Stretch(t, a, b)) = <<t, a>>
         /\ Tail(Stretch(t, a, b)) = Stretch(t, a + 1, b)
<1> DEFINE s == Stretch(t, a, b)
           r == Stretch(t, a + 1, b)
           S == StretchSet(t)
<1>0. a <= b /\ a + 1 <= b /\ a + 1 \in Nat /\ b - a \in Nat \ {0} /\ b - (a + 1) = b - a - 1
  OBVIOUS
<1>1. /\ s \in Seq(S) /\ Len(s) = b - a
      /\ \A i \in 1 .. b - a : s[i] = <<t, a + i - 1>>
  BY <1>0, StretchType
<1>2. /\ r \in Seq(S) /\ Len(r) = b - a - 1
      /\ \A i \in 1 .. b - a - 1 : r[i] = <<t, (a + 1) + i - 1>>
  <2>1. /\ r \in Seq(S) /\ Len(r) = b - (a + 1)
        /\ \A i \in 1 .. b - (a + 1) : r[i] = <<t, (a + 1) + i - 1>>
    BY <1>0, StretchType, Zenon
  <2> QED
    BY <2>1, <1>0
<1> HIDE DEF s, r, S
<1>3. s # <<>>
  BY <1>0, <1>1, Empty
<1>4. /\ Tail(s) \in Seq(S) /\ Len(Tail(s)) = Len(s) - 1 /\ Head(s) = s[1]
      /\ \A i \in 1 .. Len(s) - 1 : Tail(s)[i] = s[i + 1]
  BY <1>1, <1>3, TailFacts
<1>5. Head(s) = <<t, a>>
  <2>1. 1 \in 1 .. b - a /\ a + 1 - 1 = a
    BY <1>0
  <2> QED
    BY <1>1, <1>4, <2>1
<1>6. ASSUME NEW i \in 1 .. b - a - 1 PROVE Tail(s)[i] = r[i]
  <2>1. i + 1 \in 1 .. b - a /\ a + (i + 1) - 1 = (a + 1) + i - 1 /\ i \in 1 .. Len(s) - 1
    BY <1>0, <1>1
  <2> QED
    BY <1>1, <1>2, <1>4, <2>1
<1>7. Tail(s) = r
  BY <1>1, <1>2, <1>4, <1>6, SeqEq
<1> QED
  BY <1>3, <1>5, <1>7 DEF s, r

LEMMA StretchAppend ==
  ASSUME NEW t \in Int, NEW b \in Nat
  PROVE  Append(Stretch(t, 0, b), <<t, b>>) = Stretch(t, 0, b + 1)
<1> DEFINE s == Stretch(t, 0, b)
           r == Stretch(t, 0, b + 1)
           S == StretchSet(t)
<1>0. 0 <= b /\ 0 <= b + 1 /\ b + 1 \in Nat /\ 0 \in Nat /\ b - 0 = b /\ (b + 1) - 0 = b + 1
  OBVIOUS
<1>1. s \in Seq(S) /\ Len(s) = b /\ \A i \in 1 .. b : s[i] = <<t, 0 + i - 1>>
  <2>1. /\ s \in Seq(S) /\ Len(s) = b - 0
        /\ \A i \in 1 .. b - 0 : s[i] = <<t, 0 + i - 1>>
    BY <1>0, StretchType, Zenon
  <2> QED
    BY <2>1, <1>0
<1>2. r \in Seq(S) /\ Len(r) = b + 1 /\ \A i \in 1 .. b + 1 : r[i] = <<t, 0 + i - 1>>
  <2>1. /\ r \in Seq(S) /\ Len(r) = (b + 1) - 0
        /\ \A i \in 1 .. (b + 1) - 0 : r[i] = <<t, 0 + i - 1>>
    BY <1>0, StretchType, Zenon
  <2> QED
    BY <2>1, <1>0
<1>3. <<t, b>> \in S
  BY DEF StretchSet
<1> HIDE DEF s, r, S
<1> DEFINE u == Append(s, <<t, b>>)
<1>4. u \in Seq(S) /\ Len(u) = b + 1 /\ (\A i \in 1 .. b : u[i] = s[i]) /\ u[b + 1] = <<t, b>>
  BY <1>1, <1>3, AppendFacts
<1> HIDE DEF u
<1>5. ASSUME NEW i \in 1 .. b + 1 PROVE u[i] = r[i]
  <2>1. CASE i = b + 1
    BY <1>2, <1>4, <2>1, 0 + (b + 1) - 1 = b
  <2>2. CASE i # b + 1
    <3>1. i \in 1 .. b
      BY <2>2
    <3> QED
      BY <1>1, <1>2, <1>4, <3>1
  <2> QED
    BY <2>1, <2>2
<1>6. u = r
  BY <1>2, <1>4, <1>5, SeqEq
<1> QED
  BY <1>6 DEF u, s, r

FrameSet(h, t) == {h} \cup StretchSet(t)

LEMMA FrameType ==
  ASSUME NEW h, NEW t \in Int, NEW n \in Nat
  PROVE  /\ FrameOf(h, t, n) \in Seq(FrameSet(h, t)) /\ Len(FrameOf(h, t, n)) = n + 1
         /\ \A i \in 1 .. n + 1 : FrameOf(h, t, n)[i] = IF i = 1 THEN h ELSE <<t, i - 2>>
<1>1. FrameOf(h, t, n) \in [1 .. n + 1 -> FrameSet(h, t)]
  BY DEF FrameOf, FrameSet, StretchSet
<1>2. FrameOf(h, t, n) \in Seq(FrameSet(h, t))
  BY <1>1
<1> QED
  BY <1>1, <1>2 DEF FrameOf

LEMMA FrameOne ==
  ASSUME NEW h, NEW t \in Int, NEW n \in Nat
  PROVE  FrameOf(h, t, n) \o << <<t, n>> >> = FrameOf(h, t, n + 1)
<1> DEFINE s == FrameOf(h, t, n)
           r == FrameOf(h, t, n + 1)
           S == FrameSet(h, t)
           u == s \o << <<t, n>> >>
<1>1. /\ s \in Seq(S) /\ Len(s) = n + 1
      /\ \A i \in 1 .. n + 1 : s[i] = IF i = 1 THEN h ELSE <<t, i - 2>>
  BY FrameType
<1>2. /\ r \in Seq(S) /\ Len(r) = n + 1 + 1
      /\ \A i \in 1 .. n + 1 + 1 : r[i] = IF i = 1 THEN h ELSE <<t, i - 2>>
  BY FrameType, n + 1 \in Nat
<1>3. <<t, n>> \in S
  BY DEF FrameSet, StretchSet
<1> HIDE DEF s, r, S
<1>4. /\ u \in Seq(S) /\ Len(u) = n + 1 + 1
      /\ (\A i \in 1 .. n + 1 : u[i] = s[i]) /\ u[n + 1 + 1] = <<t, n>>
  BY <1>1, <1>3, AppendFacts
<1> HIDE DEF u
<1>5. ASSUME NEW i \in 1 .. n + 1 + 1 PROVE u[i] = r[i]
  <2>1. CASE i = n + 1 + 1
    BY <1>2, <1>4, <2>1, (n + 1 + 1) - 2 = n, n + 1 + 1 # 1
  <2>2. CASE i # n + 1 + 1
    <3>1. i \in 1 .. n + 1
      BY <2>2
    <3> QED
      BY <1>1, <1>2, <1>4, <3>1
  <2> QED
    BY <2>1, <2>2
<1>6. u = r
  BY <1>2, <1>4, <1>5, SeqEq
<1> QED
  BY <1>6 DEF u, s, r

LEMMA FrameTwo ==
  ASSUME NEW h, NEW t \in Int, NEW n \in Nat \ {0}
  PROVE  FrameOf(h, t, n - 1) \o << <<t, n - 1>>, <<t, n>> >> = FrameOf(h, t, n + 1)
<1> DEFINE S == FrameSet(h, t)
<1>1. FrameOf(h, t, n - 1) \in Seq(S) /\ <<t, n - 1>> \in S /\ <<t, n>> \in S
  <2>1. n - 1 \in Nat /\ n - 1 \in Int /\ n \in Int
    OBVIOUS
  <2> QED
    BY <2>1, FrameType DEF FrameSet, StretchSet
<1>2. FrameOf(h, t, n - 1) \o << <<t, n - 1>> >> = FrameOf(h, t, n)
  BY FrameOne, n - 1 \in Nat, n - 1 + 1 = n
<1>3. FrameOf(h, t, n) \o << <<t, n>> >> = FrameOf(h, t, n + 1)
  BY FrameOne
<1> HIDE DEF S
<1>4. ASSUME NEW s \in Seq(S), NEW x \in S, NEW y \in S
      PROVE  s \o <<x, y>> = (s \o <<x>>) \o <<y>>
  <2> DEFINE u == s \o <<x, y>>
             v == (s \o <<x>>) \o <<y>>
  <2>1. /\ s \o <<x>> \in Seq(S) /\ Len(s \o <<x>>) = Len(s) + 1 /\ Len(s) \in Nat
        /\ (\A i \in 1 .. Len(s) : (s \o <<x>>)[i] = s[i]) /\ (s \o <<x>>)[Len(s) + 1] = x
    BY AppendFacts
  <2>2. /\ v \in Seq(S) /\ Len(v) = Len(s) + 1 + 1
        /\ (\A i \in 1 .. Len(s) + 1 : v[i] = (s \o <<x>>)[i]) /\ v[Len(s) + 1 + 1] = y
    BY <2>1, AppendFacts
  <2>3. /\ u \in Seq(S) /\ Len(u) = Len(s) + 2
        /\ (\A i \in 1 .. Len(s) : u[i] = s[i])
        /\ u[Len(s) + 1] = x /\ u[Len(s) + 2] = y
    OBVIOUS
  <2> HIDE DEF u, v
  <2>4. ASSUME NEW i \in 1 .. Len(u) PROVE u[i] = v[i]
    <3>1. i \in 1 .. Len(s) \/ i = Len(s) + 1 \/ i = Len(s) + 2
      BY <2>1, <2>3
    <3> QED
      BY <2>1, <2>2, <2>3, <3>1
  <2>5. u = v
    BY <2>1, <2>2, <2>3, <2>4, SeqEq
  <2> QED
    BY <2>5 DEF u, v
<1> QED
  BY <1>1, <1>2, <1>3, <1>4

LEMMA FrameStart == ASSUME NEW h, NEW t PROVE <<>> \o <<h>> = FrameOf(h, t, 0)
<1>1. <<>> \o <<h>> = <<h>>
  <2>1. <<>> \in Seq({h}) /\ <<h>> \in Seq({h})
    OBVIOUS
  <2> QED
    BY <2>1
<1>2. FrameOf(h, t, 0) = <<h>>
  BY DEF FrameOf
<1> QED
  BY <1>1, <1>2

-----------------------------------------------------------------------------
(* The primitive FIFO. *)

LEMMA FollowTail ==
  ASSUME NEW l, NEW s \in Seq(Line), s # <<>>, NEW a \in Nat, Follow(l, s, a)
  PROVE  Head(s) = LineAt(l, a + 1) /\ Follow(l, Tail(s), a + 1)
<1>1. /\ Len(Tail(s)) = Len(s) - 1 /\ Len(s) \in Nat \ {0} /\ Head(s) = s[1]
      /\ \A i \in 1 .. Len(s) - 1 : Tail(s)[i] = s[i + 1]
  BY TailFacts
<1>2. Head(s) = LineAt(l, a + 1)
  BY <1>1, 1 \in 1 .. Len(s) DEF Follow
<1>3. ASSUME NEW i \in 1 .. Len(Tail(s)) PROVE Tail(s)[i] = LineAt(l, (a + 1) + i)
  <2>1. i + 1 \in 1 .. Len(s) /\ i \in 1 .. Len(s) - 1 /\ a + (i + 1) = (a + 1) + i
    BY <1>1
  <2>2. Tail(s)[i] = s[i + 1] /\ s[i + 1] = LineAt(l, a + (i + 1))
    BY <1>1, <2>1 DEF Follow
  <2> QED
    BY <2>1, <2>2
<1> QED
  BY <1>2, <1>3 DEF Follow

LEMMA FollowAppend ==
  ASSUME NEW l, NEW s \in Seq(Line), NEW a \in Nat, Follow(l, s, a),
         NEW x \in Line, x = LineAt(l, a + Len(s) + 1)
  PROVE  Follow(l, s \o <<x>>, a)
<1> DEFINE u == s \o <<x>>
<1>1. /\ Len(u) = Len(s) + 1 /\ Len(s) \in Nat
      /\ (\A i \in 1 .. Len(s) : u[i] = s[i]) /\ u[Len(s) + 1] = x
  BY AppendFacts
<1> HIDE DEF u
<1>2. ASSUME NEW i \in 1 .. Len(u) PROVE u[i] = LineAt(l, a + i)
  <2>1. CASE i = Len(s) + 1
    BY <1>1, <2>1, a + (Len(s) + 1) = a + Len(s) + 1
  <2>2. CASE i # Len(s) + 1
    <3>1. i \in 1 .. Len(s)
      BY <1>1, <2>2
    <3> QED
      BY <1>1, <3>1 DEF Follow
  <2> QED
    BY <2>1, <2>2
<1> QED
  BY <1>2 DEF Follow, u

\* An edge of the FIFO: a read takes the next line, and what arrives follows.
LEMMA SourceStep ==
  ASSUME SourceInv, Source, framecounter \in Nat, readfromfifo \in BOOLEAN
  PROVE  /\ SourceInv' /\ list' = list
         /\ taken' = (IF readfromfifo /\ fifo # <<>> THEN taken + 1 ELSE taken)
         /\ framecounter >= LATEST /\ taken' < NumLines(list) => fifo' # <<>>
         /\ primitiveFIFOempty' = (fifo = <<>>)
         /\ fifo # <<>> /\ ~readfromfifo => fifo' # <<>>
<1> DEFINE read == readfromfifo /\ fifo # <<>>
           left == IF read THEN Tail(fifo) ELSE fifo
           n == IF read THEN taken + 1 ELSE taken
           N == NumLines(list)
<1>0. PICK new \in Arriving :
        /\ load' = IF load # <<>> /\ new # <<>> THEN Tail(load) ELSE load
        /\ fifo' = left \o new
  BY DEF Source
<1>1. /\ line' = (IF read THEN Head(fifo) ELSE line) /\ list' = list
      /\ primitiveFIFOempty' = (fifo = <<>>)
  BY DEF Source
<1>2. /\ list \in Lists /\ load \in Seq(Line) /\ fifo \in Seq(Line) /\ line \in Line
      /\ taken \in Nat /\ taken = N - Len(load) - Len(fifo)
      /\ Follow(list, fifo, taken) /\ Follow(list, load, taken + Len(fifo))
      /\ taken > 0 => line = LineAt(list, taken)
  BY DEF SourceInv, taken
<1>2a. Len(load) \in Nat /\ Len(fifo) \in Nat
  BY <1>2
<1>2b. taken + Len(fifo) = N - Len(load) /\ N \in Int
  <2>1. Len(list) \in Nat
    BY <1>2, ListsAssumption
  <2>2. N \in Int
    BY <2>1, Sizes DEF NumLines
  <2> HIDE DEF N
  <2> QED
    BY <1>2, <1>2a, <2>2
<1>3. taken' = N - Len(load') - Len(fifo')
  BY <1>1 DEF taken
<1>4. /\ left \in Seq(Line) /\ n \in Nat /\ Follow(list, left, n) /\ Len(left) \in Nat
      /\ n + Len(left) = taken + Len(fifo)
  <2>1. CASE read
    <3>1. Tail(fifo) \in Seq(Line) /\ Len(Tail(fifo)) = Len(fifo) - 1
      BY <1>2, <2>1, TailFacts
    <3>2. Follow(list, Tail(fifo), taken + 1)
      BY <1>2, <2>1, FollowTail
    <3> QED
      BY <1>2, <1>2a, <2>1, <3>1, <3>2
  <2>2. CASE ~read
    BY <1>2, <1>2a, <2>2
  <2> QED
    BY <2>1, <2>2
<1>5. n > 0 => line' = LineAt(list, n)
  <2>1. CASE read
    BY <1>1, <1>2, <2>1, FollowTail
  <2>2. CASE ~read
    BY <1>1, <1>2, <2>2
  <2> QED
    BY <2>1, <2>2
<1>6. line' \in Line
  <2>1. CASE read
    BY <1>1, <1>2, <2>1, TailFacts
  <2>2. CASE ~read
    BY <1>1, <1>2, <2>2
  <2> QED
    BY <2>1, <2>2
<1>6a. fifo # <<>> /\ ~readfromfifo => left # <<>>
  OBVIOUS
<1> HIDE DEF left, N, n, read
<1>7. CASE load # <<>> /\ new # <<>>
  <2>1. new = <<Head(load)>>
    BY <1>7 DEF Arriving
  <2>2. load' = Tail(load) /\ fifo' = left \o <<Head(load)>>
    BY <1>0, <1>7, <2>1
  <2>3. /\ Tail(load) \in Seq(Line) /\ Len(Tail(load)) = Len(load) - 1 /\ Head(load) \in Line
    BY <1>2, <1>7, TailFacts
  <2>4. /\ fifo' \in Seq(Line) /\ Len(fifo') = Len(left) + 1
    BY <1>4, <2>2, <2>3, AppendFacts
  <2>5. taken' = n
    <3>1. Len(load') = Len(load) - 1 /\ Len(load') \in Int
      BY <1>2a, <2>2, <2>3
    <3>2. n \in Int /\ taken \in Int
      BY <1>2, <1>4
    <3> QED
      BY <1>2a, <1>2b, <1>3, <1>4, <2>4, <3>1, <3>2
  <2>6. taken + Len(fifo) \in Nat
    BY <1>2, <1>2a
  <2>7. /\ Head(load) = LineAt(list, taken + Len(fifo) + 1)
        /\ Follow(list, Tail(load), taken + Len(fifo) + 1)
    BY <1>2, <1>7, <2>6, FollowTail
  <2>8. Follow(list, fifo', n)
    BY <1>4, <2>2, <2>3, <2>7, FollowAppend
  <2>9. Follow(list, load', n + Len(fifo'))
    <3>1. n + Len(fifo') = taken + Len(fifo) + 1
      BY <1>2, <1>2a, <1>4, <2>4
    <3> QED
      BY <2>2, <2>7, <3>1
  <2>10. fifo' # <<>>
    BY <1>4, <2>4, Empty
  <2>11. SourceInv'
    BY <1>1, <1>2, <1>4, <1>5, <1>6, <2>2, <2>3, <2>4, <2>5, <2>8, <2>9 DEF SourceInv
  <2> QED
    BY <1>1, <2>5, <2>10, <2>11 DEF n, read
<1>8. CASE ~(load # <<>> /\ new # <<>>)
  <2>1. new = <<>>
    BY <1>8 DEF Arriving
  <2>2. load' = load /\ fifo' = left
    BY <1>0, <1>4, <1>8, <2>1, ConcatEmpty
  <2>5. taken' = n
    BY <1>2a, <1>2b, <1>3, <1>4, <2>2
  <2>9. Follow(list, load', n + Len(fifo'))
    BY <1>2, <1>4, <2>2
  <2>10. framecounter >= LATEST /\ taken' < N => fifo' # <<>>
    <3> SUFFICES ASSUME framecounter >= LATEST, taken' < N PROVE Len(fifo') # 0
      BY <1>4, <2>2, Empty
    <3>1. ~(framecounter < LATEST)
      BY Sizes
    <3>2. load = <<>>
      BY <1>8, <2>1, <3>1 DEF Arriving
    <3>3. Len(load') = 0
      BY <2>2, <3>2
    <3> QED
      BY <1>2b, <1>3, <1>4, <2>2, <2>5, <3>3
  <2>11. SourceInv'
    BY <1>1, <1>2, <1>4, <1>5, <1>6, <2>2, <2>5, <2>9 DEF SourceInv
  <2> QED
    BY <1>1, <1>6a, <2>2, <2>5, <2>10, <2>11 DEF n, read, N
<1> QED
  BY <1>7, <1>8

-----------------------------------------------------------------------------
(* The list. *)

LEMMA ListFacts ==
  ASSUME NEW l \in Lists
  PROVE  /\ Len(l) \in Nat \ {0} /\ l[1][2] = 0 /\ l[Len(l)][2] > 0
         /\ \A i \in 1 .. Len(l) :
              /\ l[i] = <<l[i][1], l[i][2]>> /\ l[i][1] \in Nat \ {0}
              /\ l[i][2] \in 0 .. COUNTMOD - 1 /\ 3 * l[i][2] + 12 <= PERIOD
              /\ l[i] \in Nat \X Nat
         /\ \A i \in 1 .. Len(l) - 1 :
              l[i][1] # l[i + 1][1] => l[i][2] > 0 /\ l[i + 1][2] = 0
         /\ \A i, j \in 1 .. Len(l) : i < j =>
              \/ l[i][1] < l[j][1]
              \/ l[i][1] = l[j][1] /\ l[j][2] = l[i][2] + (j - i)
<1> DEFINE W == (Nat \ {0}) \X (0 .. COUNTMOD - 1)
<1>1. l \in Seq(W) /\ l # <<>>
  BY ListsAssumption
<1>2. Len(l) \in Nat \ {0} /\ \A i \in 1 .. Len(l) : l[i] \in W
  BY <1>1
<1>3. ASSUME NEW w \in W
      PROVE  /\ w = <<w[1], w[2]>> /\ w[1] \in Nat \ {0} /\ w[2] \in 0 .. COUNTMOD - 1
             /\ w \in Nat \X Nat
  BY Sizes
<1> HIDE DEF W
<1> QED
  BY <1>2, <1>3, ListsAssumption

LEMMA Pair ==
  ASSUME NEW l \in Lists, NEW i \in 1 .. Len(l), NEW j \in 1 .. Len(l), i < j
  PROVE  \/ l[i][1] < l[j][1]
         \/ l[i][1] = l[j][1] /\ l[j][2] = l[i][2] + (j - i)
  BY ListFacts

LEMMA TakenFacts ==
  ASSUME NEW l \in Lists, NEW p \in Int, NEW t \in Int, NEW c, Taken(l, p, t, c)
  PROVE  /\ t \in Nat \ {0} /\ c \in 0 .. COUNTMOD - 1 /\ 3 * c + 12 <= PERIOD
         /\ p - 1 \in 1 .. Len(l) /\ l[p - 1][1] = t /\ l[p - 1][2] = c
  BY ListFacts DEF Taken

\* When the last word of an entry is taken, the entry is behind.
LEMMA TakenBehind ==
  ASSUME NEW l \in Lists, NEW p \in Int, NEW t \in Int, NEW c, Taken(l, p, t, c)
  PROVE  Behind(l, p, t + 1)
<1> SUFFICES ASSUME NEW i \in 1 .. Len(l), i < p PROVE l[i][1] < t + 1
  BY DEF Behind
<1>1. p - 1 \in 1 .. Len(l) /\ l[p - 1][1] = t
  BY TakenFacts
<1>2. i = p - 1 \/ i < p - 1
  OBVIOUS
<1>3. l[i][1] \in Nat
  BY ListFacts
<1>4. i < p - 1 => l[i][1] < l[p - 1][1] \/ l[i][1] = l[p - 1][1]
  BY <1>1, ListFacts
<1> QED
  BY <1>1, <1>2, <1>3, <1>4

\* A word behind a word of the entry, if it is a primitive, is its next one.
LEMMA TakenMore ==
  ASSUME NEW l \in Lists, NEW p \in Nat \ {0}, NEW t \in Int, NEW c, Taken(l, p, t, c),
         Word(l, p)[2] # 0
  PROVE  /\ Word(l, p) = <<t, c + 1>> /\ Taken(l, p + 1, t, c + 1)
         /\ c + 1 \in 0 .. COUNTMOD - 1
<1>1. /\ p - 1 \in 1 .. Len(l) /\ l[p - 1][1] = t /\ l[p - 1][2] = c /\ c \in Nat
      /\ Len(l) \in Nat
  BY TakenFacts, ListFacts
<1>2. p <= Len(l)
  BY DEF Word, Stamp
<1>3. p - 1 \in 1 .. Len(l) - 1 /\ p \in 1 .. Len(l) /\ (p - 1) + 1 = p /\ p - 1 < p
  BY <1>1, <1>2
<1>4. l[p][2] # 0 /\ Word(l, p) = l[p]
  BY <1>2 DEF Word
<1>5. l[p - 1][1] = l[p][1]
  BY <1>3, <1>4, ListFacts
<1>6. l[p][2] = l[p - 1][2] + (p - (p - 1))
  <2>1. l[p][1] \in Nat
    BY <1>3, ListFacts
  <2>2. \/ l[p - 1][1] < l[p][1]
        \/ l[p - 1][1] = l[p][1] /\ l[p][2] = l[p - 1][2] + (p - (p - 1))
    BY <1>3, Pair
  <2> QED
    BY <1>5, <2>1, <2>2
<1>7. l[p] = <<t, c + 1>>
  <2>1. l[p] = <<l[p][1], l[p][2]>>
    BY <1>3, ListFacts
  <2>2. p - (p - 1) = 1
    OBVIOUS
  <2> QED
    BY <1>1, <1>5, <1>6, <2>1, <2>2
<1>8. Taken(l, p + 1, t, c + 1)
  BY <1>3, <1>7, p + 1 - 1 = p DEF Taken
<1> QED
  BY <1>4, <1>7, <1>8, TakenFacts, p + 1 \in Int

\* If it is a timestamp, the entry has primitives and the next one is later.
LEMMA TakenEnd ==
  ASSUME NEW l \in Lists, NEW p \in Nat \ {0}, NEW t \in Int, NEW c, Taken(l, p, t, c),
         Word(l, p)[2] = 0
  PROVE  c > 0 /\ Ahead(l, p, t)
<1>1. /\ p - 1 \in 1 .. Len(l) /\ l[p - 1][1] = t /\ l[p - 1][2] = c /\ c \in Nat
      /\ Len(l) \in Nat
  BY TakenFacts, ListFacts
<1>2. CASE p <= Len(l)
  <2>1. p - 1 \in 1 .. Len(l) - 1 /\ p \in 1 .. Len(l) /\ (p - 1) + 1 = p /\ p - 1 < p
    BY <1>1, <1>2
  <2>2. l[p][2] = 0
    BY <1>2 DEF Word
  <2>3. l[p][1] \in Nat
    BY <2>1, ListFacts
  <2>4. \/ l[p - 1][1] < l[p][1]
        \/ l[p - 1][1] = l[p][1] /\ l[p][2] = l[p - 1][2] + (p - (p - 1))
    BY <2>1, Pair
  <2>5. p - (p - 1) = 1
    OBVIOUS
  <2>6. l[p - 1][1] < l[p][1]
    BY <1>1, <2>2, <2>4, <2>5
  <2>7. l[p - 1][1] # l[p][1]
    BY <1>1, <2>3, <2>6
  <2>8. l[p - 1][2] > 0
    BY <2>1, <2>7, ListFacts
  <2> QED
    BY <1>1, <2>2, <2>3, <2>6, <2>8 DEF Ahead
<1>3. CASE p > Len(l)
  <2>1. p - 1 = Len(l)
    BY <1>1, <1>3
  <2>2. c > 0
    BY <1>1, <2>1, ListFacts
  <2> QED
    BY <1>1, <1>3, <2>2 DEF Ahead
<1> QED
  BY <1>1, <1>2, <1>3

LEMMA TakenFirst ==
  ASSUME NEW l \in Lists, NEW p \in 1 .. Len(l), NEW t \in Int, l[p][1] = t, l[p][2] = 0
  PROVE  Taken(l, p + 1, t, 0) /\ l[p] = <<t, 0>>
<1>1. l[p] = <<t, 0>>
  BY ListFacts
<1> QED
  BY <1>1, p + 1 - 1 = p DEF Taken, Stamp

\* The words behind the list are never due.
LEMMA BehindAll ==
  ASSUME NEW l \in Lists, NEW p \in Nat, NEW t \in Int, Behind(l, p, t), p > Len(l)
  PROVE  t > 1
<1>1. Len(l) \in Nat \ {0} /\ 1 \in 1 .. Len(l) /\ l[1][1] \in Nat \ {0}
  BY ListFacts
<1> QED
  BY <1>1 DEF Behind

LEMMA BehindLater ==
  ASSUME NEW l \in Lists, NEW p \in Int, NEW t \in Int, Behind(l, p, t)
  PROVE  Behind(l, p, t + 1)
<1>1. \A i \in 1 .. Len(l) : l[i][1] \in Nat
  BY ListFacts
<1> QED
  BY <1>1 DEF Behind

LEMMA AtStart ==
  ASSUME NEW l \in Lists, NEW t \in Int
  PROVE  Behind(l, 1, t) /\ (t <= 0 => Ahead(l, 1, t))
<1>1. Len(l) \in Nat \ {0} /\ 1 \in 1 .. Len(l) /\ l[1][1] \in Nat \ {0} /\ l[1][2] = 0
  BY ListFacts
<1> QED
  BY <1>1 DEF Behind, Ahead

-----------------------------------------------------------------------------
(* The word FSMBuffer sees. *)

LEMMA Data ==
  ASSUME SourceInv, taken > 0, rdpointer \in 0 .. WPL - 1
  PROVE  dataout = Word(list, Base(taken) + rdpointer + 1)
<1>1. line = LineAt(list, taken) /\ taken \in Nat
  BY DEF SourceInv
<1>2. rdpointer + 1 \in 1 .. WPL
  BY Sizes
<1>3. line[rdpointer + 1] = Word(list, Base(taken) + (rdpointer + 1))
  BY <1>1, <1>2 DEF LineAt
<1>4. Base(taken) \in Nat
  BY <1>1, BaseFacts
<1>5. Base(taken) + (rdpointer + 1) = Base(taken) + rdpointer + 1
  BY <1>2, <1>4
<1> QED
  BY <1>3, <1>5 DEF dataout

LEMMA DataType ==
  ASSUME SourceInv, rdpointer \in 0 .. WPL - 1
  PROVE  dataout \in Nat \X Nat
<1>1. line \in [1 .. WPL -> Nat \X Nat]
  BY DEF SourceInv, Line
<1>2. rdpointer + 1 \in 1 .. WPL
  BY Sizes
<1> QED
  BY <1>1, <1>2 DEF dataout

\* next is the position of dataout, but while the next line is on its way.
LEMMA NextWord ==
  ASSUME SourceInv, taken > 0, rdpointer \in 0 .. WPL - 1, FSMBuffer # "S2_Latency"
  PROVE  /\ next \in Nat \ {0} /\ next = Base(taken) + rdpointer + 1
         /\ dataout = Word(list, next)
         /\ next <= Len(list) => taken < NumLines(list)
<1>1. taken \in Nat \ {0} /\ list \in Lists
  BY DEF SourceInv
<1>2. Base(taken) \in Nat
  BY <1>1, BaseFacts
<1>3. next = Base(taken) + rdpointer + 1
  BY <1>1 DEF next
<1>4. Len(list) \in Nat
  BY <1>1, ListFacts
<1>5. next <= Len(list) => Base(taken) < Len(list)
  BY <1>2, <1>3, <1>4
<1>6. next \in Nat \ {0}
  BY <1>2, <1>3
<1> QED
  BY <1>1, <1>3, <1>4, <1>5, <1>6, BaseInside, Data

LEMMA NextLine ==
  ASSUME SourceInv, taken > 0, rdpointer = WPL - 1, FSMBuffer = "S2_Latency"
  PROVE  /\ next \in Nat \ {0} /\ next = Base(taken + 1) + 1
         /\ next - 1 <= Len(list) => taken < NumLines(list)
<1>1. taken \in Nat \ {0} /\ list \in Lists
  BY DEF SourceInv
<1>2. Base(taken) \in Nat /\ Base(taken + 1) = Base(taken) + WPL
  BY <1>1, BaseFacts
<1>3. next = Base(taken) + rdpointer + 2
  BY <1>1 DEF next
<1>4. Len(list) \in Nat
  BY <1>1, ListFacts
<1>5. next - 1 <= Len(list) => Base(taken) < Len(list)
  BY <1>2, <1>3, <1>4, Sizes
<1>6. next \in Nat \ {0} /\ next = Base(taken + 1) + 1
  BY <1>2, <1>3, Sizes
<1> QED
  BY <1>1, <1>4, <1>5, <1>6, BaseInside

-----------------------------------------------------------------------------
(* The steps of the two machines by their state. *)

LEMMA FillSteps ==
  ASSUME startData, FillBuffer
  PROVE  /\ FSMBuffer = "S0" /\ primitiveFIFOempty => Fill("S0", FALSE, FALSE, FALSE)
         /\ FSMBuffer = "S0" /\ ~primitiveFIFOempty => Fill("S1_Latency", TRUE, FALSE, FALSE)
         /\ FSMBuffer = "S1_Latency" => Fill("S1_1_Latency", FALSE, FALSE, FALSE)
         /\ FSMBuffer = "S1_1_Latency" => Fill("S1", FALSE, FALSE, FALSE)
         /\ FSMBuffer = "S1" /\ ~Match => Fill("S1", FALSE, FALSE, FALSE)
         /\ (Match \/ Collect) /\ rdpointer # WPL - 1 => Fill("S2", FALSE, FALSE, TRUE)
         /\ (Match \/ Collect) /\ rdpointer = WPL - 1 => Fill("S2_Latency", TRUE, FALSE, FALSE)
         /\ FSMBuffer = "S2_Latency" => Fill("S2_2_Latency", FALSE, FALSE, TRUE)
         /\ FSMBuffer = "S2_2_Latency" => Fill("S2", FALSE, FALSE, FALSE)
         /\ FSMBuffer = "S2" /\ IsStamp => Fill("S3", FALSE, TRUE, FALSE)
         /\ FSMBuffer = "S3" => Fill("S1", FALSE, FALSE, FALSE)
<1>1. ~FillOff
  BY DEF FillOff
<1>2. (Match => FSMBuffer = "S1") /\ (Collect => FSMBuffer = "S2" /\ ~IsStamp)
  BY DEF Match, Collect
<1>3. ASSUME FillWait
      PROVE  \/ FSMBuffer = "S0" /\ primitiveFIFOempty /\ Fill("S0", FALSE, FALSE, FALSE)
             \/ FSMBuffer = "S1" /\ ~Match /\ Fill("S1", FALSE, FALSE, FALSE)
  BY <1>3 DEF FillWait
<1>4. ASSUME FillFirst
      PROVE  FSMBuffer = "S0" /\ ~primitiveFIFOempty /\ Fill("S1_Latency", TRUE, FALSE, FALSE)
  BY <1>4 DEF FillFirst
<1>5. ASSUME FillLatency
      PROVE  \/ FSMBuffer = "S1_Latency" /\ Fill("S1_1_Latency", FALSE, FALSE, FALSE)
             \/ FSMBuffer = "S1_1_Latency" /\ Fill("S1", FALSE, FALSE, FALSE)
             \/ FSMBuffer = "S2_2_Latency" /\ Fill("S2", FALSE, FALSE, FALSE)
             \/ FSMBuffer = "S3" /\ Fill("S1", FALSE, FALSE, FALSE)
  <2>1. FSMBuffer \in {"S1_Latency", "S1_1_Latency", "S2_2_Latency", "S3"}
    BY <1>5 DEF FillLatency, Following
  <2>2. Fill(Following[FSMBuffer], FALSE, FALSE, FALSE)
    BY <1>5 DEF FillLatency
  <2>3. CASE FSMBuffer = "S1_Latency"
    BY <2>2, <2>3 DEF Following
  <2>4. CASE FSMBuffer = "S1_1_Latency"
    BY <2>2, <2>4 DEF Following
  <2>5. CASE FSMBuffer = "S2_2_Latency"
    BY <2>2, <2>5 DEF Following
  <2>6. CASE FSMBuffer = "S3"
    BY <2>2, <2>6 DEF Following
  <2> QED
    BY <2>1, <2>3, <2>4, <2>5, <2>6
<1>6. ASSUME FillStore
      PROVE  /\ Match \/ Collect
             /\ \/ rdpointer # WPL - 1 /\ Fill("S2", FALSE, FALSE, TRUE)
                \/ rdpointer = WPL - 1 /\ Fill("S2_Latency", TRUE, FALSE, FALSE)
  BY <1>6 DEF FillStore
<1>7. ASSUME FillRewind
      PROVE  FSMBuffer = "S2_Latency" /\ Fill("S2_2_Latency", FALSE, FALSE, TRUE)
  BY <1>7 DEF FillRewind
<1>8. ASSUME FillEnd
      PROVE  FSMBuffer = "S2" /\ IsStamp /\ Fill("S3", FALSE, TRUE, FALSE)
  BY <1>8 DEF FillEnd
<1>9. FillWait \/ FillFirst \/ FillLatency \/ FillStore \/ FillRewind \/ FillEnd
  BY <1>1 DEF FillBuffer
<1> QED
  BY <1>2, <1>3, <1>4, <1>5, <1>6, <1>7, <1>8, <1>9

LEMMA SendSteps ==
  ASSUME startData, SendPrimitive
  PROVE  /\ FSMSend = "S0" => Send(IF sendflag \/ HeaderTime THEN "S1_header" ELSE "S0", FALSE)
         /\ FSMSend = "S1_header" => Send("S1", FALSE)
         /\ FSMSend = "S1" /\ Some => Send("S1_1", TRUE)
         /\ FSMSend = "S1" /\ ~Some => Send(IF Last THEN "S2" ELSE "S1", FALSE)
         /\ FSMSend = "S1_1" =>
              Send(IF More THEN "S1_2" ELSE IF Last THEN "S2" ELSE "S1_1", FALSE)
         /\ FSMSend = "S1_2" =>
              Send(IF More THEN "S1_3" ELSE IF Last THEN "S2" ELSE "S1_2", TRUE)
         /\ FSMSend = "S1_3" =>
              Send(IF More THEN "S1_2" ELSE IF Last THEN "S2" ELSE "S1_3", FALSE)
         /\ FSMSend = "S2" => SendQueue
<1>1. ~SendOff /\ ~SendAbort
  BY DEF SendOff, SendAbort
<1>2. SendIdle => FSMSend = "S0" /\ Send(IF sendflag \/ HeaderTime THEN "S1_header" ELSE "S0", FALSE)
  BY DEF SendIdle
<1>3. SendHeader => FSMSend = "S1_header" /\ Send("S1", FALSE)
  BY DEF SendHeader
<1>4. SendStamp => FSMSend = "S1" /\ Some /\ Send("S1_1", TRUE)
  BY DEF SendStamp
<1>5. SendEmpty => FSMSend = "S1" /\ ~Some /\ Send(IF Last THEN "S2" ELSE "S1", FALSE)
  BY DEF SendEmpty
<1>6. ASSUME SendWord
      PROVE  \/ /\ FSMSend = "S1_1"
                /\ Send(IF More THEN "S1_2" ELSE IF Last THEN "S2" ELSE "S1_1", FALSE)
             \/ /\ FSMSend = "S1_2"
                /\ Send(IF More THEN "S1_3" ELSE IF Last THEN "S2" ELSE "S1_2", TRUE)
             \/ /\ FSMSend = "S1_3"
                /\ Send(IF More THEN "S1_2" ELSE IF Last THEN "S2" ELSE "S1_3", FALSE)
  <2>1. CASE FSMSend = "S1_1"
    BY <1>6, <2>1 DEF SendWord
  <2>2. CASE FSMSend = "S1_2"
    BY <1>6, <2>2 DEF SendWord
  <2>3. CASE FSMSend = "S1_3"
    BY <1>6, <2>3 DEF SendWord
  <2> QED
    BY <1>6, <2>1, <2>2, <2>3 DEF SendWord
<1>7. SendQueue => FSMSend = "S2"
  BY DEF SendQueue, Closing
<1>8. SendIdle \/ SendHeader \/ SendStamp \/ SendEmpty \/ SendWord \/ SendQueue
  BY <1>1 DEF SendPrimitive
<1> QED
  BY <1>2, <1>3, <1>4, <1>5, <1>6, <1>7, <1>8

-----------------------------------------------------------------------------
(* An entry is recognised one clock after the frame before it is queued.   *)

LEMMA MatchTime ==
  ASSUME SourceInv, Core, Match
  PROVE  gap = 1 /\ dataout = <<due, 0>> /\ Taken(list, next + 1, due, 0)
<1> DEFINE w == Word(list, next)
<1>1. /\ taken > 0 /\ Waiting /\ FSMBuffer = "S1" /\ rdpointer \in 0 .. WPL - 1
  BY DEF Match, Core, FillInv, FillWaitInv
<1>2. /\ next \in Nat \ {0} /\ dataout = w
  BY <1>1, NextWord
<1>3. dataout \in Nat \X Nat /\ list \in Lists
  BY <1>1, DataType DEF SourceInv
<1>4. /\ framecounter \in Nat /\ gap \in Nat
      /\ framecounter_copy = IF gap = 0 /\ framecounter > 0 THEN framecounter - 1 ELSE framecounter
      /\ OFFSET \in Nat /\ due = framecounter - OFFSET /\ due \in Int
  BY Sizes DEF Core, TimeInv, due
<1>5. w[2] = 0 /\ w[1] = framecounter_copy - OFFSET /\ framecounter_copy > 0
  <2>1. w[2] = 0 /\ w[1] + OFFSET = framecounter_copy /\ framecounter_copy > 0
    BY <1>2 DEF Match, IsStamp, Due
  <2>2. w[1] \in Nat
    BY <1>2, <1>3
  <2> HIDE DEF w
  <2> QED
    BY <2>1, <2>2, <1>4
<1>6. w[1] = (IF gap = 0 THEN due - 1 ELSE due)
  <2> HIDE DEF w
  <2> QED
    BY <1>4, <1>5
<1>7. /\ gap <= 1 => Behind(list, next, due) /\ Ahead(list, next, due - 1)
      /\ gap > 1 => Ahead(list, next, due)
      /\ gap > 1 => Behind(list, next, due) \/ Taken(list, next, due, primitiveinpacket)
  BY <1>1, <1>4 DEF Waiting
<1>8. Len(list) \in Nat
  BY <1>3, ListFacts
<1>9. CASE next <= Len(list)
  <2>1. w = list[next] /\ next \in 1 .. Len(list)
    BY <1>2, <1>8, <1>9 DEF Word
  <2> HIDE DEF w
  <2>2. gap # 0
    BY <1>4, <1>6, <1>7, <1>9, <2>1 DEF Ahead
  <2>3. ~(gap > 1)
    BY <1>4, <1>6, <1>7, <1>9, <2>1 DEF Ahead
  <2>4. gap = 1 /\ list[next][1] = due /\ list[next][2] = 0
    BY <1>4, <1>5, <1>6, <2>1, <2>2, <2>3
  <2>5. Taken(list, next + 1, due, 0) /\ list[next] = <<due, 0>>
    BY <1>3, <1>4, <2>1, <2>4, TakenFirst
  <2> QED
    BY <1>2, <2>1, <2>4, <2>5
<1>10. CASE next > Len(list)
  <2>1. w[1] = 0
    BY <1>2, <1>8, <1>10 DEF Word, Stamp
  <2> HIDE DEF w
  <2>2. due <= 1 /\ (gap # 0 => due = 0)
    BY <1>4, <1>6, <2>1
  <2>3. ~Behind(list, next, due)
    BY <1>2, <1>3, <1>4, <1>10, <2>2, BehindAll
  <2>4. due = 0 => ~Taken(list, next, due, primitiveinpacket)
    BY <1>2, <1>3, <1>4, TakenFacts
  <2> QED
    BY <1>4, <1>7, <2>2, <2>3, <2>4
<1> QED
  BY <1>2, <1>8, <1>9, <1>10

\* An entry that is due is recognised: its line is there in time.
LEMMA NoMatch ==
  ASSUME LATEST <= OFFSET, SourceInv, Core, startData, FSMBuffer = "S1", gap = 1, ~Match
  PROVE  Ahead(list, next, due)
<1>1. /\ taken > 0 /\ Ahead(list, next, due - 1) /\ rdpointer \in 0 .. WPL - 1
  BY DEF Core, FillInv, FillWaitInv, Waiting
<1>2. /\ next \in Nat \ {0} /\ dataout = Word(list, next) /\ list \in Lists
      /\ next <= Len(list) => taken < NumLines(list)
  BY <1>1, NextWord DEF SourceInv
<1>3. /\ framecounter \in Nat /\ framecounter_copy = framecounter
      /\ OFFSET \in Nat /\ LATEST \in Nat /\ due = framecounter - OFFSET /\ due \in Int
  BY Sizes DEF Core, TimeInv, due
<1> SUFFICES ASSUME next <= Len(list), ~(list[next][1] > due) PROVE FALSE
  BY <1>1 DEF Ahead
<1>4. next \in 1 .. Len(list) /\ dataout = list[next]
  BY <1>2, ListFacts DEF Word
<1>5. list[next][1] \in Nat \ {0} /\ list[next][2] = 0 /\ list[next][1] > due - 1
  BY <1>1, <1>2, <1>4, ListFacts DEF Ahead
<1>6. list[next][1] = due /\ framecounter > LATEST /\ framecounter_copy > 0
  BY <1>3, <1>5
<1>7. ~primitiveFIFOempty
  BY <1>2, <1>6 DEF Core, Supply
<1>8. IsStamp /\ Due
  BY <1>3, <1>4, <1>5, <1>6 DEF IsStamp, Due
<1> QED
  BY <1>6, <1>7, <1>8 DEF Match

-----------------------------------------------------------------------------
(* Time. *)

\* The entry that is being stored or sent fits in a frame.
LEMMA Fits ==
  ASSUME SourceInv, Core, FSMBuffer \in Storing \/ primitiveinpacket > 0
  PROVE  /\ Taken(list, next, due, primitiveinpacket) /\ gap >= 2 /\ taken > 0
         /\ primitiveinpacket \in 0 .. COUNTMOD - 1 /\ 3 * primitiveinpacket + 12 <= PERIOD
         /\ due \in Nat \ {0} /\ list \in Lists
<1>1. /\ primitiveinpacket \in Nat /\ gap \in Nat /\ list \in Lists
      /\ due \in Int /\ rdpointer \in 0 .. WPL - 1
  BY Sizes DEF SourceInv, Core, FillInv, TimeInv, due
<1>2. Taken(list, next, due, primitiveinpacket) /\ gap >= 2 /\ taken > 0
  <2>1. CASE FSMBuffer \in Storing
    BY <2>1 DEF Core, FillInv, FillStoreInv
  <2>2. CASE FSMBuffer \in First
    BY <2>2 DEF Core, FillInv, FillFirstInv, Storing, First
  <2>3. CASE FSMBuffer \in {"S1", "S3"}
    BY <1>1, <2>3 DEF Core, FillInv, FillWaitInv, Waiting, Storing
  <2> QED
    BY <2>1, <2>2, <2>3 DEF Core, FillInv
<1>3. next \in Int
  <2>1. CASE FSMBuffer = "S2_Latency"
    BY <1>1, <1>2, <2>1, NextLine DEF Core, FillInv, FillStoreInv, Storing
  <2>2. CASE FSMBuffer # "S2_Latency"
    BY <1>1, <1>2, <2>2, NextWord
  <2> QED
    BY <2>1, <2>2
<1> QED
  BY <1>1, <1>2, <1>3, TakenFacts

LEMMA PeriodLong == ASSUME NEW l \in Lists PROVE PERIOD >= 15
<1>1. Len(l) \in 1 .. Len(l) /\ l[Len(l)][2] > 0
  BY ListFacts
<1>2. l[Len(l)][2] \in Nat /\ 3 * l[Len(l)][2] + 12 <= PERIOD
  BY <1>1, ListFacts
<1> QED
  BY <1>1, <1>2, Sizes

\* The clocks that are left in each state of FSMSend.
LEMMA InTime ==
  ASSUME SourceInv, Core
  PROVE  /\ FSMSend = "S0" /\ FSMBuffer # "S3" => gap <= PERIOD - 5
         /\ FSMBuffer \in Storing => gap < PERIOD - 5
         /\ FSMSend # "S2" => gap <= PERIOD - 2
         /\ FSMSend = "S2" => gap = PERIOD - 1
<1> DEFINE c == primitiveinpacket
<1>1. gap \in Nat /\ c \in Nat /\ PERIOD \in Nat /\ PERIOD >= 15
  BY PeriodLong, Sizes DEF SourceInv, Core, TimeInv, FillInv
<1>2. FSMBuffer \in Storing \/ c > 0 => 3 * c + 12 <= PERIOD
  BY Fits
<1>3. FSMBuffer \in Storing => gap <= 2 * c + 4
  <2>1. FSMBuffer \in Storing => gap <= 2 * c + Slack
    BY DEF Core, FillInv, FillStoreInv
  <2>2. Slack \in Nat /\ Slack <= 4
    BY DEF Slack
  <2> QED
    BY <1>1, <2>1, <2>2
<1>4. FSMBuffer = "S3" => gap <= 2 * c + 5 /\ c > 0
  BY DEF Core, FillInv, FillWaitInv
<1>5. FSMSend = "S0" /\ ~(FSMBuffer \in Storing \cup {"S3"}) => gap <= PERIOD - 5
  BY DEF Core, SendInv, SendStartInv
<1>6. FSMSend # "S0" /\ c = 0 =>
        /\ FSMSend \in {"S1_header", "S1", "S2"}
        /\ FSMSend \in {"S1_header", "S1"} => gap <= PERIOD - 2
        /\ FSMSend = "S2" => gap = PERIOD - 1
  BY <1>1 DEF Core, SendInv, SendEmptyInv
<1>7. FSMSend # "S0" /\ c > 0 =>
        /\ FSMSend \in {"S1_header", "S1"} => gap <= 2 * c + 7
        /\ FSMSend = "S2" => gap = PERIOD - 1
  BY <1>1 DEF Core, SendInv, SendDataInv
<1>8. FSMSend \in Pairs => gap <= PERIOD - 2
  <2> SUFFICES ASSUME FSMSend \in Pairs PROVE gap <= PERIOD - 2
    OBVIOUS
  <2>1. c > 0
    BY <1>1, <1>6 DEF Pairs
  <2>2. npackets \in 1 .. c /\ gap <= (IF npackets < c THEN 2 * c + 7 + npackets ELSE PERIOD - 2)
    BY <2>1 DEF Core, SendInv, SendDataInv, Pairs
  <2> QED
    BY <1>1, <1>2, <2>1, <2>2
<1>9. FSMSend \in {"S0", "S1_header", "S1", "S2"} \cup Pairs
  BY DEF Core, SendInv
<1> HIDE DEF c
<1>10. FSMBuffer \in Storing => gap < PERIOD - 5
  BY <1>1, <1>2, <1>3
<1>11. FSMSend = "S0" /\ FSMBuffer # "S3" => gap <= PERIOD - 5
  BY <1>1, <1>5, <1>10
<1>12. FSMBuffer = "S3" => gap <= PERIOD - 2
  BY <1>1, <1>2, <1>4
<1>13. FSMSend \in {"S1_header", "S1"} => gap <= PERIOD - 2
  <2>1. CASE c = 0
    BY <1>6, <2>1
  <2>2. CASE c > 0
    BY <1>1, <1>2, <1>7, <2>2
  <2> QED
    BY <1>1, <2>1, <2>2
<1>14. FSMSend = "S2" => gap = PERIOD - 1
  BY <1>1, <1>6, <1>7
<1>15. FSMSend = "S0" => gap <= PERIOD - 2
  BY <1>1, <1>11, <1>12
<1> QED
  BY <1>8, <1>9, <1>10, <1>11, <1>13, <1>14, <1>15

LEMMA TimeStep ==
  ASSUME SourceInv, Core, startData, SendPrimitive, Elapsed, framecounter_copy' = framecounter
  PROVE  /\ TimeInv'
         /\ FSMSend # "S2" => gap' = gap + 1 /\ framecounter' = framecounter
         /\ FSMSend = "S2" => gap' = 0 /\ framecounter' = framecounter + 1
<1>1. /\ framecounter \in Nat /\ gap \in 0 .. PERIOD - 1 /\ latency = PERIOD - 1 - gap
      /\ PERIOD \in Nat /\ PERIOD >= 15 /\ LATMOD \in Nat \ {0} /\ LATMOD > PERIOD
  BY PeriodLong, Sizes DEF SourceInv, Core, TimeInv
<1>2. CASE FSMSend = "S2"
  <2>1. latency' = PERIOD - 1 /\ framecounter' = framecounter + 1
    BY <1>2, SendSteps DEF SendQueue
  <2>2. gap' = 0
    BY <1>2 DEF Elapsed, Closing
  <2> QED
    BY <1>1, <1>2, <2>1, <2>2 DEF TimeInv
<1>3. CASE FSMSend # "S2"
  <2>1. latency' = (latency - 1) % LATMOD /\ framecounter' = framecounter
    <3>1. FSMSend \in {"S0", "S1_header", "S1", "S1_1", "S1_2", "S1_3"}
      BY <1>3 DEF Core, SendInv, Pairs
    <3>2. \E state, keep : Send(state, keep)
      BY <3>1, SendSteps
    <3> QED
      BY <3>2 DEF Send
  <2>2. gap <= PERIOD - 2
    BY <1>3, InTime
  <2>3. latency - 1 \in 0 .. LATMOD - 1
    BY <1>1, <2>2
  <2>4. latency' = latency - 1
    BY <1>1, <2>1, <2>3, ModSmall
  <2>5. gap' = gap + 1
    BY <1>1, <1>3, <2>2 DEF Elapsed, Closing
  <2>6. gap' \in 0 .. PERIOD - 1 /\ latency' = PERIOD - 1 - gap'
    BY <1>1, <2>2, <2>4, <2>5
  <2>7. gap' # 0
    BY <1>1, <2>5
  <2> QED
    BY <1>1, <1>3, <2>1, <2>5, <2>6, <2>7 DEF TimeInv
<1> QED
  BY <1>2, <1>3

LEMMA SupplyStep ==
  ASSUME SourceInv, Core, startData, Clock
  PROVE  SourceInv' /\ Supply' /\ TimeInv'
<1>1. readfromfifo \in BOOLEAN /\ framecounter \in Nat /\ gap \in Nat
  BY DEF Core, FillInv, TimeInv
<1>2. Source /\ SendPrimitive /\ Elapsed /\ framecounter_copy' = framecounter
  BY DEF Clock, Source
<1>3. /\ SourceInv' /\ list' = list
      /\ taken' = (IF readfromfifo /\ fifo # <<>> THEN taken + 1 ELSE taken)
      /\ framecounter >= LATEST /\ taken' < NumLines(list) => fifo' # <<>>
      /\ primitiveFIFOempty' = (fifo = <<>>)
  BY <1>1, <1>2, SourceStep
<1>4. /\ TimeInv'
      /\ FSMSend # "S2" => gap' = gap + 1 /\ framecounter' = framecounter
      /\ FSMSend = "S2" => gap' = 0 /\ framecounter' = framecounter + 1
  BY <1>2, TimeStep
<1>5. FSMSend = "S2" => gap >= 1
  BY InTime, PeriodLong, Sizes DEF SourceInv
<1>6. Supply'
  <2> SUFFICES ASSUME taken' < NumLines(list)
               PROVE  /\ framecounter' > LATEST \/ (framecounter' = LATEST /\ gap' >= 1)
                           => fifo' # <<>>
                      /\ framecounter' > LATEST \/ (framecounter' = LATEST /\ gap' >= 2)
                           => ~primitiveFIFOempty'
    BY <1>3 DEF Supply
  <2>1. framecounter' > LATEST \/ (framecounter' = LATEST /\ gap' >= 1) => framecounter >= LATEST
    BY <1>1, <1>4, Sizes
  <2>2. framecounter' > LATEST \/ (framecounter' = LATEST /\ gap' >= 2)
          => framecounter > LATEST \/ (framecounter = LATEST /\ gap >= 1)
    BY <1>1, <1>4, <1>5, Sizes
  <2>3. taken < NumLines(list)
    <3>1. taken \in Nat /\ NumLines(list) \in Int
      BY ListFacts, Sizes DEF SourceInv, NumLines
    <3> QED
      BY <1>3, <3>1
  <2>4. framecounter > LATEST \/ (framecounter = LATEST /\ gap >= 1) => fifo # <<>>
    BY <2>3 DEF Core, Supply
  <2> QED
    BY <1>3, <2>1, <2>2, <2>4
<1> QED
  BY <1>3, <1>4, <1>6

-----------------------------------------------------------------------------
(* FSMSend, while FSMBuffer waits. *)

LEMMA WriteIs ==
  /\ FSMSend \in {"S0", "S1", "S2"} => Write = <<>>
  /\ FSMSend = "S1_header" => Write = <<header>>
  /\ FSMSend \in {"S1_1", "S1_3"} => Write = IF More \/ Last THEN <<tstmpword, q>> ELSE <<>>
  /\ FSMSend = "S1_2" => Write = IF ~More /\ Last THEN <<q>> ELSE <<>>
  BY DEF Write, header

LEMMA QuietBuffer ==
  ASSUME startData, ~Match, ~Collect, Buffer, Count
  PROVE  /\ Pop /\ bufferfifo # <<>> => bufferfifo' = Tail(bufferfifo) /\ q' = Head(bufferfifo)
         /\ ~Pop => bufferfifo' = bufferfifo /\ q' = q
         /\ primitiveinpacket' = IF Closing THEN 0 ELSE primitiveinpacket
<1>1. ~Aclr
  BY DEF Aclr
<1>2. Pop /\ bufferfifo # <<>> => bufferfifo' = Tail(bufferfifo) /\ q' = Head(bufferfifo)
  BY <1>1 DEF Buffer
<1>3. ~Pop => bufferfifo' = bufferfifo /\ q' = q
  BY <1>1 DEF Buffer
<1>4. primitiveinpacket' = IF Closing THEN 0 ELSE primitiveinpacket
  BY DEF Count
<1> QED
  BY <1>2, <1>3, <1>4

LEMMA SendQuiet ==
  ASSUME SourceInv, Core, startData, Clock, FSMSend # "S2", ~Match,
         FSMBuffer \in First \cup {"S1"}, FSMBuffer' \in First \cup {"S1"}
  PROVE  SendInv' /\ primitiveinpacket' = primitiveinpacket
<1> DEFINE c == primitiveinpacket
           n == npackets
           t == due
           h == header
<1>1. /\ gap \in Nat /\ c \in 0 .. COUNTMOD - 1 /\ PERIOD \in Nat /\ PERIOD >= 15
      /\ COUNTMOD \in Nat \ {0} /\ latency = PERIOD - 1 - gap /\ t \in Int
  BY PeriodLong, Sizes DEF SourceInv, Core, TimeInv, FillInv, due
<1>2. c > 0 => 3 * c + 12 <= PERIOD /\ gap >= 2
  BY Fits
<1>3. gap' = gap + 1 /\ framecounter' = framecounter
  BY TimeStep DEF Clock, Source
<1>4. ~Collect /\ ~Closing /\ ~sendflag
  BY DEF Collect, Closing, First, Core, FillInv
<1>5. /\ Pop /\ bufferfifo # <<>> => bufferfifo' = Tail(bufferfifo) /\ q' = Head(bufferfifo)
      /\ ~Pop => bufferfifo' = bufferfifo /\ q' = q
      /\ primitiveinpacket' = c
  BY <1>4, QuietBuffer DEF Clock
<1>6. due' = t /\ header' = h
  BY <1>3, <1>5 DEF due, header
<1>7. gap <= PERIOD - 2 /\ (Last <=> gap = PERIOD - 2) /\ (HeaderTime <=> gap = PERIOD - 5)
  BY <1>1, InTime DEF Last, HeaderTime
<1>8. Some <=> c # 0
  BY DEF Some
<1>9. ~(FSMBuffer \in Storing \cup {"S3"}) /\ ~(FSMBuffer' \in Storing \cup {"S3"})
  BY DEF First, Storing
<1>10. SendPrimitive
  BY DEF Clock
<1>11. FrameOf(h, t, 0) \o <<>> = FrameOf(h, t, 0)
  BY <1>1, FrameType, ConcatEmpty
<1> HIDE DEF c, n, t, h
<1>12. CASE FSMSend = "S0"
  <2>1. frame = <<>> /\ n = 0 /\ bufferfifo = <<>> /\ c = 0 /\ gap <= PERIOD - 5
    BY <1>9, <1>12 DEF Core, SendInv, SendStartInv, c, n
  <2>2. Send(IF HeaderTime THEN "S1_header" ELSE "S0", FALSE)
    BY <1>4, <1>10, <1>12, SendSteps
  <2>3. ~Pop
    BY <1>12 DEF Pop
  <2>4. npackets' = 0 /\ frame' = <<>> \o <<>> /\ FSMSend' = IF HeaderTime THEN "S1_header" ELSE "S0"
    <3>1. Write = <<>>
      BY <1>12, WriteIs
    <3> QED
      BY <1>12, <2>1, <2>2, <2>3, <3>1 DEF Send
  <2>5. frame' = <<>>
    BY <2>4, ConcatEmpty, <<>> \in Seq({})
  <2>6. CASE HeaderTime
    <3>1. FSMSend' = "S1_header" /\ gap' = PERIOD - 4 /\ gap' >= 2
      BY <1>1, <1>3, <1>7, <2>4, <2>6
    <3> QED
      BY <1>1, <1>5, <2>1, <2>3, <2>4, <2>5, <3>1
      DEF SendInv, SendStartInv, SendEmptyInv, SendDataInv, c
  <2>7. CASE ~HeaderTime
    <3>1. FSMSend' = "S0" /\ gap' <= PERIOD - 5
      BY <1>1, <1>3, <1>7, <2>1, <2>4, <2>7
    <3> QED
      BY <1>1, <1>5, <1>9, <2>1, <2>3, <2>4, <2>5, <3>1
      DEF SendInv, SendStartInv, SendEmptyInv, SendDataInv, c
  <2> QED
    BY <1>5, <2>6, <2>7 DEF c
<1>13. CASE FSMSend = "S1_header" /\ c = 0
  <2>1. frame = <<>> /\ n = 0 /\ bufferfifo = <<>> /\ gap = PERIOD - 4
    BY <1>13 DEF Core, SendInv, SendEmptyInv, c, n
  <2>2. ~Pop
    BY <1>8, <1>13 DEF Pop
  <2>3. FSMSend' = "S1" /\ npackets' = n /\ frame' = <<>> \o <<h>>
    BY <1>10, <1>13, <2>1, SendSteps, WriteIs DEF Send, n, h
  <2>4. frame' = FrameOf(h, t, 0)
    BY <2>3, FrameStart
  <2>5. gap' = PERIOD - 3 /\ gap' >= 2
    BY <1>1, <1>3, <2>1
  <2> QED
    BY <1>1, <1>5, <1>6, <1>13, <2>1, <2>2, <2>3, <2>4, <2>5
    DEF SendInv, SendStartInv, SendEmptyInv, SendDataInv, c
<1>14. CASE FSMSend = "S1" /\ c = 0
  <2>1. /\ frame = FrameOf(h, t, 0) /\ n = 0 /\ bufferfifo = <<>>
        /\ gap >= PERIOD - 3 /\ gap <= PERIOD - 2
    BY <1>14 DEF Core, SendInv, SendEmptyInv, c, n, h, t
  <2>2. ~Pop
    BY <1>8, <1>14 DEF Pop
  <2>3. FSMSend' = (IF Last THEN "S2" ELSE "S1") /\ npackets' = n /\ frame' = frame \o <<>>
    BY <1>8, <1>10, <1>14, <2>2, SendSteps, WriteIs DEF Send, n
  <2>4. frame' = FrameOf(h, t, 0)
    BY <1>11, <2>1, <2>3
  <2>5. gap' >= 2 /\ (IF Last THEN gap' = PERIOD - 1 ELSE gap' >= PERIOD - 3 /\ gap' <= PERIOD - 2)
    BY <1>1, <1>3, <1>7, <2>1
  <2> QED
    BY <1>1, <1>5, <1>6, <1>14, <2>1, <2>2, <2>3, <2>4, <2>5
    DEF SendInv, SendStartInv, SendEmptyInv, SendDataInv, c
<1>15. CASE FSMSend = "S1_header" /\ c > 0
  <2>1. frame = <<>> /\ n = 0 /\ bufferfifo = Stretch(t, 0, c + 1) /\ gap <= 2 * c + 6
    BY <1>15 DEF Core, SendInv, SendDataInv, c, n, t
  <2>2. Pop
    BY <1>1, <1>8, <1>15 DEF Pop
  <2>3. FSMSend' = "S1" /\ npackets' = n /\ frame' = <<>> \o <<h>>
    BY <1>10, <1>15, <2>1, SendSteps, WriteIs DEF Send, n, h
  <2>4. frame' = FrameOf(h, t, 0)
    BY <2>3, FrameStart
  <2>5. bufferfifo # <<>> /\ Head(bufferfifo) = <<t, 0>> /\ Tail(bufferfifo) = Stretch(t, 1, c + 1)
    <3>1. 0 < c + 1 /\ c + 1 \in Nat /\ 0 + 1 = 1
      BY <1>1
    <3> QED
      <4>1. /\ Stretch(t, 0, c + 1) # <<>> /\ Head(Stretch(t, 0, c + 1)) = <<t, 0>>
            /\ Tail(Stretch(t, 0, c + 1)) = Stretch(t, 0 + 1, c + 1)
        BY <1>1, <3>1, StretchHead, 0 \in Nat, Zenon
      <4> QED
        BY <2>1, <3>1, <4>1
  <2>6. gap' <= 2 * c + 7 /\ gap' >= 2
    BY <1>1, <1>2, <1>3, <1>15, <2>1
  <2>7. SendDataInv'
    <3>1. q' = <<t, 0>> /\ bufferfifo' = Stretch(t, 1, c + 1)
      BY <1>5, <2>2, <2>5
    <3> QED
      BY <1>5, <1>6, <2>1, <2>3, <2>4, <2>6, <3>1 DEF SendDataInv, Pairs, c
  <2> QED
    BY <1>1, <1>5, <1>15, <2>3, <2>6, <2>7
    DEF SendInv, SendStartInv, SendEmptyInv, Pairs, c
<1>16. CASE FSMSend = "S1" /\ c > 0
  <2>1. /\ frame = FrameOf(h, t, 0) /\ n = 0 /\ q = <<t, 0>>
        /\ bufferfifo = Stretch(t, 1, c + 1) /\ gap <= 2 * c + 7
    BY <1>16 DEF Core, SendInv, SendDataInv, c, n, t, h
  <2>2. Pop
    BY <1>1, <1>8, <1>16 DEF Pop
  <2>3. FSMSend' = "S1_1" /\ npackets' = n + 1 /\ frame' = frame \o <<>> /\ tstmpword' = q
    <3>1. Send("S1_1", TRUE)
      <4>1. Some
        BY <1>1, <1>8, <1>16
      <4> QED
        BY <1>10, <1>16, <4>1, SendSteps, Zenon
    <3>2. Write = <<>>
      BY <1>16, WriteIs
    <3> QED
      BY <1>16, <2>2, <3>1, <3>2 DEF Send, n
  <2>4. frame' = FrameOf(h, t, 1 - 1)
    BY <1>11, <2>1, <2>3
  <2>5. bufferfifo # <<>> /\ Head(bufferfifo) = <<t, 1>> /\ Tail(bufferfifo) = Stretch(t, 1 + 1, c + 1)
    <3>1. 1 < c + 1 /\ c + 1 \in Nat /\ 1 \in Nat
      BY <1>1, <1>16
    <3> QED
      BY <1>1, <2>1, <3>1, StretchHead, Zenon
  <2>6. gap' >= 2 /\ gap' <= (IF 1 < c THEN 2 * c + 7 + 1 ELSE PERIOD - 2)
    BY <1>1, <1>2, <1>3, <1>16, <2>1
  <2>7. npackets' = 1 /\ 1 \in 1 .. c
    BY <1>1, <1>16, <2>1, <2>3
  <2>8. SendDataInv'
    <3>1. q' = <<t, 1>> /\ bufferfifo' = Stretch(t, 1 + 1, c + 1) /\ tstmpword' = <<t, 1 - 1>>
      BY <1>5, <2>1, <2>2, <2>3, <2>5
    <3> QED
      BY <1>5, <1>6, <2>3, <2>4, <2>6, <2>7, <3>1 DEF SendDataInv, Pairs, c
  <2> QED
    BY <1>1, <1>5, <1>16, <2>3, <2>6, <2>8
    DEF SendInv, SendStartInv, SendEmptyInv, Pairs, c
<1>17. CASE FSMSend \in Pairs
  <2>1. c > 0
    <3>1. c # 0
      BY <1>17 DEF Core, SendInv, SendEmptyInv, Pairs, c
    <3> QED
      BY <1>1, <3>1
  <2>2. /\ n \in 1 .. c /\ q = <<t, n>> /\ bufferfifo = Stretch(t, n + 1, c + 1)
        /\ gap <= (IF n < c THEN 2 * c + 7 + n ELSE PERIOD - 2)
        /\ FSMSend = "S1_2" => frame = FrameOf(h, t, n)
        /\ FSMSend # "S1_2" => frame = FrameOf(h, t, n - 1) /\ tstmpword = <<t, n - 1>>
    BY <1>17, <2>1 DEF Core, SendInv, SendDataInv, Pairs, c, n, t, h
  <2>3. /\ n \in Nat \ {0} /\ n - 1 \in Nat /\ n + 1 \in Nat /\ c + 1 \in Nat /\ n + 1 - 1 = n
        /\ (More <=> n < c) /\ (~More => n = c) /\ (Pop <=> More)
    BY <1>1, <1>17, <2>2 DEF More, Pop, Pairs, n, c
  <2>4. /\ npackets' = (IF More THEN n + 1 ELSE n) /\ frame' = frame \o Write
        /\ FSMSend' = IF More THEN IF FSMSend = "S1_2" THEN "S1_3" ELSE "S1_2"
                      ELSE IF Last THEN "S2" ELSE FSMSend
        /\ tstmpword' = IF FSMSend = "S1_2" THEN q ELSE tstmpword
    <3>1. CASE FSMSend = "S1_1"
      BY <1>10, <2>3, <3>1, SendSteps DEF Send, n
    <3>2. CASE FSMSend = "S1_2"
      BY <1>10, <2>3, <3>2, SendSteps DEF Send, n
    <3>3. CASE FSMSend = "S1_3"
      BY <1>10, <2>3, <3>3, SendSteps DEF Send, n
    <3> QED
      BY <1>17, <3>1, <3>2, <3>3 DEF Pairs
  <2>5. /\ FrameOf(h, t, n) \o <<>> = FrameOf(h, t, n)
        /\ FrameOf(h, t, n - 1) \o <<>> = FrameOf(h, t, n - 1)
        /\ FrameOf(h, t, n) \o << <<t, n>> >> = FrameOf(h, t, n + 1)
        /\ FrameOf(h, t, n - 1) \o << <<t, n - 1>>, <<t, n>> >> = FrameOf(h, t, n + 1)
    <3>1. FrameOf(h, t, n) \in Seq(FrameSet(h, t)) /\ FrameOf(h, t, n - 1) \in Seq(FrameSet(h, t))
      BY <1>1, <2>3, FrameType, Zenon
    <3> QED
      BY <1>1, <2>3, <3>1, ConcatEmpty, FrameOne, FrameTwo, Zenon
  <2>6. gap' >= 2 /\ gap' = gap + 1
    <3>1. gap >= 2
      BY <1>2, <2>1
    <3> QED
      BY <1>1, <1>3, <3>1
  <2>7. CASE More
    <3>1. bufferfifo # <<>> /\ Head(bufferfifo) = <<t, n + 1>> /\ Tail(bufferfifo) = Stretch(t, n + 1 + 1, c + 1)
      <4>1. n + 1 < c + 1
        BY <1>1, <2>3, <2>7
      <4> QED
        BY <1>1, <2>2, <2>3, <4>1, StretchHead, Zenon
    <3>2. q' = <<t, n + 1>> /\ bufferfifo' = Stretch(t, n + 1 + 1, c + 1)
      BY <1>5, <2>3, <2>7, <3>1
    <3>3. n + 1 \in 1 .. c /\ gap' <= (IF n + 1 < c THEN 2 * c + 7 + (n + 1) ELSE PERIOD - 2)
      BY <1>1, <1>2, <2>1, <2>2, <2>3, <2>6, <2>7
    <3>4. CASE FSMSend = "S1_2"
      <4>1. frame' = FrameOf(h, t, n + 1 - 1) /\ tstmpword' = <<t, n + 1 - 1>> /\ FSMSend' = "S1_3"
        BY <2>2, <2>3, <2>4, <2>5, <2>7, <3>4, WriteIs
      <4>2. SendDataInv'
        BY <1>5, <1>6, <2>3, <2>4, <2>7, <3>2, <3>3, <4>1 DEF SendDataInv, Pairs, c
      <4> QED
        BY <1>5, <2>1, <2>6, <4>1, <4>2 DEF SendInv, SendStartInv, SendEmptyInv, Pairs, c
    <3>5. CASE FSMSend # "S1_2"
      <4>1. frame' = FrameOf(h, t, n + 1) /\ FSMSend' = "S1_2"
        BY <1>17, <2>2, <2>3, <2>4, <2>5, <2>7, <3>5, WriteIs DEF Pairs
      <4>2. SendDataInv'
        BY <1>5, <1>6, <2>3, <2>4, <2>7, <3>2, <3>3, <4>1 DEF SendDataInv, Pairs, c
      <4> QED
        BY <1>5, <2>1, <2>6, <4>1, <4>2 DEF SendInv, SendStartInv, SendEmptyInv, Pairs, c
    <3> QED
      BY <3>4, <3>5
  <2>8. CASE ~More /\ Last
    <3>1. frame' = FrameOf(h, t, c + 1)
      BY <1>17, <2>2, <2>3, <2>4, <2>5, <2>8, WriteIs DEF Pairs
    <3>2. bufferfifo' = <<>> /\ npackets' = c /\ FSMSend' = "S2"
      <4>1. Stretch(t, c + 1, c + 1) = <<>>
        BY <1>1, <2>3, StretchEmpty
      <4> QED
        BY <1>5, <2>2, <2>3, <2>4, <2>8, <4>1
    <3>3. gap' = PERIOD - 1
      BY <1>1, <1>7, <2>6, <2>8
    <3> QED
      BY <1>1, <1>5, <1>6, <2>1, <2>6, <3>1, <3>2, <3>3
      DEF SendInv, SendStartInv, SendEmptyInv, SendDataInv, Pairs, c
  <2>9. CASE ~More /\ ~Last
    <3>1. frame' = frame /\ FSMSend' = FSMSend /\ npackets' = n /\ FSMSend \in Pairs
      BY <1>17, <2>2, <2>4, <2>5, <2>9, WriteIs DEF Pairs
    <3>2. bufferfifo' = bufferfifo /\ q' = q /\ n = c
      BY <1>5, <2>3, <2>9
    <3>3. gap' <= PERIOD - 2 /\ ~(n < c)
      BY <1>1, <1>7, <2>3, <2>6, <2>9
    <3>4. SendDataInv'
      BY <1>5, <1>6, <2>2, <2>4, <2>9, <3>1, <3>2, <3>3 DEF SendDataInv, Pairs, c
    <3> QED
      BY <1>5, <2>1, <2>6, <3>1, <3>4 DEF SendInv, SendStartInv, SendEmptyInv, Pairs, c
  <2> QED
    BY <1>5, <2>7, <2>8, <2>9 DEF c
<1>18. FSMSend \in {"S0", "S1_header", "S1"} \cup Pairs /\ (c = 0 \/ c > 0)
  BY <1>1 DEF Core, SendInv
<1> QED
  BY <1>5, <1>12, <1>13, <1>14, <1>15, <1>16, <1>17, <1>18 DEF c

-----------------------------------------------------------------------------
(* FSMBuffer. *)

LEMMA Edge ==
  ASSUME SourceInv, Core, startData, Clock
  PROVE  /\ SourceInv' /\ list' = list /\ list \in Lists /\ taken \in Nat
         /\ taken' = (IF readfromfifo /\ fifo # <<>> THEN taken + 1 ELSE taken)
         /\ primitiveFIFOempty' = (fifo = <<>>)
         /\ fifo # <<>> /\ ~readfromfifo => fifo' # <<>>
         /\ FSMSend # "S2" => gap' = gap + 1 /\ framecounter' = framecounter /\ due' = due
         /\ FSMSend = "S2" => /\ gap' = 0 /\ framecounter' = framecounter + 1 /\ due' = due + 1
                              /\ gap = PERIOD - 1
         /\ gap \in Nat /\ framecounter \in Nat /\ PERIOD \in Nat /\ PERIOD >= 15
         /\ due \in Int /\ due = framecounter - OFFSET
         /\ rdpointer \in 0 .. WPL - 1 /\ primitiveinpacket \in 0 .. COUNTMOD - 1
<1>1. readfromfifo \in BOOLEAN /\ framecounter \in Nat /\ gap \in Nat
  BY DEF Core, FillInv, TimeInv
<1>2. Source /\ SendPrimitive /\ Elapsed /\ framecounter_copy' = framecounter
  BY DEF Clock, Source
<1>3. /\ SourceInv' /\ list' = list
      /\ taken' = (IF readfromfifo /\ fifo # <<>> THEN taken + 1 ELSE taken)
      /\ primitiveFIFOempty' = (fifo = <<>>)
      /\ fifo # <<>> /\ ~readfromfifo => fifo' # <<>>
  BY <1>1, <1>2, SourceStep
<1>4. /\ FSMSend # "S2" => gap' = gap + 1 /\ framecounter' = framecounter
      /\ FSMSend = "S2" => gap' = 0 /\ framecounter' = framecounter + 1 /\ gap = PERIOD - 1
  BY <1>2, TimeStep, InTime
<1>5. due \in Int /\ due' = framecounter' - OFFSET /\ due = framecounter - OFFSET
  BY <1>1, Sizes DEF due
<1>6. /\ FSMSend # "S2" => due' = due
      /\ FSMSend = "S2" => due' = due + 1
  BY <1>1, <1>4, <1>5, Sizes
<1>7. list \in Lists /\ taken \in Nat /\ PERIOD \in Nat /\ PERIOD >= 15
  BY PeriodLong, Sizes DEF SourceInv
<1>8. rdpointer \in 0 .. WPL - 1 /\ primitiveinpacket \in 0 .. COUNTMOD - 1
  BY DEF Core, FillInv
<1> QED
  BY <1>1, <1>3, <1>4, <1>5, <1>6, <1>7, <1>8

\* The first reads, and the wait for the timestamp that is due.
LEMMA FirstStep ==
  ASSUME LATEST <= OFFSET, SourceInv, Core, startData, Clock, FSMBuffer \in First,
         primitiveinpacket' = 0
  PROVE  FillInv' /\ FSMBuffer' \in First \cup {"S1"}
<1>1. /\ rdpointer = 0 /\ taken = (IF FSMBuffer = "S1_1_Latency" THEN 1 ELSE 0)
      /\ FSMBuffer = "S0" => Early(2) /\ (primitiveFIFOempty \/ fifo # <<>>)
      /\ FSMBuffer = "S1_Latency" => Early(3) /\ fifo # <<>>
      /\ FSMBuffer = "S1_1_Latency" => Early(4)
      /\ readfromfifo = (FSMBuffer = "S1_Latency")
  BY DEF Core, FillInv, FillFirstInv, First
<1>2. FillBuffer
  BY DEF Clock
<1>3. LATEST \in Nat /\ OFFSET \in Nat /\ COUNTMOD \in Nat \ {0} /\ WPL \in Nat \ {0}
  BY Sizes
<1>4. ASSUME NEW n \in 0 .. 4, Early(n)
      PROVE  \/ framecounter' < LATEST
             \/ framecounter' = LATEST /\ gap' <= n + 1
  BY <1>3, <1>4, Edge DEF Early
<1>5. CASE FSMBuffer = "S0" /\ primitiveFIFOempty
  <2>1. FSMBuffer' = "S0" /\ readfromfifo' = FALSE /\ sendflag' = FALSE /\ rdpointer' = 0
    BY <1>1, <1>2, <1>5, FillSteps DEF Fill
  <2>2. taken < NumLines(list)
    <3>1. Len(list) \in Nat /\ taken = 0
      BY <1>1, <1>5, ListFacts, Edge
    <3>2. Len(list) \div WPL \in Nat
      BY <1>3, <3>1
    <3> QED
      BY <3>1, <3>2 DEF NumLines
  <2>3. Early(1)
    BY <1>1, <1>3, <1>5, <2>2, Edge DEF Core, Supply, Early
  <2>4. Early(2)'
    BY <1>4, <2>3, 1 \in 0 .. 4, 1 + 1 = 2 DEF Early
  <2>5. taken' = 0 /\ (primitiveFIFOempty' \/ fifo' # <<>>)
    BY <1>1, <1>5, Edge
  <2> QED
    <3>1. FillFirstInv'
      BY <2>1, <2>4, <2>5 DEF FillFirstInv, First, Early
    <3>2. FillStoreInv' /\ FillWaitInv'
      BY <2>1 DEF FillStoreInv, FillWaitInv, Storing
    <3>3. /\ readfromfifo' = (FSMBuffer' = "S1_Latency" \/ FSMBuffer' = "S2_Latency")
          /\ sendflag' = (FSMBuffer' = "S3")
      BY <2>1
    <3>4. rdpointer' \in 0 .. WPL - 1 /\ primitiveinpacket' \in 0 .. COUNTMOD - 1
      BY <1>3, <2>1
    <3>5. FSMBuffer' \in First \cup {"S1"}
      BY <2>1 DEF First
    <3> QED
      BY <3>1, <3>2, <3>3, <3>4, <3>5 DEF FillInv
<1>6. CASE FSMBuffer = "S0" /\ ~primitiveFIFOempty
  <2>1. FSMBuffer' = "S1_Latency" /\ readfromfifo' = TRUE /\ sendflag' = FALSE /\ rdpointer' = 0
    BY <1>1, <1>2, <1>6, FillSteps DEF Fill
  <2>2. Early(3)'
    BY <1>1, <1>4, <1>6, 2 \in 0 .. 4, 2 + 1 = 3 DEF Early
  <2>3. taken' = 0 /\ fifo' # <<>>
    BY <1>1, <1>6, Edge
  <2> QED
    <3>1. FillFirstInv'
      BY <2>1, <2>2, <2>3 DEF FillFirstInv, First, Early
    <3>2. FillStoreInv' /\ FillWaitInv'
      BY <2>1 DEF FillStoreInv, FillWaitInv, Storing
    <3>3. /\ readfromfifo' = (FSMBuffer' = "S1_Latency" \/ FSMBuffer' = "S2_Latency")
          /\ sendflag' = (FSMBuffer' = "S3")
      BY <2>1
    <3>4. rdpointer' \in 0 .. WPL - 1 /\ primitiveinpacket' \in 0 .. COUNTMOD - 1
      BY <1>3, <2>1
    <3>5. FSMBuffer' \in First \cup {"S1"}
      BY <2>1 DEF First
    <3> QED
      BY <3>1, <3>2, <3>3, <3>4, <3>5 DEF FillInv
<1>7. CASE FSMBuffer = "S1_Latency"
  <2>1. FSMBuffer' = "S1_1_Latency" /\ readfromfifo' = FALSE /\ sendflag' = FALSE /\ rdpointer' = 0
    BY <1>1, <1>2, <1>7, FillSteps DEF Fill
  <2>2. Early(4)'
    BY <1>1, <1>4, <1>7, 3 \in 0 .. 4, 3 + 1 = 4 DEF Early
  <2>3. taken' = 1
    <3>1. taken = 0 /\ fifo # <<>> /\ readfromfifo = TRUE
      BY <1>1, <1>7
    <3>2. taken' = taken + 1
      BY <3>1, Edge
    <3> QED
      BY <3>1, <3>2
  <2> QED
    <3>1. FillFirstInv'
      BY <2>1, <2>2, <2>3 DEF FillFirstInv, First, Early
    <3>2. FillStoreInv' /\ FillWaitInv'
      BY <2>1 DEF FillStoreInv, FillWaitInv, Storing
    <3>3. /\ readfromfifo' = (FSMBuffer' = "S1_Latency" \/ FSMBuffer' = "S2_Latency")
          /\ sendflag' = (FSMBuffer' = "S3")
      BY <2>1
    <3>4. rdpointer' \in 0 .. WPL - 1 /\ primitiveinpacket' \in 0 .. COUNTMOD - 1
      BY <1>3, <2>1
    <3>5. FSMBuffer' \in First \cup {"S1"}
      BY <2>1 DEF First
    <3> QED
      BY <3>1, <3>2, <3>3, <3>4, <3>5 DEF FillInv
<1>8. CASE FSMBuffer = "S1_1_Latency"
  <2>1. FSMBuffer' = "S1" /\ readfromfifo' = FALSE /\ sendflag' = FALSE /\ rdpointer' = 0
    BY <1>1, <1>2, <1>8, FillSteps DEF Fill
  <2>2. taken' = 1
    BY <1>1, <1>8, Edge
  <2>3. next' = 1
    <3>1. next' = Base(1) + 0 + 1
      BY <2>1, <2>2 DEF next
    <3> QED
      BY <3>1, BaseFacts
  <2>4. due' \in Int /\ due' <= 0
    <3>1. framecounter' <= LATEST /\ framecounter' \in Nat
      BY <1>1, <1>3, <1>4, <1>8, 4 \in 0 .. 4, Edge
    <3>2. due' = framecounter' - OFFSET
      BY DEF due
    <3>3. ASSUME NEW f \in Nat, f <= LATEST PROVE f - OFFSET \in Int /\ f - OFFSET <= 0
      BY <1>3, <3>3
    <3> QED
      BY <3>1, <3>2, <3>3
  <2>4a. due' - 1 \in Int /\ due' - 1 <= 0
    <3> DEFINE d == due'
    <3>1. d \in Int /\ d <= 0
      BY <2>4
    <3> HIDE DEF d
    <3>2. d - 1 \in Int /\ d - 1 <= 0
      BY <3>1
    <3> QED
      BY <3>2 DEF d
  <2>5. /\ Behind(list', next', due') /\ Ahead(list', next', due')
        /\ Ahead(list', next', due' - 1)
    <3>1. list' \in Lists
      BY Edge
    <3> QED
      BY <2>3, <2>4, <2>4a, <3>1, AtStart
  <2>6. Waiting'
    BY <2>5 DEF Waiting
  <2> QED
    <3>1. FillFirstInv' /\ FillStoreInv'
      BY <2>1 DEF FillFirstInv, FillStoreInv, First, Storing
    <3>2. FillWaitInv'
      BY <2>1, <2>2, <2>6 DEF FillWaitInv
    <3>3. /\ readfromfifo' = (FSMBuffer' = "S1_Latency" \/ FSMBuffer' = "S2_Latency")
          /\ sendflag' = (FSMBuffer' = "S3")
      BY <2>1
    <3>4. rdpointer' \in 0 .. WPL - 1 /\ primitiveinpacket' \in 0 .. COUNTMOD - 1
      BY <1>3, <2>1
    <3>5. FSMBuffer' \in First \cup {"S1"}
      BY <2>1 DEF First
    <3> QED
      BY <3>1, <3>2, <3>3, <3>4, <3>5 DEF FillInv
<1> QED
  BY <1>5, <1>6, <1>7, <1>8 DEF First

LEMMA WaitStep ==
  ASSUME LATEST <= OFFSET, SourceInv, Core, startData, Clock, FSMBuffer = "S1", ~Match,
         primitiveinpacket' = IF FSMSend = "S2" THEN 0 ELSE primitiveinpacket
  PROVE  FillInv' /\ FSMBuffer' = "S1"
<1>1. taken > 0 /\ Waiting /\ ~readfromfifo
  BY DEF Core, FillInv, FillWaitInv
<1>2. /\ FSMBuffer' = "S1" /\ readfromfifo' = FALSE /\ sendflag' = FALSE
      /\ rdpointer' = rdpointer
  BY FillSteps DEF Fill, Clock
<1>3. taken' = taken
  BY <1>1, Edge
<1>4. next' = next
  BY <1>2, <1>3 DEF next
<1>5. next \in Nat \ {0}
  BY <1>1, NextWord, Edge
<1>6. list' = list /\ list \in Lists /\ gap \in Nat /\ due \in Int
  BY Edge
<1>7. Waiting'
  <2>1. CASE FSMSend = "S2"
    <3>1. gap' = 0 /\ due' = due + 1 /\ gap > 1 /\ primitiveinpacket' = 0 /\ due' - 1 = due
      BY <2>1, Edge
    <3>2. /\ Ahead(list, next, due)
          /\ Behind(list, next, due) \/ Taken(list, next, due, primitiveinpacket)
      BY <1>1, <1>6, <3>1 DEF Waiting
    <3>3. Behind(list, next, due + 1)
      BY <1>5, <1>6, <3>2, BehindLater, TakenBehind
    <3> QED
      BY <1>4, <1>6, <3>1, <3>2, <3>3 DEF Waiting
  <2>2. CASE FSMSend # "S2" /\ gap = 0
    <3>1. gap' = 1 /\ due' = due /\ primitiveinpacket' = primitiveinpacket
      BY <2>2, Edge
    <3> QED
      BY <1>1, <1>4, <1>6, <2>2, <3>1 DEF Waiting
  <2>3. CASE FSMSend # "S2" /\ gap = 1
    <3>1. gap' = 2 /\ due' = due /\ primitiveinpacket' = primitiveinpacket
      BY <2>3, Edge
    <3>2. Ahead(list, next, due)
      BY <2>3, NoMatch
    <3> QED
      BY <1>1, <1>4, <1>6, <2>3, <3>1, <3>2 DEF Waiting
  <2>4. CASE FSMSend # "S2" /\ gap > 1
    <3>1. gap' \in Nat /\ gap' > 1 /\ due' = due /\ primitiveinpacket' = primitiveinpacket
      BY <2>4, Edge
    <3> QED
      BY <1>1, <1>4, <1>6, <2>4, <3>1 DEF Waiting
  <2> QED
    BY <1>6, <2>1, <2>2, <2>3, <2>4
<1>8. primitiveinpacket' \in 0 .. COUNTMOD - 1 /\ rdpointer' \in 0 .. WPL - 1
  <2>1. rdpointer \in 0 .. WPL - 1 /\ primitiveinpacket \in 0 .. COUNTMOD - 1
    BY Edge
  <2>2. 0 \in 0 .. COUNTMOD - 1
    BY Sizes
  <2> QED
    BY <1>2, <2>1, <2>2
<1>9. FillFirstInv' /\ FillStoreInv'
  BY <1>2 DEF FillFirstInv, FillStoreInv, First, Storing
<1>10. FillWaitInv'
  BY <1>1, <1>2, <1>3, <1>7 DEF FillWaitInv
<1>11. /\ readfromfifo' = (FSMBuffer' = "S1_Latency" \/ FSMBuffer' = "S2_Latency")
       /\ sendflag' = (FSMBuffer' = "S3")
  BY <1>2
<1> QED
  BY <1>2, <1>8, <1>9, <1>10, <1>11 DEF FillInv

\* While FSMSend is idle and not called it stays so.
LEMMA IdleStep ==
  ASSUME SourceInv, Core, startData, Clock, FSMSend = "S0", ~sendflag, gap # PERIOD - 5
  PROVE  /\ FSMSend' = "S0" /\ npackets' = 0 /\ frame' = <<>>
         /\ ~Pop /\ ~Closing /\ ~Aclr /\ due' = due /\ gap' = gap + 1
<1>1. ~Pop /\ ~Closing /\ ~Aclr
  BY DEF Pop, Closing, Aclr
<1>2. ~HeaderTime
  <2>1. latency = PERIOD - 1 - gap
    BY DEF Core, TimeInv
  <2> QED
    BY <2>1, Edge DEF HeaderTime
<1>3. Send("S0", FALSE)
  BY <1>2, SendSteps DEF Clock
<1>4. Write = <<>> /\ frame = <<>>
  BY WriteIs DEF Core, SendInv, SendStartInv
<1>5. frame' = <<>> \o <<>> /\ FSMSend' = "S0" /\ npackets' = 0
  BY <1>1, <1>3, <1>4 DEF Send
<1>6. frame' = <<>>
  BY <1>5, ConcatEmpty, <<>> \in Seq({})
<1> QED
  BY <1>1, <1>5, <1>6, Edge

\* A word is stored.
LEMMA StoreNext ==
  ASSUME SourceInv, Core, startData, Clock, Match \/ Collect
  PROVE  /\ FSMBuffer' \in {"S2", "S2_Latency"} /\ sendflag' = FALSE
         /\ readfromfifo' = (FSMBuffer' = "S2_Latency")
         /\ taken > 0 /\ taken' = taken /\ next \in Nat \ {0} /\ next' = next + 1
         /\ dataout = Word(list, next)
         /\ rdpointer' \in 1 .. WPL - 1
         /\ FSMBuffer' = "S2_Latency" => rdpointer' = WPL - 1 /\ rdpointer # 0
<1>1. FSMBuffer \in {"S1", "S2"} /\ FillBuffer
  BY DEF Match, Collect, Clock
<1>2. taken > 0 /\ ~readfromfifo
  BY <1>1 DEF Core, FillInv, FillStoreInv, FillWaitInv, Storing
<1>3. taken' = taken /\ rdpointer \in 0 .. WPL - 1 /\ taken \in Nat
  BY <1>2, Edge
<1>4. next \in Nat \ {0} /\ next = Base(taken) + rdpointer + 1 /\ dataout = Word(list, next)
  BY <1>1, <1>2, <1>3, NextWord
<1>5. Base(taken) \in Nat
  BY <1>2, <1>3, BaseFacts
<1>6. CASE rdpointer # WPL - 1
  <2>1. /\ FSMBuffer' = "S2" /\ sendflag' = FALSE /\ readfromfifo' = FALSE
        /\ rdpointer' = (rdpointer + 1) % WPL
    BY <1>1, <1>6, FillSteps DEF Fill
  <2>2. rdpointer + 1 \in 0 .. WPL - 1 /\ rdpointer + 1 \in 1 .. WPL - 1
    BY <1>3, <1>6, Sizes
  <2>3. rdpointer' = rdpointer + 1
    BY <2>1, <2>2, ModSmall, Sizes
  <2>4. next' = Base(taken) + (rdpointer + 1) + 1
    BY <1>2, <1>3, <2>1, <2>3 DEF next
  <2>5. next' = next + 1
    BY <1>3, <1>4, <1>5, <2>4
  <2> QED
    BY <1>2, <1>3, <1>4, <2>1, <2>2, <2>3, <2>5
<1>7. CASE rdpointer = WPL - 1
  <2>1. /\ FSMBuffer' = "S2_Latency" /\ sendflag' = FALSE /\ readfromfifo' = TRUE
        /\ rdpointer' = rdpointer
    BY <1>1, <1>7, FillSteps DEF Fill
  <2>2. next' = Base(taken) + rdpointer + 2
    BY <1>2, <1>3, <2>1 DEF next
  <2>3. next' = next + 1
    BY <1>3, <1>4, <1>5, <2>2
  <2>4. rdpointer \in 1 .. WPL - 1 /\ rdpointer # 0
    BY <1>3, <1>7, Sizes
  <2> QED
    BY <1>2, <1>3, <1>4, <1>7, <2>1, <2>3, <2>4
<1> QED
  BY <1>6, <1>7

LEMMA StoreFill ==
  ASSUME SourceInv, Core, startData, Clock, Match \/ Collect,
         primitiveinpacket' \in 0 .. COUNTMOD - 1, gap' \in Nat, gap' >= 2,
         Taken(list, next + 1, due', primitiveinpacket'),
         gap' <= 2 * primitiveinpacket' + (IF FSMBuffer' = "S2_Latency" THEN 2 ELSE 3)
  PROVE  FillInv'
<1>1. FillFirstInv' /\ FillWaitInv'
  BY StoreNext DEF FillFirstInv, FillWaitInv, First
<1>2. FillStoreInv'
  <2>1. rdpointer' # 0
    <3>1. rdpointer' \in 1 .. WPL - 1
      BY StoreNext
    <3> QED
      BY <3>1, Sizes
  <2>2. Slack' = IF FSMBuffer' = "S2_Latency" THEN 2 ELSE 3
    BY <2>1, StoreNext DEF Slack
  <2>3. taken' > 0 /\ next' = next + 1 /\ list' = list
    BY StoreNext, Edge
  <2>4. /\ FSMBuffer' = "S2_Latency" => rdpointer' = WPL - 1
        /\ FSMBuffer' # "S2_2_Latency"
    BY StoreNext
  <2>5. Taken(list', next', due', primitiveinpacket')
    BY <2>3
  <2> QED
    BY <2>2, <2>3, <2>4, <2>5 DEF FillStoreInv
<1>3. /\ FSMBuffer' \in Storing /\ FSMBuffer' # "S3"
      /\ readfromfifo' = (FSMBuffer' = "S1_Latency" \/ FSMBuffer' = "S2_Latency")
      /\ sendflag' = (FSMBuffer' = "S3")
  BY StoreNext DEF Storing
<1>4. rdpointer' \in 0 .. WPL - 1
  <2>1. rdpointer' \in 1 .. WPL - 1
    BY StoreNext
  <2> QED
    BY <2>1, Sizes
<1> QED
  BY <1>1, <1>2, <1>3, <1>4 DEF FillInv

LEMMA MatchStep ==
  ASSUME SourceInv, Core, startData, Clock, Match
  PROVE  FillInv' /\ SendInv'
<1>1. gap = 1 /\ dataout = <<due, 0>> /\ Taken(list, next + 1, due, 0)
  BY MatchTime
<1>2. FSMSend = "S0" /\ FSMBuffer = "S1" /\ ~sendflag
  <2>1. FSMBuffer = "S1"
    BY DEF Match
  <2>2. sendflag = (FSMBuffer = "S3")
    BY DEF Core, FillInv
  <2>3. FSMSend # "S0" => gap >= 2
    BY DEF Core, SendInv
  <2>4. ~sendflag
    BY <2>1, <2>2
  <2>5. FSMSend = "S0"
    BY <1>1, <2>3
  <2> QED
    BY <2>1, <2>4, <2>5
<1>3. bufferfifo = <<>>
  BY <1>2 DEF Core, SendInv, SendStartInv, Storing
<1>4. /\ FSMSend' = "S0" /\ npackets' = 0 /\ frame' = <<>>
      /\ ~Pop /\ ~Closing /\ ~Aclr /\ due' = due /\ gap' = 2
  BY <1>1, <1>2, IdleStep, Edge
<1>5. primitiveinpacket' = 0
  <2>1. ~Collect
    BY <1>2 DEF Collect
  <2> QED
    BY <1>4, <2>1 DEF Clock, Count
<1>6. bufferfifo' = Stretch(due', 0, 0 + 1)
  <2>1. bufferfifo' = Append(<<>>, <<due, 0>>)
    BY <1>1, <1>3, <1>4, Sizes, Len(<<>>) = 0 DEF Clock, Buffer
  <2>2. Stretch(due, 0, 0) = <<>> /\ Append(Stretch(due, 0, 0), <<due, 0>>) = Stretch(due, 0, 0 + 1)
    BY StretchEmpty, StretchAppend, Edge
  <2> QED
    BY <1>4, <2>1, <2>2
<1>7. FSMBuffer' \in Storing
  BY StoreNext DEF Storing
<1>8. FillInv'
  <2>1. 0 \in 0 .. COUNTMOD - 1
    BY Sizes
  <2> QED
    BY <1>1, <1>4, <1>5, <2>1, StoreFill
<1>9. SendStartInv'
  BY <1>4, <1>5, <1>6, <1>7 DEF SendStartInv
<1> QED
  BY <1>4, <1>8, <1>9 DEF SendInv, SendEmptyInv, SendDataInv

\* FSMSend is idle while the entry is stored.
LEMMA StoringIdle ==
  ASSUME SourceInv, Core, startData, Clock, FSMBuffer \in Storing
  PROVE  /\ FSMSend = "S0" /\ FSMSend' = "S0" /\ npackets' = 0 /\ frame' = <<>>
         /\ ~Pop /\ ~Closing /\ ~Aclr /\ ~Match /\ due' = due /\ gap' = gap + 1
         /\ bufferfifo = Stretch(due, 0, primitiveinpacket + 1)
<1>1. FSMSend = "S0" /\ ~sendflag /\ ~Match
  BY DEF Core, SendInv, FillInv, Storing, First, Match
<1>2. gap # PERIOD - 5
  BY InTime, Edge
<1>3. bufferfifo = Stretch(due, 0, primitiveinpacket + 1)
  BY <1>1 DEF Core, SendInv, SendStartInv
<1> QED
  BY <1>1, <1>2, <1>3, IdleStep

LEMMA CollectStep ==
  ASSUME SourceInv, Core, startData, Clock, Collect
  PROVE  FillInv' /\ SendInv'
<1> DEFINE c == primitiveinpacket
<1>1. FSMBuffer = "S2" /\ FSMBuffer \in Storing /\ dataout[2] # 0
  BY DEF Collect, Storing, IsStamp
<1>2. /\ FSMSend' = "S0" /\ npackets' = 0 /\ frame' = <<>>
      /\ ~Pop /\ ~Closing /\ ~Aclr /\ ~Match /\ due' = due /\ gap' = gap + 1
      /\ bufferfifo = Stretch(due, 0, c + 1)
  BY <1>1, StoringIdle
<1>3. /\ Taken(list, next, due, c) /\ gap >= 2 /\ list \in Lists /\ due \in Nat
      /\ c \in Nat /\ gap \in Nat
  BY <1>1, Fits, Edge
<1>4. dataout = Word(list, next) /\ next \in Nat \ {0}
  BY StoreNext
<1>5. /\ dataout = <<due, c + 1>> /\ Taken(list, next + 1, due, c + 1)
      /\ c + 1 \in 0 .. COUNTMOD - 1
  BY <1>1, <1>3, <1>4, TakenMore
<1>6. primitiveinpacket' = c + 1
  <2>1. primitiveinpacket' = (c + 1) % COUNTMOD
    BY <1>2 DEF Clock, Count
  <2> QED
    BY <1>5, <2>1, ModSmall, Sizes
<1>7. bufferfifo' = Stretch(due', 0, (c + 1) + 1)
  <2>1. Len(bufferfifo) = c + 1
    <3>1. Len(bufferfifo) = (c + 1) - 0
      <4>1. 0 <= c + 1 /\ c + 1 \in Nat /\ 0 \in Nat /\ due \in Int
        BY <1>3
      <4>2. Len(Stretch(due, 0, c + 1)) = (c + 1) - 0
        BY <4>1, StretchType, Zenon
      <4> QED
        BY <1>2, <4>2
    <3> QED
      BY <1>3, <3>1
  <2>2. Len(bufferfifo) < BUFSIZE
    BY <1>3, <1>5, <2>1, Sizes
  <2>3. bufferfifo' = Append(bufferfifo, <<due, c + 1>>)
    BY <1>2, <1>5, <2>2 DEF Clock, Buffer
  <2>4. Append(Stretch(due, 0, c + 1), <<due, c + 1>>) = Stretch(due, 0, (c + 1) + 1)
    <3>1. c + 1 \in Nat /\ due \in Int
      BY <1>3
    <3> QED
      BY <3>1, StretchAppend, Zenon
  <2> QED
    BY <1>2, <2>3, <2>4
<1>8. FSMBuffer' \in Storing
  BY StoreNext DEF Storing
<1>9. gap' <= 2 * (c + 1) + (IF FSMBuffer' = "S2_Latency" THEN 2 ELSE 3)
  <2>1. gap <= 2 * c + (IF rdpointer = 0 THEN 4 ELSE 3)
    BY <1>1 DEF Core, FillInv, FillStoreInv, Slack
  <2>2. FSMBuffer' = "S2_Latency" => rdpointer # 0
    BY StoreNext
  <2> QED
    BY <1>2, <1>3, <2>1, <2>2
<1>10. FillInv'
  <2>1. gap' \in Nat /\ gap' >= 2
    BY <1>2, <1>3
  <2> QED
    BY <1>2, <1>5, <1>6, <1>9, <2>1, StoreFill
<1>11. SendStartInv'
  BY <1>2, <1>6, <1>7, <1>8 DEF SendStartInv
<1> QED
  BY <1>2, <1>10, <1>11 DEF SendInv, SendEmptyInv, SendDataInv

\* The other states of FSMBuffer in which FSMSend is idle.
LEMMA LineStep ==
  ASSUME LATEST <= OFFSET, SourceInv, Core, startData, Clock,
         FSMBuffer \in {"S2_Latency", "S2_2_Latency"}
  PROVE  FillInv' /\ SendInv'
<1> DEFINE c == primitiveinpacket
<1>1. FSMBuffer \in Storing /\ ~Collect /\ FillBuffer
  BY DEF Collect, Storing, Clock
<1>2. /\ FSMSend' = "S0" /\ npackets' = 0 /\ frame' = <<>>
      /\ ~Pop /\ ~Closing /\ ~Match /\ due' = due /\ gap' = gap + 1
      /\ bufferfifo = Stretch(due, 0, c + 1)
  BY <1>1, StoringIdle
<1>3. /\ Taken(list, next, due, c) /\ gap >= 2 /\ list \in Lists /\ due \in Nat \ {0}
      /\ c \in Nat /\ gap \in Nat /\ taken > 0 /\ taken \in Nat /\ c \in 0 .. COUNTMOD - 1
  BY <1>1, Fits, Edge
<1>4. bufferfifo' = bufferfifo /\ primitiveinpacket' = c
  BY <1>1, <1>2, QuietBuffer DEF Clock
<1>5. CASE FSMBuffer = "S2_Latency"
  <2>1. readfromfifo = TRUE /\ rdpointer = WPL - 1 /\ gap <= 2 * c + 2
    <3>1. readfromfifo = (FSMBuffer = "S1_Latency" \/ FSMBuffer = "S2_Latency")
      BY DEF Core, FillInv
    <3>2. readfromfifo = TRUE
      BY <1>5, <3>1
    <3>3. rdpointer = WPL - 1 /\ gap <= 2 * c + 2
      BY <1>1, <1>5 DEF Core, FillInv, FillStoreInv, Slack
    <3> QED
      BY <3>2, <3>3
  <2>2. next = Base(taken + 1) + 1 /\ (next - 1 <= Len(list) => taken < NumLines(list))
    BY <1>3, <1>5, <2>1, NextLine
  <2>3. taken < NumLines(list)
    BY <1>3, <2>2 DEF Taken
  <2>4. framecounter > LATEST
    BY <1>3, Edge, Sizes
  <2>5. fifo # <<>>
    BY <2>3, <2>4 DEF Core, Supply
  <2>6. taken' = taken + 1
    BY <2>1, <2>5, Edge
  <2>7. /\ FSMBuffer' = "S2_2_Latency" /\ readfromfifo' = FALSE /\ sendflag' = FALSE
        /\ rdpointer' = (rdpointer + 1) % WPL
    BY <1>1, <1>5, FillSteps DEF Fill
  <2>8. rdpointer' = 0
    BY <2>1, <2>7, ModSelf, Sizes, WPL - 1 + 1 = WPL
  <2>9. next' = next
    <3>1. next' = Base(taken + 1) + 0 + 1
      BY <1>3, <2>6, <2>7, <2>8 DEF next
    <3>2. Base(taken + 1) \in Nat
      BY <1>3, BaseFacts
    <3> QED
      BY <2>2, <3>1, <3>2
  <2>10. FillStoreInv'
    <3>1. Slack' = 3
      BY <2>7 DEF Slack
    <3>2. gap' >= 2 /\ gap' <= 2 * c + 3 /\ taken' > 0
      BY <1>2, <1>3, <2>1, <2>6
    <3>3. Taken(list', next', due', c)
      BY <1>2, <1>3, <2>9, Edge
    <3> QED
      BY <1>4, <2>7, <2>8, <3>1, <3>2, <3>3 DEF FillStoreInv
  <2>11. FillFirstInv' /\ FillWaitInv'
    BY <2>7 DEF FillFirstInv, FillWaitInv, First
  <2>12. FSMBuffer' \in Storing /\ rdpointer' \in 0 .. WPL - 1
    BY <2>7, <2>8, Sizes DEF Storing
  <2>13. SendStartInv'
    BY <1>2, <1>4, <2>12 DEF SendStartInv
  <2>14. FillInv'
    BY <1>3, <1>4, <2>7, <2>10, <2>11, <2>12 DEF FillInv
  <2> QED
    BY <1>2, <2>13, <2>14 DEF SendInv, SendEmptyInv, SendDataInv
<1>6. CASE FSMBuffer = "S2_2_Latency"
  <2>1. readfromfifo = FALSE /\ rdpointer = 0 /\ gap <= 2 * c + 3
    <3>1. readfromfifo = (FSMBuffer = "S1_Latency" \/ FSMBuffer = "S2_Latency")
      BY DEF Core, FillInv
    <3>2. readfromfifo = FALSE
      BY <1>6, <3>1
    <3>3. rdpointer = 0 /\ gap <= 2 * c + 3
      BY <1>1, <1>6 DEF Core, FillInv, FillStoreInv, Slack
    <3> QED
      BY <3>2, <3>3
  <2>2. taken' = taken
    BY <2>1, Edge
  <2>3. /\ FSMBuffer' = "S2" /\ readfromfifo' = FALSE /\ sendflag' = FALSE
        /\ rdpointer' = 0
    BY <1>1, <1>6, <2>1, FillSteps DEF Fill
  <2>4. next' = next
    BY <1>6, <2>1, <2>2, <2>3 DEF next
  <2>5. FillStoreInv'
    <3>1. Slack' = 4
      BY <2>3 DEF Slack
    <3>2. gap' >= 2 /\ gap' <= 2 * c + 4 /\ taken' > 0
      BY <1>2, <1>3, <2>1, <2>2
    <3>3. Taken(list', next', due', c)
      BY <1>2, <1>3, <2>4, Edge
    <3> QED
      BY <1>4, <2>3, <3>1, <3>2, <3>3 DEF FillStoreInv
  <2>6. FillFirstInv' /\ FillWaitInv'
    BY <2>3 DEF FillFirstInv, FillWaitInv, First
  <2>7. FSMBuffer' \in Storing /\ rdpointer' \in 0 .. WPL - 1
    BY <2>3, Sizes DEF Storing
  <2>8. SendStartInv'
    BY <1>2, <1>4, <2>7 DEF SendStartInv
  <2>9. FillInv'
    BY <1>3, <1>4, <2>3, <2>5, <2>6, <2>7 DEF FillInv
  <2> QED
    BY <1>2, <2>8, <2>9 DEF SendInv, SendEmptyInv, SendDataInv
<1> QED
  BY <1>5, <1>6

\* The end of the entry, and the call of FSMSend.
LEMMA EndStep ==
  ASSUME SourceInv, Core, startData, Clock, FSMBuffer = "S2", IsStamp
  PROVE  FillInv' /\ SendInv'
<1> DEFINE c == primitiveinpacket
<1>1. FSMBuffer \in Storing /\ ~Collect /\ FillBuffer /\ dataout[2] = 0
  BY DEF Collect, Storing, Clock, IsStamp
<1>2. /\ FSMSend' = "S0" /\ npackets' = 0 /\ frame' = <<>>
      /\ ~Pop /\ ~Closing /\ ~Match /\ due' = due /\ gap' = gap + 1
      /\ bufferfifo = Stretch(due, 0, c + 1)
  BY <1>1, StoringIdle
<1>3. /\ Taken(list, next, due, c) /\ gap >= 2 /\ list \in Lists /\ due \in Nat \ {0}
      /\ c \in Nat /\ gap \in Nat /\ taken > 0 /\ taken \in Nat /\ c \in 0 .. COUNTMOD - 1
  BY <1>1, Fits, Edge
<1>4. bufferfifo' = bufferfifo /\ primitiveinpacket' = c
  BY <1>1, <1>2, QuietBuffer DEF Clock
<1>5. rdpointer \in 0 .. WPL - 1 /\ readfromfifo = FALSE /\ gap <= 2 * c + 4
  <2>1. readfromfifo = (FSMBuffer = "S1_Latency" \/ FSMBuffer = "S2_Latency")
    BY DEF Core, FillInv
  <2>2. readfromfifo = FALSE
    BY <2>1
  <2>3. gap <= 2 * c + Slack /\ Slack \in Nat /\ Slack <= 4
    BY <1>1 DEF Core, FillInv, FillStoreInv, Slack
  <2>4. gap <= 2 * c + 4
    BY <1>3, <2>3
  <2> QED
    BY <2>2, <2>4, Edge
<1>6. dataout = Word(list, next) /\ next \in Nat \ {0}
  BY <1>3, <1>5, NextWord
<1>7. c > 0 /\ Ahead(list, next, due)
  BY <1>1, <1>3, <1>6, TakenEnd
<1>8. taken' = taken
  BY <1>5, Edge
<1>9. /\ FSMBuffer' = "S3" /\ readfromfifo' = FALSE /\ sendflag' = TRUE
      /\ rdpointer' = rdpointer
  BY <1>1, FillSteps DEF Fill
<1>10. next' = next
  BY <1>8, <1>9 DEF next
<1>11. FillWaitInv'
  <2>1. gap' \in Nat /\ gap' > 1 /\ gap' >= 2 /\ gap' <= 2 * c + 5 /\ c # 0
    BY <1>2, <1>3, <1>5, <1>7
  <2>2. Ahead(list', next', due') /\ Taken(list', next', due', c)
    BY <1>2, <1>3, <1>7, <1>10, Edge
  <2>3. Waiting'
    BY <1>4, <2>1, <2>2 DEF Waiting
  <2> QED
    BY <1>3, <1>4, <1>7, <1>8, <2>1, <2>3 DEF FillWaitInv
<1>12. FillFirstInv' /\ FillStoreInv'
  BY <1>9 DEF FillFirstInv, FillStoreInv, First, Storing
<1>13. SendStartInv'
  BY <1>2, <1>4, <1>9 DEF SendStartInv
<1>14. FillInv'
  BY <1>3, <1>4, <1>5, <1>9, <1>11, <1>12 DEF FillInv
<1> QED
  BY <1>2, <1>13, <1>14 DEF SendInv, SendEmptyInv, SendDataInv

LEMMA CallStep ==
  ASSUME SourceInv, Core, startData, Clock, FSMBuffer = "S3"
  PROVE  FillInv' /\ SendInv'
<1> DEFINE c == primitiveinpacket
<1>1. /\ FSMSend = "S0" /\ sendflag = TRUE /\ readfromfifo = FALSE /\ ~Match /\ ~Collect
      /\ FSMBuffer \notin First \cup Storing
  BY DEF Core, SendInv, FillInv, First, Storing, Match, Collect
<1>2. /\ taken > 0 /\ Waiting /\ gap >= 2 /\ c > 0 /\ gap <= 2 * c + 5
  BY DEF Core, FillInv, FillWaitInv
<1>3. /\ gap' = gap + 1 /\ framecounter' = framecounter /\ due' = due /\ gap \in Nat /\ c \in Nat
      /\ c \in 0 .. COUNTMOD - 1 /\ list' = list /\ taken' = taken
      /\ rdpointer \in 0 .. WPL - 1
  BY <1>1, Edge
<1>4. frame = <<>> /\ npackets = 0 /\ bufferfifo = Stretch(due, 0, c + 1)
  BY <1>1 DEF Core, SendInv, SendStartInv
<1>5. ~Pop /\ ~Closing /\ Write = <<>>
  BY <1>1, WriteIs DEF Pop, Closing
<1>6. bufferfifo' = bufferfifo /\ primitiveinpacket' = c
  BY <1>1, <1>5, QuietBuffer DEF Clock
<1>7. Send("S1_header", FALSE)
  BY <1>1, SendSteps DEF Clock
<1>8. FSMSend' = "S1_header" /\ npackets' = 0 /\ frame' = <<>>
  <2>1. FSMSend' = "S1_header" /\ npackets' = 0 /\ frame' = <<>> \o <<>>
    BY <1>1, <1>4, <1>5, <1>7 DEF Send
  <2> QED
    BY <2>1, ConcatEmpty, <<>> \in Seq({})
<1>9. /\ FSMBuffer' = "S1" /\ readfromfifo' = FALSE /\ sendflag' = FALSE
      /\ rdpointer' = rdpointer
  BY FillSteps DEF Fill, Clock
<1>10. next' = next
  BY <1>3, <1>9 DEF next
<1>11. FillWaitInv'
  <2>1. gap' \in Nat /\ gap' > 1 /\ gap > 1
    BY <1>2, <1>3
  <2>2. Waiting'
    BY <1>2, <1>3, <1>6, <1>10, <2>1 DEF Waiting
  <2> QED
    BY <1>2, <1>3, <1>9, <2>2 DEF FillWaitInv
<1>12. FillFirstInv' /\ FillStoreInv'
  BY <1>9 DEF FillFirstInv, FillStoreInv, First, Storing
<1>13. FillInv'
  BY <1>3, <1>6, <1>9, <1>11, <1>12 DEF FillInv
<1>14. SendDataInv'
  <2>1. gap' <= 2 * c + 6
    BY <1>2, <1>3
  <2> QED
    BY <1>3, <1>4, <1>6, <1>8, <2>1 DEF SendDataInv, Pairs
<1>15. gap' >= 2
  BY <1>2, <1>3
<1> QED
  BY <1>2, <1>6, <1>8, <1>9, <1>13, <1>14, <1>15 DEF SendInv, SendStartInv, SendEmptyInv

\* The frame is queued.
LEMMA CloseStep ==
  ASSUME LATEST <= OFFSET, SourceInv, Core, startData, Clock, FSMSend = "S2"
  PROVE  FillInv' /\ SendInv'
<1>1. FSMBuffer \in First \cup {"S1"}
  BY DEF Core, SendInv
<1>2. ~Match /\ ~Collect /\ Closing /\ ~Pop
  <2>1. gap # 1
    BY Edge
  <2> QED
    BY <1>1, <2>1, MatchTime DEF Collect, Closing, Pop, First
<1>3. bufferfifo = <<>>
  <2>1. CASE primitiveinpacket = 0
    BY <2>1 DEF Core, SendInv, SendEmptyInv
  <2>2. CASE primitiveinpacket > 0
    BY <2>2 DEF Core, SendInv, SendDataInv
  <2> QED
    BY <2>1, <2>2, Edge
<1>4. bufferfifo' = <<>> /\ primitiveinpacket' = 0
  BY <1>2, <1>3, QuietBuffer DEF Clock
<1>5. SendQueue
  BY SendSteps DEF Clock
<1>6. FSMSend' = "S0" /\ npackets' = 0 /\ frame' = <<>>
  BY <1>5 DEF SendQueue
<1>7. FillInv' /\ FSMBuffer' \in First \cup {"S1"}
  <2>1. CASE FSMBuffer \in First
    BY <1>4, <2>1, FirstStep
  <2>2. CASE FSMBuffer = "S1"
    BY <1>2, <1>4, <2>2, WaitStep
  <2> QED
    BY <1>1, <2>1, <2>2
<1>8. gap' <= PERIOD - 5
  BY Edge
<1>9. FSMBuffer' \notin Storing \cup {"S3"}
  BY <1>7 DEF First, Storing
<1>10. SendStartInv'
  BY <1>4, <1>6, <1>8, <1>9 DEF SendStartInv
<1> QED
  BY <1>6, <1>7, <1>10 DEF SendInv, SendEmptyInv, SendDataInv

\* An edge of the burst keeps the invariant.
LEMMA CoreStep ==
  ASSUME LATEST <= OFFSET, SourceInv, Core, startData, Clock
  PROVE  Core'
<1>1. Supply' /\ TimeInv'
  BY SupplyStep
<1>2. CASE FSMSend = "S2"
  BY <1>1, <1>2, CloseStep DEF Core
<1>3. CASE FSMSend # "S2" /\ FSMBuffer \in First
  <2>1. ~Match
    BY <1>3 DEF Match, First
  <2>2. primitiveinpacket' = 0
    <3>1. ~Collect /\ ~Closing
      BY <1>3 DEF Collect, Closing, First
    <3>2. primitiveinpacket = 0
      BY <1>3 DEF Core, FillInv, FillFirstInv
    <3> QED
      BY <2>1, <3>1, <3>2, QuietBuffer DEF Clock
  <2>3. FillInv' /\ FSMBuffer' \in First \cup {"S1"}
    BY <1>3, <2>2, FirstStep
  <2> QED
    BY <1>1, <1>3, <2>1, <2>3, SendQuiet DEF Core
<1>4. CASE FSMSend # "S2" /\ FSMBuffer = "S1" /\ ~Match
  <2>1. primitiveinpacket' = primitiveinpacket
    <3>1. ~Collect /\ ~Closing
      BY <1>4 DEF Collect, Closing
    <3> QED
      BY <1>4, <3>1, QuietBuffer DEF Clock
  <2>2. FillInv' /\ FSMBuffer' = "S1"
    BY <1>4, <2>1, WaitStep
  <2> QED
    BY <1>1, <1>4, <2>2, SendQuiet DEF Core
<1>5. CASE Match
  BY <1>1, <1>5, MatchStep DEF Core
<1>6. CASE Collect
  BY <1>1, <1>6, CollectStep DEF Core
<1>7. CASE FSMBuffer \in {"S2_Latency", "S2_2_Latency"}
  BY <1>1, <1>7, LineStep DEF Core
<1>8. CASE FSMBuffer = "S2" /\ ~Collect
  BY <1>1, <1>8, EndStep DEF Core, Collect
<1>9. CASE FSMBuffer = "S3"
  BY <1>1, <1>9, CallStep DEF Core
<1>10. FSMBuffer \in First \cup Storing \cup {"S1", "S3"}
  BY DEF Core, FillInv
<1> QED
  BY <1>2, <1>3, <1>4, <1>5, <1>6, <1>7, <1>8, <1>9, <1>10 DEF Storing

-----------------------------------------------------------------------------
(* The burst: its start, its end and what comes after it. *)

LEMMA StretchShort ==
  ASSUME NEW t \in Int, NEW a \in Nat, NEW c \in 0 .. COUNTMOD - 1, a <= c + 1
  PROVE  Len(Stretch(t, a, c + 1)) <= BUFSIZE \div 2
<1>1. c + 1 \in Nat /\ c + 1 <= COUNTMOD /\ COUNTMOD <= BUFSIZE \div 2 /\ c + 1 - a <= c + 1
  BY Sizes
<1>2. Len(Stretch(t, a, c + 1)) = (c + 1) - a
  BY <1>1, StretchType, Zenon
<1> QED
  BY <1>1, <1>2, Sizes

LEMMA BufferShort ==
  ASSUME Core
  PROVE  /\ Len(bufferfifo) <= BUFSIZE \div 2 /\ npackets \in 0 .. COUNTMOD - 1
         /\ latency \in 0 .. LATMOD - 1
<1> DEFINE c == primitiveinpacket
<1>1. c \in 0 .. COUNTMOD - 1 /\ due \in Int /\ 0 \in 0 .. COUNTMOD - 1 /\ c \in Nat
  BY Sizes DEF Core, FillInv, TimeInv, due
<1>2. Len(<<>>) <= BUFSIZE \div 2
  BY Sizes
<1>3. latency \in 0 .. LATMOD - 1
  BY Sizes DEF Core, TimeInv
<1>4. CASE FSMSend = "S0"
  <2>1. bufferfifo = <<>> \/ bufferfifo = Stretch(due, 0, c + 1)
    BY <1>4 DEF Core, SendInv, SendStartInv
  <2>2. npackets = 0
    BY <1>4 DEF Core, SendInv, SendStartInv
  <2> QED
    BY <1>1, <1>2, <1>3, <2>1, <2>2, StretchShort, 0 <= c + 1
<1>5. CASE FSMSend # "S0" /\ c = 0
  <2>1. bufferfifo = <<>> /\ npackets = 0
    BY <1>5 DEF Core, SendInv, SendEmptyInv
  <2> QED
    BY <1>1, <1>2, <1>3, <2>1
<1>6. CASE FSMSend # "S0" /\ c > 0
  <2>1. CASE FSMSend = "S1_header"
    <3>1. bufferfifo = Stretch(due, 0, c + 1) /\ npackets = 0
      BY <1>6, <2>1 DEF Core, SendInv, SendDataInv
    <3> QED
      BY <1>1, <1>3, <3>1, StretchShort, 0 <= c + 1
  <2>2. CASE FSMSend = "S1"
    <3>1. bufferfifo = Stretch(due, 1, c + 1) /\ npackets = 0
      BY <1>6, <2>2 DEF Core, SendInv, SendDataInv
    <3>2. 1 <= c + 1 /\ 1 \in Nat
      BY <1>1
    <3> QED
      BY <1>1, <1>3, <3>1, <3>2, StretchShort
  <2>3. CASE FSMSend \in Pairs
    <3>1. npackets \in 1 .. c /\ bufferfifo = Stretch(due, npackets + 1, c + 1)
      BY <1>6, <2>3 DEF Core, SendInv, SendDataInv
    <3>2. npackets + 1 \in Nat /\ npackets + 1 <= c + 1 /\ npackets \in 0 .. COUNTMOD - 1
      BY <1>1, <3>1, Sizes
    <3> QED
      BY <1>1, <1>3, <3>1, <3>2, StretchShort
  <2>4. CASE FSMSend = "S2"
    <3>1. npackets \in 0 .. COUNTMOD - 1 /\ bufferfifo = <<>>
      BY <1>6, <2>4 DEF Core, SendInv, SendDataInv
    <3> QED
      BY <1>2, <1>3, <3>1
  <2> QED
    BY <1>6, <2>1, <2>2, <2>3, <2>4 DEF Core, SendInv
<1> QED
  BY <1>1, <1>4, <1>5, <1>6

Bounded ==
  startData \in BOOLEAN /\ primitiveFIFOempty \in BOOLEAN /\ framecounter <= MAXFRAME
Typed == TypeOK /\ gap < PERIOD /\ readfromfifo \in BOOLEAN

LEMMA CoreTypes == Core /\ Bounded => Typed
<1> SUFFICES ASSUME Core, startData \in BOOLEAN, primitiveFIFOempty \in BOOLEAN,
                    framecounter <= MAXFRAME
             PROVE  TypeOK /\ gap < PERIOD /\ readfromfifo \in BOOLEAN
  BY DEF Bounded, Typed
<1>1. FSMBuffer \in {"S0", "S1", "S2"} \cup DOMAIN Following \cup {"S2_Latency"}
  BY DEF Core, FillInv, First, Storing, Following
<1>2. FSMSend \in {"S0", "S1_header", "S1", "S1_1", "S1_2", "S1_3", "S2"}
  BY DEF Core, SendInv, Pairs
<1>3. /\ rdpointer \in 0 .. WPL - 1 /\ primitiveinpacket \in 0 .. COUNTMOD - 1
      /\ readfromfifo \in BOOLEAN
  BY DEF Core, FillInv
<1>4. framecounter \in 0 .. MAXFRAME /\ gap < PERIOD
  BY Sizes DEF Core, TimeInv
<1> QED
  BY <1>1, <1>2, <1>3, <1>4, BufferShort DEF TypeOK


LEMMA StartFill ==
  ASSUME SourceInv, Unstarted, Clock
  PROVE  /\ SourceInv' /\ taken' = 0 /\ primitiveFIFOempty' = (fifo = <<>>)
         /\ fifo # <<>> => fifo' # <<>>
         /\ FSMBuffer' = "S0" /\ readfromfifo' = FALSE /\ sendflag' = FALSE /\ rdpointer' = 0
         /\ FSMSend' = "S0" /\ npackets' = 0 /\ frame' = <<>> /\ framecounter' = 0
         /\ latency' = PERIOD - 1 /\ gap' = 0 /\ framecounter_copy' = 0
         /\ bufferfifo' = <<>> /\ primitiveinpacket' = 0 /\ list' = list
<1>1. /\ ~startData /\ taken = 0 /\ FSMBuffer = "S0" /\ FSMSend = "S0"
      /\ ~readfromfifo /\ rdpointer = 0
      /\ primitiveinpacket = 0 /\ framecounter = 0
  BY DEF Unstarted
<1>2. Source /\ FillBuffer /\ SendPrimitive /\ Buffer /\ Count /\ Elapsed
  BY DEF Clock
<1>3. /\ FSMBuffer' = "S0" /\ readfromfifo' = FALSE /\ sendflag' = FALSE /\ rdpointer' = 0
  <2>1. ~FillWait /\ ~FillFirst /\ ~FillLatency /\ ~FillStore /\ ~FillRewind /\ ~FillEnd
    BY <1>1 DEF FillWait, FillFirst, FillLatency, FillStore, FillRewind, FillEnd, Match, Collect
  <2> QED
    BY <1>1, <1>2, <2>1 DEF FillBuffer, FillOff, Fill
<1>4. /\ FSMSend' = "S0" /\ npackets' = 0 /\ frame' = <<>> /\ framecounter' = 0
      /\ latency' = PERIOD - 1
  <2>1. /\ ~SendAbort /\ ~SendIdle /\ ~SendHeader /\ ~SendStamp /\ ~SendEmpty
        /\ ~SendWord /\ ~SendQueue
    BY <1>1 DEF SendAbort, SendIdle, SendHeader, SendStamp, SendEmpty, SendWord, SendQueue,
                Send, Closing
  <2> QED
    BY <1>1, <1>2, <2>1 DEF SendPrimitive, SendOff
<1>5. bufferfifo' = <<>> /\ primitiveinpacket' = 0 /\ gap' = 0
  <2>1. Aclr /\ ~Match /\ ~Collect /\ ~Closing
    BY <1>1 DEF Aclr, Match, Collect, Closing
  <2> QED
    BY <1>1, <1>2, <2>1 DEF Buffer, Count, Elapsed
<1>6. /\ SourceInv' /\ taken' = 0 /\ primitiveFIFOempty' = (fifo = <<>>) /\ list' = list
      /\ fifo # <<>> => fifo' # <<>>
  <2>1. readfromfifo \in BOOLEAN /\ framecounter \in Nat
    <3>1. readfromfifo = FALSE /\ framecounter = 0
      BY DEF Unstarted
    <3> QED
      BY <3>1
  <2> QED
    BY <1>1, <1>2, <2>1, SourceStep
<1>7. framecounter_copy' = 0
  BY <1>1, <1>2 DEF Source
<1> QED
  BY <1>3, <1>4, <1>5, <1>6, <1>7

\* On the first edge of the burst.
LEMMA StartCore ==
  ASSUME SourceInv, Unstarted, Clock
  PROVE  Core'
<1>1. Supply'
  <2>1. framecounter' = 0 /\ gap' = 0
    BY StartFill
  <2>2. ~(0 > LATEST) /\ ~(0 >= 1) /\ ~(0 >= 2)
    BY Sizes
  <2> QED
    BY <2>1, <2>2 DEF Supply
<1>2. PERIOD \in Nat /\ PERIOD >= 15
  BY PeriodLong, Sizes DEF SourceInv
<1>3. TimeInv'
  BY <1>2, StartFill DEF TimeInv
<1>4. FillFirstInv'
  <2>1. primitiveFIFOempty' \/ fifo' # <<>>
    BY StartFill
  <2>2. Early(2)'
    BY StartFill, Sizes DEF Early
  <2> QED
    BY <2>1, <2>2, StartFill DEF FillFirstInv, First, Early
<1>5. FillStoreInv' /\ FillWaitInv'
  BY StartFill DEF FillStoreInv, FillWaitInv, Storing
<1>6. FillInv'
  <2>1. FSMBuffer' \in First \cup Storing \cup {"S1", "S3"}
    BY StartFill DEF First
  <2>2. rdpointer' \in 0 .. WPL - 1 /\ primitiveinpacket' \in 0 .. COUNTMOD - 1
    BY StartFill, Sizes
  <2>3. /\ readfromfifo' = (FSMBuffer' = "S1_Latency" \/ FSMBuffer' = "S2_Latency")
        /\ sendflag' = (FSMBuffer' = "S3")
    BY StartFill
  <2> QED
    BY <1>4, <1>5, <2>1, <2>2, <2>3 DEF FillInv
<1>7. SendStartInv'
  <2>1. FSMBuffer' \notin Storing \cup {"S3"}
    BY StartFill DEF Storing
  <2> QED
    BY <1>2, <2>1, StartFill DEF SendStartInv
<1>8. SendInv'
  BY <1>7, StartFill DEF SendInv, SendEmptyInv, SendDataInv
<1> QED
  BY <1>1, <1>3, <1>6, <1>8 DEF Core

\* After the burst.
LEMMA OffStep ==
  ASSUME TypeOK, SourceInv, readfromfifo \in BOOLEAN, ~startData, Clock, ~startData'
  PROVE  TypeOK' /\ gap' < PERIOD /\ SourceInv' /\ readfromfifo' \in BOOLEAN
<1>1. Source /\ FillBuffer /\ SendPrimitive /\ Buffer /\ Count /\ Elapsed
  BY DEF Clock
<1>2. FSMBuffer' = "S0" /\ readfromfifo' = FALSE /\ rdpointer' = rdpointer
  <2>1. ~FillWait /\ ~FillFirst /\ ~FillLatency /\ ~FillStore /\ ~FillRewind /\ ~FillEnd
    BY DEF FillWait, FillFirst, FillLatency, FillStore, FillRewind, FillEnd, Match, Collect
  <2> QED
    BY <1>1, <2>1 DEF FillBuffer, FillOff, Fill
<1>3. /\ FSMSend' = "S0"
      /\ npackets' \in {0, npackets} /\ framecounter' \in {0, framecounter}
      /\ latency' \in {PERIOD - 1, latency}
  <2>1. ~SendIdle /\ ~SendHeader /\ ~SendStamp /\ ~SendEmpty /\ ~SendWord /\ ~SendQueue
    BY DEF SendIdle, SendHeader, SendStamp, SendEmpty, SendWord, SendQueue, Send, Closing
  <2> QED
    BY <1>1, <2>1 DEF SendPrimitive, SendOff, SendAbort
<1>4. /\ bufferfifo' \in {<<>>, bufferfifo} /\ primitiveinpacket' = primitiveinpacket
      /\ gap' = 0
  <2>1. ~Match /\ ~Collect /\ ~Closing /\ ~Pop
    BY DEF Match, Collect, Closing, Pop
  <2> QED
    BY <1>1, <2>1 DEF Buffer, Count, Elapsed
<1>5. SourceInv' /\ primitiveFIFOempty' \in BOOLEAN
  <2>1. framecounter \in Nat
    BY DEF TypeOK
  <2>2. SourceInv' /\ primitiveFIFOempty' = (fifo = <<>>)
    BY <1>1, <2>1, SourceStep
  <2> QED
    BY <2>2
<1>6. npackets' \in 0 .. COUNTMOD - 1 /\ framecounter' \in 0 .. MAXFRAME
  BY <1>3, Sizes DEF TypeOK
<1>7. latency' \in 0 .. LATMOD - 1
  BY <1>3, Sizes DEF TypeOK
<1>8. Len(bufferfifo') <= BUFSIZE \div 2
  <2>1. Len(<<>>) <= BUFSIZE \div 2
    BY Sizes
  <2> QED
    BY <1>4, <2>1 DEF TypeOK
<1>9. /\ FSMBuffer' \in {"S0", "S1", "S2"} \cup DOMAIN Following \cup {"S2_Latency"}
      /\ FSMSend' \in {"S0", "S1_header", "S1", "S1_1", "S1_2", "S1_3", "S2"}
  BY <1>2, <1>3
<1>10. rdpointer' \in 0 .. WPL - 1 /\ primitiveinpacket' \in 0 .. COUNTMOD - 1
  BY <1>2, <1>4 DEF TypeOK
<1>11. startData' \in BOOLEAN
  BY DEF Clock, Burst
<1>12. TypeOK'
  BY <1>5, <1>6, <1>7, <1>8, <1>9, <1>10, <1>11 DEF TypeOK
<1>13. gap' < PERIOD
  BY <1>4, Sizes
<1>14. readfromfifo' \in BOOLEAN
  BY <1>2
<1> QED
  BY <1>5, <1>12, <1>13, <1>14

-----------------------------------------------------------------------------
(* The invariant. *)

LEMMA LinesFollow ==
  ASSUME NEW l \in Lists
  PROVE  /\ Lines(l) \in Seq(Line) /\ Len(Lines(l)) = NumLines(l) /\ NumLines(l) \in Nat
         /\ Follow(l, Lines(l), 0)
<1> DEFINE n == NumLines(l)
<1>1. Len(l) \in Nat /\ \A p \in 1 .. Len(l) : l[p] \in Nat \X Nat
  BY ListFacts
<1>2. n \in Nat
  <2>1. Len(l) \div WPL \in Nat
    BY <1>1, Sizes
  <2> QED
    BY <2>1 DEF NumLines
<1>3. \A p \in Nat \ {0} : Word(l, p) \in Nat \X Nat
  BY <1>1 DEF Word, Stamp
<1>4. ASSUME NEW i \in 1 .. n PROVE LineAt(l, i) \in Line
  <2>1. Base(i) \in Nat
    BY <1>2, BaseFacts, i \in Nat \ {0}
  <2>2. ASSUME NEW k \in 1 .. WPL PROVE Word(l, Base(i) + k) \in Nat \X Nat
    BY <1>3, <2>1, Sizes, Base(i) + k \in Nat \ {0}
  <2> QED
    BY <2>2 DEF LineAt, Line
<1>5. Lines(l) = [i \in 1 .. n |-> LineAt(l, i)]
  BY DEF Lines, LineAt, NumLines, Word, Base
<1> HIDE DEF n
<1>6. Lines(l) \in [1 .. n -> Line]
  BY <1>4, <1>5
<1>7. Lines(l) \in Seq(Line) /\ Len(Lines(l)) = n
  BY <1>2, <1>6
<1>8. Follow(l, Lines(l), 0)
  BY <1>2, <1>5, <1>7, \A i \in 1 .. n : 0 + i = i DEF Follow
<1> QED
  BY <1>2, <1>7, <1>8 DEF n

LEMMA InvInit == Init => Inv
<1> SUFFICES ASSUME Init PROVE Inv
  OBVIOUS
<1> DEFINE L == Lines(list)
           n == NumLines(list)
<1>1. /\ list \in Lists /\ L \in Seq(Line) /\ Len(L) = n /\ n \in Nat /\ Follow(list, L, 0)
      /\ <<>> \in Seq(Line) /\ Len(<<>>) = 0
  BY LinesFollow DEF Init
<1>2. (load = L /\ fifo = <<>>) \/ (load = <<>> /\ fifo = L)
  BY DEF Init
<1>3. taken = n - Len(load) - Len(fifo)
  BY DEF taken
<1> HIDE DEF L, n
<1>4. taken = 0 /\ load \in Seq(Line) /\ fifo \in Seq(Line)
  <2>1. CASE load = L /\ fifo = <<>>
    <3>1. taken = n - n - 0
      BY <1>1, <1>3, <2>1
    <3> QED
      BY <1>1, <2>1, <3>1
  <2>2. CASE load = <<>> /\ fifo = L
    <3>1. taken = n - 0 - n
      BY <1>1, <1>3, <2>2
    <3> QED
      BY <1>1, <2>2, <3>1
  <2> QED
    BY <1>2, <2>1, <2>2
<1>5. Follow(list, fifo, 0) /\ Follow(list, load, 0 + Len(fifo))
  <2>1. \A s : Follow(list, <<>>, s)
    BY <1>1 DEF Follow
  <2> QED
    BY <1>1, <1>2, <2>1, 0 + 0 = 0
<1>6. line \in Line
  BY DEF Init, Line, Stamp
<1>7. SourceInv
  BY <1>1, <1>4, <1>5, <1>6 DEF SourceInv
<1>8. TypeOK /\ gap < PERIOD
  <2>1. /\ 0 \in 0 .. WPL - 1 /\ 0 \in 0 .. COUNTMOD - 1 /\ 0 \in 0 .. MAXFRAME
        /\ PERIOD - 1 \in 0 .. LATMOD - 1 /\ 0 <= BUFSIZE \div 2 /\ 0 < PERIOD
    BY Sizes
  <2> QED
    BY <1>1, <2>1 DEF Init, TypeOK
<1>9. started = FALSE /\ readfromfifo = FALSE /\ startData = FALSE
  BY DEF Init
<1>10. Unstarted
  BY <1>4 DEF Init, Unstarted
<1> QED
  BY <1>7, <1>8, <1>9, <1>10 DEF Inv

LEMMA CoreTypesNext ==
  ASSUME Core', startData' \in BOOLEAN, primitiveFIFOempty' \in BOOLEAN,
         framecounter' <= MAXFRAME
  PROVE  TypeOK' /\ gap' < PERIOD /\ readfromfifo' \in BOOLEAN
<1>1. (Core /\ Bounded)' => Typed'
  BY CoreTypes, PTL
<1> QED
  BY <1>1 DEF Bounded, Typed

LEMMA InvStep ==
  ASSUME LATEST <= OFFSET, Inv, Clock
  PROVE  Inv'
<1>1. /\ TypeOK /\ gap < PERIOD /\ SourceInv /\ started \in BOOLEAN /\ readfromfifo \in BOOLEAN
      /\ startData => started /\ Core /\ (framecounter = MAXFRAME => gap = 0)
      /\ ~started => Unstarted
  BY DEF Inv
<1>2. Burst /\ startData \in BOOLEAN /\ framecounter \in 0 .. MAXFRAME
  BY <1>1 DEF Clock, TypeOK
<1>3. startData' \in BOOLEAN
  BY DEF Clock, Burst
<1>4. CASE startData
  <2>1. started' = started /\ started = TRUE /\ (startData' => framecounter < MAXFRAME)
    BY <1>1, <1>2, <1>4 DEF Burst
  <2>2. Core' /\ SourceInv'
    BY <1>1, <1>4, CoreStep, SupplyStep
  <2>3. /\ FSMSend # "S2" => framecounter' = framecounter
        /\ FSMSend = "S2" => framecounter' = framecounter + 1 /\ gap' = 0 /\ gap = PERIOD - 1
        /\ PERIOD >= 15 /\ PERIOD \in Nat
    BY <1>1, <1>4, Edge
  <2>4. framecounter' <= MAXFRAME
    BY <1>1, <1>2, <1>4, <2>3, Sizes
  <2>5. startData' => (framecounter' = MAXFRAME => gap' = 0)
    BY <1>2, <2>1, <2>3, Sizes
  <2>6. primitiveFIFOempty' \in BOOLEAN
    <3>1. primitiveFIFOempty' = (fifo = <<>>)
      BY <1>1, <1>4, Edge
    <3> QED
      BY <3>1
  <2>7. TypeOK' /\ gap' < PERIOD /\ readfromfifo' \in BOOLEAN
    BY <1>3, <2>2, <2>4, <2>6, CoreTypesNext
  <2> QED
    BY <2>1, <2>2, <2>5, <2>7 DEF Inv
<1>5. CASE ~startData /\ startData'
  <2>1. ~started /\ started' = TRUE
    BY <1>2, <1>5 DEF Burst
  <2>2. Core'
    BY <1>1, <2>1, StartCore
  <2>3. SourceInv' /\ framecounter' = 0 /\ primitiveFIFOempty' = (fifo = <<>>)
    BY <1>1, <2>1, StartFill
  <2>4. framecounter' <= MAXFRAME /\ framecounter' # MAXFRAME
    BY <2>3, Sizes
  <2>5. primitiveFIFOempty' \in BOOLEAN
    BY <2>3
  <2>6. TypeOK' /\ gap' < PERIOD /\ readfromfifo' \in BOOLEAN
    BY <1>3, <2>2, <2>4, <2>5, CoreTypesNext
  <2> QED
    BY <2>1, <2>2, <2>3, <2>4, <2>6 DEF Inv
<1>6. CASE ~startData /\ ~startData'
  <2>1. TypeOK' /\ gap' < PERIOD /\ SourceInv' /\ readfromfifo' \in BOOLEAN
    BY <1>1, <1>6, OffStep
  <2>2. started' = started
    BY <1>2, <1>6 DEF Burst
  <2>3. ~started => Unstarted'
    BY <1>1, <1>6, StartFill DEF Unstarted
  <2> QED
    BY <1>1, <1>6, <2>1, <2>2, <2>3 DEF Inv
<1> QED
  BY <1>2, <1>4, <1>5, <1>6

LEMMA Stutter ==
  ASSUME Inv, UNCHANGED vars
  PROVE  Inv'
<1>1. /\ UNCHANGED sourceVars /\ UNCHANGED fillVars /\ UNCHANGED sendVars
      /\ UNCHANGED <<startData, framecounter_copy, bufferfifo, q, primitiveinpacket, frame, gap>>
  BY DEF vars
<1>2. taken' = taken /\ next' = next /\ due' = due /\ header' = header /\ Slack' = Slack
  BY <1>1 DEF sourceVars, fillVars, sendVars, taken, next, due, header, Slack
<1>3. SourceInv => SourceInv'
  BY <1>1, <1>2 DEF sourceVars, SourceInv
<1>4. Core => Core'
  <2>1. Supply => Supply'
    BY <1>1, <1>2 DEF sourceVars, sendVars, Supply
  <2>2. TimeInv => TimeInv'
    BY <1>1 DEF sendVars, TimeInv
  <2>3. FillInv => FillInv'
    <3>1. FillFirstInv => FillFirstInv'
      BY <1>1, <1>2 DEF sourceVars, fillVars, sendVars, FillFirstInv, Early
    <3>2. FillStoreInv => FillStoreInv'
      BY <1>1, <1>2 DEF sourceVars, fillVars, FillStoreInv
    <3>3. FillWaitInv => FillWaitInv'
      BY <1>1, <1>2 DEF sourceVars, fillVars, FillWaitInv, Waiting
    <3> QED
      BY <1>1, <3>1, <3>2, <3>3 DEF fillVars, FillInv
  <2>4. SendInv => SendInv'
    <3>1. SendStartInv => SendStartInv'
      BY <1>1, <1>2 DEF fillVars, sendVars, SendStartInv
    <3>2. SendEmptyInv => SendEmptyInv'
      BY <1>1, <1>2 DEF sendVars, SendEmptyInv
    <3>3. SendDataInv => SendDataInv'
      BY <1>1, <1>2 DEF sendVars, SendDataInv
    <3> QED
      BY <1>1, <3>1, <3>2, <3>3 DEF fillVars, sendVars, SendInv
  <2> QED
    BY <2>1, <2>2, <2>3, <2>4 DEF Core
<1>5. TypeOK => TypeOK'
  BY <1>1 DEF sourceVars, fillVars, sendVars, TypeOK
<1>6. Unstarted => Unstarted'
  BY <1>1, <1>2 DEF fillVars, sendVars, Unstarted
<1> QED
  BY <1>1, <1>3, <1>4, <1>5, <1>6 DEF sourceVars, fillVars, sendVars, Inv

\* The two machines, the FIFO between them, the count and the clocks fit: when
\* the lines are in the FIFO before frame OFFSET, Inv holds on every edge.
THEOREM Invariance == ASSUME LATEST <= OFFSET PROVE Spec => []Inv
<1>1. Inv /\ [Next]_vars => Inv'
  BY InvStep, Stutter DEF Next
<1> QED
  BY <1>1, InvInit, PTL DEF Spec

-----------------------------------------------------------------------------
(* The properties. *)

\* TypeOK holds for every size: every register stays within its width, and half
\* of bufferfifo is enough for every entry and its timestamp.
THEOREM TypesHold == ASSUME LATEST <= OFFSET PROVE Spec => []TypeOK
<1>1. Inv => TypeOK
  BY DEF Inv
<1> QED
  BY <1>1, Invariance, PTL

\* Heartbeat holds for every size: a frame is queued every PERIOD clocks, for no
\* entry is so long that FSMSend would miss the end of the period.
THEOREM HeartbeatKept == ASSUME LATEST <= OFFSET PROVE Spec => []Heartbeat
<1>1. Inv => Heartbeat
  BY InTime DEF Inv, Heartbeat, Closing
<1> QED
  BY <1>1, Invariance, PTL

\* NothingLeftBehind holds for every size: FSMSend pops every word that FSMBuffer
\* stored before it queues the frame.
THEOREM BufferIsEmptied == ASSUME LATEST <= OFFSET PROVE Spec => []NothingLeftBehind
<1>1. Inv => NothingLeftBehind
  BY DEF Inv, Core, SendInv, SendStartInv, Storing, NothingLeftBehind
<1> QED
  BY <1>1, Invariance, PTL

LEMMA FrameEntry ==
  ASSUME NEW h, NEW t \in Int, NEW c \in Nat
  PROVE  FrameOf(h, t, c + 1) = <<h>> \o Entry(t, c)
<1> DEFINE S == FrameSet(h, t)
           e == Entry(t, c)
           s == FrameOf(h, t, c + 1)
           u == <<h>> \o e
<1>1. /\ s \in Seq(S) /\ Len(s) = c + 1 + 1
      /\ \A i \in 1 .. c + 1 + 1 : s[i] = IF i = 1 THEN h ELSE <<t, i - 2>>
  BY FrameType, c + 1 \in Nat
<1>2. e \in [1 .. c + 1 -> S] /\ \A i \in 1 .. c + 1 : e[i] = <<t, i - 1>>
  BY DEF Entry, FrameSet, StretchSet
<1>3. e \in Seq(S) /\ Len(e) = c + 1
  BY <1>2, c + 1 \in Nat
<1>4. <<h>> \in Seq(S)
  BY DEF FrameSet
<1> HIDE DEF S, e, s
<1>5. /\ u \in Seq(S) /\ Len(u) = c + 1 + 1 /\ u[1] = h
      /\ \A i \in 1 .. c + 1 : u[i + 1] = e[i]
  BY <1>3, <1>4
<1> HIDE DEF u
<1>6. ASSUME NEW i \in 1 .. Len(s) PROVE s[i] = u[i]
  <2>1. CASE i = 1
    BY <1>1, <1>5, <2>1
  <2>2. CASE i # 1
    <3>1. i - 1 \in 1 .. c + 1 /\ (i - 1) + 1 = i /\ (i - 1) - 1 = i - 2 /\ i \in 1 .. c + 1 + 1
      BY <1>1, <2>2
    <3>2. u[(i - 1) + 1] = e[i - 1] /\ e[i - 1] = <<t, (i - 1) - 1>>
      BY <1>2, <1>5, <3>1
    <3> QED
      BY <1>1, <2>2, <3>1, <3>2
  <2> QED
    BY <2>1, <2>2
<1>7. s = u
  BY <1>1, <1>5, <1>6, SeqEq
<1> QED
  BY <1>7 DEF s, u, e

\* Beyond a later word every word is later.
LEMMA AheadAll ==
  ASSUME NEW l \in Lists, NEW p \in Nat \ {0}, NEW t \in Int, Ahead(l, p, t),
         NEW i \in 1 .. Len(l), i >= p
  PROVE  l[i][1] > t
<1>1. Len(l) \in Nat
  BY ListFacts
<1>2. p \in 1 .. Len(l) /\ l[p][1] > t
  BY <1>1 DEF Ahead
<1>3. l[p][1] \in Nat /\ l[i][1] \in Nat
  BY <1>2, ListFacts
<1>4. CASE i = p
  BY <1>2, <1>4
<1>5. CASE i > p
  <2>1. l[p][1] < l[i][1] \/ l[p][1] = l[i][1]
    BY <1>2, <1>5, Pair
  <2> QED
    BY <1>2, <1>3, <2>1
<1> QED
  BY <1>4, <1>5

LEMMA EntryIsWhole ==
  ASSUME LATEST <= OFFSET, SourceInv, Core, Closing
  PROVE  FrameMatchesEntry
<1> DEFINE c == primitiveinpacket
           t == due
<1>1. FSMSend = "S2" /\ FSMBuffer \in First \cup {"S1"}
  BY DEF Closing, Core, SendInv
<1>2. /\ gap = PERIOD - 1 /\ gap \in Nat /\ gap > 1 /\ list \in Lists
      /\ framecounter \in Nat /\ t \in Int /\ t = framecounter - OFFSET /\ c \in Nat
      /\ rdpointer \in 0 .. WPL - 1
  <2>1. gap = PERIOD - 1 /\ list \in Lists /\ PERIOD \in Nat /\ PERIOD >= 15
    BY <1>1, InTime, PeriodLong, Sizes DEF SourceInv
  <2>2. gap \in Nat /\ framecounter \in Nat /\ c \in Nat /\ rdpointer \in 0 .. WPL - 1
    BY DEF Core, TimeInv, FillInv
  <2>3. t \in Int /\ t = framecounter - OFFSET
    BY <2>2, Sizes DEF due
  <2>4. gap > 1
    BY <2>1
  <2> QED
    BY <2>1, <2>2, <2>3, <2>4
<1>3. /\ FSMBuffer = "S1" => /\ Ahead(list, next, t) /\ next \in Nat \ {0}
                             /\ c = 0 => Behind(list, next, t)
                             /\ c # 0 => Taken(list, next, t, c)
  <2> SUFFICES ASSUME FSMBuffer = "S1"
               PROVE  /\ Ahead(list, next, t) /\ next \in Nat \ {0}
                      /\ c = 0 => Behind(list, next, t)
                      /\ c # 0 => Taken(list, next, t, c)
    OBVIOUS
  <2>1. Waiting /\ taken > 0
    BY DEF Core, FillInv, FillWaitInv
  <2>2. next \in Nat \ {0}
    BY <1>2, <2>1, NextWord
  <2>3. ~(gap <= 1)
    BY <1>2
  <2> QED
    BY <2>1, <2>2, <2>3 DEF Waiting
<1>4. FSMBuffer \in First => c = 0 /\ t <= 0
  <2> SUFFICES ASSUME FSMBuffer \in First PROVE c = 0 /\ t <= 0
    OBVIOUS
  <2>1. c = 0 /\ framecounter <= LATEST
    BY <1>2, Sizes DEF Core, FillInv, FillFirstInv, Early
  <2> QED
    BY <1>2, <2>1, Sizes
<1>5. \A i \in 1 .. Len(list) : list[i][1] \in Nat \ {0} /\ list[i][2] \in Nat
  BY <1>2, ListFacts
<1>6. header = <<"header", c, framecounter>>
  BY DEF header
<1>7. CASE c = 0
  <2>1. frame = FrameOf(header, t, 0)
    BY <1>1, <1>7 DEF Core, SendInv, SendEmptyInv
  <2>2. FrameOf(header, t, 0) = <<header>>
    BY DEF FrameOf
  <2>3. ~Holds(Stamp(t))
    <3> SUFFICES ASSUME NEW i \in 1 .. Len(list), list[i] = <<t, 0>> PROVE FALSE
      BY DEF Holds, Stamp
    <3>1. list[i][1] = t
      OBVIOUS
    <3>2. FSMBuffer = "S1"
      BY <1>1, <1>2, <1>4, <1>5, <3>1
    <3>3. ~(i >= next)
      BY <1>2, <1>3, <3>1, <3>2, AheadAll
    <3>4. ~(i < next)
      BY <1>2, <1>3, <1>5, <1>7, <3>1, <3>2 DEF Behind
    <3> QED
      BY <1>3, <3>2, <3>3, <3>4
  <2> QED
    BY <1>2, <1>6, <1>7, <2>1, <2>2, <2>3 DEF FrameMatchesEntry
<1>8. CASE c # 0
  <2>1. FSMBuffer = "S1" /\ Taken(list, next, t, c) /\ Ahead(list, next, t) /\ next \in Nat \ {0}
    BY <1>1, <1>3, <1>4, <1>8
  <2>2. frame = FrameOf(header, t, c + 1)
    BY <1>1, <1>2, <1>8 DEF Core, SendInv, SendDataInv
  <2>3. frame = <<header>> \o Entry(t, c)
    BY <1>2, <2>2, FrameEntry
  <2>4. Holds(Stamp(t)) /\ Holds(<<t, c>>)
    BY <2>1 DEF Holds, Taken
  <2>5. ~Holds(<<t, c + 1>>)
    <3> SUFFICES ASSUME NEW i \in 1 .. Len(list), list[i] = <<t, c + 1>> PROVE FALSE
      BY DEF Holds
    <3>1. list[i][1] = t /\ list[i][2] = c + 1
      OBVIOUS
    <3>2. next - 1 \in 1 .. Len(list) /\ list[next - 1][1] = t /\ list[next - 1][2] = c
      <4>1. next \in Int
        BY <2>1
      <4> QED
        BY <1>2, <2>1, <4>1, TakenFacts, Zenon
    <3>3. ~(i >= next)
      BY <1>2, <2>1, <3>1, AheadAll
    <3>4. i # next - 1
      BY <1>2, <3>1, <3>2
    <3>5. i < next - 1
      BY <2>1, <3>3, <3>4
    <3>6. list[next - 1][2] = list[i][2] + ((next - 1) - i)
      <4>1. \/ list[i][1] < list[next - 1][1]
            \/ list[i][1] = list[next - 1][1] /\ list[next - 1][2] = list[i][2] + ((next - 1) - i)
        BY <1>2, <3>2, <3>5, Pair
      <4> QED
        BY <1>2, <3>1, <3>2, <4>1
    <3> QED
      BY <1>2, <2>1, <3>1, <3>2, <3>5, <3>6
  <2> QED
    BY <1>2, <1>6, <2>3, <2>4, <2>5 DEF FrameMatchesEntry
<1> QED
  BY <1>7, <1>8

\* FrameMatchesEntry holds for every size: every frame is the whole entry that is
\* OFFSET frames old, or a header alone when the list has none.
THEOREM FramesCarryTheirEntry == ASSUME LATEST <= OFFSET PROVE Spec => []FrameMatchesEntry
<1>1. Inv => FrameMatchesEntry
  <2>1. ~Closing => FrameMatchesEntry
    BY DEF FrameMatchesEntry
  <2>2. Inv /\ Closing => FrameMatchesEntry
    BY EntryIsWhole DEF Inv, Closing
  <2> QED
    BY <2>1, <2>2
<1> QED
  BY <1>1, Invariance, PTL

=============================================================================
