----------------------------- MODULE Packetiser -----------------------------
(***************************************************************************)
(* One detector port of ethlink.vhd between its primitive FIFO and the     *)
(* transmit port of its MAC: SubFillBuffer, SubSendPrimitive and the       *)
(* serialiser that cuts the FIFO's lines into words.                       *)
(*                                                                         *)
(* FSMBuffer looks for the timestamp that is due and moves it and the      *)
(* primitives behind it into bufferfifo; FSMSend queues one frame every    *)
(* PERIOD clocks, with these words or with a header only.  Both run on the *)
(* 125 MHz clock, so one action, Clock, is one edge: the wires are state   *)
(* operators and the primed variables the registers.  SubSendPrimitive is  *)
(* called after SubFillBuffer and has the last word on primitiveinpacket.  *)
(*                                                                         *)
(* A word is <<time, k>>: the timestamp (k = 0) or the k-th primitive of   *)
(* the entry of that time.  The MAC port is taken to be ready.             *)
(* Definitions named ..._bug are mutated forms of the one that follows.    *)
(***************************************************************************)
EXTENDS Integers, Sequences

CONSTANTS
  WPL,        \* words per line of the primitive FIFO (8)
  PERIOD,     \* clocks per frame (800: 6.4 us)
  OFFSET,     \* frames between a timestamp and its frame (2, 4 for LKr)
  COUNTMOD,   \* size of the primitive count (2^8)
  LATMOD,     \* size of the latency counter (2^16)
  BUFSIZE,    \* words of bufferfifo (512)
  Lists,      \* the lists to send, sequences of words
  LATEST,     \* the lines reach the FIFO at any time before this frame (0: all
              \* before the burst), and without a pause after it
  MAXFRAME    \* bound: last frame number of the burst

ASSUME PacketiserAssumption ==
  /\ {WPL, PERIOD, OFFSET, COUNTMOD, LATMOD, BUFSIZE, MAXFRAME} \subseteq Nat \ {0}
  /\ LATEST \in Nat
  /\ WPL > 1 /\ LATMOD > PERIOD /\ 2 * COUNTMOD <= BUFSIZE

\* The lists of the workstation: entries of a timestamp above 0 and one or more
\* primitives, by rising time, as many as a frame has clocks for.
ASSUME ListsAssumption ==
  \A l \in Lists :
    /\ l \in Seq((Nat \ {0}) \X (0 .. COUNTMOD - 1)) /\ l # <<>>
    /\ l[1][2] = 0 /\ l[Len(l)][2] > 0
    /\ \A i \in 1 .. Len(l) - 1 :
         l[i][1] # l[i + 1][1] => l[i][2] > 0 /\ l[i + 1][2] = 0
    /\ \A i, j \in 1 .. Len(l) : i < j =>
         \/ l[i][1] < l[j][1]
         \/ l[i][1] = l[j][1] /\ l[j][2] = l[i][2] + (j - i)
    /\ \A i \in 1 .. Len(l) : 3 * l[i][2] + 12 <= PERIOD

VARIABLES
  list, load, started,         \* the list, its lines still to come, burst started
  fifo, line, primitiveFIFOempty,          \* primitive FIFO, its output, its flag
  startData, framecounter_copy,            \* registers of SubMain
  FSMBuffer, readfromfifo, sendflag, rdpointer,       \* SubFillBuffer, serialiser
  bufferfifo, q, primitiveinpacket,        \* shared by the two machines
  FSMSend, latency, npackets, tstmpword, framecounter,          \* SubSendPrimitive
  frame, gap    \* history: what the frame holds, clocks since the last one or
                \* the start

sourceVars == <<list, load, started, fifo, line, primitiveFIFOempty>>
fillVars == <<FSMBuffer, readfromfifo, sendflag, rdpointer>>
sendVars == <<FSMSend, latency, npackets, tstmpword, framecounter>>
vars == <<sourceVars, startData, framecounter_copy, fillVars, bufferfifo, q,
          primitiveinpacket, sendVars, frame, gap>>

-----------------------------------------------------------------------------
(* The lists.  A transfer of 1024 lines is longer than the list: the words *)
(* behind it read as zero, here to the end of the line and one line more.  *)

Stamp(n) == <<n, 0>>

Lines(l) ==
  [i \in 1 .. (Len(l) \div WPL) + 2 |->
    [k \in 1 .. WPL |-> LET j == (i - 1) * WPL + k
                        IN  IF j <= Len(l) THEN l[j] ELSE Stamp(0)]]

Init ==
  /\ list \in Lists
  /\ load = IF LATEST > 0 THEN Lines(list) ELSE <<>>
  /\ fifo = IF LATEST > 0 THEN <<>> ELSE Lines(list)
  /\ started = FALSE /\ line = [k \in 1 .. WPL |-> Stamp(0)] /\ primitiveFIFOempty = FALSE
  /\ startData = FALSE /\ framecounter_copy = 0
  /\ FSMBuffer = "S0" /\ readfromfifo = FALSE /\ sendflag = FALSE /\ rdpointer = 0
  /\ bufferfifo = <<>> /\ q = Stamp(0) /\ primitiveinpacket = 0
  /\ FSMSend = "S0" /\ latency = PERIOD - 1 /\ npackets = 0 /\ tstmpword = Stamp(0)
  /\ framecounter = 0
  /\ frame = <<>> /\ gap = 0

-----------------------------------------------------------------------------
(* The inputs of an edge.                                                  *)

\* The burst is started once and may stop on any clock.
Burst ==
  \/ /\ startData /\ startData' \in BOOLEAN
     /\ startData' => framecounter < MAXFRAME
     /\ UNCHANGED started
  \/ ~started /\ startData' = TRUE /\ started' = TRUE
  \/ ~startData /\ startData' = FALSE /\ UNCHANGED started

\* A line arrives from the DMA, or not yet.
Arriving ==
  IF load = <<>> THEN {<<>>}
  ELSE IF framecounter < LATEST THEN {<<>>, <<Head(load)>>} ELSE {<<Head(load)>>}

\* The FIFO is not show-ahead; a read of an empty one keeps its output.
Source ==
  LET read == readfromfifo /\ fifo # <<>>
  IN
  /\ \E new \in Arriving :
       /\ load' = IF load # <<>> /\ new # <<>> THEN Tail(load) ELSE load
       /\ fifo' = (IF read THEN Tail(fifo) ELSE fifo) \o new
  /\ line' = IF read THEN Head(fifo) ELSE line
  /\ primitiveFIFOempty' = (fifo = <<>>)
  /\ framecounter_copy' = framecounter
  /\ UNCHANGED list

-----------------------------------------------------------------------------
(* SubFillBuffer.                                                          *)

dataout == line[rdpointer + 1]
IsStamp == dataout[2] = 0

Due == dataout[1] + OFFSET = framecounter_copy

Match ==
  /\ startData /\ FSMBuffer = "S1"
  /\ IsStamp /\ Due /\ ~primitiveFIFOempty /\ framecounter_copy > 0

Collect == startData /\ FSMBuffer = "S2" /\ ~IsStamp

Fill(state, read, flag, rdreq) ==
  /\ FSMBuffer' = state
  /\ readfromfifo' = read
  /\ sendflag' = flag
  /\ rdpointer' = IF rdreq THEN (rdpointer + 1) % WPL ELSE rdpointer

FillOff == ~startData /\ Fill("S0", FALSE, FALSE, FALSE)

FillWait ==
  /\ startData
  /\ \/ FSMBuffer = "S0" /\ primitiveFIFOempty
     \/ FSMBuffer = "S1" /\ ~Match
  /\ Fill(FSMBuffer, FALSE, FALSE, FALSE)

FillFirst ==
  /\ startData /\ FSMBuffer = "S0" /\ ~primitiveFIFOempty
  /\ Fill("S1_Latency", TRUE, FALSE, FALSE)

Following == [S1_Latency |-> "S1_1_Latency", S1_1_Latency |-> "S1",
              S2_2_Latency |-> "S2", S3 |-> "S1"]
FillLatency ==
  /\ startData /\ FSMBuffer \in DOMAIN Following
  /\ Fill(Following[FSMBuffer], FALSE, FALSE, FALSE)

\* A word is stored; after the last of a line the next line is read.
FillStore ==
  /\ Match \/ Collect
  /\ IF rdpointer # WPL - 1 THEN Fill("S2", FALSE, FALSE, TRUE)
                            ELSE Fill("S2_Latency", TRUE, FALSE, FALSE)

FillRewind ==
  /\ startData /\ FSMBuffer = "S2_Latency"
  /\ Fill("S2_2_Latency", FALSE, FALSE, TRUE)

\* The next timestamp: tell FSMSend, for one clock.
FillEnd ==
  /\ startData /\ FSMBuffer = "S2" /\ IsStamp
  /\ Fill("S3", FALSE, TRUE, FALSE)

FillBuffer ==
  \/ FillOff \/ FillWait \/ FillFirst \/ FillLatency
  \/ FillStore \/ FillRewind \/ FillEnd

-----------------------------------------------------------------------------
(* SubSendPrimitive.  latency counts down in every state of the burst.     *)

More_short_bug == npackets + 1 < primitiveinpacket

More_equal_bug == npackets <= primitiveinpacket

More == npackets < primitiveinpacket
Some == primitiveinpacket # 0
Last == latency = 1
Closing == startData /\ FSMSend = "S2"

\* rdreq of bufferfifo.
Pop_header_bug ==
  /\ startData
  /\ \/ FSMSend = "S1" /\ Some
     \/ FSMSend \in {"S1_1", "S1_2", "S1_3"} /\ More

Pop ==
  /\ startData
  /\ \/ FSMSend \in {"S1_header", "S1"} /\ Some
     \/ FSMSend \in {"S1_1", "S1_2", "S1_3"} /\ More

\* What is written into the MAC port.
Write ==
  CASE FSMSend = "S1_header" -> << <<"header", primitiveinpacket, framecounter>> >>
    [] FSMSend \in {"S1_1", "S1_3"} /\ (More \/ Last) -> <<tstmpword, q>>
    [] FSMSend = "S1_2" /\ ~More /\ Last -> <<q>>
    [] OTHER -> <<>>

\* A step of the burst: to a state, with a word to remember or not.
Send(state, keep) ==
  /\ startData
  /\ FSMSend' = state
  /\ latency' = (latency - 1) % LATMOD
  /\ tstmpword' = IF keep THEN q ELSE tstmpword
  /\ npackets' = CASE FSMSend = "S0" -> 0
                   [] FSMSend # "S1_header" /\ Pop -> npackets + 1
                   [] OTHER -> npackets
  /\ frame' = frame \o Write
  /\ UNCHANGED framecounter

SendOff ==
  /\ ~startData /\ FSMSend = "S0"
  /\ latency' = PERIOD - 1 /\ npackets' = 0 /\ framecounter' = 0
  /\ frame' = <<>>  \* wtxclr
  /\ UNCHANGED <<FSMSend, tstmpword>>

SendAbort ==
  /\ ~startData /\ FSMSend # "S0" /\ FSMSend' = "S0"
  /\ UNCHANGED <<latency, npackets, tstmpword, framecounter, frame>>

HeaderTime_late_bug == latency = 1

HeaderTime == latency = 4

SendIdle ==
  /\ FSMSend = "S0"
  /\ Send(IF sendflag \/ HeaderTime THEN "S1_header" ELSE "S0", FALSE)

SendHeader == FSMSend = "S1_header" /\ Send("S1", FALSE)

SendStamp ==
  /\ FSMSend = "S1" /\ Some
  /\ Send("S1_1", TRUE)

SendEmpty ==
  /\ FSMSend = "S1" /\ ~Some
  /\ Send(IF Last THEN "S2" ELSE "S1", FALSE)

\* S1_1 and S1_3 write a pair, S1_2 remembers its first word.
SendWord ==
  /\ FSMSend \in {"S1_1", "S1_2", "S1_3"}
  /\ LET next == IF FSMSend = "S1_2" THEN "S1_3" ELSE "S1_2"
     IN  Send(IF More THEN next ELSE IF Last THEN "S2" ELSE FSMSend, FSMSend = "S1_2")
 

\* wtxreq: the frame is queued with the length of primitiveinpacket.
SendQueue ==
  /\ Closing
  /\ FSMSend' = "S0" /\ latency' = PERIOD - 1 /\ npackets' = 0
  /\ framecounter' = framecounter + 1
  /\ frame' = <<>>
  /\ UNCHANGED <<tstmpword>>

SendPrimitive ==
  \/ SendOff \/ SendAbort \/ SendIdle \/ SendHeader
  \/ SendStamp \/ SendEmpty \/ SendWord \/ SendQueue

-----------------------------------------------------------------------------
(* What the two machines share, and the edge.                              *)

Aclr == ~startData /\ FSMBuffer = "S0"

Buffer ==
  LET pop  == Pop /\ bufferfifo # <<>>
      left == IF pop THEN Tail(bufferfifo) ELSE bufferfifo
      push == (Match \/ Collect) /\ Len(bufferfifo) < BUFSIZE
  IN
  /\ bufferfifo' = IF Aclr THEN <<>> ELSE IF push THEN Append(left, dataout) ELSE left
  /\ q' = IF pop THEN Head(bufferfifo) ELSE q

Count ==
  primitiveinpacket' = CASE Closing -> 0
                         [] ~Closing /\ Match -> 0
                         [] ~Closing /\ Collect -> (primitiveinpacket + 1) % COUNTMOD
                         [] OTHER -> primitiveinpacket

Elapsed == gap' = IF Closing \/ ~startData THEN 0
                  ELSE IF gap <= PERIOD THEN gap + 1 ELSE gap

Clock == Burst /\ Source /\ FillBuffer /\ SendPrimitive /\ Buffer /\ Count /\ Elapsed

Next == Clock

Spec == Init /\ [][Next]_vars

-----------------------------------------------------------------------------
(* Properties.                                                             *)

\* Types.  Half of bufferfifo is enough: it never holds more than one entry.
TypeOK ==
  /\ startData \in BOOLEAN /\ primitiveFIFOempty \in BOOLEAN
  /\ FSMBuffer \in {"S0", "S1", "S2"} \cup DOMAIN Following \cup {"S2_Latency"}
  /\ FSMSend \in {"S0", "S1_header", "S1", "S1_1", "S1_2", "S1_3", "S2"}
  /\ rdpointer \in 0 .. WPL - 1
  /\ Len(bufferfifo) <= BUFSIZE \div 2
  /\ primitiveinpacket \in 0 .. COUNTMOD - 1 /\ npackets \in 0 .. COUNTMOD - 1
  /\ latency \in 0 .. LATMOD - 1
  /\ framecounter \in 0 .. MAXFRAME

\* The frame that is queued holds exactly the entry that is OFFSET frames old,
\* behind a header with its count, or the header alone when the list has none:
\* nothing is lost, split over two frames or sent twice, though FSMBuffer and
\* FSMSend only share a count, a one-clock flag and a FIFO.
Holds(w) == \E i \in 1 .. Len(list) : list[i] = w
Entry(t, c) == [k \in 1 .. c + 1 |-> <<t, k - 1>>]
FrameMatchesEntry ==
  Closing =>
    LET t == framecounter - OFFSET
        c == primitiveinpacket
        header == <<"header", c, framecounter>>
    IN  IF Holds(Stamp(t))
        THEN /\ Holds(<<t, c>>) /\ ~Holds(<<t, c + 1>>)
             /\ frame = <<header>> \o Entry(t, c)
        ELSE c = 0 /\ frame = <<header>>

\* ethlink.vhd:866: a frame is queued every 800 clocks of the burst, whatever
\* the number of primitives, and the latency counter never runs past its end.
Heartbeat == gap < PERIOD /\ (Closing => gap = PERIOD - 1)

\* Between two frames nothing of the last one is left in bufferfifo, where it
\* would be sent at the head of the next.
NothingLeftBehind ==
  (startData /\ FSMSend = "S0" /\ FSMBuffer \in {"S0", "S1"} /\ ~sendflag)
    => bufferfifo = <<>>

=============================================================================
