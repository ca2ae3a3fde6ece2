------------------------------ MODULE ListLoad ------------------------------
(***************************************************************************)
(* How the lists come into the RAM before the burst: SubReceive32bit cuts  *)
(* frames into words of 8 bytes and writes them into FifoToRAM (125 MHz),  *)
(* ethFifo empties it into the stream of a DMA when a frame has ended      *)
(* (200 MHz), and SetDetectors queues descriptors of LEN words for this    *)
(* DMA through alt_msgdma_descriptor_async_transfer as long as the         *)
(* operator's detector is the one the workstation has announced.           *)
(*                                                                         *)
(* The stream cannot be held: ethFifo ignores asi_ready, and what the DMA  *)
(* cannot store is lost.  The driver stops the dispatcher while it writes  *)
(* a descriptor.  A word is its number in the workstation's stream, the    *)
(* address 0 of the RAM is addressRAM0_0.  No burst starts during the load *)
(* (startData = '0').                                                      *)
(* Definitions named ..._bug are mutated forms of the one that follows.    *)
(***************************************************************************)
EXTENDS Integers, Sequences

CONSTANTS
  Det,       \* detectors of the menu, of 0 .. 4
  LEN,       \* words per descriptor (len_wr = 256 bytes: 32)
  DEPTH,     \* descriptor_fifo_depth of the dispatcher (128)
  FIFOSIZE,  \* words of FifoToRAM (256)
  DMASIZE,   \* words the DMA stores (256)
  LAG,       \* 200 MHz clocks until rdempty shows a word (at most 7)
  SPACING,   \* 200 MHz clocks between two words of a frame (12)
  MINFRAME,  \* words of the shortest frame; the workstation's have about 180
  NWORDS,    \* bound: words sent
  RAMSIZE    \* bound: words of the RAM

ASSUME LoadAssumption ==
  /\ Det \subseteq 0 .. 4
  /\ {LEN, DEPTH, FIFOSIZE, DMASIZE} \subseteq Nat \ {0}
  /\ {LAG, SPACING, MINFRAME, NWORDS, RAMSIZE} \subseteq Nat
  /\ LAG \in 1 .. FIFOSIZE /\ LAG <= SPACING /\ SPACING > 1
  \* While ethFifo empties a full FIFO fewer words come in than a frame has
  \* beyond LAG.
  /\ MINFRAME > LAG /\ (SPACING - 1) * (MINFRAME - LAG) >= FIFOSIZE

VARIABLES
  sent, length,            \* words sent; words of the frame being received
  detectorUnderInit,       \* last detector announced
  ToRam, unseen,           \* FifoToRAM; clocks until its last word is seen
  pause,                   \* clocks until the next word can be there
  packetreceived,          \* clocks of ethFifo that can still sample the pulse
  FSM, fifo_read, asi_valid, q,   \* ethFifo and the output of FifoToRAM
  data,                           \* words in the DMA
  descriptors, stopped,           \* dispatcher: addresses queued, STOP bit
  at, left,                       \* descriptor issued: next address, words left
  ram,                            \* words in the RAM, 0 where none was written
  lost,                           \* history: words dropped by a full FIFO or DMA
  pc, entry, wr_adr_p             \* SetDetectors, async_transfer inlined

netVars == <<sent, length, detectorUnderInit>>
fifoVars == <<ToRam, unseen, pause, packetreceived, FSM, fifo_read, asi_valid, q, lost>>
dmaVars == <<at, left, ram>>
fwVars == <<stopped, pc, entry, wr_adr_p>>
vars == <<netVars, fifoVars, data, descriptors, dmaVars, fwVars>>

Init ==
  /\ sent = 0 /\ length = 0 /\ detectorUnderInit = 0
  /\ ToRam = <<>> /\ unseen = 0 /\ pause = 0 /\ packetreceived = 0
  /\ FSM = 0 /\ fifo_read = FALSE /\ asi_valid = FALSE /\ q = 0 /\ lost = {}
  /\ data = <<>> /\ descriptors = <<>> /\ stopped = FALSE
  /\ at = 0 /\ left = 0 /\ ram = [a \in 0 .. RAMSIZE - 1 |-> 0]
  /\ pc = "prompt" /\ entry = 0 /\ wr_adr_p = 0

-----------------------------------------------------------------------------
(* SubReceive32bit, S3_1 to S3_8: a word takes eight clocks of 125 MHz,    *)
(* SPACING of 200 MHz, in which its predecessor crosses.  The end of the   *)
(* frame is signalled for one clock, which ethFifo samples once or twice.  *)

EndsFrame(last) ==
  /\ last => length + 1 >= MINFRAME
  /\ length' = IF last THEN 0 ELSE length + 1
  /\ packetreceived' = IF last THEN 2 ELSE 0

\* A word of a list; a full FIFO drops it (overflow_checking).
Store(last) ==
  /\ sent < NWORDS /\ pause = 0
  /\ EndsFrame(last)
  /\ sent' = sent + 1 /\ pause' = SPACING
  /\ IF Len(ToRam) < FIFOSIZE
     THEN ToRam' = Append(ToRam, sent') /\ unseen' = LAG /\ UNCHANGED lost
     ELSE lost' = lost \cup {sent'} /\ UNCHANGED <<ToRam, unseen>>
  /\ UNCHANGED <<detectorUnderInit, FSM, fifo_read, asi_valid, q, data, descriptors,
                 dmaVars, fwVars>>

\* 5A5A5A5A5A5A5A0d announces detector d and is not stored; the workstation
\* sends it first in a frame, or alone.
Announce(d, alone) ==
  /\ length = 0 /\ pause = 0
  /\ detectorUnderInit' = d /\ pause' = SPACING
  /\ packetreceived' = IF alone THEN 2 ELSE 0
  /\ UNCHANGED <<sent, length, ToRam, unseen, FSM, fifo_read, asi_valid, q, lost,
                 data, descriptors, dmaVars, fwVars>>

-----------------------------------------------------------------------------
(* One 200 MHz clock of ethFifo, FifoToRAM's read side and the stream.     *)

rdempty == Len(ToRam) = IF unseen > 0 THEN 1 ELSE 0

Machine_ready_bug ==
  IF FSM = 0
  THEN /\ FSM' = IF packetreceived > 0 THEN 1 ELSE 0
       /\ fifo_read' = (packetreceived > 0)
       /\ UNCHANGED asi_valid
  ELSE /\ FSM' = IF rdempty \/ Len(data) = DMASIZE THEN 0 ELSE 1
       /\ fifo_read' = (FSM' = 1) /\ asi_valid' = (FSM' = 1)

Machine_valid_bug ==
  IF FSM = 0
  THEN /\ FSM' = IF packetreceived > 0 THEN 1 ELSE 0
       /\ fifo_read' = (packetreceived > 0)
       /\ UNCHANGED asi_valid
  ELSE /\ FSM' = IF rdempty THEN 0 ELSE 1
       /\ fifo_read' = ~rdempty /\ asi_valid' = (Len(ToRam) > 1)

Machine ==
  IF FSM = 0
  THEN /\ FSM' = IF packetreceived > 0 THEN 1 ELSE 0
       /\ fifo_read' = (packetreceived > 0)
       /\ UNCHANGED asi_valid
  ELSE /\ FSM' = IF rdempty THEN 0 ELSE 1
       /\ fifo_read' = ~rdempty /\ asi_valid' = ~rdempty

Read ==
  IF fifo_read /\ ~rdempty THEN ToRam' = Tail(ToRam) /\ q' = Head(ToRam)
                           ELSE UNCHANGED <<ToRam, q>>

Stream_overrun_bug ==
  /\ data' = IF asi_valid THEN Append(data, q) ELSE data
  /\ UNCHANGED lost

\* asi_ready is not looked at.
Stream ==
  LET full == Len(data) = DMASIZE IN
  /\ data' = IF asi_valid /\ ~full THEN Append(data, q) ELSE data
  /\ lost' = IF asi_valid /\ full THEN lost \cup {q} ELSE lost

EthFifo ==
  /\ Machine /\ Read /\ Stream
  /\ unseen' = (IF unseen > 0 THEN unseen - 1 ELSE 0)
  /\ pause' = (IF pause > 0 THEN pause - 1 ELSE 0)
  /\ packetreceived' \in {0} \cup {n \in {1} : packetreceived = 2}
  /\ UNCHANGED <<netVars, descriptors, dmaVars, fwVars>>

-----------------------------------------------------------------------------
(* The DMA: the dispatcher issues a descriptor unless it is stopped, the   *)
(* write master goes on with the one issued.                               *)

Issue ==
  /\ ~stopped /\ left = 0 /\ descriptors # <<>>
  /\ at' = Head(descriptors) /\ left' = LEN
  /\ descriptors' = Tail(descriptors)
  /\ UNCHANGED <<netVars, fifoVars, data, ram, fwVars>>

WriteRam ==
  /\ left > 0 /\ data # <<>>
  /\ ram' = [ram EXCEPT ![at] = Head(data)]
  /\ at' = at + 1 /\ left' = left - 1
  /\ data' = Tail(data)
  /\ UNCHANGED <<netVars, fifoVars, descriptors, fwVars>>

-----------------------------------------------------------------------------
(* SetDetectors.                                                           *)

hwVars == <<netVars, fifoVars, data, dmaVars>>

\* The operator names a detector, or skips.
Choose(d) ==
  /\ pc = "prompt"
  /\ entry' = d /\ pc' = "levels"
  /\ UNCHANGED <<hwVars, descriptors, stopped, wr_adr_p>>

Finish ==
  /\ pc = "prompt"
  /\ pc' = "done"
  /\ UNCHANGED <<hwVars, descriptors, stopped, entry, wr_adr_p>>

Levels_advance_bug ==
  /\ pc = "levels"
  /\ pc' = IF Len(descriptors) >= DEPTH THEN "look" ELSE "stop"
  /\ wr_adr_p' = IF Len(descriptors) >= DEPTH THEN wr_adr_p + LEN ELSE wr_adr_p
  /\ UNCHANGED <<hwVars, descriptors, stopped, entry>>

\* The fill level is read first: without room the call returns -ENOSPC.
Levels ==
  /\ pc = "levels"
  /\ pc' = IF Len(descriptors) >= DEPTH THEN "look" ELSE "stop"
  /\ UNCHANGED <<hwVars, descriptors, stopped, entry, wr_adr_p>>

\* The dispatcher issues nothing while its registers are written.
Stop ==
  /\ pc = "stop" /\ wr_adr_p + LEN <= RAMSIZE
  /\ stopped' = TRUE /\ pc' = "write"
  /\ UNCHANGED <<hwVars, descriptors, entry, wr_adr_p>>

\* It would wait here for a place, and give up, with the dispatcher stopped.
WriteDescriptor ==
  /\ pc = "write" /\ Len(descriptors) < DEPTH
  /\ descriptors' = Append(descriptors, wr_adr_p)
  /\ pc' = "run"
  /\ UNCHANGED <<hwVars, stopped, entry, wr_adr_p>>

Run_stopped_bug ==
  /\ pc = "run"
  /\ wr_adr_p' = wr_adr_p + LEN /\ pc' = "look"
  /\ UNCHANGED <<hwVars, descriptors, stopped, entry>>

Run ==
  /\ pc = "run"
  /\ stopped' = FALSE
  /\ wr_adr_p' = wr_adr_p + LEN /\ pc' = "look"
  /\ UNCHANGED <<hwVars, descriptors, entry>>

Look ==
  /\ pc = "look"
  /\ pc' = IF detectorUnderInit # entry THEN "prompt" ELSE "levels"
  /\ UNCHANGED <<hwVars, descriptors, stopped, entry, wr_adr_p>>

Loop == Levels \/ Stop \/ WriteDescriptor \/ Run \/ Look

-----------------------------------------------------------------------------
Next ==
  \/ \E last \in BOOLEAN : Store(last)
  \/ \E d \in Det, alone \in BOOLEAN : Announce(d, alone)
  \/ \E d \in Det : Choose(d)
  \/ EthFifo \/ Issue \/ WriteRam
  \/ Finish \/ Loop

Spec == Init /\ [][Next]_vars

\* The clock runs, the processor runs, and the DMA does what it was told.
FairSpec == Spec /\ WF_vars(EthFifo) /\ WF_vars(Loop) /\ WF_vars(Issue) /\ WF_vars(WriteRam)

-----------------------------------------------------------------------------
(* Properties.                                                             *)

\* Types; neither FIFO holds more than it has place for.
TypeOK ==
  /\ sent \in 0 .. NWORDS /\ length \in Nat /\ detectorUnderInit \in Det \cup {0}
  /\ Len(ToRam) <= FIFOSIZE /\ Len(data) <= DMASIZE /\ Len(descriptors) <= DEPTH
  /\ unseen \in 0 .. LAG /\ pause \in 0 .. SPACING /\ packetreceived \in 0 .. 2 /\ FSM \in {0, 1}
  /\ fifo_read \in BOOLEAN /\ asi_valid \in BOOLEAN /\ stopped \in BOOLEAN
  /\ left \in 0 .. LEN /\ at \in 0 .. RAMSIZE /\ wr_adr_p \in 0 .. RAMSIZE
  /\ ram \in [0 .. RAMSIZE - 1 -> 0 .. NWORDS]
  /\ lost \subseteq 1 .. NWORDS
  /\ pc \in {"prompt", "done", "levels", "stop", "write", "run", "look"}
  /\ entry \in Det \cup {0}

\* The RAM is filled from its start without holes and in the order of the
\* stream, whatever calls fail for want of room and whatever words are lost:
\* no block is skipped, written twice or written behind a later one.
RamInOrder ==
  \A a \in 0 .. RAMSIZE - 1 :
    ram[a] # 0 => \A b \in 0 .. a - 1 : 0 < ram[b] /\ ram[b] < ram[a]

\* altera_msgdma.c:386: the loop that waits for a free descriptor runs with the
\* dispatcher stopped, so nothing would free one: it must find one at once.
NeverWaitsStopped == (stopped => pc \in {"write", "run"}) /\ (pc = "write" => Len(descriptors) < DEPTH)

\* hello_world.c:237: when a frame has ended its words go on to the DMA; none
\* stays in FifoToRAM until the next frame, though its last word crosses the
\* clocks after the signal that it has ended.
FrameMovesOn ==
  (length = 0 /\ packetreceived = 0 /\ FSM = 0) => ToRam = <<>>

\* ethFifo.v:41: asi_valid follows the words out of FifoToRAM clock by clock: a
\* word that is missing was dropped by a FIFO or a DMA that was full.
Among(s) == {s[i] : i \in 1 .. Len(s)}
NoWordVanishes ==
  1 .. sent = lost \cup Among(ToRam) \cup {w \in {q} : asi_valid} \cup Among(data)
                   \cup ({ram[a] : a \in 0 .. RAMSIZE - 1} \ {0})

\* A word the DMA has taken reaches the RAM while the loop runs.
InRam(w) == \E a \in 0 .. RAMSIZE - 1 : ram[a] = w
Looping == pc \notin {"prompt", "done"}
Delivered ==
  \A w \in 1 .. NWORDS :
    w \in Among(data) ~> (InRam(w) \/ ~Looping \/ wr_adr_p + LEN > RAMSIZE)

=============================================================================
