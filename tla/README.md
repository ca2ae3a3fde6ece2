# Verification of the L0 Tribe test bench

The repository is the firmware of an FPGA board (Stratix IV, DE4) that plays
lists of detector primitives into the NA62 level-0 trigger processor.  A
workstation loads one list per detector over Ethernet into SDRAM; during a burst
the lists are moved by DMA into one FIFO per detector and sent as UDP datagrams,
one per detector and 6.4 us, each carrying the primitives of its time frame.
This directory holds TLA+ models of its concurrent parts, the runs that check
them and the proofs of what matters most about them.

## 1. The system

| component | source | state it keeps | operations |
|---|---|---|---|
| firmware | `software/TestBench_FW/hello_world.c` | descriptors, `rd_adr_p`, `addr_update`, `ISR_transfer_flag` | `Init`, `CleanRAM`, `SetDetectors`, first transfers, burst loop, `ISR_transfer_callback` |
| console driver, system tick | `altera_avalon_jtag_uart_*.c`, `alt_tick.c`, `alt_alarm_start.c` of the board support package | two rings, `irq_enable`, `host_inactive`, tick counter, alarm | interrupt routine, time limit, read, write, close, tick |
| request comparator, burst and reset control | `TestBench_LS.v`, `SOBEOBDispatcher.v` | `polling`, `interrupt`, `FSMReset`, state of the SOB/EOB machine | request when a FIFO falls below 1024 words; software reset; `ECRST`/`BCRST` pulses |
| primitive FIFOs | `primitiveFIFO.v`, `IP/StreamFifo/streamFIFO.v` | 2048 lines of 8 words per detector | write from the DMA stream (never refused), read by the packetiser |
| packetiser | `ethlink/ethlink.vhd`: `SubFillBuffer`, `SubSendPrimitive(RGMII)`; `altPrimitiveSerializer.vhd`, `bufferfifo.vhd` | `FSMBuffer`, `FSMSend`, `latency`, `framecounter`, `primitiveinpacket`, `bufferfifo` | find the due timestamp, collect its primitives, write and queue one frame per 800 clocks |
| RAM load path | `ethlink.vhd`: `SubReceive32bit`; `FifoToRAM.v`, `IP/ethFIFO/ethFifo.v`, `SetDetectors`, `altera_msgdma.c` | `detectorUnderInit`, `packetreceived`, `FSM`, descriptor FIFO, `wr_adr_p` | cut received frames into words of 64 bits, stream a frame to the DMA, queue descriptors for it |
| MAC transmit port | `ethlink/mac/txport1.vhd` | `txdatabuf`, `txparamfifo`, `txbackfifo`, three FSMs, synchroniser chains | write, clear and queue a frame; offer, flush, discard; enable handshake |
| MAC transmit scheduler | the same file, `SubFSMtxscheduler`, `SubCmdInterface` | round-robin pointer, command latch, sequence numbers, timers | arbitrate ports, match acknowledgements, hold off and retry |
| MAC receive port | `ethlink/mac/rxport1.vhd` | `rxparamfifo`, `rxfifo`, three FSMs, four synchroniser chains | store and offer received frames, flush when disabled |
| frame transmitter and receiver, command controller | `txframe1.vhd`, `rxframe1.vhd`, `cmdctrl.vhd`, `txrxint.vhd` | octet-level FSMs, pause timer, command queues | build and check frames, acknowledge, ARP |
| helpers | `maclut`, `regfile1`, `regsync1`, `scfiforeg1`, `dpram*`, `crc32`, `syncrst1`, `framegen`, PHY shells | registers and memories | storage, CRC, pins |

Everything else in the tree (most of the board support package, Qsys output with
its memory controllers, synthesis databases, vendor cores, the stand-alone memory
test) is generated, vendored or not instantiated.  That is by far the larger part
of its lines: two copies of the SDRAM sequencer alone have more lines than all
the code listed above.

How they interact:

- the level of a FIFO raises an input of an interrupt PIO with edge capture; the
  interrupt routine copies the captured edges into a flag word; the main loop
  tests and clears the bits of that word and starts a DMA descriptor; the DMA
  writes into the FIFO.  Hardware, interrupt and loop run concurrently;
- outside a burst the same inputs carry `detectorUnderInit`, which the load path
  sets and `SetDetectors` waits on;
- the program prints and reads through rings that it shares with the interrupt
  routine of the UART, and the timer interrupt decides whether a host is there;
- `FSMBuffer` and `FSMSend` of the packetiser run on one clock and share a count
  (`primitiveinpacket`), a one-clock flag (`sendflag`) and a FIFO;
- the client of a MAC port and the MAC meet in dual-clock FIFOs, a dual-port
  memory and level handshakes through chains of registers;
- the scheduler offers frames of all ports to `txframe`; acknowledgements come
  back through `rxframe` and `cmdctrl` into a latch of one entry.

What is hard here: clock domains that see each other late; an enable that may be
withdrawn at any stage; an interrupt that preempts a read-modify-write;
edge-triggered requests about a level; streams that cannot be held; frames and
acknowledgements that are lost or late; timers whose test is an equality;
registers that survive the end of a burst.  The hazards, one by one with the line
where they bite and the property aimed at them, are in `PROJECT.json`.

What makes each part correct: a transmit port sends each queued frame once,
whole, in order, never reuses memory that is still needed and always comes back
from disable or enable; the scheduler starves no port and in connection mode
delivers each frame once, whatever the line loses; a receive port hands out whole
frames in order though it cannot stop the sender; the refill path serves each
port that runs low, once per request and in list order; the packetiser sends a
frame every 800 clocks with exactly the primitives of its time; the load path
fills the memory without holes; the console loses no character and never hangs.

## 2. The modules

| module | models | built on |
|---|---|---|
| `DcFifo` | dual-clock FIFO with pointers that cross late | - |
| `TxQueue` | abstract promise of a transmit port: a queue of frames | - |
| `TxPort` | one transmit port | `DcFifo`; implements `TxQueue` |
| `ReliableLink` | abstract promise of connection mode: delivery once and in order | - |
| `TxLink` | scheduler, command latch, line and host | implements `ReliableLink` |
| `RxQueue` | abstract promise of a receive port | - |
| `RxPort` | one receive port | `DcFifo`; implements `RxQueue` |
| `Refill` | comparator, PIO, interrupt routine, main loop, DMA | - |
| `ListLoad` | load path from the words of a frame to the memory | - |
| `JtagUart` | console driver, tick, alarm, host | - |
| `Packetiser` | one port of the packetiser | - |
| `TxPortProofs`, `TxLinkProofs`, `RxPortProofs`, `RefillProofs`, `ListLoadProofs`, `JtagUartProofs`, `PacketiserProofs` | theorems | the module of that name |
| `TxQueueProofs` | the memory of a transmit port and the refinement of `TxQueue` | `TxPortProofs` |
| `MC...` | instances for TLC | the module of that name |

Definitions named `..._bug` are mutated forms of a definition, used to see that
a property notices them; no specification refers to them.  Variables have the
names of the registers or C variables they stand for; those listed as history
are read by properties and bounds only.

### TxPort, TxQueue

The registers of a synchroniser are a function of Booleans (`enaSync` ...).
There is one action per state and branch of `SubFSMtxportwr` (`WrReset` ...
`WrDisable`; the de-allocation logic after the state machine, `Release`, is part
of each), `SubFSMtxportrd` (`RdReset` ... `RdDiscard`), one for
`SubFSMtxportrdena`, one per domain for `SubCrossingClocks`, and the scheduler as
one port sees it.  The procedures of one clock edge are interleaved; the module's
header says why this loses nothing.  The two clocks have no fixed ratio in the
model, and neither has the delay of a FIFO pointer.  A byte of the memory holds
its position in the stream of bytes written since the last restart, so that an
overwritten byte is seen.

One branch of the code has no action: `FSMtxscheduler` in S1_1 discards the frame
if the port is disabled before `txframe` takes it (txport1.vhd:1234-1241).  A port
drops its enable only when the writer sees `txparamfifo` empty or the read-side
request low, and this request is a constant (section 5), so the branch is never
taken; `NothingDiscarded` checks and proves that its condition is never true.
The model therefore has fewer steps but the same states, and `TxQueue` never
drops a frame.

### TxLink, ReliableLink

All ports, their readers reduced to the three states the scheduler tests; one
action per state and branch of `SubFSMtxscheduler`.  S1 carries out a latched
acknowledgement (`Command`), S1_0 offers the frame of the port under the pointer
or goes on (`Request`, `Skip`), S1_1 and S2 wait for `txframe` (`Grant`, `Done`).
The latch drops an acknowledgement while it holds one.  The line loses frames and
acknowledgements; the host answers every frame with the number of the last one
it has delivered.  `Ident` is what a frame carries of its 32-bit sequence number.
`Stray` are acknowledgements that no frame asked for: `cmdctrl` accepts command 4
from any sender and for any port nibble.

### RxPort, RxQueue

The same modelling of chains and FIFOs as in `TxPort`.  The frame receiver gives
a frame byte by byte and cannot be held; a frame without room is dropped before
its first byte, on the strength of counts that are seen late.  The client reads,
leaves a frame before its end, or drops one of the two enables at any time.  The
two FIFOs are aligned by the lengths in the parameter words only.  The filters on
source and sequence number are a choice; `rxseqnum` itself is left out.

### Refill

Actions are the accesses that can interleave: the three of the interrupt routine
(read the edges, clear them, store the flag) and, for the main loop, the
preparation of descriptors, a test, the start of a transfer, and the load and
the store of `&=`.  The main loop takes no step while the routine runs.  A FIFO
holds the positions of its words in the list, and drops a word when it is full:
the properties allow for such gaps.  Only ports of the mask are in the runs.  `edges` and `out` are
history.  Bytes of descriptors, printing and time are left out: the loop may end
at any of its rounds.

### ListLoad

`Store` is a word of a list that `SubReceive32bit` has put together, `Announce`
the word that names a detector; at least `SPACING` clocks of 200 MHz lie between
two words (`pause`), the eight states S3_1 to S3_8 of 125 MHz.  The last word of a
frame raises `packetreceived`, which `ethFifo` samples once or twice.  `EthFifo` is one clock
of 200 MHz: the machine, the read side of `FifoToRAM` (whose `rdempty` shows a
word up to `LAG` clocks late, and whose output follows a read by one clock) and
the stream.  The steps of
`alt_msgdma_descriptor_async_transfer` are `Levels` (return if there is no room),
`Stop`, `WriteDescriptor` and `Run`, between which the DMA goes on with the
descriptor it has.  `Choose`, `Look` and `Finish` are the menu and the loop of
`SetDetectors`.  `lost` is history.  Assumed: the load is over before a burst
starts (`startData` is '0'), so the branches of `SubReceive32bit` that give up a
frame when a burst begins are left out.

### JtagUart

Every access of a call to the rings is a step, the interrupt routine preempts the
program between any two of them, and the host moves characters between any two
steps of either.  Ticks count modulo `NTICKS`.  `REREAD` chooses between the
write as the source has it and the one that was built, which reads
`host_inactive` once before it waits.

### Packetiser

One action, `Clock`, is one rising edge of the 125 MHz clock: inputs, the two
machines and the FIFOs at once, with the wires as operators on the state.
`FillBuffer` and `SendPrimitive` have an action per state and branch.  Words are
pairs of a time and an index; the widths of the latency counter and the count
are constants.  Inputs are the start and stop of the burst and the arrival of
lines.  A list is a sequence of words; `Lines` lays it out over the lines of the
FIFO, and behind its end the words read as zero.  Assumed: a MAC port that is
ready, and the lists of the workstation (`ListsAssumption`): entries by rising time, with a time above 0 and
between 1 primitive and as many as a frame has clocks for, 3c + 12 <= `PERIOD`
for c primitives (777 of 800 for 255).  An empty list and an entry without primitives are left out.

## 3. The runs

| run | instance | shows |
|---|---|---|
| `txport_datagram` | memory 4, slot 6, writes of 2 bytes, FIFOs of 2, 1 register per chain, 6 bytes between restarts, fair clocks | bookkeeping of memory, the refinement of `TxQueue`, every disable and enable completes |
| `txport_ack` | memory 2, slot 3, connection mode, 3 bytes | frames survive until acknowledged and are repeated unchanged (`TxQueue`); the enable round trip |
| `link` | 2 ports in every combination of modes, sequence numbers modulo 4 of which frames carry one bit, 2 frames per port, a line of 1 | connection mode implements `ReliableLink`; no port is starved; everything queued is sent |
| `link_latch` | one acknowledgement for port 0 | violated: finding 4 |
| `rxport` | `rxparamfifo` of 1, `rxfifo` of 3, frames of 1 and 2 bytes, 3 bytes between flushes, fair clocks | FIFOs aligned and never overrun, the refinement of `RxQueue`, every flush ends |
| `refill_ports` | ports 1 and 2, blocks of one word, three blocks | order of the list, one service per request |
| `refill_starve` | blocks of two words, fairness | violated: finding 1 |
| `load` | descriptors of 2 words, 1 in the dispatcher, FIFO of 4, DMA of 2, 8 words in frames of 4 and more, memory of 6 | the memory fills in order, a frame leaves `FifoToRAM` whole, only full stores drop words, what the DMA has gets into memory |
| `console` | rings of 2, hardware FIFOs of 1, 4 ticks before wrap, 3 characters | characters once and in order, no interrupt off while needed, the alarm is exact, calls return |
| `console_built` | the same with the write that was built | violated: finding 3 |
| `packetiser_intime` | sizes of the hardware, entries of 1 to 255 primitives, 6 frames, lines that arrive on any clock of frame 0 | every frame carries its entry and is queued at its clock |
| `packetiser_late` | lines of 2 words that arrive on any clock of the burst, 40 clocks per frame | violated: finding 2 |

Why the bounds are enough.  In `TxPort` the memory wraps, the free count reaches
0, both FIFOs fill, and the port is disabled and enabled any number of times: the
bound counts bytes between two restarts only.  The same holds of `RxPort`, where
two frames of one byte already meet a full `rxparamfifo` and one and two bytes a
full `rxfifo`.  One register per chain leaves the arrival of a level to the choice
of the clocks; the theorems on both ports hold for chains of any length.  In
`TxLink` sequence numbers wrap (modulo 4, with frames that carry one bit of them), a
late acknowledgement meets the latch full, empty and of another port; the
theorems hold for all sizes.  In `Refill` two ports can overwrite each other's
requests and a third adds nothing but another bit; the threshold is crossed both
ways with blocks of one and two words.  In `ListLoad` the FIFO, the DMA and the
dispatcher fill, the memory bound is met while frames still come in, and two
detectors are enough to leave a loop while words wait.  In `JtagUart` the rings wrap
and fill, and the tick counter wraps between any two alarms.  `Packetiser` runs
with the true sizes: 255 is the largest count of a header, and entries of 6 to 9
and 15, 16 primitives end before, at and behind the end of a line.  Smaller sizes
are used where a short counterexample is enough.

`ListLoad` has the clock rates as numbers: `SPACING` clocks of 200 MHz between
words, `LAG` clocks until `rdempty` shows one, frames of `MINFRAME` words and more,
with (`SPACING` - 1) * (`MINFRAME` - `LAG`) >= `FIFOSIZE`, so that the previous
frame is out of `FifoToRAM` before the next has ended.  The proof of `FrameMovesOn`
found this relation: with `MINFRAME > LAG` alone TLC gives a counterexample.
With 12.8 clocks per word (12 in whole clocks), at most 7 clocks of delay, 256 words of FIFO and frames of
about 180 words it holds with room to spare (11 * 173 >= 256); a frame of a few
words could leave its last ones in `FifoToRAM` until the next.

Deadlock is checked except in `Refill` and `ListLoad`, where the program ends (it
waits for its user) and the bounds stop the loops.

Fairness.  `TxPort`, `RxPort`: both clocks run for ever, so every machine that
can move does (weak fairness of each); pointers cross; the round robin reaches
every port; `txframe` takes and ends every frame, its enable input being tied to
'1' in `txrxint.vhd`.  Nothing is assumed of the client, except in `RxPort` that
it reads on (`RdStep`, `RdAck`).  `TxLink`: the clock runs, holdoffs end, and the
line does not lose everything: of a port's frames sent again and again one
arrives, and of the acknowledgements sent again and again one finds the latch
free, if it is free again and again.  `Refill`: the processor runs and the DMA
moves the words of a started transfer.  `ListLoad`: the clock and the processor
run, the DMA does what it is told.  `JtagUart`: the program, the interrupts and
the timer go on; a host that is plugged in takes characters; nothing is assumed
about whether one is.

## 4. Findings

1. A refill request can be lost for ever: the interrupt routine clears edges it
   has not read, overwrites the flag, and interrupts a non-atomic `&=`
   (`LowPortIsRefilled`).
2. Data that reach the packetiser while its frame is being closed make
   `FSMSend` miss `latency = 1`; the 16-bit counter wraps and the port is silent
   for 65536 clocks (`Heartbeat`).  Finding 1 is one way to get there.
3. The firmware as built hangs in a `printf` when the host goes away while the
   ring is full: `host_inactive` is not volatile and the compiler reads it once
   (`CallsEnd`; with the source's reading of it, `console` shows that it ends).
4. One acknowledgement for a port the MAC does not have fills the command latch
   for ever, and with it every connection stops (`LatchReleased`).

## 5. Observations

Facts of the code met on the way, without a run of their own:

- the enable input of a transmit port cannot stop it: both states of
  `SubFSMtxportrdena` drive the request to '1' (txport1.vhd:829);
- port 0 is never refilled: the interrupt mask is 0xe and the loop serves ports
  1 to 3 (hello_world.c:163, 557), though the inputs are those of all detectors;
- edges of `detectorUnderInit` during the load (TestBench_LS.v:628) stay captured
  and are served as requests of the burst: a port that is not low gets a second
  block, and `streamFIFO` drops what has no room;
- a burst that stops while primitives are counted leaves `primitiveinpacket` set
  (ethlink.vhd:863): the first frame of the next one carries old words;
- without the optional header `rxseqnum` of a received frame is always 0
  (rxframe1.vhd:3424);
- `wr_adr_p` is set once (hello_world.c:248): lists are laid one behind the other
  from the start of the memory, so one that is loaded alone, short, or again does not lie
  where the burst reads it (hello_world.c:36-49);
- words that arrive while the operator is at the prompt have no descriptor; they
  are lost once the DMA is full, because `ethFifo` ignores `asi_ready`;
- the driver would leave the dispatcher stopped if its wait for a free descriptor
  ran out (altera_msgdma.c:403-415); `NeverWaitsStopped` shows that it never
  waits there.

## 6. The proofs

The theorems hold for every value of the constants.  The only assumptions are
those that the modules state (`TxPortAssumption`, `FifoAssumption`,
`RxPortAssumption`, `LinkAssumption`, `RefillAssumption`, `UartAssumption`,
`LoadAssumption`, `PacketiserAssumption`, `ListsAssumption`), which TLC evaluates
in the runs, and the hypothesis `LATEST <= OFFSET` of those on the packetiser.
Each invariant that a run checks needs others to be inductive; in each module the lemmas about sequences and numbers come first, then
one lemma per part of the invariant with a step per action.

`TxPortProofs`: `TypeOK`, `SpaceAccounting`, `CleanRestart`, `FrameOnOffer`,
`NoRunDuringDiscard` and `NothingDiscarded`.  `CleanRestart`, say, needs that the
enable return seen low means that the reader is in its discard state and has been
told of the disable, which is a statement about every register of two chains.
The invariant `Inv` adds to `TypeOK`: the shape of the chains, each of which
carries at most one change at a time, and how the states of the writer and the
reader fit them (`Handshake`); that the read-side request never falls
(`RequestStays`); what each FIFO may hold in each state; and that the frames of
the two FIFOs are consecutive stretches of the stream from `fpos` to `wpos`, from
which the free count follows.

`TxQueueProofs`: `FramesIntact` and the refinement `ImplementsQueue`.  `Memory`
says that position p of the stream of bytes lies at address p modulo `BUFLEN`,
from the first byte of the oldest frame to the last of the frame being loaded.  A
word is written only when the free count has room; as the count is exact
(`SpaceAccounting`) the bytes still needed and the new word together span at most
one round, so no address is hit twice (`WordStored`, on lemmas about remainders
that the module proves).  Then `Done` sends the bytes of the head of the abstract
queue, and the frame leaves it when `FSMtxportrd` goes to S3.

`TxLinkProofs`: `TypeOK`, `HoldsFrame`, `RoundRobin` and the refinement
`ImplementsLink`.  The heart is `AcksFit` and `Connected`: in connection mode
every frame on the line, every acknowledgement on its way and the one in the
latch belong to the frame on offer or to the one before it, and those that match
the sequence number of the frame on offer say that the host has it.  So `Command`
flushes only what has been delivered, and `HostReceives` delivers the next frame
or none.  It is needed that a frame carries enough of its number to tell
neighbours apart (`LinkAssumption`), no more.

`RxPortProofs`: `TypeOK`, `NeverAppears`, `CleanRestart` and the refinement
`ImplementsQueue`.  The invariant has four parts.  `Handshake`: the enable goes
round a ring (`rxportena`, its chain, `rxportenaret`, the chain back) with at most
one change of level on its way, and the states of both machines fit its place.
`Room`: an admitted frame has room for what is missing of it in both FIFOs,
counted in the numbers the writer sees.  `Lines`: each FIFO is a stretch without
gaps that ends where the writer is, and a frame whose parameters are visible has
all its bytes visible, because the parameters are written after the CRC, four
clocks and more behind the last byte (the guard of `ParamFifoSync`).
`Alignment`: the oldest byte of `rxfifo` is the one the reader is at, whatever
its client left unread.  From these each read takes
the byte the abstract queue has at that place, and a flush ends over two empty
FIFOs.  None of it depends on the write-side request, whose fall lasts one clock
(rxport1.vhd:720) and may be missed by `rclk`.

`RefillProofs`: `TypeOK`, `EveryRefillAsked` by counting the copies of a request
(in the capture register, in the routine, in the flag and in the loop's loaded
value: a copy in one place at least for each that the loop may serve, never more
than edges), and `ListInOrder`: the word last taken, the FIFO, the DMA and
the next descriptor of a port follow each other in its list.

`ListLoadProofs`: `TypeOK`, `NeverWaitsStopped`, `RamInOrder`,
`NoWordVanishes` and `FrameMovesOn`.  `AddrInv` says that the descriptors queued follow the one
issued without a gap and that the next to be written follows them; `OrderInv`
that what is written, what the DMA has, what `ethFifo` offers and what is in
`FifoToRAM` follow each other in the stream.  The lemma `Clock` is the argument about
`ethFifo`: a word read is a word offered in the next clock.  For `FrameMovesOn`,
`FrameInv` follows a frame through the machine: `Pulse` ties what is unseen and the
pulse of `packetreceived` to the clocks since the last word; `Emptying` relates the
words still in the FIFO to those of the next frame already received, of which
`ethFifo` can take only so many with it; `Ended` and `Receiving` say that enough of a frame is left
at its end for the last word to become visible before `ethFifo` gets to it.
That `ethFifo` is back in state 0 when the next frame ends is not assumed but a
lemma (`EndsAfterEmptying`): it takes a word per clock, one comes per `SPACING`.

`JtagUartProofs`: `TypeOK`, `TxInOrder`, `RxInOrder`, `Armed` and the action
property `AlarmOnTime`.  The invariant adds what each call remembers of the rings
while the interrupt routine moves them, what the routine has latched, and the
distance to the alarm.

`PacketiserProofs`: `TypeOK`, `Heartbeat`, `NothingLeftBehind` and
`FrameMatchesEntry`, for all sizes and lists, if the lines are in the FIFO before
frame `OFFSET` (`LATEST <= OFFSET`); `packetiser_late` shows that the properties
fail without such a condition.  The two machines share no handshake but the clock, so the invariant is a
timetable.  `SourceInv`: the lines taken are the first of the list and the next one
follows; `Supply`: it is there when it is needed.  `TimeInv`: `latency` is
`PERIOD` - 1 - `gap`, hence the test `latency = 1` is met once per frame.
`FillInv`: a timestamp is found one clock after the last frame was queued or not
at all, as the earlier entries are gone by then; while c primitives have been counted
at most 2c + 4 clocks have passed, changes of line included.  `SendInv`:
`FSMSend` waits until the entry is stored; then `bufferfifo` and the frame are the
rest and the beginning of it, the last word is out by 3c + 12 <= `PERIOD`, and
only then does the frame end.  From the last two `NothingLeftBehind` and
`FrameMatchesEntry` follow, from `TimeInv` with them `Heartbeat`.

Two of these are proved and not in a run, `FrameOnOffer` and
`NeverWaitsStopped`; the inductive invariants were checked with TLC before.

Every invariant and every action property of a passing run is stated by a
theorem.  Only model-checked is liveness, which needs fairness and is out of the
prover's reach: `AllFlushed`, `DisableCompletes`, `EnableCompletes`, `TxDelivered`,
`CallsEnd`, `Delivered`, `FlushCompletes` and `FramesServed`.

## 7. Not modelled

- The octets of frames in `txframe1`, `rxframe1` and `cmdctrl` (headers,
  checksums, ARP, echo): long sequential machines; what their neighbours rely on
  (a request taken is ended, a frame comes as bytes and then its end, command 4)
  is part of `TxPort`, `TxLink` and `RxPort`.
- The pause timer, `seqnumclr`, levels of a port changed during traffic.
- `SOBEOBDispatcher` and `FSMReset`: counters of one clock without a partner; the
  burst is a variable of `Refill` and `Packetiser`.
- The composition of `Packetiser` with a port that is not ready: in the
  system its ports are never full, as one frame per 6.4 us leaves each.
- `ioctl` and error codes of the console driver, the contents of descriptors, `ClearRam`,
  `ReadRam`, printing.
- CRC, register files, PHY shells: functions and wiring without protocol.
- Vendor cores, generated code, test programs and modules that nothing
  instantiates.
