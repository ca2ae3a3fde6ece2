------------------------------- MODULE Refill -------------------------------
(***************************************************************************)
(* How the primitive FIFOs are kept filled during a burst: the comparator  *)
(* of TestBench_LS.v, the edge-capture register of the interrupt PIO, the  *)
(* interrupt routine and the main loop of hello_world.c, and the DMA.      *)
(*                                                                         *)
(* Three actors run concurrently.  The hardware moves words and raises a   *)
(* request when a FIFO falls below half; the PIO captures rising edges.    *)
(* The interrupt routine preempts the main loop between any two of its     *)
(* accesses to ISR_transfer_flag and overwrites the flag with what it has  *)
(* captured.  The main loop prepares the next descriptor of every port and *)
(* starts it when the port's flag is found set.                            *)
(*                                                                         *)
(* A word is its position in the port's list; BLOCK words are a transfer.  *)
(* Definitions named ..._bug are mutated forms of the one that follows.    *)
(***************************************************************************)
EXTENDS Integers, Sequences

CONSTANTS
  Port,    \* detectors modelled, of 0 .. 4
  BLOCK,   \* words per transfer, the request threshold (1024)
  BLOCKS   \* bound: transfers per port

ASSUME RefillAssumption ==
  /\ Port \subseteq 0 .. 4
  /\ BLOCK \in Nat \ {0}
  /\ BLOCKS \in Nat \ {0}

VARIABLES
  detectorUnderInit,  \* nibble of the last load packet (0 .. 4)
  burst,              \* ctrl_sig[0]
  fifo, dma,          \* words stored; words of the transfers started
  edge_cap,           \* rising edges captured
  isr, ISR_input_val, \* interrupt routine: next access, its copy of edge_cap
  ISR_transfer_flag,  \* requests handed to the main loop
  main, port, copy,   \* main loop: next step, port, flag loaded by &=
  rd_adr_p,           \* block of each port's descriptor
  addr_update,        \* descriptor used, a new one is due
  out, edges          \* history: last word taken, edges so far

hwVars   == <<detectorUnderInit, burst, fifo, dma, out, edges>>
isrVars  == <<isr, ISR_input_val>>
mainVars == <<main, port, copy, rd_adr_p, addr_update>>
vars == <<hwVars, edge_cap, isrVars, ISR_transfer_flag, mainVars>>

IrqMask == {1, 2, 3}  \* 0xe: inputs that interrupt; also the ports of the loop

-----------------------------------------------------------------------------
(* The comparator.  wrusedw has 11 bits: a full FIFO of 2048 words reads 0. *)

wrusedw(p) == Len(fifo[p]) % (2 * BLOCK)
Below(p) == wrusedw(p) < BLOCK

interrupt(p) == IF burst THEN Below(p) ELSE (detectorUnderInit \div 2 ^ p) % 2 = 1

\* What the PIO and the history record of a step of the hardware.
Rising == {p \in Port : interrupt(p)' /\ ~interrupt(p)}
Capture ==
  /\ edge_cap' = edge_cap \cup Rising
  /\ edges' = [p \in Port |-> edges[p] + IF p \in Rising THEN 1 ELSE 0]

\* The words of block b.
Words(b) == [k \in 1 .. BLOCK |-> b * BLOCK + k - 1]

Init ==
  /\ detectorUnderInit = 0 /\ burst = FALSE
  /\ fifo = [p \in Port |-> <<>>] /\ dma = [p \in Port |-> <<>>]
  /\ edge_cap = {} /\ ISR_transfer_flag = {}
  /\ isr = "off" /\ ISR_input_val = {}
  /\ main = "load" /\ port = 1 /\ copy = {}
  /\ rd_adr_p = [p \in Port |-> 0] /\ addr_update = [p \in Port |-> TRUE]
  /\ out = [p \in Port |-> -1] /\ edges = [p \in Port |-> 0]

-----------------------------------------------------------------------------
(* Hardware. *)

DmaWrite_overrun_bug(p) ==
  /\ dma[p] # <<>>
  /\ dma' = [dma EXCEPT ![p] = Tail(@)]
  /\ fifo' = [fifo EXCEPT ![p] = Append(@, Head(dma[p]))]
  /\ UNCHANGED <<detectorUnderInit, burst, out, isrVars, ISR_transfer_flag, mainVars>>
  /\ Capture

\* The DMA writes a word; asi_ready is always 1, so a full FIFO drops it.
DmaWrite(p) ==
  /\ dma[p] # <<>>
  /\ dma' = [dma EXCEPT ![p] = Tail(@)]
  /\ fifo' = IF Len(fifo[p]) < 2 * BLOCK THEN [fifo EXCEPT ![p] = Append(@, Head(dma[p]))]
                                         ELSE fifo
  /\ UNCHANGED <<detectorUnderInit, burst, out, isrVars, ISR_transfer_flag, mainVars>>
  /\ Capture

\* The packetiser takes a word during the burst.
Take(p) ==
  /\ burst /\ fifo[p] # <<>>
  /\ fifo' = [fifo EXCEPT ![p] = Tail(@)]
  /\ out' = [out EXCEPT ![p] = Head(fifo[p])]
  /\ UNCHANGED <<detectorUnderInit, burst, dma, isrVars, ISR_transfer_flag, mainVars>>
  /\ Capture

\* The workstation announces the next detector to load.
NextDetector ==
  /\ main = "load" /\ detectorUnderInit < 4
  /\ detectorUnderInit' = detectorUnderInit + 1
  /\ UNCHANGED <<burst, fifo, dma, out, isrVars, ISR_transfer_flag, mainVars>>
  /\ Capture

-----------------------------------------------------------------------------
(* ISR_transfer_callback: read edge_cap, clear it, overwrite the flag.     *)

IsrRead ==
  /\ isr = "off" /\ edge_cap \cap IrqMask # {}
  /\ ISR_input_val' = edge_cap
  /\ isr' = "clear"
  /\ UNCHANGED <<hwVars, edge_cap, ISR_transfer_flag, mainVars>>

IsrClear ==
  /\ isr = "clear"
  /\ edge_cap' = edge_cap \ IrqMask
  /\ isr' = "store"
  /\ UNCHANGED <<hwVars, ISR_input_val, ISR_transfer_flag, mainVars>>

IsrStore ==
  /\ isr = "store"
  /\ ISR_transfer_flag' = ISR_input_val
  /\ isr' = "off"
  /\ UNCHANGED <<hwVars, edge_cap, ISR_input_val, mainVars>>

IsrStep == IsrRead \/ IsrClear \/ IsrStore

-----------------------------------------------------------------------------
(* main: it runs only while no interrupt is served.                        *)

mainFrame == <<edge_cap, isrVars, detectorUnderInit, out, edges>>

\* All ports get a first block before the burst; no descriptor is prepared.
FirstTransfers ==
  /\ main = "load" /\ isr = "off"
  /\ dma' = [p \in Port |-> dma[p] \o Words(rd_adr_p[p])]
  /\ main' = "wait"
  /\ UNCHANGED <<burst, fifo, ISR_transfer_flag, port, copy, rd_adr_p, addr_update,
                 mainFrame>>

StartBurst ==
  /\ main = "wait" /\ isr = "off"
  /\ burst' = TRUE /\ main' = "prepare"
  /\ UNCHANGED <<detectorUnderInit, fifo, dma, out, isrVars, ISR_transfer_flag, port,
                 copy, rd_adr_p, addr_update>>
  /\ Capture

Prepare_stay_bug ==
  /\ main = "prepare" /\ isr = "off"
  /\ addr_update' = [p \in Port |-> addr_update[p] /\ p \notin IrqMask]
  /\ main' = "test" /\ port' = 1
  /\ UNCHANGED <<rd_adr_p, burst, fifo, dma, ISR_transfer_flag, copy, mainFrame>>

\* Top of the loop: a new descriptor for every port whose last one was used.
Prepare ==
  LET due == {p \in Port \cap IrqMask : addr_update[p]}
  IN
  /\ main = "prepare" /\ isr = "off"
  /\ rd_adr_p' = [p \in Port |-> IF p \in due THEN rd_adr_p[p] + 1 ELSE rd_adr_p[p]]
  /\ addr_update' = [p \in Port |-> addr_update[p] /\ p \notin due]
  /\ main' = "test" /\ port' = 1
  /\ UNCHANGED <<burst, fifo, dma, ISR_transfer_flag, copy, mainFrame>>

Asked(p) == p \in Port /\ p \in ISR_transfer_flag /\ ~addr_update[p]

NextPort ==
  /\ port' = IF port = 3 THEN 1 ELSE port + 1
  /\ main' = IF port = 3 THEN "prepare" ELSE "test"

\* The flag test of one port fails.
Skip ==
  /\ main = "test" /\ isr = "off" /\ ~Asked(port)
  /\ NextPort
  /\ UNCHANGED <<burst, fifo, dma, ISR_transfer_flag, copy, rd_adr_p, addr_update, mainFrame>>

\* It holds: the prepared descriptor is started, its status ignored.
Transfer ==
  /\ main = "test" /\ isr = "off" /\ Asked(port)
  /\ rd_adr_p[port] < BLOCKS
  /\ dma' = [dma EXCEPT ![port] = @ \o Words(rd_adr_p[port])]
  /\ addr_update' = [addr_update EXCEPT ![port] = TRUE]
  /\ main' = "loadflag"
  /\ UNCHANGED <<burst, fifo, ISR_transfer_flag, port, copy, rd_adr_p, mainFrame>>

\* ISR_transfer_flag &= ~bit is a load and a store.
LoadFlag ==
  /\ main = "loadflag" /\ isr = "off"
  /\ copy' = ISR_transfer_flag
  /\ main' = "storeflag"
  /\ UNCHANGED <<burst, fifo, dma, ISR_transfer_flag, port, rd_adr_p, addr_update, mainFrame>>

StoreFlag_keep_bug ==
  /\ main = "storeflag" /\ isr = "off"
  /\ ISR_transfer_flag' = copy
  /\ NextPort
  /\ UNCHANGED <<burst, fifo, dma, copy, rd_adr_p, addr_update, mainFrame>>

StoreFlag ==
  /\ main = "storeflag" /\ isr = "off"
  /\ ISR_transfer_flag' = copy \ {port}
  /\ NextPort
  /\ UNCHANGED <<burst, fifo, dma, copy, rd_adr_p, addr_update, mainFrame>>

\* The loop ends after 6.8e3 ticks.
EndBurst ==
  /\ main = "prepare" /\ isr = "off"
  /\ burst' = FALSE /\ main' = "end"
  /\ UNCHANGED <<detectorUnderInit, fifo, dma, out, isrVars, ISR_transfer_flag, port,
                 copy, rd_adr_p, addr_update>>
  /\ Capture

Loop == Prepare \/ Skip \/ Transfer \/ LoadFlag \/ StoreFlag

-----------------------------------------------------------------------------
Next ==
  \/ \E p \in Port : DmaWrite(p) \/ Take(p)
  \/ NextDetector
  \/ IsrStep
  \/ FirstTransfers \/ StartBurst \/ EndBurst \/ Loop

Spec == Init /\ [][Next]_vars

\* The processor runs and the DMA moves what it was told to.
FairSpec == Spec /\ WF_vars(IsrStep) /\ WF_vars(Loop)
                 /\ \A p \in Port : WF_vars(DmaWrite(p))

-----------------------------------------------------------------------------
(* Properties. *)

TypeOK ==
  /\ detectorUnderInit \in 0 .. 4 /\ burst \in BOOLEAN
  /\ \A p \in Port : Len(fifo[p]) <= 2 * BLOCK
  /\ edge_cap \subseteq Port /\ ISR_input_val \subseteq Port
  /\ ISR_transfer_flag \subseteq Port /\ copy \subseteq Port
  /\ isr \in {"off", "clear", "store"} /\ port \in IrqMask
  /\ main \in {"load", "wait", "prepare", "test", "loadflag", "storeflag", "end"}
  /\ rd_adr_p \in [Port -> Nat] /\ addr_update \in [Port -> BOOLEAN]

\* Blocks started on port p since the first one.
Refills(p) == IF addr_update[p] THEN rd_adr_p[p] ELSE rd_adr_p[p] - 1

\* The list of a port is never sent twice nor out of order: the last word
\* taken, the words stored, those on the move and the descriptor prepared
\* follow each other, whatever interrupts hit the loop.
ListInOrder ==
  \A p \in Port :
    LET words == <<out[p]>> \o fifo[p] \o dma[p]
                 \o (IF addr_update[p] THEN <<>> ELSE <<rd_adr_p[p] * BLOCK>>)
    IN  \A i \in 1 .. Len(words) - 1 : words[i] < words[i + 1]

\* No refill without a request of its own: the interrupt routine overwrites a
\* flag that the main loop is modifying, yet no captured edge counts twice.
EveryRefillAsked == \A p \in Port : Refills(p) <= edges[p]

\* TestBench_LS.v:577: a FIFO with fewer than 1024 words asks the processor to
\* transfer.  So it is refilled, unless the burst ends.
Exhausted == \E q \in Port : rd_adr_p[q] >= BLOCKS
LowPortIsRefilled ==
  \A p \in Port : (burst /\ Below(p)) ~> (~burst \/ ~Below(p) \/ Exhausted)

=============================================================================
