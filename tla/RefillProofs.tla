---------------------------- MODULE RefillProofs ----------------------------
(***************************************************************************)
(* Proofs about Refill for any ports and any block length: the types, that *)
(* every refill answers an edge of its own, and that a port's list keeps   *)
(* its order.                                                              *)
(***************************************************************************)
EXTENDS Refill, TLAPS

States == {"load", "wait", "prepare", "test", "loadflag", "storeflag", "end"}

TypeInv ==
  /\ TypeOK
  /\ fifo \in [Port -> Seq(Nat)] /\ dma \in [Port -> Seq(Nat)]
  /\ out \in [Port -> Int] /\ edges \in [Port -> Nat]

-----------------------------------------------------------------------------
(* What the hardware steps have in common. *)

LEMMA RisingPorts == Rising \subseteq Port
  BY DEF Rising

LEMMA CaptureType ==
  ASSUME TypeInv, Capture
  PROVE  /\ edge_cap' \subseteq Port /\ edges' \in [Port -> Nat]
         /\ edge_cap \subseteq edge_cap'
         /\ \A p \in Port : edges'[p] >= edges[p]
         /\ \A p \in Port : p \in edge_cap' /\ p \notin edge_cap => edges'[p] = edges[p] + 1
<1> DEFINE R == Rising
<1>1. R \subseteq Port
  BY RisingPorts
<1>2. edge_cap' = edge_cap \cup R
  BY DEF Capture
<1>3. edges' = [p \in Port |-> edges[p] + IF p \in R THEN 1 ELSE 0]
  BY DEF Capture
<1>4. edges \in [Port -> Nat] /\ edge_cap \subseteq Port
  BY DEF TypeInv, TypeOK
<1> HIDE DEF R
<1> QED
  BY <1>1, <1>2, <1>3, <1>4

LEMMA WordsType ==
  ASSUME NEW b \in Nat
  PROVE  /\ Words(b) \in Seq(Nat) /\ Len(Words(b)) = BLOCK
         /\ \A i \in 1 .. BLOCK : Words(b)[i] = b * BLOCK + i - 1
<1>1. BLOCK \in Nat \ {0}
  BY RefillAssumption
<1>2. b * BLOCK \in Nat
  BY <1>1
<1>3. Words(b) \in [1 .. BLOCK -> Nat]
  BY <1>1, <1>2 DEF Words
<1>4. Words(b) \in Seq(Nat) /\ Len(Words(b)) = BLOCK
  BY <1>1, <1>3 DEF Words
<1> QED
  BY <1>4 DEF Words

-----------------------------------------------------------------------------
(* Types. *)

LEMMA TypeInit == Init => TypeInv
<1> SUFFICES ASSUME Init PROVE TypeInv
  OBVIOUS
<1>1. BLOCK \in Nat \ {0} /\ <<>> \in Seq(Nat) /\ Len(<<>>) = 0
  BY RefillAssumption
<1>2. fifo \in [Port -> Seq(Nat)] /\ dma \in [Port -> Seq(Nat)]
  BY <1>1 DEF Init
<1>3. \A p \in Port : Len(fifo[p]) <= 2 * BLOCK
  <2>1. 0 <= 2 * BLOCK
    BY <1>1
  <2>2. \A p \in Port : Len(fifo[p]) = 0
    BY <1>1 DEF Init
  <2> QED
    BY <2>1, <2>2
<1>4. addr_update \in [Port -> BOOLEAN]
  BY Zenon DEF Init
<1>5. /\ rd_adr_p \in [Port -> Nat] /\ edges \in [Port -> Nat] /\ out \in [Port -> Int]
      /\ detectorUnderInit \in 0 .. 4 /\ port \in IrqMask
  BY DEF Init, IrqMask
<1>6. burst \in BOOLEAN /\ edge_cap = {} /\ ISR_input_val = {} /\ ISR_transfer_flag = {}
      /\ copy = {} /\ isr = "off" /\ main = "load"
  BY DEF Init
<1>7. TypeOK
  BY <1>3, <1>4, <1>5, <1>6 DEF TypeOK
<1> QED
  BY <1>2, <1>5, <1>7 DEF TypeInv

LEMMA TypeNext == TypeInv /\ [Next]_vars => TypeInv'
<1> SUFFICES ASSUME TypeInv, [Next]_vars PROVE TypeInv'
  OBVIOUS
<1>b. BLOCK \in Nat \ {0} /\ Port \subseteq 0 .. 4
  BY RefillAssumption
<1>1. ASSUME NEW p \in Port, DmaWrite(p) PROVE TypeInv'
  <2>1. edge_cap' \subseteq Port /\ edges' \in [Port -> Nat]
    BY <1>1, CaptureType DEF DmaWrite
  <2>2. Head(dma[p]) \in Nat /\ Tail(dma[p]) \in Seq(Nat)
    BY <1>1 DEF DmaWrite, TypeInv
  <2>3. dma' \in [Port -> Seq(Nat)] /\ dma' = [dma EXCEPT ![p] = Tail(@)]
    BY <1>1, <2>2 DEF DmaWrite, TypeInv
  <2>4. fifo' \in [Port -> Seq(Nat)] /\ \A q \in Port : Len(fifo'[q]) <= 2 * BLOCK
    <3>1. CASE Len(fifo[p]) < 2 * BLOCK
      <4>1. fifo' = [fifo EXCEPT ![p] = Append(@, Head(dma[p]))]
        BY <1>1, <3>1 DEF DmaWrite
      <4>2. /\ Append(fifo[p], Head(dma[p])) \in Seq(Nat)
            /\ Len(Append(fifo[p], Head(dma[p]))) = Len(fifo[p]) + 1
        BY <2>2 DEF TypeInv
      <4>3. Len(fifo[p]) \in Nat /\ 2 * BLOCK \in Nat
        BY <1>b DEF TypeInv
      <4>4. Len(fifo[p]) + 1 <= 2 * BLOCK
        BY <4>3, <3>1
      <4> QED
        BY <4>1, <4>2, <4>4 DEF TypeInv, TypeOK
    <3>2. CASE ~(Len(fifo[p]) < 2 * BLOCK)
      BY <1>1, <3>2 DEF DmaWrite, TypeInv, TypeOK
    <3> QED
      BY <3>1, <3>2
  <2> QED
    BY <1>1, <2>1, <2>3, <2>4 DEF DmaWrite, TypeInv, TypeOK, isrVars, mainVars
<1>2. ASSUME NEW p \in Port, Take(p) PROVE TypeInv'
  <2>1. edge_cap' \subseteq Port /\ edges' \in [Port -> Nat]
    BY <1>2, CaptureType DEF Take
  <2>2. /\ Head(fifo[p]) \in Nat /\ Tail(fifo[p]) \in Seq(Nat)
        /\ Len(Tail(fifo[p])) = Len(fifo[p]) - 1 /\ Len(fifo[p]) \in Nat
    BY <1>2 DEF Take, TypeInv
  <2>3. fifo' \in [Port -> Seq(Nat)] /\ out' \in [Port -> Int]
    BY <1>2, <2>2 DEF Take, TypeInv
  <2>4. \A q \in Port : Len(fifo'[q]) <= 2 * BLOCK
    BY <1>2, <2>2, <1>b DEF Take, TypeInv, TypeOK
  <2> QED
    BY <1>2, <2>1, <2>3, <2>4 DEF Take, TypeInv, TypeOK, isrVars, mainVars
<1>3. CASE NextDetector
  <2>1. edge_cap' \subseteq Port /\ edges' \in [Port -> Nat]
    BY <1>3, CaptureType DEF NextDetector
  <2> QED
    BY <1>3, <2>1 DEF NextDetector, TypeInv, TypeOK, isrVars, mainVars
<1>4. CASE IsrStep
  BY <1>4 DEF IsrStep, IsrRead, IsrClear, IsrStore, TypeInv, TypeOK, hwVars, mainVars
<1>5. CASE FirstTransfers
  <2>1. \A p \in Port : Words(rd_adr_p[p]) \in Seq(Nat)
    BY WordsType DEF TypeInv, TypeOK
  <2>2. dma' \in [Port -> Seq(Nat)]
    BY <1>5, <2>1 DEF FirstTransfers, TypeInv
  <2> QED
    BY <1>5, <2>2 DEF FirstTransfers, TypeInv, TypeOK, mainFrame, isrVars
<1>6. CASE StartBurst \/ EndBurst
  <2>1. edge_cap' \subseteq Port /\ edges' \in [Port -> Nat]
    BY <1>6, CaptureType DEF StartBurst, EndBurst
  <2> QED
    BY <1>6, <2>1 DEF StartBurst, EndBurst, TypeInv, TypeOK, isrVars
<1>7. CASE Prepare
  <2> DEFINE due == {q \in Port \cap IrqMask : addr_update[q]}
  <2>1. rd_adr_p' = [p \in Port |-> IF p \in due THEN rd_adr_p[p] + 1 ELSE rd_adr_p[p]]
    BY <1>7 DEF Prepare
  <2>2. addr_update' = [p \in Port |-> addr_update[p] /\ p \notin due]
    BY <1>7, Zenon DEF Prepare
  <2> HIDE DEF due
  <2>3. rd_adr_p' \in [Port -> Nat]
    BY <2>1 DEF TypeInv, TypeOK
  <2>4. addr_update' \in [Port -> BOOLEAN]
    BY <2>2, Zenon DEF TypeInv, TypeOK
  <2>5. /\ main' = "test" /\ port' = 1
        /\ UNCHANGED <<burst, fifo, dma, ISR_transfer_flag, copy, mainFrame>>
    BY <1>7 DEF Prepare
  <2> QED
    BY <2>3, <2>4, <2>5 DEF TypeInv, TypeOK, mainFrame, isrVars, IrqMask
<1>8. CASE Skip
  BY <1>8 DEF Skip, NextPort, TypeInv, TypeOK, mainFrame, isrVars, IrqMask
<1>9. CASE Transfer
  <2>1. port \in Port
    BY <1>9 DEF Transfer, Asked
  <2>2. Words(rd_adr_p[port]) \in Seq(Nat)
    BY <2>1, WordsType DEF TypeInv, TypeOK
  <2>3. dma' \in [Port -> Seq(Nat)]
    BY <1>9, <2>1, <2>2 DEF Transfer, TypeInv
  <2> QED
    BY <1>9, <2>3 DEF Transfer, TypeInv, TypeOK, mainFrame, isrVars
<1>10. CASE LoadFlag \/ StoreFlag
  BY <1>10 DEF LoadFlag, StoreFlag, NextPort, TypeInv, TypeOK, mainFrame, isrVars, IrqMask
<1>11. CASE UNCHANGED vars
  BY <1>11 DEF vars, hwVars, isrVars, mainVars, TypeInv, TypeOK
<1> QED
  BY <1>1, <1>2, <1>3, <1>4, <1>5, <1>6, <1>7, <1>8, <1>9, <1>10, <1>11 DEF Next, Loop

\* TypeOK holds: a full FIFO drops the words of the DMA and never overruns.
THEOREM TypesHold == Spec => []TypeOK
<1>1. Spec => []TypeInv
  BY TypeInit, TypeNext, PTL DEF Spec
<1>2. TypeInv => TypeOK
  BY DEF TypeInv
<1> QED
  BY <1>1, <1>2, PTL

-----------------------------------------------------------------------------
(* A request on its way counts in one of three places.  The tokens of a    *)
(* port are the copies of its edges not yet turned into a transfer.        *)

Count(b) == IF b THEN 1 ELSE 0

\* In the flag, or in the copy that &= will store back.
InFlag(p) ==
  CASE main = "storeflag" -> p \in copy /\ p # port
    [] main = "loadflag"  -> p \in ISR_transfer_flag /\ p # port
    [] OTHER              -> p \in ISR_transfer_flag

\* Read by the interrupt routine and not yet handed over.
InRoutine(p) == isr # "off" /\ p \in ISR_input_val

\* Captured; what stands between the read and the clear will be lost.
InCapture(p) == isr # "clear" /\ p \in edge_cap

Tokens(p) == Count(InFlag(p)) + Count(InRoutine(p)) + Count(InCapture(p))

Backed ==
  \A p \in Port :
    /\ p \in IrqMask => Refills(p) + Tokens(p) <= edges[p]
    /\ p \notin IrqMask => rd_adr_p[p] = 0 /\ addr_update[p]

LEMMA BackedInit == Init => Backed
<1> SUFFICES ASSUME Init, NEW p \in Port
    PROVE  Refills(p) + Tokens(p) <= edges[p] /\ rd_adr_p[p] = 0 /\ addr_update[p]
  BY DEF Backed
<1>1. rd_adr_p[p] = 0 /\ edges[p] = 0
  BY DEF Init
<1>2. addr_update[p]
  BY Zenon DEF Init
<1>3. Tokens(p) = 0
  BY DEF Init, Tokens, Count, InFlag, InRoutine, InCapture
<1>4. Refills(p) = 0
  BY <1>1, <1>2 DEF Refills
<1> QED
  BY <1>1, <1>2, <1>3, <1>4

\* What stays true of a port whose request does not move.
LEMMA BackedPort ==
  ASSUME TypeInv, Backed, NEW p \in Port, edges'[p] \in Int,
         rd_adr_p'[p] = rd_adr_p[p], addr_update'[p] = addr_update[p],
         p \in IrqMask => Tokens(p)' - Tokens(p) <= edges'[p] - edges[p]
  PROVE  /\ p \in IrqMask => Refills(p)' + Tokens(p)' <= edges'[p]
         /\ p \notin IrqMask => rd_adr_p'[p] = 0 /\ addr_update'[p]
<1>1. Tokens(p) \in Int /\ Tokens(p)' \in Int
  BY DEF Tokens, Count
<1>2. Refills(p)' = Refills(p) /\ Refills(p) \in Int
  BY DEF Refills, TypeInv, TypeOK
<1>3. edges[p] \in Int
  BY DEF TypeInv
<1> HIDE DEF Tokens, Refills
<1> QED
  BY <1>1, <1>2, <1>3 DEF Backed

\* A step of the hardware adds at most the token of a captured edge.
LEMMA BackedCapture ==
  ASSUME TypeInv, Backed, Capture,
         UNCHANGED <<isrVars, ISR_transfer_flag, port, copy, rd_adr_p, addr_update>>,
         main' = main \/ {main, main'} \cap {"loadflag", "storeflag"} = {}
  PROVE  Backed'
<1> SUFFICES ASSUME NEW p \in Port
    PROVE  /\ p \in IrqMask => Refills(p)' + Tokens(p)' <= edges'[p]
           /\ p \notin IrqMask => rd_adr_p'[p] = 0 /\ addr_update'[p]
  BY DEF Backed, Refills, Tokens, InFlag, InRoutine, InCapture
<1>1. InFlag(p)' = InFlag(p) /\ InRoutine(p)' = InRoutine(p)
  BY DEF InFlag, InRoutine, isrVars
<1>2. edges'[p] \in Int /\ edges[p] \in Int /\ edges'[p] >= edges[p]
  BY CaptureType DEF TypeInv
<1>3. Count(InCapture(p)') - Count(InCapture(p)) <= edges'[p] - edges[p]
  BY CaptureType, <1>2 DEF Count, InCapture, isrVars
<1>4. Tokens(p)' - Tokens(p) <= edges'[p] - edges[p]
  BY <1>1, <1>2, <1>3 DEF Tokens, Count
<1> QED
  BY <1>2, <1>4, BackedPort DEF isrVars

LEMMA BackedNext == TypeInv /\ Backed /\ [Next]_vars => Backed'
<1> SUFFICES ASSUME TypeInv, Backed, [Next]_vars PROVE Backed'
  OBVIOUS
<1> DEFINE Goal(p) == /\ p \in IrqMask => Refills(p)' + Tokens(p)' <= edges'[p]
                      /\ p \notin IrqMask => rd_adr_p'[p] = 0 /\ addr_update'[p]
<1>a. (\A p \in Port : Goal(p)) => Backed'
  BY DEF Backed, Refills, Tokens, InFlag, InRoutine, InCapture
<1> HIDE DEF Goal
<1>b. ASSUME NEW p \in Port, edges' = edges,
             rd_adr_p' = rd_adr_p, addr_update' = addr_update,
             p \in IrqMask => Tokens(p)' <= Tokens(p)
      PROVE  Goal(p)
  <2>1. Tokens(p) \in Int /\ Tokens(p)' \in Int
    BY DEF Tokens, Count
  <2>2. edges'[p] \in Int /\ edges'[p] = edges[p] /\ edges[p] \in Int
    BY <1>b DEF TypeInv
  <2>3. p \in IrqMask => Tokens(p)' - Tokens(p) <= edges'[p] - edges[p]
    BY <2>1, <2>2, <1>b
  <2> QED
    BY <1>b, <2>2, <2>3, BackedPort DEF Goal
<1>1. ASSUME NEW q \in Port, DmaWrite(q) \/ Take(q) PROVE Backed'
  BY <1>1, BackedCapture DEF DmaWrite, Take, mainVars
<1>2. CASE NextDetector \/ StartBurst \/ EndBurst
  BY <1>2, BackedCapture DEF NextDetector, StartBurst, EndBurst, mainVars
<1>3. CASE IsrStep
  <2>1. /\ edges' = edges /\ rd_adr_p' = rd_adr_p /\ addr_update' = addr_update
        /\ main' = main /\ port' = port /\ copy' = copy
    BY <1>3 DEF IsrStep, IsrRead, IsrClear, IsrStore, hwVars, mainVars
  <2>2. ASSUME NEW p \in Port, p \in IrqMask PROVE Tokens(p)' <= Tokens(p)
    <3>1. CASE IsrRead
      BY <2>1, <3>1 DEF IsrRead, Tokens, Count, InFlag, InRoutine, InCapture
    <3>2. CASE IsrClear
      BY <2>1, <2>2, <3>2 DEF IsrClear, Tokens, Count, InFlag, InRoutine, InCapture
    <3>3. CASE IsrStore
      BY <2>1, <3>3 DEF IsrStore, Tokens, Count, InFlag, InRoutine, InCapture
    <3> QED
      BY <1>3, <3>1, <3>2, <3>3 DEF IsrStep
  <2> QED
    BY <2>1, <2>2, <1>a, <1>b
<1>4. CASE FirstTransfers \/ Skip \/ LoadFlag \/ StoreFlag
  <2>1. /\ edges' = edges /\ rd_adr_p' = rd_adr_p /\ addr_update' = addr_update
        /\ edge_cap' = edge_cap /\ isr' = isr /\ ISR_input_val' = ISR_input_val
    BY <1>4 DEF FirstTransfers, Skip, LoadFlag, StoreFlag, mainFrame, isrVars
  <2>2. ASSUME NEW p \in Port PROVE InFlag(p)' => InFlag(p)
    BY <1>4 DEF FirstTransfers, Skip, LoadFlag, StoreFlag, NextPort, InFlag
  <2>3. ASSUME NEW p \in Port PROVE Tokens(p)' <= Tokens(p)
    BY <2>1, <2>2 DEF Tokens, Count, InRoutine, InCapture
  <2> QED
    BY <2>1, <2>3, <1>a, <1>b
<1>5. CASE Prepare
  <2> DEFINE due == {q \in Port \cap IrqMask : addr_update[q]}
  <2>1. /\ rd_adr_p' = [p \in Port |-> IF p \in due THEN rd_adr_p[p] + 1 ELSE rd_adr_p[p]]
        /\ addr_update' = [p \in Port |-> addr_update[p] /\ p \notin due]
    BY <1>5, Zenon DEF Prepare
  <2>2. ASSUME NEW p \in Port
        PROVE  /\ rd_adr_p'[p] = IF p \in due THEN rd_adr_p[p] + 1 ELSE rd_adr_p[p]
               /\ addr_update'[p] <=> addr_update[p] /\ p \notin due
    BY <2>1, Zenon
  <2>3. ASSUME NEW p \in Port PROVE Refills(p)' = Refills(p)
    <3>1. rd_adr_p[p] \in Nat /\ (p \in due => addr_update[p])
      BY DEF TypeInv, TypeOK
    <3> HIDE DEF due
    <3> QED
      BY <2>2, <3>1 DEF Refills
  <2>4. /\ edges' = edges /\ isr' = isr /\ ISR_input_val' = ISR_input_val
        /\ edge_cap' = edge_cap /\ ISR_transfer_flag' = ISR_transfer_flag
        /\ main = "prepare" /\ main' = "test"
    BY <1>5 DEF Prepare, mainFrame, isrVars
  <2>5. ASSUME NEW p \in Port PROVE Tokens(p)' = Tokens(p)
    BY <2>4 DEF Tokens, InFlag, InRoutine, InCapture
  <2>6. ASSUME NEW p \in Port PROVE Goal(p)
    <3>1. p \in IrqMask => Refills(p)' + Tokens(p)' <= edges'[p]
      BY <2>3, <2>4, <2>5 DEF Backed
    <3>2. p \notin IrqMask => rd_adr_p'[p] = 0 /\ addr_update'[p]
      BY <2>2 DEF Backed
    <3> QED
      BY <3>1, <3>2 DEF Goal
  <2> QED
    BY <2>6, <1>a
<1>6. CASE Transfer
  <2>1. /\ edges' = edges /\ isr' = isr /\ ISR_input_val' = ISR_input_val
        /\ edge_cap' = edge_cap /\ ISR_transfer_flag' = ISR_transfer_flag
        /\ main = "test" /\ main' = "loadflag" /\ port' = port
        /\ rd_adr_p' = rd_adr_p /\ addr_update' = [addr_update EXCEPT ![port] = TRUE]
        /\ port \in Port /\ port \in ISR_transfer_flag /\ ~addr_update[port]
    BY <1>6 DEF Transfer, Asked, mainFrame, isrVars
  <2>2. Goal(port)
    <3>1. Refills(port)' = Refills(port) + 1 /\ Refills(port) \in Int
      BY <2>1 DEF Refills, TypeInv, TypeOK
    <3>2. Tokens(port)' = Tokens(port) - 1 /\ Tokens(port) \in Int
      BY <2>1 DEF Tokens, Count, InFlag, InRoutine, InCapture
    <3>3. edges'[port] = edges[port] /\ edges[port] \in Int
      BY <2>1 DEF TypeInv
    <3>4. port \in IrqMask => Refills(port) + Tokens(port) <= edges[port]
      BY <2>1 DEF Backed
    <3>5. addr_update'[port] /\ rd_adr_p'[port] = rd_adr_p[port]
      BY <2>1 DEF TypeInv, TypeOK
    <3>6. port \notin IrqMask => rd_adr_p[port] = 0
      BY <2>1 DEF Backed
    <3> HIDE DEF Refills, Tokens
    <3>7. port \in IrqMask => Refills(port)' + Tokens(port)' <= edges'[port]
      BY <3>1, <3>2, <3>3, <3>4
    <3> QED
      BY <3>5, <3>6, <3>7 DEF Goal
  <2>3. ASSUME NEW p \in Port, p # port PROVE Goal(p)
    <3>1. Tokens(p)' = Tokens(p)
      BY <2>1, <2>3 DEF Tokens, InFlag, InRoutine, InCapture
    <3>2. rd_adr_p'[p] = rd_adr_p[p] /\ addr_update'[p] = addr_update[p]
      BY <2>1, <2>3 DEF TypeInv, TypeOK
    <3>3. Refills(p)' = Refills(p)
      BY <3>2 DEF Refills
    <3> QED
      BY <2>1, <3>1, <3>2, <3>3 DEF Goal, Backed
  <2> QED
    BY <2>2, <2>3, <1>a
<1>7. CASE UNCHANGED vars
  BY <1>7 DEF vars, hwVars, isrVars, mainVars, Backed, Refills, Tokens, InFlag, InRoutine,
              InCapture
<1> QED
  BY <1>1, <1>2, <1>3, <1>4, <1>5, <1>6, <1>7 DEF Next, Loop

\* EveryRefillAsked holds: the routine overwrites the flag, the loop stores a
\* stale copy of it, and still no edge starts two blocks.
THEOREM RefillsAsked == Spec => []EveryRefillAsked
<1>1. Spec => [](TypeInv /\ Backed)
  <2>1. Init => TypeInv /\ Backed
    BY TypeInit, BackedInit
  <2>2. (TypeInv /\ Backed) /\ [Next]_vars => (TypeInv /\ Backed)'
    BY TypeNext, BackedNext
  <2> QED
    BY <2>1, <2>2, PTL DEF Spec
<1>2. TypeInv /\ Backed => EveryRefillAsked
  <2> SUFFICES ASSUME TypeInv, Backed, NEW p \in Port PROVE Refills(p) <= edges[p]
    BY DEF EveryRefillAsked
  <2>1. Tokens(p) \in Nat
    BY DEF Tokens, Count
  <2>2. Refills(p) \in Int /\ edges[p] \in Nat
    BY DEF Refills, TypeInv, TypeOK
  <2>3. CASE p \in IrqMask
    BY <2>1, <2>2, <2>3 DEF Backed
  <2>4. CASE p \notin IrqMask
    BY <2>2, <2>4 DEF Backed, Refills
  <2> QED
    BY <2>3, <2>4
<1> QED
  BY <1>1, <1>2, PTL

-----------------------------------------------------------------------------
(* The list of a port is increasing from the last word taken, through the  *)
(* FIFO and the DMA, up to the block that its next descriptor names.       *)

Rise(s) == \A i, j \in 1 .. Len(s) : i < j => s[i] < s[j]

\* First word not yet given to the DMA.
Bound(p) == IF addr_update[p] THEN rd_adr_p[p] * BLOCK + BLOCK ELSE rd_adr_p[p] * BLOCK

Between(s, low, high) == \A i \in 1 .. Len(s) : low < s[i] /\ s[i] < high

OrderedPort(p) ==
  /\ Rise(fifo[p]) /\ Rise(dma[p])
  /\ out[p] < Bound(p)
  /\ Between(fifo[p], out[p], Bound(p)) /\ Between(dma[p], out[p], Bound(p))
  /\ \A i \in 1 .. Len(fifo[p]), j \in 1 .. Len(dma[p]) : fifo[p][i] < dma[p][j]

Ordered ==
  /\ \A p \in Port : OrderedPort(p)
  /\ main = "load" =>
       /\ ~burst
       /\ \A p \in Port : /\ fifo[p] = <<>> /\ dma[p] = <<>> /\ out[p] = -1
                          /\ rd_adr_p[p] = 0 /\ addr_update[p]

LEMMA RiseTail ==
  ASSUME NEW s \in Seq(Int), s # <<>>, Rise(s)
  PROVE  /\ Rise(Tail(s)) /\ Len(Tail(s)) = Len(s) - 1 /\ Len(s) \in Nat \ {0}
         /\ Head(s) = s[1]
         /\ \A i \in 1 .. Len(Tail(s)) : Tail(s)[i] = s[i + 1] /\ s[1] < Tail(s)[i]
<1>1. /\ Len(Tail(s)) = Len(s) - 1 /\ Len(s) \in Nat \ {0} /\ Head(s) = s[1]
      /\ \A i \in 1 .. Len(s) : s[i] \in Int
  OBVIOUS
<1>2. \A i \in 1 .. Len(Tail(s)) : Tail(s)[i] = s[i + 1]
  BY <1>1
<1>3. \A i \in 1 .. Len(Tail(s)) : s[1] < s[i + 1]
  BY <1>1 DEF Rise
<1>4. Rise(Tail(s))
  BY <1>1, <1>2 DEF Rise
<1> QED
  BY <1>1, <1>2, <1>3, <1>4

LEMMA ConcatFacts ==
  ASSUME NEW s \in Seq(Int), NEW t \in Seq(Int)
  PROVE  /\ Len(s) \in Nat /\ Len(s \o t) = Len(s) + Len(t)
         /\ \A i \in 1 .. Len(s) : s[i] \in Int
         /\ \A i \in 1 .. Len(s) + Len(t) :
              (s \o t)[i] = IF i <= Len(s) THEN s[i] ELSE t[i - Len(s)]
  OBVIOUS

\* Every element of s is below every element of t.
Under(s, t) == \A i \in 1 .. Len(s), j \in 1 .. Len(t) : s[i] < t[j]

LEMMA RiseConcat ==
  ASSUME NEW s \in Seq(Int), NEW t \in Seq(Int), Rise(s), Rise(t), Under(s, t)
  PROVE  s \o t \in Seq(Int) /\ Rise(s \o t)
<1> DEFINE w == s \o t
<1>1. /\ Len(s) \in Nat /\ Len(t) \in Nat /\ Len(w) = Len(s) + Len(t) /\ w \in Seq(Int)
      /\ \A i \in 1 .. Len(w) : w[i] = IF i <= Len(s) THEN s[i] ELSE t[i - Len(s)]
  BY ConcatFacts
<1>n. Len(s) \in Nat /\ Len(t) \in Nat /\ Len(w) = Len(s) + Len(t)
  BY <1>1
<1> HIDE DEF w
<1>2. ASSUME NEW i \in 1 .. Len(w), NEW j \in 1 .. Len(w), i < j PROVE w[i] < w[j]
  <2>1. CASE j <= Len(s)
    <3>1. i \in 1 .. Len(s) /\ j \in 1 .. Len(s)
      BY ONLY <1>n, <1>2, <2>1, i \in 1 .. Len(w), j \in 1 .. Len(w)
    <3>2. w[i] = s[i] /\ w[j] = s[j]
      <4>1. i <= Len(s) /\ j <= Len(s)
        BY ONLY <1>n, <3>1
      <4> QED
        BY <1>1, <4>1
    <3> QED
      BY <1>2, <3>1, <3>2 DEF Rise
  <2>2. CASE i <= Len(s) /\ j > Len(s)
    <3>1. i \in 1 .. Len(s) /\ j - Len(s) \in 1 .. Len(t)
      BY ONLY <1>n, <2>2, i \in 1 .. Len(w), j \in 1 .. Len(w)
    <3>2. w[i] = s[i] /\ w[j] = t[j - Len(s)]
      BY <1>1, <2>2
    <3> QED
      BY <3>1, <3>2 DEF Under
  <2>3. CASE i > Len(s)
    <3>1. /\ i - Len(s) \in 1 .. Len(t) /\ j - Len(s) \in 1 .. Len(t) /\ j > Len(s)
          /\ i - Len(s) < j - Len(s)
      BY ONLY <1>n, <1>2, <2>3, i \in 1 .. Len(w), j \in 1 .. Len(w)
    <3>2. w[i] = t[i - Len(s)] /\ w[j] = t[j - Len(s)]
      BY <1>1, <2>3, <3>1
    <3> QED
      BY <3>1, <3>2 DEF Rise
  <2> QED
    BY <1>n, <2>1, <2>2, <2>3
<1> QED
  BY <1>1, <1>2 DEF w, Rise

LEMMA BelowConcat ==
  ASSUME NEW s \in Seq(Int), NEW t \in Seq(Int), NEW u \in Seq(Int),
         Under(s, u), Under(t, u)
  PROVE  Under(s \o t, u)
<1> SUFFICES ASSUME NEW i \in 1 .. Len(s \o t), NEW j \in 1 .. Len(u)
             PROVE  (s \o t)[i] < u[j]
  BY DEF Under
<1>1. /\ Len(s) \in Nat /\ Len(t) \in Nat /\ Len(s \o t) = Len(s) + Len(t)
      /\ (s \o t)[i] = IF i <= Len(s) THEN s[i] ELSE t[i - Len(s)]
  BY ConcatFacts
<1>n. Len(s) \in Nat /\ Len(t) \in Nat /\ Len(s \o t) = Len(s) + Len(t)
  BY <1>1
<1>2. CASE i <= Len(s)
  <2>1. i \in 1 .. Len(s)
    BY <1>n, <1>2
  <2> QED
    BY <1>1, <1>2, <2>1 DEF Under
<1>3. CASE i > Len(s)
  <2>1. i - Len(s) \in 1 .. Len(t) /\ ~(i <= Len(s))
    BY <1>n, <1>3
  <2> QED
    BY <1>1, <2>1 DEF Under
<1> QED
  BY <1>n, <1>2, <1>3

LEMMA BoundType == ASSUME TypeInv, NEW p \in Port PROVE Bound(p) \in Nat
<1>1. BLOCK \in Nat /\ rd_adr_p[p] \in Nat
  BY RefillAssumption DEF TypeInv, TypeOK
<1>2. rd_adr_p[p] * BLOCK \in Nat
  BY <1>1
<1> QED
  BY <1>1, <1>2 DEF Bound

LEMMA OrderedInit == Init => Ordered
<1> SUFFICES ASSUME Init PROVE Ordered
  OBVIOUS
<1>1. ASSUME NEW p \in Port
      PROVE  /\ fifo[p] = <<>> /\ dma[p] = <<>> /\ out[p] = -1 /\ rd_adr_p[p] = 0
             /\ addr_update[p]
  <2>1. addr_update[p]
    BY Zenon DEF Init
  <2> QED
    BY <2>1 DEF Init
<1>2. ASSUME NEW p \in Port PROVE OrderedPort(p)
  <2>1. Bound(p) = BLOCK /\ BLOCK \in Nat
    <3>1. BLOCK \in Nat /\ 0 * BLOCK + BLOCK = BLOCK
      BY RefillAssumption
    <3> QED
      BY <1>1, <3>1 DEF Bound
  <2> QED
    BY <1>1, <2>1 DEF OrderedPort, Rise, Between
<1> QED
  BY <1>1, <1>2 DEF Ordered, Init

LEMMA OrderedDma ==
  ASSUME TypeInv, Ordered, NEW q \in Port, DmaWrite(q)
  PROVE  OrderedPort(q)'
<1> DEFINE w == Head(dma[q])
<1>1. /\ dma[q] \in Seq(Int) /\ dma[q] # <<>> /\ fifo[q] \in Seq(Int) /\ OrderedPort(q)
      /\ out[q] \in Int /\ Bound(q) \in Int
  BY BoundType DEF TypeInv, DmaWrite, Ordered
<1>2. dma'[q] = Tail(dma[q]) /\ out'[q] = out[q] /\ Bound(q)' = Bound(q)
  BY DEF DmaWrite, TypeInv, Bound, mainVars
<1>3. /\ Rise(Tail(dma[q])) /\ w = dma[q][1] /\ 1 \in 1 .. Len(dma[q])
      /\ Len(Tail(dma[q])) = Len(dma[q]) - 1
      /\ \A i \in 1 .. Len(Tail(dma[q])) :
            Tail(dma[q])[i] = dma[q][i + 1] /\ w < Tail(dma[q])[i]
  BY <1>1, RiseTail DEF OrderedPort
<1>4. Between(Tail(dma[q]), out[q], Bound(q))
  BY <1>1, <1>3 DEF OrderedPort, Between
<1>5. CASE fifo'[q] = fifo[q]
  <2>1. \A i \in 1 .. Len(fifo[q]), j \in 1 .. Len(Tail(dma[q])) :
           fifo[q][i] < Tail(dma[q])[j]
    BY <1>1, <1>3 DEF OrderedPort
  <2> QED
    BY <1>1, <1>2, <1>3, <1>4, <1>5, <2>1 DEF OrderedPort
<1>6. CASE fifo'[q] = Append(fifo[q], w)
  <2> DEFINE f == Append(fifo[q], w)
  <2>1. /\ Len(f) = Len(fifo[q]) + 1 /\ Len(fifo[q]) \in Nat /\ w \in Int
        /\ \A i \in 1 .. Len(f) : f[i] = IF i = Len(f) THEN w ELSE fifo[q][i]
        /\ \A i \in 1 .. Len(fifo[q]) : fifo[q][i] \in Int
    BY <1>1
  <2>2. \A i \in 1 .. Len(fifo[q]) : fifo[q][i] < w
    BY <1>1, <1>3 DEF OrderedPort
  <2>3. out[q] < w /\ w < Bound(q)
    BY <1>1, <1>3 DEF OrderedPort, Between
  <2> HIDE DEF f, w
  <2>4. Rise(f)
    <3> SUFFICES ASSUME NEW i \in 1 .. Len(f), NEW j \in 1 .. Len(f), i < j PROVE f[i] < f[j]
      BY DEF Rise
    <3>1. i \in 1 .. Len(fifo[q]) /\ f[i] = fifo[q][i]
      BY <2>1
    <3>2. CASE j = Len(f)
      BY <2>1, <2>2, <3>1, <3>2
    <3>3. CASE j # Len(f)
      <4>1. j \in 1 .. Len(fifo[q]) /\ f[j] = fifo[q][j]
        BY <2>1, <3>3
      <4> QED
        BY <1>1, <3>1, <4>1 DEF OrderedPort, Rise
    <3> QED
      BY <3>2, <3>3
  <2>5. Between(f, out[q], Bound(q))
    <3> SUFFICES ASSUME NEW i \in 1 .. Len(f) PROVE out[q] < f[i] /\ f[i] < Bound(q)
      BY DEF Between
    <3>1. CASE i = Len(f)
      BY <2>1, <2>3, <3>1
    <3>2. CASE i # Len(f)
      <4>1. i \in 1 .. Len(fifo[q]) /\ f[i] = fifo[q][i]
        BY <2>1, <3>2
      <4> QED
        BY <1>1, <4>1 DEF OrderedPort, Between
    <3> QED
      BY <3>1, <3>2
  <2>6. \A i \in 1 .. Len(f), j \in 1 .. Len(Tail(dma[q])) : f[i] < Tail(dma[q])[j]
    <3> SUFFICES ASSUME NEW i \in 1 .. Len(f), NEW j \in 1 .. Len(Tail(dma[q]))
                 PROVE  f[i] < Tail(dma[q])[j]
      OBVIOUS
    <3>1. CASE i = Len(f)
      BY <1>3, <2>1, <3>1
    <3>2. CASE i # Len(f)
      <4>1. i \in 1 .. Len(fifo[q]) /\ f[i] = fifo[q][i]
        BY <2>1, <3>2
      <4>2. j + 1 \in 1 .. Len(dma[q]) /\ Tail(dma[q])[j] = dma[q][j + 1]
        BY <1>1, <1>3
      <4> QED
        BY <1>1, <4>1, <4>2 DEF OrderedPort
    <3> QED
      BY <3>1, <3>2
  <2>7. fifo'[q] = f
    BY <1>6 DEF f
  <2> QED
    BY <1>1, <1>2, <1>3, <1>4, <2>4, <2>5, <2>6, <2>7 DEF OrderedPort
<1>7. fifo'[q] = fifo[q] \/ fifo'[q] = Append(fifo[q], w)
  BY DEF DmaWrite, TypeInv
<1> QED
  BY <1>5, <1>6, <1>7

LEMMA OrderedTake ==
  ASSUME TypeInv, Ordered, NEW q \in Port, Take(q)
  PROVE  OrderedPort(q)'
<1>1. /\ dma[q] \in Seq(Int) /\ fifo[q] \in Seq(Int) /\ fifo[q] # <<>> /\ OrderedPort(q)
      /\ out[q] \in Int /\ Bound(q) \in Int
  BY BoundType DEF TypeInv, Take, Ordered
<1>2. /\ fifo'[q] = Tail(fifo[q]) /\ out'[q] = Head(fifo[q]) /\ Bound(q)' = Bound(q)
      /\ dma'[q] = dma[q]
  BY DEF Take, TypeInv, Bound, mainVars
<1>3. /\ Rise(Tail(fifo[q])) /\ Head(fifo[q]) = fifo[q][1] /\ 1 \in 1 .. Len(fifo[q])
      /\ Len(Tail(fifo[q])) = Len(fifo[q]) - 1
      /\ \A i \in 1 .. Len(Tail(fifo[q])) :
            Tail(fifo[q])[i] = fifo[q][i + 1] /\ fifo[q][1] < Tail(fifo[q])[i]
  BY <1>1, RiseTail DEF OrderedPort
<1>4. Between(Tail(fifo[q]), fifo[q][1], Bound(q))
  BY <1>1, <1>3 DEF OrderedPort, Between
<1>5. Between(dma[q], fifo[q][1], Bound(q)) /\ fifo[q][1] < Bound(q)
  BY <1>1, <1>3 DEF OrderedPort, Between
<1>6. \A i \in 1 .. Len(Tail(fifo[q])), j \in 1 .. Len(dma[q]) : Tail(fifo[q])[i] < dma[q][j]
  BY <1>1, <1>3 DEF OrderedPort
<1> QED
  BY <1>1, <1>2, <1>3, <1>4, <1>5, <1>6 DEF OrderedPort

\* A block is started: its words begin at the bound and end below the next.
LEMMA OrderedStart ==
  ASSUME TypeInv, NEW q \in Port, NEW b \in Nat, NEW ws \in Seq(Nat),
         Len(ws) = BLOCK, \A i \in 1 .. BLOCK : ws[i] = b + i - 1,
         OrderedPort(q), Bound(q) = b, Bound(q)' = b + BLOCK,
         fifo'[q] = fifo[q], out'[q] = out[q], dma'[q] = dma[q] \o ws
  PROVE  OrderedPort(q)'
<1> DEFINE d == dma[q] \o ws
<1>1. BLOCK \in Nat \ {0} /\ b \in Nat
  BY RefillAssumption
<1>2. ws \in Seq(Nat) /\ Len(ws) = BLOCK /\ \A i \in 1 .. BLOCK : ws[i] = b + i - 1
  OBVIOUS
<1>3. /\ dma[q] \in Seq(Int) /\ fifo[q] \in Seq(Int) /\ out[q] \in Int
      /\ ws \in Seq(Int)
  BY DEF TypeInv
<1>n. Len(dma[q]) \in Nat /\ Len(d) = Len(dma[q]) + BLOCK
  BY <1>2, <1>3, ConcatFacts
<1>a. /\ \A i \in 1 .. Len(dma[q]) : dma[q][i] \in Int
      /\ \A i \in 1 .. Len(fifo[q]) : fifo[q][i] \in Int
  BY <1>3, ConcatFacts
<1>b. \A i \in 1 .. Len(d) : d[i] = IF i <= Len(dma[q]) THEN dma[q][i] ELSE ws[i - Len(dma[q])]
  BY <1>2, <1>3, <1>n, ConcatFacts
<1> HIDE DEF d
<1>4. ASSUME NEW i \in 1 .. Len(dma[q]) PROVE i \in 1 .. Len(d) /\ d[i] = dma[q][i]
  <2>1. i \in 1 .. Len(d) /\ i <= Len(dma[q])
    BY ONLY <1>1, <1>n, i \in 1 .. Len(dma[q])
  <2> QED
    BY ONLY <1>b, <2>1
<1>r. Rise(ws) /\ \A i \in 1 .. BLOCK : ws[i] \in Int /\ b <= ws[i] /\ ws[i] < b + BLOCK
  BY <1>1, <1>2 DEF Rise
<1>5. ASSUME NEW i \in 1 .. Len(d), i > Len(dma[q])
      PROVE  /\ i - Len(dma[q]) \in 1 .. BLOCK /\ d[i] = ws[i - Len(dma[q])]
             /\ d[i] \in Int /\ b <= d[i] /\ d[i] < b + BLOCK
  <2>1. i - Len(dma[q]) \in 1 .. BLOCK
    BY <1>1, <1>5, <1>n
  <2>2. d[i] = ws[i - Len(dma[q])]
    <3>1. ~(i <= Len(dma[q]))
      BY ONLY <1>1, <1>n, <1>5, i \in 1 .. Len(d)
    <3> QED
      BY ONLY <1>b, <3>1, i \in 1 .. Len(d)
  <2> QED
    BY <1>r, <2>1, <2>2
<1>6. /\ Rise(fifo[q]) /\ Rise(dma[q]) /\ out[q] < b
      /\ Between(fifo[q], out[q], b) /\ Between(dma[q], out[q], b)
      /\ \A i \in 1 .. Len(fifo[q]), j \in 1 .. Len(dma[q]) : fifo[q][i] < dma[q][j]
  BY DEF OrderedPort
<1>7. Rise(d)
  <2> SUFFICES ASSUME NEW i \in 1 .. Len(d), NEW j \in 1 .. Len(d), i < j PROVE d[i] < d[j]
    BY DEF Rise
  <2>1. CASE j <= Len(dma[q])
    <3>1. i \in 1 .. Len(dma[q]) /\ j \in 1 .. Len(dma[q])
      BY <1>1, <1>4, <1>a, <1>n, <2>1
    <3> QED
      BY <1>4, <1>6, <3>1 DEF Rise
  <2>2. CASE i <= Len(dma[q]) /\ j > Len(dma[q])
    <3>1. i \in 1 .. Len(dma[q])
      BY <1>4, <1>a, <1>n, <2>2
    <3>2. d[i] \in Int /\ d[i] < b
      BY <1>4, <1>6, <1>a, <1>n, <3>1 DEF Between
    <3>3. d[j] \in Int /\ b <= d[j]
      BY <1>5, <2>2
    <3> QED
      BY ONLY <1>1, <3>2, <3>3
  <2>3. CASE i > Len(dma[q])
    <3>1. j > Len(dma[q])
      BY <1>a, <1>n, <2>3
    <3>2. /\ d[i] = ws[i - Len(dma[q])] /\ d[j] = ws[j - Len(dma[q])]
          /\ i - Len(dma[q]) \in 1 .. BLOCK /\ j - Len(dma[q]) \in 1 .. BLOCK
      BY <1>5, <2>3, <3>1
    <3>3. i - Len(dma[q]) < j - Len(dma[q])
      BY <1>n
    <3> QED
      BY <1>2, <1>r, <3>2, <3>3 DEF Rise
  <2> QED
    BY <1>1, <1>4, <1>a, <1>n, <2>1, <2>2, <2>3
<1>8. Between(d, out[q], b + BLOCK)
  <2> SUFFICES ASSUME NEW i \in 1 .. Len(d) PROVE out[q] < d[i] /\ d[i] < b + BLOCK
    BY DEF Between
  <2>1. CASE i <= Len(dma[q])
    <3>1. i \in 1 .. Len(dma[q])
      BY <1>4, <1>a, <1>n, <2>1
    <3>2. d[i] \in Int /\ out[q] < d[i] /\ d[i] < b
      BY <1>4, <1>6, <1>a, <1>n, <3>1 DEF Between
    <3> QED
      BY <1>1, <3>2
  <2>2. CASE i > Len(dma[q])
    <3>1. d[i] \in Int /\ b <= d[i] /\ d[i] < b + BLOCK
      BY <1>5, <2>2
    <3>2. out[q] \in Int /\ out[q] < b
      BY <1>3, <1>6
    <3> QED
      BY ONLY <1>1, <3>1, <3>2
  <2> QED
    BY <1>4, <1>a, <1>n, <2>1, <2>2
<1>9. Between(fifo[q], out[q], b + BLOCK) /\ out[q] < b + BLOCK
  BY <1>1, <1>3, <1>a, <1>n, <1>6 DEF Between
<1>10. \A i \in 1 .. Len(fifo[q]), j \in 1 .. Len(d) : fifo[q][i] < d[j]
  <2> SUFFICES ASSUME NEW i \in 1 .. Len(fifo[q]), NEW j \in 1 .. Len(d)
               PROVE  fifo[q][i] < d[j]
    OBVIOUS
  <2>1. CASE j <= Len(dma[q])
    <3>1. j \in 1 .. Len(dma[q])
      BY <1>4, <1>a, <1>n, <2>1
    <3> QED
      BY <1>4, <1>6, <3>1
  <2>2. CASE j > Len(dma[q])
    <3>1. d[j] \in Int /\ b <= d[j]
      BY <1>5, <2>2
    <3>2. fifo[q][i] \in Int /\ fifo[q][i] < b
      BY <1>6, <1>a, <1>n DEF Between
    <3> QED
      BY ONLY <1>1, <3>1, <3>2
  <2> QED
    BY <1>4, <1>a, <1>n, <2>1, <2>2
<1>11. dma'[q] = d /\ Bound(q)' = b + BLOCK
  BY DEF d
<1> QED
  BY <1>6, <1>7, <1>8, <1>9, <1>10, <1>11 DEF OrderedPort

\* A port whose queue and descriptor are not touched.
LEMMA OrderedSame ==
  ASSUME NEW p \in Port, OrderedPort(p), fifo'[p] = fifo[p], dma'[p] = dma[p],
         out'[p] = out[p], Bound(p)' = Bound(p)
  PROVE  OrderedPort(p)'
  BY DEF OrderedPort

LEMMA OrderedNext == TypeInv /\ TypeInv' /\ Ordered /\ [Next]_vars => Ordered'
<1> SUFFICES ASSUME TypeInv, TypeInv', Ordered, [Next]_vars PROVE Ordered'
  OBVIOUS
<1>b. BLOCK \in Nat \ {0} /\ \A p \in Port : OrderedPort(p) /\ rd_adr_p[p] \in Nat
  BY RefillAssumption DEF Ordered, TypeInv, TypeOK
<1>1. ASSUME NEW q \in Port, DmaWrite(q) PROVE Ordered'
  <2>1. ASSUME NEW p \in Port, p # q PROVE OrderedPort(p)'
    <3>1. fifo'[p] = fifo[p] /\ dma'[p] = dma[p] /\ out'[p] = out[p] /\ Bound(p)' = Bound(p)
      BY <1>1, <2>1 DEF DmaWrite, TypeInv, Bound, mainVars
    <3> QED
      BY <1>b, <3>1, OrderedSame
  <2>2. OrderedPort(q)'
    BY <1>1, OrderedDma
  <2>3. main' # "load"
    BY <1>1 DEF DmaWrite, Ordered, mainVars
  <2> QED
    BY <2>1, <2>2, <2>3 DEF Ordered
<1>2. ASSUME NEW q \in Port, Take(q) PROVE Ordered'
  <2>1. ASSUME NEW p \in Port, p # q PROVE OrderedPort(p)'
    <3>1. fifo'[p] = fifo[p] /\ dma'[p] = dma[p] /\ out'[p] = out[p] /\ Bound(p)' = Bound(p)
      BY <1>2, <2>1 DEF Take, TypeInv, Bound, mainVars
    <3> QED
      BY <1>b, <3>1, OrderedSame
  <2>2. OrderedPort(q)'
    BY <1>2, OrderedTake
  <2>3. main' # "load"
    BY <1>2 DEF Take, Ordered, mainVars
  <2> QED
    BY <2>1, <2>2, <2>3 DEF Ordered
<1>3. ASSUME UNCHANGED <<fifo, dma, out, rd_adr_p, addr_update>>,
             main' = "load" => main = "load" /\ burst' = burst
      PROVE  Ordered'
  <2>1. ASSUME NEW p \in Port PROVE OrderedPort(p)'
    <3>1. fifo'[p] = fifo[p] /\ dma'[p] = dma[p] /\ out'[p] = out[p] /\ Bound(p)' = Bound(p)
      BY <1>3 DEF Bound
    <3> QED
      BY <1>b, <3>1, OrderedSame
  <2>2. main' = "load" =>
          /\ ~burst'
          /\ \A p \in Port : /\ fifo'[p] = <<>> /\ dma'[p] = <<>> /\ out'[p] = -1
                             /\ rd_adr_p'[p] = 0 /\ addr_update'[p]
    BY <1>3 DEF Ordered
  <2> QED
    BY <2>1, <2>2 DEF Ordered
<1>4. CASE NextDetector \/ StartBurst \/ EndBurst
  BY <1>3, <1>4 DEF NextDetector, StartBurst, EndBurst, mainVars
<1>5. CASE IsrStep
  BY <1>3, <1>5 DEF IsrStep, IsrRead, IsrClear, IsrStore, hwVars, mainVars
<1>6. CASE Skip \/ LoadFlag \/ StoreFlag
  BY <1>3, <1>6 DEF Skip, LoadFlag, StoreFlag, NextPort, mainFrame
<1>7. CASE UNCHANGED vars
  BY <1>3, <1>7 DEF vars, hwVars, mainVars
<1>8. CASE FirstTransfers
  <2>1. ASSUME NEW p \in Port PROVE OrderedPort(p)'
    <3>1. /\ fifo'[p] = fifo[p] /\ out'[p] = out[p] /\ dma'[p] = dma[p] \o Words(0)
          /\ rd_adr_p'[p] = 0 /\ addr_update'[p]
      BY <1>8 DEF FirstTransfers, Ordered, TypeInv, mainFrame
    <3>2. OrderedPort(p) /\ dma[p] = <<>> /\ fifo[p] = <<>> /\ out[p] = -1
      BY <1>8, <1>b DEF FirstTransfers, Ordered
    <3>3. /\ Words(0) \in Seq(Int) /\ Len(Words(0)) = BLOCK
          /\ \A i \in 1 .. BLOCK : Words(0)[i] \in Int /\ Words(0)[i] = i - 1
      <4>1. 0 * BLOCK = 0
        BY <1>b
      <4>2. /\ Words(0) \in Seq(Nat) /\ Len(Words(0)) = BLOCK
            /\ \A i \in 1 .. BLOCK : Words(0)[i] = 0 * BLOCK + i - 1
        BY WordsType
      <4>3. \A i \in 1 .. BLOCK : 0 * BLOCK + i - 1 = i - 1 /\ i - 1 \in Int
        BY <4>1, <1>b
      <4> QED
        BY <4>2, <4>3
    <3>4. dma'[p] = Words(0) /\ fifo'[p] = <<>> /\ out'[p] = -1
      BY <3>1, <3>2, <3>3
    <3>5. Bound(p)' = BLOCK
      <4>1. 0 * BLOCK + BLOCK = BLOCK
        BY <1>b
      <4> QED
        BY <3>1, <4>1 DEF Bound
    <3>6. Rise(Words(0)) /\ Between(Words(0), -1, BLOCK)
      BY <1>b, <3>3 DEF Rise, Between
    <3>7. Rise(<<>>) /\ Between(<<>>, -1, BLOCK) /\ -1 < BLOCK
      BY <1>b DEF Rise, Between
    <3> QED
      BY <3>4, <3>5, <3>6, <3>7 DEF OrderedPort
  <2> QED
    BY <1>8, <2>1 DEF FirstTransfers, Ordered
<1>9. CASE Prepare
  <2> DEFINE due == {q \in Port \cap IrqMask : addr_update[q]}
  <2>1. /\ rd_adr_p' = [p \in Port |-> IF p \in due THEN rd_adr_p[p] + 1 ELSE rd_adr_p[p]]
        /\ addr_update' = [p \in Port |-> addr_update[p] /\ p \notin due]
    BY <1>9, Zenon DEF Prepare
  <2>2. ASSUME NEW p \in Port
        PROVE  /\ rd_adr_p'[p] = IF p \in due THEN rd_adr_p[p] + 1 ELSE rd_adr_p[p]
               /\ addr_update'[p] <=> addr_update[p] /\ p \notin due
               /\ p \in due => addr_update[p]
    BY <2>1, Zenon
  <2> HIDE DEF due
  <2>3. ASSUME NEW p \in Port PROVE Bound(p)' = Bound(p)
    <3>1. CASE p \in due
      <4>1. (rd_adr_p[p] + 1) * BLOCK = rd_adr_p[p] * BLOCK + BLOCK
        BY <1>b
      <4> QED
        BY <2>2, <3>1, <4>1 DEF Bound
    <3>2. CASE p \notin due
      BY <2>2, <3>2 DEF Bound
    <3> QED
      BY <3>1, <3>2
  <2>4. /\ fifo' = fifo /\ dma' = dma /\ out' = out /\ main' = "test"
    BY <1>9 DEF Prepare, mainFrame
  <2>5. ASSUME NEW p \in Port PROVE OrderedPort(p)'
    BY <1>b, <2>3, <2>4, OrderedSame
  <2> QED
    BY <2>4, <2>5 DEF Ordered
<1>10. CASE Transfer
  <2>1. PICK q \in Port : q = port
    BY <1>10 DEF Transfer, Asked
  <2>2. /\ ~addr_update[q] /\ main' = "loadflag"
        /\ fifo' = fifo /\ out' = out /\ rd_adr_p' = rd_adr_p
        /\ dma' = [dma EXCEPT ![q] = @ \o Words(rd_adr_p[q])]
        /\ addr_update' = [addr_update EXCEPT ![q] = TRUE]
    BY <1>10, <2>1 DEF Transfer, Asked, mainFrame
  <2>3. OrderedPort(q)'
    <3>1. dma'[q] = dma[q] \o Words(rd_adr_p[q]) /\ addr_update'[q]
      BY <2>2 DEF TypeInv, TypeOK
    <3>2. Bound(q) = rd_adr_p[q] * BLOCK /\ rd_adr_p[q] * BLOCK \in Nat
      BY <2>2, BoundType DEF Bound
    <3>3. Bound(q)' = rd_adr_p[q] * BLOCK + BLOCK
      BY <2>2, <3>1 DEF Bound
    <3>4. /\ Words(rd_adr_p[q]) \in Seq(Nat) /\ Len(Words(rd_adr_p[q])) = BLOCK
          /\ \A i \in 1 .. BLOCK : Words(rd_adr_p[q])[i] = rd_adr_p[q] * BLOCK + i - 1
      BY <1>b, WordsType
    <3>5. OrderedPort(q) /\ fifo'[q] = fifo[q] /\ out'[q] = out[q]
      BY <1>b, <2>2
    <3> QED
      BY ONLY TypeInv, <3>1, <3>2, <3>3, <3>4, <3>5, OrderedStart
  <2>4. ASSUME NEW p \in Port, p # q PROVE OrderedPort(p)'
    <3>1. dma'[p] = dma[p] /\ Bound(p)' = Bound(p)
      BY <2>2, <2>4 DEF TypeInv, TypeOK, Bound
    <3> QED
      BY <1>b, <2>2, <3>1, OrderedSame
  <2>5. \A p \in Port : OrderedPort(p)'
    BY <2>3, <2>4
  <2>6. main' # "load"
    BY <2>2
  <2> QED
    BY <2>5, <2>6, Zenon DEF Ordered
<1> QED
  BY <1>1, <1>2, <1>4, <1>5, <1>6, <1>7, <1>8, <1>9, <1>10 DEF Next, Loop

\* The words of an ordered port stand in ListInOrder's sequence.
LEMMA OrderedWords ==
  ASSUME NEW o \in Int, NEW f \in Seq(Int), NEW d \in Seq(Int), NEW n \in Seq(Int),
         NEW b \in Int, o < b, Rise(f), Rise(d), Between(f, o, b), Between(d, o, b),
         \A i \in 1 .. Len(f), j \in 1 .. Len(d) : f[i] < d[j],
         n = <<>> \/ n = <<b>>
  PROVE  \A i \in 1 .. Len(<<o>> \o f \o d \o n) - 1 :
            (<<o>> \o f \o d \o n)[i] < (<<o>> \o f \o d \o n)[i + 1]
<1>1. Len(<<o>>) = 1 /\ <<o>> \in Seq(Int) /\ Rise(<<o>>) /\ Under(<<o>>, f)
  BY DEF Rise, Under, Between
<1>2. <<o>> \o f \in Seq(Int) /\ Rise(<<o>> \o f)
  BY <1>1, RiseConcat
<1>3. Under(<<o>> \o f, d)
  <2>1. Under(<<o>>, d) /\ Under(f, d)
    BY DEF Under, Between
  <2> QED
    BY <1>1, <2>1, BelowConcat
<1>4. <<o>> \o f \o d \in Seq(Int) /\ Rise(<<o>> \o f \o d)
  BY <1>2, <1>3, RiseConcat
<1>5. Under(<<o>> \o f \o d, n)
  <2>1. \A i \in 1 .. Len(n) : n[i] = b
    OBVIOUS
  <2>2. Under(<<o>>, n) /\ Under(f, n) /\ Under(d, n)
    BY <2>1 DEF Under, Between
  <2>3. Under(<<o>> \o f, n)
    BY <1>1, <2>2, BelowConcat
  <2> QED
    BY <1>2, <2>2, <2>3, BelowConcat
<1>6. Rise(n)
  BY DEF Rise
<1>7. <<o>> \o f \o d \o n \in Seq(Int) /\ Rise(<<o>> \o f \o d \o n)
  BY <1>4, <1>5, <1>6, RiseConcat
<1> DEFINE w == <<o>> \o f \o d \o n
<1> HIDE DEF w
<1>8. w \in Seq(Int) /\ Rise(w)
  BY <1>7 DEF w
<1>9. ASSUME NEW i \in 1 .. Len(w) - 1 PROVE w[i] < w[i + 1]
  <2>1. Len(w) \in Nat
    BY <1>8
  <2>2. i \in 1 .. Len(w) /\ i + 1 \in 1 .. Len(w) /\ i < i + 1
    BY ONLY <2>1, i \in 1 .. Len(w) - 1
  <2> QED
    BY <1>8, <2>2 DEF Rise
<1> QED
  BY <1>9 DEF w

\* ListInOrder holds: no interrupt makes the loop start a block twice or out
\* of its turn, and what a full FIFO drops leaves the rest in order.
THEOREM ListsOrdered == Spec => []ListInOrder
<1>1. Spec => [](TypeInv /\ Ordered)
  <2>1. Init => TypeInv /\ Ordered
    BY TypeInit, OrderedInit
  <2>2. (TypeInv /\ Ordered) /\ [Next]_vars => (TypeInv /\ Ordered)'
    BY TypeNext, OrderedNext
  <2> QED
    BY <2>1, <2>2, PTL DEF Spec
<1>2. TypeInv /\ Ordered => ListInOrder
  <2> SUFFICES ASSUME TypeInv, Ordered PROVE ListInOrder
    OBVIOUS
  <2> DEFINE n(p) == IF addr_update[p] THEN <<>> ELSE <<rd_adr_p[p] * BLOCK>>
             W(p) == <<out[p]>> \o fifo[p] \o dma[p] \o n(p)
  <2>1. ASSUME NEW p \in Port PROVE \A i \in 1 .. Len(W(p)) - 1 : W(p)[i] < W(p)[i + 1]
    <3>1. /\ out[p] \in Int /\ fifo[p] \in Seq(Int) /\ dma[p] \in Seq(Int) /\ Bound(p) \in Int
          /\ OrderedPort(p)
      BY BoundType DEF TypeInv, Ordered
    <3>2. n(p) = <<>> \/ n(p) = <<Bound(p)>>
      BY DEF Bound
    <3>3. n(p) \in Seq(Int)
      BY <3>1, <3>2
    <3> HIDE DEF n
    <3> QED
      BY <3>1, <3>2, <3>3, OrderedWords DEF OrderedPort
  <2> QED
    BY <2>1, Zenon DEF ListInOrder
<1> QED
  BY <1>1, <1>2, PTL

=============================================================================
