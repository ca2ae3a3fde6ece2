--------------------------- MODULE JtagUartProofs ---------------------------
(***************************************************************************)
(* Safety of the console driver for every size of its rings and FIFOs,     *)
(* every timeout, every period of the alarm and every width of the tick    *)
(* counter.                                                                *)
(*                                                                         *)
(* The inductive invariant says of the program what its locals still mean  *)
(* after the interrupt routine has moved the other end of a ring (Locals), *)
(* of the interrupt routine that what it has read of the control register  *)
(* is a lower bound (Latched), and of the alarm how its time, the rollover *)
(* flag and the tick counter give the ticks left (AlarmTime).              *)
(***************************************************************************)
EXTENDS JtagUart, TLAPS

Locals ==
  /\ pc \in {"wcopy", "wadvance"} =>
       /\ in = tx_in /\ n > 0 /\ n <= left /\ in + n <= BUF
       /\ n + Fill(tx_in, tx_out) < BUF
  /\ pc = "wadvance" => \A i \in 0 .. n - 1 : tx_buf[in + i] = written + 1 + i
  /\ pc \in {"rcopy", "radvance"} =>
       /\ out = rx_out /\ n > 0 /\ n <= left /\ out + n <= BUF
       /\ n <= Fill(rx_in, rx_out)
  /\ pc \notin {"rsample", "rcopy", "radvance", "rarm"} => buffer = <<>>
  /\ pc = "radvance" => Len(buffer) >= n

Latched ==
  /\ space + Len(txfifo) <= HWFIFO
  /\ isr = "rxend" /\ data => Wrap(rx_in + 1) = rx_out

AlarmTime ==
  /\ due \in 1 .. TPS + 1
  /\ alarm.time + (IF alarm.rollover THEN NTICKS ELSE 0) = nticks + due

Inv == TypeOK /\ Locals /\ Latched /\ AlarmTime /\ TxInOrder /\ RxInOrder /\ Armed

-----------------------------------------------------------------------------
(* Arithmetic and sequences. *)

\* The remainder of an index that has passed the end of the ring at most once.
LEMMA WrapIs == ASSUME NEW i \in 0 .. 2 * BUF - 1
                PROVE  Wrap(i) = IF i < BUF THEN i ELSE i - BUF
<1>1. BUF \in Nat /\ BUF > 1
  BY UartAssumption
<1> QED BY <1>1 DEF Wrap

\* A character index stays in the ring.
LEMMA WrapRange == ASSUME NEW i \in 0 .. 2 * BUF - 1 PROVE Wrap(i) \in 0 .. BUF - 1
<1>1. BUF \in Nat /\ BUF > 1
  BY UartAssumption
<1> QED BY <1>1, WrapIs

\* The tick counter and the alarm's time wrap at most once at a step.
LEMMA TickIs == ASSUME NEW i \in 0 .. 2 * NTICKS - 1
                PROVE  i % NTICKS = IF i < NTICKS THEN i ELSE i - NTICKS
<1>1. NTICKS \in Nat /\ NTICKS > 0
  BY UartAssumption
<1> QED BY <1>1

\* The empty FIFO is the FIFO of length zero.
LEMMA NoChars == ASSUME NEW q \in Seq(Nat) PROVE q = <<>> <=> Len(q) = 0
  OBVIOUS

\* What an alarm set for a time remembers.
LEMMA AlarmIs == ASSUME NEW t \in 0 .. NTICKS - 1, NEW now \in Int
                 PROVE  /\ Alarm(t, now) \in [time : 0 .. NTICKS - 1, rollover : BOOLEAN]
                        /\ Alarm(t, now).time = t
                        /\ Alarm(t, now).rollover <=> t < now
<1>1. (t < now) \in BOOLEAN
  OBVIOUS
<1>2. \A b \in BOOLEAN : [time |-> t, rollover |-> b] \in [time : 0 .. NTICKS - 1, rollover : BOOLEAN]
  OBVIOUS
<1>3. Alarm(t, now) \in [time : 0 .. NTICKS - 1, rollover : BOOLEAN]
  BY <1>1, <1>2 DEF Alarm
<1>4. Alarm(t, now).time = t
  BY DEF Alarm
<1>5. Alarm(t, now).rollover <=> t < now
  BY Zenon DEF Alarm
<1> QED BY <1>3, <1>4, <1>5

\* Taking the first character off a hardware FIFO.
LEMMA PopChar ==
  ASSUME NEW q \in Seq(Nat), q # <<>>
  PROVE  /\ Len(q) \in Nat /\ Len(q) > 0 /\ Head(q) = q[1] /\ Head(q) \in Nat
         /\ Tail(q) \in Seq(Nat) /\ Len(Tail(q)) = Len(q) - 1
         /\ Tail(q) = <<>> <=> Len(q) = 1
         /\ \A i \in 1 .. Len(q) - 1 : Tail(q)[i] = q[i + 1]
<1>1. /\ Len(q) \in Nat /\ Len(q) > 0 /\ Head(q) = q[1] /\ Head(q) \in Nat
      /\ Tail(q) \in Seq(Nat) /\ Len(Tail(q)) = Len(q) - 1
      /\ \A i \in 1 .. Len(q) - 1 : Tail(q)[i] = q[i + 1]
  OBVIOUS
<1>2. Tail(q) = <<>> <=> Len(Tail(q)) = 0
  BY <1>1, NoChars
<1> QED BY <1>1, <1>2

\* Adding a character at the end of a hardware FIFO.
LEMMA PushChar ==
  ASSUME NEW q \in Seq(Nat), NEW c \in Nat
  PROVE  /\ Append(q, c) \in Seq(Nat) /\ Append(q, c) # <<>>
         /\ Len(q) \in Nat /\ Len(Append(q, c)) = Len(q) + 1
         /\ \A i \in 1 .. Len(q) : Append(q, c)[i] = q[i]
         /\ Append(q, c)[Len(q) + 1] = c
  OBVIOUS

\* Two sequences of characters one after the other.
LEMMA JoinSeq ==
  ASSUME NEW q \in Seq(Nat), NEW g \in Seq(Nat)
  PROVE  /\ q \o g \in Seq(Nat) /\ Len(q \o g) = Len(q) + Len(g) /\ Len(q) \in Nat
         /\ \A k \in 1 .. Len(q) : (q \o g)[k] = q[k]
         /\ \A k \in 1 .. Len(g) : (q \o g)[Len(q) + k] = g[k]
<1>1. q \o g \in Seq(Nat) /\ Len(q \o g) = Len(q) + Len(g) /\ Len(q) \in Nat
  OBVIOUS
<1>2. \A k \in 1 .. Len(q) : (q \o g)[k] = q[k]
  OBVIOUS
<1>3. \A k \in 1 .. Len(g) : (q \o g)[Len(q) + k] = g[k]
  OBVIOUS
<1> QED BY <1>1, <1>2, <1>3

\* Appending a block of characters to the caller's buffer.
LEMMA JoinChars ==
  ASSUME NEW q \in Seq(Nat), NEW m \in Nat, NEW f, \A k \in 1 .. m : f[k] \in Nat
  PROVE  LET b == q \o [k \in 1 .. m |-> f[k]]
         IN  /\ b \in Seq(Nat) /\ Len(b) = Len(q) + m /\ Len(q) \in Nat
             /\ \A k \in 1 .. Len(q) : b[k] = q[k]
             /\ \A k \in 1 .. m : b[Len(q) + k] = f[k]
<1> DEFINE g == [k \in 1 .. m |-> f[k]]
<1>1. g \in Seq(Nat) /\ Len(g) = m
  OBVIOUS
<1>2. \A k \in 1 .. m : g[k] = f[k]
  OBVIOUS
<1> HIDE DEF g
<1>3. /\ q \o g \in Seq(Nat) /\ Len(q \o g) = Len(q) + m /\ Len(q) \in Nat
      /\ \A k \in 1 .. Len(q) : (q \o g)[k] = q[k]
      /\ \A k \in 1 .. m : (q \o g)[Len(q) + k] = g[k]
  BY ONLY <1>1, q \in Seq(Nat), JoinSeq
<1>4. /\ q \o g \in Seq(Nat) /\ Len(q \o g) = Len(q) + m /\ Len(q) \in Nat
      /\ \A k \in 1 .. Len(q) : (q \o g)[k] = q[k]
      /\ \A k \in 1 .. m : (q \o g)[Len(q) + k] = f[k]
  BY <1>2, <1>3
<1> QED BY <1>4 DEF g

-----------------------------------------------------------------------------
(* Types, locals and the interrupt routine. *)

\* The initial state satisfies the invariant.
LEMMA InitInv == Init => Inv
<1> SUFFICES ASSUME Init PROVE Inv
  OBVIOUS
<1> USE UartAssumption
<1>1. /\ TPS + START + 1 \in 0 .. 2 * NTICKS - 1
      /\ alarm = Alarm((TPS + START + 1) % NTICKS, START) /\ nticks = START /\ due = TPS + 1
  BY DEF Init
<1>2. (TPS + START + 1) % NTICKS = IF TPS + START + 1 < NTICKS THEN TPS + START + 1
                                   ELSE TPS + START + 1 - NTICKS
  BY <1>1, TickIs
<1>3. AlarmTime /\ nticks \in 0 .. NTICKS - 1 /\ due \in Int
      /\ alarm \in [time : 0 .. NTICKS - 1, rollover : BOOLEAN]
  <2> DEFINE t == (TPS + START + 1) % NTICKS
  <2>1. t \in 0 .. NTICKS - 1 /\ START \in Int
    BY <1>1, <1>2
  <2>2. alarm.time = t /\ (alarm.rollover <=> t < START)
        /\ alarm \in [time : 0 .. NTICKS - 1, rollover : BOOLEAN]
    BY <1>1, <2>1, AlarmIs
  <2> QED BY <1>1, <1>2, <2>2 DEF AlarmTime
<1>4. TypeOK
  BY <1>3 DEF Init, TypeOK, Pcs
<1>5. Fill(tx_in, tx_out) = 0 /\ Fill(rx_in, rx_out) = 0 /\ Len(txfifo) = 0 /\ Len(rxfifo) = 0
      /\ Len(buffer) = 0
  BY DEF Init, Fill
<1>6. Locals /\ Latched /\ Armed
  BY <1>5 DEF Init, Locals, Latched, Armed
<1>7. TxInOrder /\ RxInOrder
  BY <1>5 DEF Init, TxInOrder, RxInOrder
<1> QED BY <1>3, <1>4, <1>6, <1>7 DEF Inv

\* The host and the interrupts keep the types.
LEMMA DeviceType ==
  TypeOK /\ Locals /\ Latched /\ (HostTake \/ HostType \/ HostPoll \/ Plug \/ Tick \/ Isr) => TypeOK'
<1> SUFFICES ASSUME TypeOK, Latched, HostTake \/ HostType \/ HostPoll \/ Plug \/ Tick \/ Isr
             PROVE  TypeOK'
  OBVIOUS
<1> USE UartAssumption
<1>1. CASE HostTake
  <2>1. txfifo # <<>> /\ txfifo \in Seq(Nat) /\ Len(txfifo) <= HWFIFO
        /\ taken' = Head(txfifo) /\ txfifo' = Tail(txfifo)
    BY <1>1 DEF HostTake, Host, TypeOK
  <2>2. taken' \in Nat /\ txfifo' \in Seq(Nat) /\ Len(txfifo') <= HWFIFO
    BY <2>1, PopChar
  <2> QED BY <1>1, <2>2 DEF HostTake, Host, TypeOK, locals, clock
<1>2. CASE HostType
  <2>1. rxfifo' \in Seq(Nat) /\ Len(rxfifo') <= HWFIFO /\ typed' \in Nat
    <3>1. typed + 1 \in Nat /\ rxfifo \in Seq(Nat) /\ Len(rxfifo) < HWFIFO
          /\ typed' = typed + 1 /\ rxfifo' = Append(rxfifo, typed + 1)
      BY <1>2 DEF HostType, Host, TypeOK
    <3> QED BY <3>1, PushChar
  <2> QED BY <1>2, <2>1 DEF HostType, Host, TypeOK, locals, clock
<1>3. CASE HostPoll \/ Plug
  BY <1>3 DEF HostPoll, Host, Plug, TypeOK, rx, tx, locals, clock
<1>4. CASE Tick
  <2>1. nticks + 1 \in 0 .. 2 * NTICKS - 1 /\ alarm.time + TPS \in 0 .. 2 * NTICKS - 1
    <3>1. nticks \in 0 .. NTICKS - 1 /\ alarm \in [time : 0 .. NTICKS - 1, rollover : BOOLEAN]
      BY DEF TypeOK
    <3>2. alarm.time \in 0 .. NTICKS - 1
      BY <3>1, Zenon
    <3>3. NTICKS \in Nat /\ TPS \in Nat /\ TPS + 1 < NTICKS
      BY DEF UartAssumption
    <3> QED BY ONLY <3>1, <3>2, <3>3
  <2>2. nticks' \in 0 .. NTICKS - 1 /\ (alarm.time + TPS) % NTICKS \in 0 .. NTICKS - 1
    BY <1>4, <2>1, TickIs DEF Tick
  <2>3. alarm' \in [time : 0 .. NTICKS - 1, rollover : BOOLEAN] /\ due' \in Int
    <3>1. \/ alarm' = Alarm((alarm.time + TPS) % NTICKS, nticks') /\ due' = TPS
          \/ alarm' = [alarm EXCEPT !.rollover = alarm.rollover /\ nticks' # 0] /\ due' = due - 1
      BY <1>4 DEF Tick
    <3>2. nticks' \in Int
      BY <2>2
    <3>3. CASE alarm' = Alarm((alarm.time + TPS) % NTICKS, nticks') /\ due' = TPS
      BY <2>2, <3>2, <3>3, AlarmIs
    <3>4. CASE alarm' = [alarm EXCEPT !.rollover = alarm.rollover /\ nticks' # 0] /\ due' = due - 1
      <4>1. (alarm.rollover /\ nticks' # 0) \in BOOLEAN
        BY Zenon
      <4>2. \A b \in BOOLEAN : [alarm EXCEPT !.rollover = b] \in [time : 0 .. NTICKS - 1, rollover : BOOLEAN]
        BY DEF TypeOK
      <4>3. due' \in Int
        <5>1. due' = due - 1
          BY <3>4, Zenon
        <5> QED BY <5>1 DEF TypeOK
      <4> QED BY <3>4, <4>1, <4>2, <4>3
    <3> QED BY <3>1, <3>3, <3>4
  <2>4. host_inactive' \in 0 .. INACTIVE /\ ac' \in BOOLEAN
    <3>1. Timeout \/ UNCHANGED <<ac, host_inactive>>
      BY <1>4 DEF Tick
    <3>2. CASE UNCHANGED <<ac, host_inactive>>
      BY <3>2 DEF TypeOK
    <3>3. CASE Timeout
      <4>1. ac' \in BOOLEAN
        BY <3>3, Zenon DEF Timeout
      <4>2. host_inactive' \in {0, AtMost(host_inactive + 1, INACTIVE)}
        BY <3>3 DEF Timeout
      <4>3. {0, AtMost(host_inactive + 1, INACTIVE)} \subseteq 0 .. INACTIVE
        BY DEF AtMost, TypeOK
      <4> QED BY <4>1, <4>2, <4>3
    <3> QED BY <3>1, <3>2, <3>3
  <2> QED BY <1>4, <2>2, <2>3, <2>4 DEF Tick, TypeOK, rx, tx, locals
<1>5. CASE IsrControl
  <2>1. space' \in 0 .. HWFIFO
    BY <1>5 DEF IsrControl, TypeOK
  <2> QED BY <1>5, <2>1 DEF IsrControl, RI, TypeOK, IsrKeeps, rx, tx, locals, clock
<1>6. CASE IsrRead
  <2>1. Wrap(rx_in + 1) \in 0 .. BUF - 1
    <3>1. rx_in + 1 \in 0 .. 2 * BUF - 1
      BY DEF TypeOK
    <3> QED BY <3>1, WrapRange
  <2>2. rxfifo # <<>> => Head(rxfifo) \in Nat /\ Tail(rxfifo) \in Seq(Nat)
                         /\ Len(Tail(rxfifo)) <= HWFIFO
    BY PopChar DEF TypeOK
  <2>3. rx_buf' \in [0 .. BUF - 1 -> Nat] /\ rx_in' \in 0 .. BUF - 1
        /\ rx_out' \in 0 .. BUF - 1 /\ rxfifo' \in Seq(Nat) /\ Len(rxfifo') <= HWFIFO
        /\ isr' \in {"rx", "rxend"} /\ data' \in BOOLEAN
    <3>1. CASE UNCHANGED rx /\ isr' = "rxend" /\ data' \in {data, FALSE}
      BY <3>1 DEF TypeOK, rx
    <3>2. CASE /\ rxfifo # <<>> /\ rx_buf' = [rx_buf EXCEPT ![rx_in] = Head(rxfifo)]
               /\ rx_in' = Wrap(rx_in + 1) /\ rxfifo' = Tail(rxfifo)
               /\ data' = (Tail(rxfifo) # <<>>) /\ UNCHANGED <<isr, rx_out>> /\ isr = "rx"
      BY <3>2, <2>1, <2>2 DEF TypeOK
    <3> QED BY <1>6, <3>1, <3>2 DEF IsrRead
  <2> QED BY <1>6, <2>3 DEF IsrRead, TypeOK, IsrKeeps, tx, locals, clock
<1>7. CASE IsrReadEnd
  BY <1>7 DEF IsrReadEnd, TypeOK, IsrKeeps, rx, tx, locals, clock
<1>8. CASE IsrWrite
  <2>1. Wrap(tx_out + 1) \in 0 .. BUF - 1
    <3>1. tx_out + 1 \in 0 .. 2 * BUF - 1
      BY DEF TypeOK
    <3> QED BY <3>1, WrapRange
  <2>2. tx_buf[tx_out] \in Nat /\ space - 1 \in 0 .. HWFIFO
    BY <1>8 DEF IsrWrite, TypeOK
  <2>3. txfifo' \in Seq(Nat) /\ Len(txfifo') <= HWFIFO
    <3>1. txfifo \in Seq(Nat) /\ Len(txfifo) + 1 <= HWFIFO
          /\ txfifo' = Append(txfifo, tx_buf[tx_out])
      BY <1>8 DEF IsrWrite, TypeOK, Latched
    <3> QED BY <2>2, <3>1, PushChar
  <2> QED BY <1>8, <2>1, <2>2, <2>3 DEF IsrWrite, TypeOK, IsrKeeps, rx, locals, clock
<1>9. CASE IsrWriteEnd
  BY <1>9 DEF IsrWriteEnd, TypeOK, IsrKeeps, rx, tx, locals, clock
<1> QED BY <1>1, <1>2, <1>3, <1>4, <1>5, <1>6, <1>7, <1>8, <1>9 DEF Isr

\* Locals that are cleared or kept keep their types.
LEMMA LocalType ==
  ASSUME TypeOK, Return \/ UNCHANGED locals \/ Wait
  PROVE  /\ in' \in 0 .. BUF - 1 /\ out' \in 0 .. BUF - 1 /\ n' \in 0 .. BUF
         /\ left' \in Nat /\ buffer' \in Seq(Nat) /\ nonblock' \in BOOLEAN /\ seen' \in 0 .. INACTIVE
<1>1. CASE Return
  <2>1. buffer' \in Seq(Nat)
    <3>1. <<>> \in Seq(Nat)
      OBVIOUS
    <3> QED BY <1>1, <3>1 DEF Return
  <2>2. nonblock' \in BOOLEAN
    BY <1>1, Zenon DEF Return
  <2>3. in' = 0 /\ out' = 0 /\ n' = 0 /\ left' = 0 /\ seen' = 0
    BY <1>1 DEF Return
  <2> QED BY <2>1, <2>2, <2>3, UartAssumption
<1>2. CASE UNCHANGED locals
  BY <1>2 DEF locals, TypeOK
<1>3. CASE Wait
  <2>1. seen' \in {0, host_inactive}
    BY <1>3 DEF Wait
  <2> QED BY <1>3, <2>1, UartAssumption DEF Wait, TypeOK
<1> QED BY <1>1, <1>2, <1>3

\* So does the program.
LEMMA ProgramType ==
  TypeOK /\ Locals /\ (WriteCall \/ ReadCall \/ CloseCall \/ Steps) => TypeOK'
<1> SUFFICES ASSUME TypeOK, Locals, WriteCall \/ ReadCall \/ CloseCall \/ Steps
             PROVE  TypeOK'
  OBVIOUS
<1> USE UartAssumption DEF At, MainKeeps, Pcs, Writing, Reading
<1>1. CASE WriteCall \/ ReadCall \/ CloseCall
  <2>1. left' \in Nat /\ pc' \in Pcs
    <3>1. left' \in Nat
      <4>1. AtMost(MaxCall, MaxChars - written - typed) \in Int
        BY DEF AtMost, TypeOK
      <4> QED BY <1>1, <4>1 DEF WriteCall, ReadCall, CloseCall
    <3>2. pc' \in {"wsample", "rsample", "close"}
      BY <1>1 DEF WriteCall, ReadCall, CloseCall, Call
    <3> QED BY <3>1, <3>2
  <2>2. \E op \in Pcs : Call(op)
    BY <1>1 DEF WriteCall, ReadCall, CloseCall
  <2> QED BY <2>1, <2>2 DEF Call, TypeOK, rx, tx, clock
<1>2. CASE WriteSample
  <2>1. AtMost(Room(tx_in, tx_out), left) \in 0 .. BUF
    BY DEF AtMost, Room, TypeOK
  <2> QED BY <1>2, <2>1 DEF WriteSample, TypeOK, rx, tx, clock
<1>3. CASE WriteCopy
  <2>1. \A i \in 0 .. BUF - 1 : i \in in .. in + n - 1 => written + 1 + i - in \in Nat
    BY DEF TypeOK
  <2>2. tx_buf' \in [0 .. BUF - 1 -> Nat]
    BY <1>3, <2>1 DEF WriteCopy, TypeOK
  <2> QED BY <1>3, <2>2 DEF WriteCopy, TypeOK, rx, locals, clock
<1>4. CASE WriteAdvance
  <2>1. in + n \in 0 .. 2 * BUF - 1 /\ left - n \in Nat
    BY <1>4 DEF WriteAdvance, TypeOK, Locals
  <2>2. Wrap(in + n) \in 0 .. BUF - 1
    BY <2>1, WrapRange
  <2>3. tx_in' \in 0 .. BUF - 1 /\ left' \in Nat /\ written' \in Nat
    BY <1>4, <2>1, <2>2 DEF WriteAdvance, TypeOK
  <2> QED BY <1>4, <2>3 DEF WriteAdvance, TypeOK, rx, clock
<1>5. CASE WriteArm \/ WriteSpin \/ WriteCheck
  <2>1. /\ in' \in 0 .. BUF - 1 /\ out' \in 0 .. BUF - 1 /\ n' \in 0 .. BUF
        /\ left' \in Nat /\ buffer' \in Seq(Nat) /\ nonblock' \in BOOLEAN /\ seen' \in 0 .. INACTIVE
    <3>1. Return \/ UNCHANGED locals \/ Wait
      BY <1>5 DEF WriteArm, WriteSpin, WriteCheck
    <3> QED BY <3>1, LocalType
  <2>2. pc' \in Pcs /\ irq_enable' \subseteq {"RE", "WE"}
    BY <1>5 DEF WriteArm, WriteSpin, WriteCheck, Return, Wait, TypeOK
  <2> QED BY <1>5, <2>1, <2>2 DEF WriteArm, WriteSpin, WriteCheck, TypeOK, rx, tx, clock
<1>6. CASE ReadSample
  <2>1. AtMost(Ready(rx_in, rx_out), left) \in 0 .. BUF
    BY DEF AtMost, Ready, TypeOK
  <2>2. /\ in' \in 0 .. BUF - 1 /\ out' \in 0 .. BUF - 1 /\ n' \in 0 .. BUF
        /\ left' \in Nat /\ buffer' \in Seq(Nat) /\ nonblock' \in BOOLEAN /\ seen' \in 0 .. INACTIVE
    <3>1. \/ (Return \/ UNCHANGED locals)
          \/ /\ in' = rx_in /\ out' = rx_out /\ n' \in 0 .. BUF
             /\ UNCHANGED <<left, buffer, nonblock, seen>>
      BY <1>6, <2>1 DEF ReadSample
    <3> QED BY <3>1, LocalType DEF TypeOK
  <2>3. pc' \in Pcs
    BY <1>6 DEF ReadSample, Return
  <2> QED BY <1>6, <2>2, <2>3 DEF ReadSample, TypeOK, rx, tx, clock
<1>7. CASE ReadCopy
  <2>1. n \in Nat /\ \A k \in 1 .. n : out + k - 1 \in 0 .. BUF - 1
    BY <1>7 DEF ReadCopy, TypeOK, Locals
  <2>2. buffer' \in Seq(Nat)
    <3> DEFINE f == [k \in 1 .. n |-> rx_buf[out + k - 1]]
    <3>1. \A k \in 1 .. n : f[k] \in Nat
      BY <2>1 DEF TypeOK
    <3>2. buffer \o [k \in 1 .. n |-> f[k]] \in Seq(Nat)
      <4> HIDE DEF f
      <4> QED BY <2>1, <3>1, JoinChars DEF TypeOK
    <3> QED BY <1>7, <3>2 DEF ReadCopy
  <2> QED BY <1>7, <2>2 DEF ReadCopy, TypeOK, rx, tx, clock
<1>8. CASE ReadAdvance
  <2>1. out + n \in 0 .. 2 * BUF - 1 /\ left - n \in Nat
    BY <1>8 DEF ReadAdvance, TypeOK, Locals
  <2>2. Wrap(out + n) \in 0 .. BUF - 1
    BY <2>1, WrapRange
  <2>3. rx_out' \in 0 .. BUF - 1 /\ left' \in Nat /\ read' \in Nat
    BY <1>8, <2>1, <2>2 DEF ReadAdvance, TypeOK
  <2> QED BY <1>8, <2>3 DEF ReadAdvance, TypeOK, tx, clock
<1>9. CASE ReadSpin \/ ReadCheck \/ ReadArm \/ CloseSpin
  <2>1. /\ in' \in 0 .. BUF - 1 /\ out' \in 0 .. BUF - 1 /\ n' \in 0 .. BUF
        /\ left' \in Nat /\ buffer' \in Seq(Nat) /\ nonblock' \in BOOLEAN /\ seen' \in 0 .. INACTIVE
    <3>1. Return \/ UNCHANGED locals
      BY <1>9 DEF ReadSpin, ReadCheck, ReadArm, CloseSpin
    <3> QED BY <3>1, LocalType
  <2>2. pc' \in Pcs /\ irq_enable' \subseteq {"RE", "WE"}
    BY <1>9 DEF ReadSpin, ReadCheck, ReadArm, CloseSpin, Return, TypeOK
  <2> QED BY <1>9, <2>1, <2>2 DEF ReadSpin, ReadCheck, ReadArm, CloseSpin, TypeOK, rx, tx, clock
<1> QED BY <1>1, <1>2, <1>3, <1>4, <1>5, <1>6, <1>7, <1>8, <1>9 DEF Steps

-----------------------------------------------------------------------------
(* What the two sides know of each other. *)

\* The control register read by the interrupt routine stays a lower bound.
LEMMA LatchedStep == Inv /\ [Next]_vars => Latched'
<1> SUFFICES ASSUME Inv, [Next]_vars PROVE Latched'
  OBVIOUS
<1> USE UartAssumption
<1>1. TypeOK /\ Latched
  BY DEF Inv
<1>2. CASE HostTake
  <2>1. txfifo # <<>> /\ txfifo' = Tail(txfifo) /\ txfifo \in Seq(Nat) /\ space \in Nat
        /\ UNCHANGED <<space, isr, data, rx_in, rx_out>>
    BY <1>1, <1>2 DEF HostTake, Host, TypeOK
  <2>2. Len(txfifo') = Len(txfifo) - 1 /\ Len(txfifo) \in Nat
    BY <2>1, PopChar
  <2> QED BY <1>1, <2>1, <2>2 DEF Latched
<1>3. CASE IsrControl
  <2>1. space' \in {0, HWFIFO - Len(txfifo)} /\ txfifo' = txfifo /\ isr' # "rxend"
        /\ Len(txfifo) \in Nat /\ Len(txfifo) <= HWFIFO
    BY <1>1, <1>3 DEF IsrControl, TypeOK, tx
  <2> QED BY <2>1 DEF Latched
<1>4. CASE IsrRead
  <2>1. UNCHANGED <<space, txfifo>>
    BY <1>4 DEF IsrRead, tx
  <2>2. isr' = "rxend" /\ data' => Wrap(rx_in' + 1) = rx_out'
    BY <1>4 DEF IsrRead, rx
  <2> QED BY <1>1, <2>1, <2>2 DEF Latched
<1>5. CASE IsrReadEnd
  BY <1>1, <1>5 DEF IsrReadEnd, Latched, rx, tx
<1>6. CASE IsrWrite
  <2>1. txfifo' = Append(txfifo, tx_buf[tx_out]) /\ txfifo \in Seq(Nat) /\ tx_buf[tx_out] \in Nat
        /\ space' = space - 1 /\ isr' # "rxend" /\ space \in Nat
    BY <1>1, <1>6 DEF IsrWrite, TypeOK
  <2>2. Len(txfifo') = Len(txfifo) + 1 /\ Len(txfifo) \in Nat
    BY <2>1, PushChar
  <2> QED BY <1>1, <2>1, <2>2 DEF Latched
<1>7. CASE IsrWriteEnd
  BY <1>1, <1>7 DEF IsrWriteEnd, Latched, rx, tx
<1>8. CASE isr' = "off" /\ UNCHANGED <<space, txfifo>>
  BY <1>1, <1>8 DEF Latched
<1>9. CASE UNCHANGED <<space, txfifo, isr, data, rx_in, rx_out>>
  BY <1>1, <1>9 DEF Latched
<1>10. \/ HostTake \/ Isr
       \/ isr' = "off" /\ UNCHANGED <<space, txfifo>>
       \/ UNCHANGED <<space, txfifo, isr, data, rx_in, rx_out>>
  <2>1. CASE Steps
    BY <2>1 DEF Steps, WriteSample, WriteCopy, WriteAdvance, WriteArm, WriteSpin, WriteCheck,
                ReadSample, ReadCopy, ReadAdvance, ReadSpin, ReadCheck, ReadArm, CloseSpin,
                At, MainKeeps, tx
  <2>2. CASE WriteCall \/ ReadCall \/ CloseCall
    BY <2>2 DEF WriteCall, ReadCall, CloseCall, Call, MainKeeps, rx, tx
  <2>3. CASE HostType \/ HostPoll \/ Plug \/ Tick \/ UNCHANGED vars
    BY <2>3 DEF HostType, HostPoll, Host, Plug, Tick, vars, rx, tx
  <2> QED BY <2>1, <2>2, <2>3 DEF Next
<1> QED BY <1>2, <1>3, <1>4, <1>5, <1>6, <1>7, <1>8, <1>9, <1>10 DEF Isr

\* The alarm's time, the rollover flag and the counter keep giving the ticks left;
\* the callback runs exactly when one is left.
LEMMA AlarmStep ==
  TypeOK /\ AlarmTime /\ [Next]_vars =>
    AlarmTime' /\ (nticks' # nticks => (due = 1 <=> alarm'.time # alarm.time))
<1> SUFFICES ASSUME TypeOK, AlarmTime, [Next]_vars
             PROVE  AlarmTime' /\ (nticks' # nticks => (due = 1 <=> alarm'.time # alarm.time))
  OBVIOUS
<1> USE UartAssumption
<1>1. CASE Tick
  <2> DEFINE waits == alarm.rollover /\ nticks' # 0
             fires == alarm.time <= nticks' /\ ~waits
             t == (alarm.time + TPS) % NTICKS
  <2>1. /\ nticks + 1 \in 0 .. 2 * NTICKS - 1 /\ alarm.time + TPS \in 0 .. 2 * NTICKS - 1
        /\ alarm.time \in 0 .. NTICKS - 1 /\ nticks \in 0 .. NTICKS - 1 /\ alarm.rollover \in BOOLEAN
    BY DEF TypeOK
  <2>2. nticks' = IF nticks + 1 < NTICKS THEN nticks + 1 ELSE nticks + 1 - NTICKS
    BY <1>1, <2>1, TickIs DEF Tick
  <2>3. t = IF alarm.time + TPS < NTICKS THEN alarm.time + TPS ELSE alarm.time + TPS - NTICKS
    <3>1. PICK x \in 0 .. 2 * NTICKS - 1 : x = alarm.time + TPS
      BY <2>1
    <3>2. x % NTICKS = IF x < NTICKS THEN x ELSE x - NTICKS
      BY TickIs
    <3> QED BY <3>1, <3>2, <2>1
  <2>4. fires <=> due = 1
    BY <2>1, <2>2 DEF AlarmTime
  <2>5. CASE fires
    <3>1. alarm' = Alarm(t, nticks') /\ due' = TPS
      BY <1>1, <2>5 DEF Tick
    <3>2. t \in 0 .. NTICKS - 1 /\ nticks' \in Int
      BY <2>1, <2>2, <2>3
    <3>3. alarm'.time = t /\ (alarm'.rollover <=> t < nticks')
      BY <3>1, <3>2, AlarmIs
    <3>4. alarm.time = nticks' /\ due = 1
      BY <2>1, <2>2, <2>4, <2>5 DEF AlarmTime
    <3>5. t # alarm.time
      BY <2>1, <2>3
    <3>6. AlarmTime'
      <4>1. CASE t < nticks'
        BY <4>1, <2>1, <2>2, <2>3, <3>1, <3>3, <3>4 DEF AlarmTime
      <4>2. CASE ~(t < nticks')
        BY <4>2, <2>1, <2>2, <2>3, <3>1, <3>3, <3>4 DEF AlarmTime
      <4> QED BY <4>1, <4>2
    <3> QED BY <3>3, <3>4, <3>5, <3>6
  <2>6. CASE ~fires
    <3>1. alarm' = [alarm EXCEPT !.rollover = waits] /\ due' = due - 1
      BY <1>1, <2>6 DEF Tick
    <3>2. alarm'.time = alarm.time /\ (alarm'.rollover <=> waits)
      <4>1. alarm = [time |-> alarm.time, rollover |-> alarm.rollover]
        BY DEF TypeOK
      <4>2. alarm' = [time |-> alarm.time, rollover |-> waits]
        <5> HIDE DEF waits
        <5> QED BY <3>1, <4>1, Zenon
      <4> QED BY <4>2, Zenon
    <3>3. AlarmTime'
      <4>1. CASE waits
        BY <4>1, <2>1, <2>2, <2>4, <2>6, <3>1, <3>2 DEF AlarmTime
      <4>2. CASE ~waits
        BY <4>2, <2>1, <2>2, <2>4, <2>6, <3>1, <3>2 DEF AlarmTime
      <4> QED BY <4>1, <4>2
    <3> QED BY <2>4, <2>6, <3>2, <3>3
  <2> QED BY <2>5, <2>6
<1>2. CASE UNCHANGED clock
  BY <1>2 DEF AlarmTime, clock
<1>3. Tick \/ UNCHANGED clock
  <2>1. CASE Steps
    BY <2>1 DEF Steps, WriteSample, WriteCopy, WriteAdvance, WriteArm, WriteSpin, WriteCheck,
                ReadSample, ReadCopy, ReadAdvance, ReadSpin, ReadCheck, ReadArm, CloseSpin,
                At, MainKeeps
  <2>2. CASE WriteCall \/ ReadCall \/ CloseCall
    BY <2>2 DEF WriteCall, ReadCall, CloseCall, Call, MainKeeps
  <2>3. CASE HostTake \/ HostType \/ HostPoll \/ Plug \/ UNCHANGED vars
    BY <2>3 DEF HostTake, HostType, HostPoll, Host, Plug, vars
  <2>4. CASE Isr
    BY <2>4 DEF Isr, IsrControl, IsrRead, IsrReadEnd, IsrWrite, IsrWriteEnd, IsrKeeps
  <2> QED BY <2>1, <2>2, <2>3, <2>4 DEF Next
<1> QED BY <1>1, <1>2, <1>3

\* Everything but a read or write of the program leaves its locals alone, and the
\* interrupt routine only gives the program more room and more to read.
LEMMA LocalsDevice ==
  ASSUME TypeOK, Locals,
         UNCHANGED <<pc, locals, written, rx_out, tx_in, tx_buf>>,
         tx_in' = tx_in => Fill(tx_in', tx_out') <= Fill(tx_in, tx_out),
         rx_out' = rx_out => Fill(rx_in', rx_out') >= Fill(rx_in, rx_out),
         Fill(tx_in', tx_out') \in Int, Fill(rx_in', rx_out') \in Int
  PROVE  Locals'
<1>1. Fill(tx_in, tx_out) \in Int /\ Fill(rx_in, rx_out) \in Int
  BY UartAssumption DEF Fill, TypeOK
<1>2. UNCHANGED <<pc, in, out, n, left, buffer, written, rx_out, tx_in, tx_buf>>
  BY DEF locals
<1>3. n \in Int
  BY DEF TypeOK
<1>4. pc \in {"wcopy", "wadvance"} => n + Fill(tx_in', tx_out') < BUF
  BY <1>1, <1>2, <1>3, UartAssumption DEF Locals
<1>5. pc \in {"rcopy", "radvance"} => n <= Fill(rx_in', rx_out')
  BY <1>1, <1>2, <1>3 DEF Locals
<1> QED BY <1>2, <1>4, <1>5 DEF Locals

LEMMA LocalsStep == Inv /\ [Next]_vars => Locals'
<1> SUFFICES ASSUME Inv, [Next]_vars PROVE Locals'
  OBVIOUS
<1> USE UartAssumption
<1>1. TypeOK /\ Locals
  BY DEF Inv
<1>2. CASE UNCHANGED <<pc, locals, written, rx_in, rx_out, tx_in, tx_out, tx_buf>>
  BY <1>1, <1>2 DEF Locals, locals
<1>3. CASE IsrRead
  <2>1. UNCHANGED <<pc, locals, written, rx_out, tx_in, tx_buf, tx_out>>
    BY <1>3 DEF IsrRead, IsrKeeps, rx, tx
  <2>2. /\ rx_in + 1 \in 0 .. 2 * BUF - 1 /\ rx_in \in 0 .. BUF - 1 /\ rx_out \in 0 .. BUF - 1
        /\ tx_in \in 0 .. BUF - 1 /\ tx_out \in 0 .. BUF - 1
    BY <1>1 DEF TypeOK
  <2>3. Wrap(rx_in + 1) = IF rx_in + 1 < BUF THEN rx_in + 1 ELSE rx_in + 1 - BUF
    BY <2>2, WrapIs
  <2>4. rx_in' = rx_in \/ (Wrap(rx_in + 1) # rx_out /\ rx_in' = Wrap(rx_in + 1))
    BY <1>3 DEF IsrRead, rx
  <2>5. Fill(rx_in', rx_out') \in Int /\ Fill(rx_in', rx_out') >= Fill(rx_in, rx_out)
    BY <2>1, <2>2, <2>3, <2>4 DEF Fill
  <2>6. Fill(tx_in', tx_out') \in Int /\ Fill(tx_in', tx_out') <= Fill(tx_in, tx_out)
    BY <2>1, <2>2 DEF Fill
  <2> QED BY <1>1, <2>1, <2>5, <2>6, LocalsDevice
<1>4. CASE IsrWrite
  <2>1. UNCHANGED <<pc, locals, written, rx_in, rx_out, tx_in, tx_buf>>
    BY <1>4 DEF IsrWrite, IsrKeeps, rx
  <2>2. /\ tx_out + 1 \in 0 .. 2 * BUF - 1 /\ rx_in \in 0 .. BUF - 1 /\ rx_out \in 0 .. BUF - 1
        /\ tx_in \in 0 .. BUF - 1 /\ tx_out \in 0 .. BUF - 1
    BY <1>1 DEF TypeOK
  <2>3. Wrap(tx_out + 1) = IF tx_out + 1 < BUF THEN tx_out + 1 ELSE tx_out + 1 - BUF
    BY <2>2, WrapIs
  <2>4. tx_out # tx_in /\ tx_out' = Wrap(tx_out + 1)
    BY <1>4 DEF IsrWrite
  <2>5. Fill(tx_in', tx_out') \in Int /\ Fill(tx_in', tx_out') <= Fill(tx_in, tx_out)
    BY <2>1, <2>2, <2>3, <2>4 DEF Fill
  <2>6. Fill(rx_in', rx_out') \in Int /\ Fill(rx_in', rx_out') >= Fill(rx_in, rx_out)
    BY <2>1, <2>2 DEF Fill
  <2> QED BY <1>1, <2>1, <2>5, <2>6, LocalsDevice
<1>5. CASE WriteSample
  <2> DEFINE room == AtMost(Room(tx_in, tx_out), left)
  <2>1. /\ tx_in \in 0 .. BUF - 1 /\ tx_out \in 0 .. BUF - 1 /\ left \in Nat
    BY <1>1 DEF TypeOK
  <2>2. room >= 0 /\ room <= left /\ tx_in + room <= BUF /\ room + Fill(tx_in, tx_out) < BUF
    BY <2>1 DEF AtMost, Room, Fill
  <2>3. room \in Int
    BY <2>1 DEF AtMost, Room
  <2>4. /\ in' = tx_in /\ n' = room /\ pc' = IF room = 0 THEN "warm" ELSE "wcopy"
        /\ UNCHANGED <<tx_in, tx_out, left, buffer>> /\ pc = "wsample"
    BY <1>5 DEF WriteSample, At, tx
  <2>5. buffer = <<>>
    BY <1>1, <2>4 DEF Locals
  <2> HIDE DEF room
  <2> QED BY <2>2, <2>3, <2>4, <2>5 DEF Locals
<1>6. CASE WriteCopy
  <2>1. /\ pc = "wcopy" /\ pc' = "wadvance" /\ UNCHANGED <<in, n, left, buffer, tx_in, tx_out, written>>
        /\ tx_buf' = [i \in 0 .. BUF - 1 |->
                  IF i \in in .. in + n - 1 THEN written + 1 + i - in ELSE tx_buf[i]]
    BY <1>6 DEF WriteCopy, At, locals
  <2>2. in \in Nat /\ n \in Nat /\ written \in Nat /\ in + n <= BUF
    BY <1>1, <2>1 DEF TypeOK, Locals
  <2>3. \A i \in 0 .. n - 1 : tx_buf'[in + i] = written + 1 + i
    BY <2>1, <2>2
  <2> QED BY <1>1, <2>1, <2>3 DEF Locals
<1>7. CASE ReadSample
  <2> DEFINE ready == AtMost(Ready(rx_in, rx_out), left)
  <2>1. /\ rx_in \in 0 .. BUF - 1 /\ rx_out \in 0 .. BUF - 1 /\ left \in Nat
    BY <1>1 DEF TypeOK
  <2>2. ready \in Int /\ ready <= left /\ rx_out + ready <= BUF /\ ready <= Fill(rx_in, rx_out)
    BY <2>1 DEF AtMost, Ready, Fill
  <2>3. UNCHANGED <<rx_in, rx_out>>
    BY <1>7 DEF ReadSample, rx
  <2>4. CASE ready > 0
    <3>1. pc' = "rcopy" /\ out' = rx_out /\ n' = ready /\ UNCHANGED <<left, buffer>>
      BY <1>7, <2>4 DEF ReadSample
    <3> HIDE DEF ready
    <3> QED BY <2>2, <2>3, <2>4, <3>1 DEF Locals
  <2>5. CASE ~(ready > 0)
    <3>1. \/ pc' = "rarm"
          \/ Return
          \/ pc' = "rspin" /\ buffer = <<>> /\ buffer' = buffer
      BY <1>7, <2>5 DEF ReadSample
    <3> QED BY <3>1 DEF Locals, Return
  <2> QED BY <2>4, <2>5
<1>8. CASE ReadCopy
  <2> DEFINE f == [k \in 1 .. n |-> rx_buf[out + k - 1]]
  <2>1. /\ pc = "rcopy" /\ pc' = "radvance" /\ UNCHANGED <<out, n, left, rx_in, rx_out>>
        /\ buffer' = buffer \o [k \in 1 .. n |-> rx_buf[out + k - 1]]
    BY <1>8 DEF ReadCopy, At, rx
  <2>2. n \in Nat /\ buffer \in Seq(Nat) /\ \A k \in 1 .. n : f[k] \in Nat
    <3>1. n \in Nat /\ \A k \in 1 .. n : out + k - 1 \in 0 .. BUF - 1
      BY <1>1, <2>1 DEF TypeOK, Locals
    <3> QED BY <1>1, <3>1 DEF TypeOK
  <2>3. Len(buffer \o [k \in 1 .. n |-> f[k]]) = Len(buffer) + n /\ Len(buffer) \in Nat
    <3> HIDE DEF f
    <3> QED BY <2>2, JoinChars
  <2>4. Len(buffer') >= n
    BY <2>1, <2>2, <2>3
  <2> HIDE DEF f
  <2> QED BY <1>1, <2>1, <2>4 DEF Locals
<1>9. CASE pc' = "idle" /\ buffer' = <<>>
  BY <1>1, <1>9 DEF Locals
<1>10. CASE pc \notin {"rsample", "rcopy", "radvance", "rarm"} /\ buffer' = buffer
            /\ pc' \in {"wsample", "rsample", "close", "wspin", "wcheck", "rcheck"}
  BY <1>1, <1>10 DEF Locals
<1>11. CASE WriteAdvance \/ ReadAdvance
  BY <1>1, <1>11 DEF WriteAdvance, ReadAdvance, At, Locals
<1>12. \/ UNCHANGED <<pc, locals, written, rx_in, rx_out, tx_in, tx_out, tx_buf>>
       \/ IsrRead \/ IsrWrite \/ WriteSample \/ WriteCopy \/ ReadSample \/ ReadCopy
       \/ pc' = "idle" /\ buffer' = <<>>
       \/ pc \notin {"rsample", "rcopy", "radvance", "rarm"} /\ buffer' = buffer
            /\ pc' \in {"wsample", "rsample", "close", "wspin", "wcheck", "rcheck"}
       \/ WriteAdvance \/ ReadAdvance
  <2>1. CASE WriteArm \/ WriteSpin \/ WriteCheck \/ ReadSpin \/ ReadCheck \/ ReadArm \/ CloseSpin
    BY <2>1 DEF WriteArm, WriteSpin, WriteCheck, ReadSpin, ReadCheck, ReadArm, CloseSpin,
                Return, Wait, At, locals
  <2>2. CASE WriteCall \/ ReadCall \/ CloseCall
    BY <2>2 DEF WriteCall, ReadCall, CloseCall, Call
  <2>3. CASE HostTake \/ HostType \/ HostPoll \/ Plug \/ Tick \/ UNCHANGED vars
    BY <2>3 DEF HostTake, HostType, HostPoll, Host, Plug, Tick, vars, rx, tx
  <2>4. CASE IsrControl \/ IsrReadEnd \/ IsrWriteEnd
    BY <2>4 DEF IsrControl, IsrReadEnd, IsrWriteEnd, IsrKeeps, rx, tx
  <2> QED BY <2>1, <2>2, <2>3, <2>4 DEF Next, Steps, Isr
<1> QED BY <1>2, <1>3, <1>4, <1>5, <1>6, <1>7, <1>8, <1>9, <1>10, <1>11, <1>12

-----------------------------------------------------------------------------
(* The characters. *)

\* Positions of the ring, counted from its oldest character.
LEMMA RingIndex ==
  ASSUME NEW i \in 0 .. BUF - 1, NEW o \in 0 .. BUF - 1
  PROVE  /\ Fill(i, o) \in 0 .. BUF - 1 /\ (Fill(i, o) = 0 <=> i = o)
         /\ Wrap(o) = o /\ Wrap(o + Fill(i, o)) = i
         /\ \A k \in 0 .. BUF - 1 : Wrap(o + k) = IF o + k < BUF THEN o + k ELSE o + k - BUF
<1> USE UartAssumption
<1>1. \A k \in 0 .. BUF - 1 : o + k \in 0 .. 2 * BUF - 1
  OBVIOUS
<1>2. \A k \in 0 .. BUF - 1 : Wrap(o + k) = IF o + k < BUF THEN o + k ELSE o + k - BUF
  BY <1>1, WrapIs
<1>3. Fill(i, o) \in 0 .. BUF - 1 /\ (Fill(i, o) = 0 <=> i = o)
  BY DEF Fill
<1>4. Wrap(o + 0) = o
  BY <1>2
<1>5. Wrap(o + Fill(i, o)) = i
  BY <1>2, <1>3 DEF Fill
<1> QED BY <1>2, <1>3, <1>4, <1>5

\* Moving an end of the ring by m characters.
LEMMA RingMoves ==
  ASSUME NEW i \in 0 .. BUF - 1, NEW o \in 0 .. BUF - 1, NEW m \in 0 .. BUF - 1
  PROVE  /\ m <= Fill(i, o) =>
              /\ Wrap(o + m) \in 0 .. BUF - 1
              /\ Fill(i, Wrap(o + m)) = Fill(i, o) - m
              /\ \A k \in 0 .. BUF - 1 - m : Wrap(Wrap(o + m) + k) = Wrap(o + m + k)
         /\ m + Fill(i, o) < BUF =>
              /\ Wrap(i + m) \in 0 .. BUF - 1
              /\ Fill(Wrap(i + m), o) = Fill(i, o) + m
<1> USE UartAssumption
<1>1. \A x \in 0 .. BUF - 1, k \in 0 .. BUF - 1 :
        Wrap(x + k) = IF x + k < BUF THEN x + k ELSE x + k - BUF
  BY RingIndex
<1>2. ASSUME m <= Fill(i, o)
      PROVE  /\ Wrap(o + m) \in 0 .. BUF - 1
             /\ Fill(i, Wrap(o + m)) = Fill(i, o) - m
  BY <1>1, <1>2 DEF Fill
<1>3. ASSUME Wrap(o + m) \in 0 .. BUF - 1, NEW k \in 0 .. BUF - 1 - m
      PROVE  Wrap(Wrap(o + m) + k) = Wrap(o + m + k)
  <2>1. m + k \in 0 .. BUF - 1 /\ k \in 0 .. BUF - 1
    BY <1>3
  <2>2. Wrap(o + (m + k)) = IF o + (m + k) < BUF THEN o + (m + k) ELSE o + (m + k) - BUF
    BY <1>1, <2>1
  <2>3. Wrap(o + m) = IF o + m < BUF THEN o + m ELSE o + m - BUF
    BY <1>1
  <2>4. Wrap(Wrap(o + m) + k) = IF Wrap(o + m) + k < BUF THEN Wrap(o + m) + k
                                ELSE Wrap(o + m) + k - BUF
    BY <1>1, <1>3, <2>1
  <2>5. o + (m + k) = o + m + k
    BY <2>1
  <2> QED BY <1>3, <2>1, <2>2, <2>3, <2>4, <2>5
<1>4. ASSUME m + Fill(i, o) < BUF
      PROVE  /\ Wrap(i + m) \in 0 .. BUF - 1
             /\ Fill(Wrap(i + m), o) = Fill(i, o) + m
  BY <1>1, <1>4 DEF Fill
<1> QED BY <1>2, <1>3, <1>4

\* No step loses, repeats or overwrites a character on its way to the host.
LEMMA TxStep == Inv /\ [Next]_vars => TxInOrder'
<1> SUFFICES ASSUME Inv, [Next]_vars PROVE TxInOrder'
  OBVIOUS
<1> USE UartAssumption
<1> DEFINE F == Fill(tx_in, tx_out)
           S == taken + Len(txfifo)
<1>1. TypeOK /\ Locals /\ TxInOrder
  BY DEF Inv
<1>2. /\ tx_in \in 0 .. BUF - 1 /\ tx_out \in 0 .. BUF - 1 /\ txfifo \in Seq(Nat) /\ taken \in Nat
      /\ written \in Nat /\ tx_buf \in [0 .. BUF - 1 -> Nat] /\ Len(txfifo) \in Nat /\ n \in Nat
      /\ in \in Nat
  BY <1>1 DEF TypeOK
<1>3. /\ F \in 0 .. BUF - 1 /\ (F = 0 <=> tx_in = tx_out)
      /\ Wrap(tx_out) = tx_out /\ Wrap(tx_out + F) = tx_in
      /\ \A k \in 0 .. BUF - 1 : Wrap(tx_out + k) =
           IF tx_out + k < BUF THEN tx_out + k ELSE tx_out + k - BUF
  BY <1>2, RingIndex
<1>4. /\ written = S + F
      /\ \A k \in 1 .. Len(txfifo) : txfifo[k] = taken + k
      /\ \A k \in 0 .. F - 1 : tx_buf[Wrap(tx_out + k)] = S + k + 1
  BY <1>1 DEF TxInOrder
<1>5. CASE HostTake
  <2>1. /\ txfifo # <<>> /\ taken' = Head(txfifo) /\ txfifo' = Tail(txfifo)
        /\ UNCHANGED <<tx_in, tx_out, tx_buf, written>>
    BY <1>5 DEF HostTake, Host
  <2>2. /\ Len(txfifo) > 0 /\ taken' = txfifo[1] /\ Len(txfifo') = Len(txfifo) - 1
        /\ \A i \in 1 .. Len(txfifo) - 1 : txfifo'[i] = txfifo[i + 1]
    BY <1>2, <2>1, PopChar
  <2>3. taken' = taken + 1
    BY <1>2, <1>4, <2>2
  <2>4. taken' + Len(txfifo') = S
    BY <1>2, <2>2, <2>3
  <2>5. \A k \in 1 .. Len(txfifo') : txfifo'[k] = taken' + k
    <3> SUFFICES ASSUME NEW k \in 1 .. Len(txfifo') PROVE txfifo'[k] = taken' + k
      OBVIOUS
    <3>1. k \in 1 .. Len(txfifo) - 1 /\ k + 1 \in 1 .. Len(txfifo)
      BY <1>2, <2>2
    <3>2. txfifo'[k] = txfifo[k + 1] /\ txfifo[k + 1] = taken + (k + 1)
      BY <1>4, <2>2, <3>1
    <3> QED BY <1>2, <2>3, <3>1, <3>2
  <2> QED BY <1>4, <2>1, <2>4, <2>5 DEF TxInOrder
<1>6. CASE IsrWrite
  <2>1. /\ tx_out # tx_in /\ txfifo' = Append(txfifo, tx_buf[tx_out])
        /\ tx_out' = Wrap(tx_out + 1)
        /\ UNCHANGED <<tx_in, tx_buf, written, taken>>
    BY <1>6 DEF IsrWrite, IsrKeeps
  <2>2. F >= 1 /\ tx_buf[tx_out] = S + 1 /\ tx_buf[tx_out] \in Nat
    <3>1. F \in 1 .. BUF - 1 /\ 0 \in 0 .. F - 1
      BY <1>3, <2>1
    <3>2. Wrap(tx_out + 0) = tx_out
      BY <1>2, <1>3
    <3>3. tx_buf[Wrap(tx_out + 0)] = S + 0 + 1 /\ S \in Nat
      BY <1>2, <1>4, <3>1
    <3>4. tx_buf[tx_out] = S + 1
      <4> HIDE DEF S
      <4> QED BY <3>2, <3>3
    <3> QED BY <1>2, <3>1, <3>4
  <2>3. /\ Len(txfifo') = Len(txfifo) + 1 /\ txfifo'[Len(txfifo) + 1] = S + 1
        /\ \A i \in 1 .. Len(txfifo) : txfifo'[i] = txfifo[i]
    BY <1>2, <2>1, <2>2, PushChar
  <2>4. /\ Fill(tx_in', tx_out') = F - 1
        /\ \A k \in 0 .. BUF - 2 : Wrap(tx_out' + k) = Wrap(tx_out + 1 + k)
    <3>1. 1 \in 0 .. BUF - 1 /\ BUF - 1 - 1 = BUF - 2
      OBVIOUS
    <3> QED BY <1>2, <2>1, <2>2, <3>1, RingMoves
  <2>5. taken' + Len(txfifo') = S + 1
    <3>1. taken \in Nat /\ Len(txfifo) \in Nat /\ taken' = taken
      BY <1>2, <2>1
    <3>2. Len(txfifo') = Len(txfifo) + 1
      BY <2>3
    <3> QED BY ONLY <3>1, <3>2 DEF S
  <2>6. \A k \in 1 .. Len(txfifo') : txfifo'[k] = taken' + k
    <3>1. txfifo'[Len(txfifo) + 1] = taken + (Len(txfifo) + 1)
      BY <1>2, <2>3
    <3>2. \A k \in 1 .. Len(txfifo) : txfifo'[k] = taken + k
      BY <1>4, <2>3
    <3>3. taken' = taken /\ \A k \in 1 .. Len(txfifo') : k = Len(txfifo) + 1 \/ k \in 1 .. Len(txfifo)
      <4>1. Len(txfifo) \in Nat /\ taken' = taken
        BY <1>2, <2>1
      <4>2. Len(txfifo') = Len(txfifo) + 1
        BY <2>3
      <4> QED BY ONLY <4>1, <4>2
    <3> QED BY <3>1, <3>2, <3>3
  <2>7. \A k \in 0 .. F - 2 : tx_buf[Wrap(tx_out' + k)] = S + 1 + k + 1
    <3> SUFFICES ASSUME NEW k \in 0 .. F - 2 PROVE tx_buf[Wrap(tx_out' + k)] = S + 1 + k + 1
      OBVIOUS
    <3>1. k + 1 \in 0 .. F - 1 /\ k \in 0 .. BUF - 2 /\ tx_out + 1 + k = tx_out + (k + 1)
      BY <1>2, <1>3
    <3>2. tx_buf[Wrap(tx_out + (k + 1))] = S + (k + 1) + 1
      BY <1>4, <3>1
    <3>3. S \in Nat
      BY <1>2
    <3> HIDE DEF S, F
    <3> QED BY <2>4, <3>1, <3>2, <3>3
  <2>8. written' = S + 1 + (F - 1) /\ F - 1 - 1 = F - 2
    <3>1. S \in Nat /\ F \in Nat /\ written' = S + F
      BY <1>2, <1>3, <1>4, <2>1
    <3> HIDE DEF S, F
    <3> QED BY <3>1
  <2> HIDE DEF S, F
  <2> QED BY <2>1, <2>4, <2>5, <2>6, <2>7, <2>8 DEF TxInOrder
<1>7. CASE WriteCopy
  <2>1. /\ pc = "wcopy" /\ UNCHANGED <<tx_in, tx_out, txfifo, written, taken>>
        /\ tx_buf' = [i \in 0 .. BUF - 1 |->
                  IF i \in in .. in + n - 1 THEN written + 1 + i - in ELSE tx_buf[i]]
    BY <1>7 DEF WriteCopy, At, MainKeeps
  <2>2. in = tx_in /\ n + F < BUF
    BY <1>1, <2>1 DEF Locals
  <2>3. \A k \in 0 .. F - 1 : Wrap(tx_out + k) \in 0 .. BUF - 1 /\ Wrap(tx_out + k) \notin in .. in + n - 1
    <3> SUFFICES ASSUME NEW k \in 0 .. F - 1
                 PROVE Wrap(tx_out + k) \in 0 .. BUF - 1 /\ Wrap(tx_out + k) \notin in .. in + n - 1
      OBVIOUS
    <3>1. k \in 0 .. BUF - 1
      BY <1>3
    <3>2. Wrap(tx_out + k) = IF tx_out + k < BUF THEN tx_out + k ELSE tx_out + k - BUF
      BY <1>3, <3>1
    <3> QED BY <1>2, <2>2, <3>1, <3>2 DEF Fill
  <2>4. \A k \in 0 .. F - 1 : tx_buf'[Wrap(tx_out + k)] = tx_buf[Wrap(tx_out + k)]
    BY <2>1, <2>3
  <2> QED BY <1>4, <2>1, <2>4 DEF TxInOrder
<1>8. CASE WriteAdvance
  <2>1. /\ pc = "wadvance" /\ UNCHANGED <<tx_buf, tx_out, txfifo, taken>>
        /\ tx_in' = Wrap(in + n) /\ written' = written + n
    BY <1>8 DEF WriteAdvance, At, MainKeeps
  <2>2. /\ in = tx_in /\ n + F < BUF /\ in + n <= BUF
        /\ \A i \in 0 .. n - 1 : tx_buf[in + i] = written + 1 + i
    BY <1>1, <2>1 DEF Locals
  <2>3. Fill(tx_in', tx_out') = F + n
    <3>1. n \in 0 .. BUF - 1
      BY <1>2, <1>3, <2>2
    <3> QED BY <1>2, <2>1, <2>2, <3>1, RingMoves
  <2>4. \A k \in 0 .. F + n - 1 : tx_buf[Wrap(tx_out + k)] = S + k + 1
    <3> SUFFICES ASSUME NEW k \in 0 .. F + n - 1, ~(k < F)
                 PROVE tx_buf[Wrap(tx_out + k)] = S + k + 1
      BY <1>3, <1>4
    <3>1. k \in 0 .. BUF - 1 /\ k - F \in 0 .. n - 1
      <4>1. F \in Nat
        BY <1>3
      <4> HIDE DEF F
      <4> QED BY <1>2, <2>2, <4>1
    <3>2. Wrap(tx_out + k) = IF tx_out + k < BUF THEN tx_out + k ELSE tx_out + k - BUF
      BY <1>3, <3>1
    <3>3. Wrap(tx_out + k) = in + (k - F)
      <4>1. F = IF tx_in >= tx_out THEN tx_in - tx_out ELSE tx_in - tx_out + BUF
        BY DEF Fill
      <4>2. F \in Nat
        BY <1>3
      <4>3. k \in Nat /\ tx_in + (k - F) < BUF
        <5> HIDE DEF F
        <5> QED BY <1>2, <2>2, <3>1, <4>2
      <4> HIDE DEF F
      <4>4. CASE tx_in >= tx_out
        BY <1>2, <2>2, <3>2, <4>1, <4>2, <4>3, <4>4
      <4>5. CASE ~(tx_in >= tx_out)
        BY <1>2, <2>2, <3>1, <3>2, <4>1, <4>2, <4>3, <4>5
      <4> QED BY <4>4, <4>5
    <3>4. tx_buf[in + (k - F)] = written + 1 + (k - F)
      BY <2>2, <3>1
    <3>5. S \in Nat /\ F \in Nat
      BY <1>2, <1>3
    <3> HIDE DEF S, F
    <3> QED BY <1>4, <3>1, <3>3, <3>4, <3>5
  <2>5. written' = S + (F + n)
    <3>1. S \in Nat /\ F \in Nat /\ written' = S + F + n
      BY <1>2, <1>3, <1>4, <2>1
    <3> HIDE DEF S, F
    <3> QED BY <1>2, <3>1
  <2>6. taken' + Len(txfifo') = S /\ \A k \in 1 .. Len(txfifo') : txfifo'[k] = taken' + k
    BY <1>4, <2>1
  <2>7. \A k \in 0 .. Fill(tx_in', tx_out') - 1 : tx_buf'[Wrap(tx_out' + k)] = S + k + 1
    <3> HIDE DEF S, F
    <3>1. tx_buf' = tx_buf /\ tx_out' = tx_out
      BY <2>1
    <3>2. 0 .. Fill(tx_in', tx_out') - 1 = 0 .. F + n - 1
      BY <1>2, <1>3, <2>3
    <3> QED BY <2>4, <3>1, <3>2, Zenon
  <2>8. written' = S + Fill(tx_in', tx_out')
    BY <2>3, <2>5
  <2> HIDE DEF S, F
  <2> QED BY <2>6, <2>7, <2>8 DEF TxInOrder
<1>9. CASE UNCHANGED <<tx, written, taken>>
  BY <1>1, <1>9 DEF TxInOrder, tx
<1>10. HostTake \/ IsrWrite \/ WriteCopy \/ WriteAdvance \/ UNCHANGED <<tx, written, taken>>
  <2>1. CASE Steps
    BY <2>1 DEF Steps, WriteSample, WriteArm, WriteSpin, WriteCheck,
                ReadSample, ReadCopy, ReadAdvance, ReadSpin, ReadCheck, ReadArm, CloseSpin,
                At, MainKeeps
  <2>2. CASE WriteCall \/ ReadCall \/ CloseCall
    BY <2>2 DEF WriteCall, ReadCall, CloseCall, Call, MainKeeps
  <2>3. CASE HostType \/ HostPoll \/ Plug \/ Tick \/ UNCHANGED vars
    BY <2>3 DEF HostType, HostPoll, Host, Plug, Tick, vars, tx
  <2>4. CASE Isr
    BY <2>4 DEF Isr, IsrControl, IsrRead, IsrReadEnd, IsrWriteEnd, IsrKeeps
  <2> QED BY <2>1, <2>2, <2>3, <2>4 DEF Next
<1> QED BY <1>5, <1>6, <1>7, <1>8, <1>9, <1>10

\* The characters typed, in two parts: the ring with the hardware FIFO, and the
\* buffer of the read in progress.
RxRing ==
  LET stored == read + Fill(rx_in, rx_out)
  IN  /\ typed = stored + Len(rxfifo)
      /\ \A k \in 1 .. Len(rxfifo) : rxfifo[k] = stored + k
      /\ \A k \in 0 .. Fill(rx_in, rx_out) - 1 : rx_buf[Wrap(rx_out + k)] = read + k + 1

RxBuffer ==
  LET base == IF pc = "radvance" THEN read + n ELSE read
  IN  \A k \in 1 .. Len(buffer) : buffer[k] = base - Len(buffer) + k

LEMMA RxParts == RxInOrder <=> RxRing /\ RxBuffer
  BY DEF RxInOrder, RxRing, RxBuffer

\* No step loses, repeats or overwrites a character on its way to the program.
LEMMA RxStep == Inv /\ [Next]_vars => RxRing'
<1> SUFFICES ASSUME Inv, [Next]_vars PROVE RxRing'
  OBVIOUS
<1> USE UartAssumption
<1> DEFINE F == Fill(rx_in, rx_out)
           S == read + F
<1>1. TypeOK /\ Locals /\ RxRing
  BY RxParts DEF Inv
<1>2. /\ rx_in \in 0 .. BUF - 1 /\ rx_out \in 0 .. BUF - 1 /\ rxfifo \in Seq(Nat) /\ typed \in Nat
      /\ read \in Nat /\ rx_buf \in [0 .. BUF - 1 -> Nat] /\ Len(rxfifo) \in Nat /\ n \in Nat
      /\ out \in Nat
  BY <1>1 DEF TypeOK
<1>3. /\ F \in 0 .. BUF - 1 /\ (F = 0 <=> rx_in = rx_out)
      /\ Wrap(rx_out) = rx_out /\ Wrap(rx_out + F) = rx_in
      /\ \A k \in 0 .. BUF - 1 : Wrap(rx_out + k) =
           IF rx_out + k < BUF THEN rx_out + k ELSE rx_out + k - BUF
  BY <1>2, RingIndex
<1>4. /\ typed = S + Len(rxfifo)
      /\ \A k \in 1 .. Len(rxfifo) : rxfifo[k] = S + k
      /\ \A k \in 0 .. F - 1 : rx_buf[Wrap(rx_out + k)] = read + k + 1
  BY <1>1 DEF RxRing
<1>5. S \in Nat /\ F \in Nat
  BY <1>2, <1>3
<1>6. CASE HostType
  <2>1. /\ rxfifo' = Append(rxfifo, typed + 1) /\ typed' = typed + 1
        /\ UNCHANGED <<rx_in, rx_out, rx_buf, read>>
    BY <1>6 DEF HostType, Host
  <2>2. /\ Len(rxfifo') = Len(rxfifo) + 1 /\ rxfifo'[Len(rxfifo) + 1] = typed + 1
        /\ \A k \in 1 .. Len(rxfifo) : rxfifo'[k] = rxfifo[k]
    <3>1. typed + 1 \in Nat
      BY <1>2
    <3> QED BY <1>2, <2>1, <3>1, PushChar
  <2>3. \A k \in 1 .. Len(rxfifo') : rxfifo'[k] = S + k
    <3>1. typed + 1 = S + (Len(rxfifo) + 1)
      <4> HIDE DEF S
      <4> QED BY <1>2, <1>4, <1>5
    <3>2. \A k \in 1 .. Len(rxfifo') : k = Len(rxfifo) + 1 \/ k \in 1 .. Len(rxfifo)
      BY <1>2, <2>2
    <3> HIDE DEF S
    <3> QED BY <1>4, <2>2, <3>1, <3>2
  <2>4. typed' = S + Len(rxfifo')
    <3> HIDE DEF S
    <3> QED BY <1>2, <1>4, <1>5, <2>1, <2>2
  <2> QED BY <1>4, <2>1, <2>3, <2>4 DEF RxRing
<1>7. CASE IsrRead
  <2>1. UNCHANGED <<rx_out, typed, read>>
    BY <1>7 DEF IsrRead, IsrKeeps, rx
  <2>2. CASE UNCHANGED rx
    BY <1>1, <2>1, <2>2 DEF RxRing, rx
  <2>3. CASE /\ Wrap(rx_in + 1) # rx_out /\ rxfifo # <<>>
             /\ rx_buf' = [rx_buf EXCEPT ![rx_in] = Head(rxfifo)]
             /\ rx_in' = Wrap(rx_in + 1) /\ rxfifo' = Tail(rxfifo)
    <3>1. /\ Len(rxfifo) > 0 /\ Head(rxfifo) = rxfifo[1] /\ Len(rxfifo') = Len(rxfifo) - 1
          /\ \A k \in 1 .. Len(rxfifo) - 1 : rxfifo'[k] = rxfifo[k + 1]
      BY <1>2, <2>3, PopChar
    <3>2. rxfifo[1] = S + 1
      BY <1>2, <1>4, <3>1
    <3>3. F + 1 < BUF /\ Fill(rx_in', rx_out') = F + 1
      <4>1. 1 \in 0 .. BUF - 1 /\ rx_in + 1 \in 0 .. 2 * BUF - 1
        BY <1>2
      <4>2. Wrap(rx_in + 1) = IF rx_in + 1 < BUF THEN rx_in + 1 ELSE rx_in + 1 - BUF
        BY <1>2, <4>1, WrapIs
      <4>3. F + 1 < BUF
        BY <1>2, <2>3, <4>2 DEF Fill
      <4>4. 1 + Fill(rx_in, rx_out) < BUF
        BY <1>5, <4>3
      <4>5. Fill(Wrap(rx_in + 1), rx_out) = Fill(rx_in, rx_out) + 1
        BY <1>2, <4>1, <4>4, RingMoves
      <4> QED BY <2>1, <2>3, <4>3, <4>5
    <3>4. \A k \in 0 .. F - 1 : Wrap(rx_out + k) \in 0 .. BUF - 1 /\ Wrap(rx_out + k) # rx_in
      <4> SUFFICES ASSUME NEW k \in 0 .. F - 1
                   PROVE  Wrap(rx_out + k) \in 0 .. BUF - 1 /\ Wrap(rx_out + k) # rx_in
        OBVIOUS
      <4>1. k \in 0 .. BUF - 1
        BY <1>3
      <4>2. Wrap(rx_out + k) = IF rx_out + k < BUF THEN rx_out + k ELSE rx_out + k - BUF
        BY <1>3, <4>1
      <4> QED BY <1>2, <4>1, <4>2 DEF Fill
    <3>5. \A k \in 0 .. F : rx_buf'[Wrap(rx_out + k)] = read + k + 1
      <4>1. \A k \in 0 .. F - 1 : rx_buf'[Wrap(rx_out + k)] = read + k + 1
        BY <1>2, <1>4, <2>3, <3>4
      <4>2. rx_buf'[Wrap(rx_out + F)] = read + F + 1
        BY <1>2, <1>3, <2>3, <3>1, <3>2
      <4>3. \A k \in 0 .. F : k = F \/ k \in 0 .. F - 1
        BY <1>5
      <4> HIDE DEF F
      <4> QED BY <4>1, <4>2, <4>3
    <3>6. \A k \in 1 .. Len(rxfifo') : rxfifo'[k] = S + 1 + k
      <4> SUFFICES ASSUME NEW k \in 1 .. Len(rxfifo') PROVE rxfifo'[k] = S + 1 + k
        OBVIOUS
      <4>1. k \in 1 .. Len(rxfifo) - 1 /\ k + 1 \in 1 .. Len(rxfifo)
        BY <1>2, <3>1
      <4>2. rxfifo'[k] = S + (k + 1)
        BY <1>4, <3>1, <4>1
      <4> HIDE DEF S
      <4> QED BY <1>5, <4>1, <4>2
    <3>7. read' + Fill(rx_in', rx_out') = S + 1 /\ typed' = S + 1 + Len(rxfifo')
      <4>1. read' + Fill(rx_in', rx_out') = S + 1
        BY <1>2, <1>5, <2>1, <3>3
      <4> HIDE DEF S
      <4> QED BY <1>2, <1>4, <1>5, <2>1, <3>1, <4>1
    <3>8. \A k \in 0 .. Fill(rx_in', rx_out') - 1 : rx_buf'[Wrap(rx_out' + k)] = read' + k + 1
      <4>1. 0 .. Fill(rx_in', rx_out') - 1 = 0 .. F
        BY <1>5, <3>3
      <4>2. read' = read /\ rx_out' = rx_out
        BY <2>1
      <4> HIDE DEF F
      <4> QED BY <3>5, <4>1, <4>2, Zenon
    <3> HIDE DEF S, F
    <3> QED BY <3>6, <3>7, <3>8 DEF RxRing
  <2> QED BY <1>7, <2>2, <2>3 DEF IsrRead
<1>8. CASE ReadAdvance
  <2>1. /\ pc = "radvance" /\ UNCHANGED <<rx_buf, rx_in, rxfifo, typed>>
        /\ rx_out' = Wrap(out + n) /\ read' = read + n
    BY <1>8 DEF ReadAdvance, At, MainKeeps
  <2>2. out = rx_out /\ n <= F
    BY <1>1, <2>1 DEF Locals
  <2>3. /\ n \in 0 .. BUF - 1 /\ Fill(rx_in', rx_out') = F - n
        /\ \A k \in 0 .. BUF - 1 - n : Wrap(rx_out' + k) = Wrap(rx_out + n + k)
    <3>1. n \in 0 .. BUF - 1
      BY <1>2, <1>3, <2>2
    <3> QED BY <1>2, <2>1, <2>2, <3>1, RingMoves
  <2>4. \A k \in 0 .. F - n - 1 : rx_buf[Wrap(rx_out' + k)] = read + n + k + 1
    <3> SUFFICES ASSUME NEW k \in 0 .. F - n - 1
                 PROVE  rx_buf[Wrap(rx_out' + k)] = read + n + k + 1
      OBVIOUS
    <3>1. n + k \in 0 .. F - 1 /\ k \in 0 .. BUF - 1 - n /\ rx_out + n + k = rx_out + (n + k)
      <4> HIDE DEF F
      <4> QED BY <1>2, <1>3, <1>5, <2>2, <2>3
    <3>2. rx_buf[Wrap(rx_out + (n + k))] = read + (n + k) + 1
      BY <1>4, <3>1
    <3>3. Wrap(rx_out' + k) = Wrap(rx_out + (n + k))
      BY <2>3, <3>1
    <3> QED BY <1>2, <3>1, <3>2, <3>3
  <2>5. read' + Fill(rx_in', rx_out') = S /\ typed' = S + Len(rxfifo')
    BY <1>2, <1>4, <1>5, <2>1, <2>3
  <2>6. \A k \in 1 .. Len(rxfifo') : rxfifo'[k] = S + k
    BY <1>4, <2>1
  <2>7. \A k \in 0 .. Fill(rx_in', rx_out') - 1 : rx_buf'[Wrap(rx_out' + k)] = read' + k + 1
    <3>1. 0 .. Fill(rx_in', rx_out') - 1 = 0 .. F - n - 1
      BY <1>2, <1>5, <2>3
    <3>2. read' = read + n /\ rx_buf' = rx_buf
      BY <2>1
    <3> HIDE DEF F
    <3> QED BY <2>4, <3>1, <3>2, Zenon
  <2> HIDE DEF S, F
  <2> QED BY <2>5, <2>6, <2>7 DEF RxRing
<1>9. CASE UNCHANGED <<rx, typed, read>>
  BY <1>1, <1>9 DEF RxRing, rx
<1>10. HostType \/ IsrRead \/ ReadAdvance \/ UNCHANGED <<rx, typed, read>>
  <2>1. CASE Steps
    BY <2>1 DEF Steps, WriteSample, WriteCopy, WriteAdvance, WriteArm, WriteSpin, WriteCheck,
                ReadSample, ReadCopy, ReadSpin, ReadCheck, ReadArm, CloseSpin, At, MainKeeps
  <2>2. CASE WriteCall \/ ReadCall \/ CloseCall
    BY <2>2 DEF WriteCall, ReadCall, CloseCall, Call, MainKeeps
  <2>3. CASE HostTake \/ HostPoll \/ Plug \/ Tick \/ UNCHANGED vars
    BY <2>3 DEF HostTake, HostPoll, Host, Plug, Tick, vars, rx
  <2>4. CASE Isr
    BY <2>4 DEF Isr, IsrControl, IsrReadEnd, IsrWrite, IsrWriteEnd, IsrKeeps
  <2> QED BY <2>1, <2>2, <2>3, <2>4 DEF Next
<1> QED BY <1>6, <1>7, <1>8, <1>9, <1>10

\* The caller's buffer is the end of what has been taken from the ring.
LEMMA BufferStep == Inv /\ [Next]_vars => RxBuffer'
<1> SUFFICES ASSUME Inv, [Next]_vars PROVE RxBuffer'
  OBVIOUS
<1> USE UartAssumption
<1>1. TypeOK /\ Locals /\ RxRing /\ RxBuffer
  BY RxParts DEF Inv
<1>2. CASE ReadCopy
  <2> DEFINE f == [k \in 1 .. n |-> rx_buf[out + k - 1]]
  <2>1. /\ pc = "rcopy" /\ pc' = "radvance" /\ UNCHANGED <<n, read>>
        /\ buffer' = buffer \o [k \in 1 .. n |-> rx_buf[out + k - 1]]
    BY <1>2 DEF ReadCopy, At, MainKeeps
  <2>2. /\ out = rx_out /\ out + n <= BUF /\ n <= Fill(rx_in, rx_out) /\ n > 0
    BY <1>1, <2>1 DEF Locals
  <2>3. /\ n \in Nat /\ buffer \in Seq(Nat) /\ read \in Nat /\ rx_out \in 0 .. BUF - 1
        /\ rx_in \in 0 .. BUF - 1 /\ rx_buf \in [0 .. BUF - 1 -> Nat] /\ Len(buffer) \in Nat
    BY <1>1 DEF TypeOK
  <2>4. \A k \in 1 .. n : f[k] = read + k
    <3> SUFFICES ASSUME NEW k \in 1 .. n PROVE rx_buf[out + k - 1] = read + k
      OBVIOUS
    <3>1. k - 1 \in 0 .. BUF - 1 /\ Fill(rx_in, rx_out) \in Nat
      BY <2>2, <2>3, RingIndex
    <3>2. Wrap(rx_out + (k - 1)) = rx_out + (k - 1)
      <4>1. Wrap(rx_out + (k - 1)) = IF rx_out + (k - 1) < BUF THEN rx_out + (k - 1)
                                     ELSE rx_out + (k - 1) - BUF
        <5>1. \A j \in 0 .. BUF - 1 : Wrap(rx_out + j) =
                IF rx_out + j < BUF THEN rx_out + j ELSE rx_out + j - BUF
          BY <2>3, RingIndex
        <5> QED BY <3>1, <5>1
      <4> QED BY <2>2, <2>3, <3>1, <4>1
    <3>3. rx_buf[Wrap(rx_out + (k - 1))] = read + (k - 1) + 1
      <4>1. k - 1 \in 0 .. Fill(rx_in, rx_out) - 1
        BY <2>2, <2>3, <3>1
      <4>2. \A j \in 0 .. Fill(rx_in, rx_out) - 1 : rx_buf[Wrap(rx_out + j)] = read + j + 1
        BY <1>1 DEF RxRing
      <4> QED BY <4>1, <4>2
    <3>4. rx_out + (k - 1) = out + k - 1 /\ read + (k - 1) + 1 = read + k
      BY <2>2, <2>3
    <3> QED BY <3>2, <3>3, <3>4
  <2>5. \A k \in 1 .. n : f[k] \in Nat
    BY <2>3, <2>4
  <2>6. LET b == buffer \o [k \in 1 .. n |-> f[k]]
        IN  /\ Len(b) = Len(buffer) + n
            /\ \A k \in 1 .. Len(buffer) : b[k] = buffer[k]
            /\ \A k \in 1 .. n : b[Len(buffer) + k] = f[k]
    <3> HIDE DEF f
    <3> QED BY <2>3, <2>5, JoinChars
  <2>7. /\ Len(buffer') = Len(buffer) + n
        /\ \A k \in 1 .. Len(buffer) : buffer'[k] = buffer[k]
        /\ \A k \in 1 .. n : buffer'[Len(buffer) + k] = read + k
    BY <2>1, <2>4, <2>6
  <2>8. \A k \in 1 .. Len(buffer) : buffer[k] = read - Len(buffer) + k
    BY <1>1, <2>1 DEF RxBuffer
  <2>9. \A k \in 1 .. Len(buffer') : buffer'[k] = read + n - Len(buffer') + k
    <3> SUFFICES ASSUME NEW k \in 1 .. Len(buffer') PROVE buffer'[k] = read + n - Len(buffer') + k
      OBVIOUS
    <3>1. CASE k \in 1 .. Len(buffer)
      <4>1. buffer'[k] = read - Len(buffer) + k
        BY <2>7, <2>8, <3>1
      <4> QED BY <2>3, <2>7, <3>1, <4>1
    <3>2. CASE k \notin 1 .. Len(buffer)
      <4>1. k - Len(buffer) \in 1 .. n /\ k = Len(buffer) + (k - Len(buffer))
        BY <2>3, <2>7, <3>2
      <4>2. buffer'[k] = read + (k - Len(buffer))
        BY <2>7, <4>1
      <4> QED BY <2>3, <2>7, <4>1, <4>2
    <3> QED BY <3>1, <3>2
  <2>10. \A k \in 1 .. Len(buffer') : buffer'[k] = (read + n)' - Len(buffer') + k
    <3>1. read' = read /\ n' = n
      BY <2>1
    <3> QED BY <2>3, <2>7, <2>9, <3>1
  <2> QED BY <2>1, <2>10 DEF RxBuffer
<1>3. CASE ReadAdvance
  BY <1>1, <1>3 DEF ReadAdvance, At, RxBuffer
<1>4. CASE buffer' = <<>>
  BY <1>4 DEF RxBuffer
<1>5. CASE pc # "radvance" /\ pc' # "radvance" /\ UNCHANGED <<read, buffer>>
  BY <1>1, <1>5 DEF RxBuffer
<1>6. CASE UNCHANGED <<pc, read, buffer, n>>
  BY <1>1, <1>6 DEF RxBuffer
<1>7. \/ ReadCopy \/ ReadAdvance \/ buffer' = <<>>
      \/ pc # "radvance" /\ pc' # "radvance" /\ UNCHANGED <<read, buffer>>
      \/ UNCHANGED <<pc, read, buffer, n>>
  <2>1. CASE Steps
    BY <2>1 DEF Steps, WriteSample, WriteCopy, WriteAdvance, WriteArm, WriteSpin, WriteCheck,
                ReadSample, ReadSpin, ReadCheck, ReadArm, CloseSpin, Return, Wait, At, locals
  <2>2. CASE WriteCall \/ ReadCall \/ CloseCall
    BY <2>2 DEF WriteCall, ReadCall, CloseCall, Call
  <2>3. CASE HostTake \/ HostType \/ HostPoll \/ Plug \/ Tick \/ UNCHANGED vars
    BY <2>3 DEF HostTake, HostType, HostPoll, Host, Plug, Tick, vars, locals
  <2>4. CASE Isr
    BY <2>4 DEF Isr, IsrControl, IsrRead, IsrReadEnd, IsrWrite, IsrWriteEnd, IsrKeeps, locals
  <2> QED BY <2>1, <2>2, <2>3, <2>4 DEF Next
<1> QED BY <1>2, <1>3, <1>4, <1>5, <1>6, <1>7

\* An interrupt that is off has nothing to do.
LEMMA ArmedStep == Inv /\ [Next]_vars => Armed'
<1> SUFFICES ASSUME Inv, [Next]_vars PROVE Armed'
  OBVIOUS
<1> USE UartAssumption
<1> DEFINE Arming == {"wsample", "wcopy", "wadvance", "warm"}
<1>1. TypeOK /\ Locals /\ Latched /\ Armed
  BY DEF Inv
<1>2. "WE" \in irq_enable' \/ tx_in' = tx_out' \/ pc' \in Arming
  <2>1. CASE IsrWriteEnd
    BY <1>1, <2>1 DEF IsrWriteEnd, Armed, IsrKeeps, tx
  <2>2. CASE IsrWrite
    BY <1>1, <2>2 DEF IsrWrite, Armed, IsrKeeps
  <2>3. CASE pc' \in Arming
    BY <2>3
  <2>4. CASE "WE" \in irq_enable'
    BY <2>4
  <2>5. CASE /\ irq_enable \subseteq irq_enable' \cup {"RE"} /\ UNCHANGED <<tx_in, tx_out>>
             /\ (pc \notin Arming \/ pc' = pc)
    BY <1>1, <2>5 DEF Armed
  <2>6. \/ IsrWriteEnd \/ IsrWrite \/ pc' \in Arming \/ "WE" \in irq_enable'
        \/ /\ irq_enable \subseteq irq_enable' \cup {"RE"} /\ UNCHANGED <<tx_in, tx_out>>
           /\ (pc \notin Arming \/ pc' = pc)
    <3>1. CASE Steps
      BY <3>1 DEF Steps, WriteSample, WriteCopy, WriteAdvance, WriteArm, WriteSpin, WriteCheck,
                  ReadSample, ReadCopy, ReadAdvance, ReadSpin, ReadCheck, ReadArm, CloseSpin,
                  Return, Wait, At, locals, tx
    <3>2. CASE WriteCall \/ ReadCall \/ CloseCall
      BY <3>2 DEF WriteCall, ReadCall, CloseCall, Call, tx
    <3>3. CASE HostTake \/ HostType \/ HostPoll \/ Plug \/ Tick \/ UNCHANGED vars
      BY <3>3 DEF HostTake, HostType, HostPoll, Host, Plug, Tick, vars, tx
    <3>4. CASE IsrControl \/ IsrRead \/ IsrReadEnd
      BY <3>4 DEF IsrControl, IsrRead, IsrReadEnd, IsrKeeps, tx
    <3> QED BY <3>1, <3>2, <3>3, <3>4 DEF Next, Isr
  <2> QED BY <2>1, <2>2, <2>3, <2>4, <2>5, <2>6
<1>3. "RE" \in irq_enable' \/ Wrap(rx_in' + 1) = rx_out' \/ buffer' # <<>>
  <2>1. CASE IsrReadEnd
    BY <1>1, <2>1 DEF IsrReadEnd, Latched, Armed, IsrKeeps, locals, rx
  <2>2. CASE IsrRead
    BY <1>1, <2>2 DEF IsrRead, Armed, IsrKeeps, locals, rx
  <2>3. CASE ReadAdvance
    <3>1. buffer' = buffer /\ Len(buffer) >= n /\ n > 0 /\ n \in Nat
      BY <1>1, <2>3 DEF ReadAdvance, At, Locals, TypeOK
    <3>2. buffer' # <<>>
      <4>1. Len(<<>>) = 0
        OBVIOUS
      <4> QED BY <3>1, <4>1
    <3> QED BY <3>2
  <2>4. CASE ReadCopy
    <3>1. pc' = "radvance" /\ n' = n /\ n > 0 /\ n \in Nat
      BY <1>1, <2>4 DEF ReadCopy, At, Locals, TypeOK
    <3>2. Len(buffer') >= n
      BY <3>1, LocalsStep DEF Locals
    <3>3. buffer' # <<>>
      <4>1. Len(<<>>) = 0
        OBVIOUS
      <4> QED BY <3>1, <3>2, <4>1
    <3> QED BY <3>3
  <2>5. CASE "RE" \in irq_enable'
    BY <2>5
  <2>6. CASE /\ irq_enable \subseteq irq_enable' \cup {"WE"} /\ UNCHANGED <<rx_in, rx_out>>
             /\ (buffer = <<>> \/ buffer' = buffer)
    BY <1>1, <2>6 DEF Armed
  <2>7. \/ IsrReadEnd \/ IsrRead \/ ReadAdvance \/ ReadCopy \/ "RE" \in irq_enable'
        \/ /\ irq_enable \subseteq irq_enable' \cup {"WE"} /\ UNCHANGED <<rx_in, rx_out>>
           /\ (buffer = <<>> \/ buffer' = buffer)
    <3>1. CASE WriteSample \/ WriteCopy \/ WriteAdvance \/ WriteArm \/ WriteSpin \/ WriteCheck
               \/ ReadSample \/ ReadSpin \/ ReadCheck \/ ReadArm \/ CloseSpin
      BY <1>1, <3>1 DEF WriteSample, WriteCopy, WriteAdvance, WriteArm, WriteSpin, WriteCheck,
                  ReadSample, ReadSpin, ReadCheck, ReadArm, CloseSpin,
                  Locals, Return, Wait, At, locals, rx
    <3>2. CASE WriteCall \/ ReadCall \/ CloseCall
      BY <3>2 DEF WriteCall, ReadCall, CloseCall, Call, rx
    <3>3. CASE HostTake \/ HostType \/ HostPoll \/ Plug \/ Tick \/ UNCHANGED vars
      BY <3>3 DEF HostTake, HostType, HostPoll, Host, Plug, Tick, vars, locals, rx
    <3>4. CASE IsrControl \/ IsrWrite \/ IsrWriteEnd
      BY <3>4 DEF IsrControl, IsrWrite, IsrWriteEnd, IsrKeeps, locals, rx
    <3> QED BY <3>1, <3>2, <3>3, <3>4 DEF Next, Isr, Steps
  <2> QED BY <2>1, <2>2, <2>3, <2>4, <2>5, <2>6, <2>7
<1> QED BY <1>2, <1>3 DEF Armed

-----------------------------------------------------------------------------
(* Theorems. *)

\* Every step preserves the invariant.
LEMMA NextInv == Inv /\ [Next]_vars => Inv'
<1> SUFFICES ASSUME Inv, [Next]_vars PROVE Inv'
  OBVIOUS
<1>1. TypeOK'
  <2>1. CASE UNCHANGED vars
    BY <2>1 DEF Inv, TypeOK, vars, rx, tx, locals, clock
  <2> QED BY <2>1, DeviceType, ProgramType DEF Inv, Next
<1>2. AlarmTime'
  BY AlarmStep DEF Inv
<1>3. RxInOrder'
  BY RxStep, BufferStep DEF RxInOrder, RxRing, RxBuffer
<1> QED BY <1>1, <1>2, <1>3, LocalsStep, LatchedStep, TxStep, ArmedStep DEF Inv

\* The invariant holds in every reachable state.
THEOREM Invariance == Spec => []Inv
<1> QED BY InitInv, NextInv, PTL DEF Spec

\* The variables of the driver keep their types; the hardware FIFOs never overflow.
THEOREM TypeCorrect == Spec => []TypeOK
<1>1. Inv => TypeOK
  BY DEF Inv
<1> QED BY <1>1, Invariance, PTL

\* Output arrives in order, whatever the interrupt routine preempts.
THEOREM OutputInOrder == Spec => []TxInOrder
<1>1. Inv => TxInOrder
  BY DEF Inv
<1> QED BY <1>1, Invariance, PTL

\* Input arrives in order, whatever the interrupt routine preempts.
THEOREM InputInOrder == Spec => []RxInOrder
<1>1. Inv => RxInOrder
  BY DEF Inv
<1> QED BY <1>1, Invariance, PTL

\* No interrupt is left off while characters wait for it.
THEOREM InterruptsArmed == Spec => []Armed
<1>1. Inv => Armed
  BY DEF Inv
<1> QED BY <1>1, Invariance, PTL

\* The alarm fires exactly when it is due, for every width of the tick counter.
THEOREM AlarmExact == Spec => AlarmOnTime
<1>1. Inv /\ [Next]_vars => [nticks' # nticks => (due = 1 <=> alarm'.time # alarm.time)]_vars
  BY AlarmStep DEF Inv
<1> QED BY <1>1, Invariance, PTL DEF Spec, AlarmOnTime

=============================================================================
