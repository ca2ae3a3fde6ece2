------------------------------ MODULE JtagUart ------------------------------
(***************************************************************************)
(* The console of the firmware: the interrupt-driven driver of the JTAG    *)
(* UART (altera_avalon_jtag_uart_init.c, _read.c, _write.c), the system    *)
(* tick and the alarm that watches the host (alt_tick.c,                   *)
(* alt_alarm_start.c).                                                     *)
(*                                                                         *)
(* The program calls read, write or close; every access a call makes to    *)
(* the shared rings is a step.  The UART's interrupt routine preempts the  *)
(* program between any two of its steps, and the host moves characters     *)
(* through the hardware FIFOs between any two steps of either.  The timer  *)
(* interrupt does not nest with the UART's.  A character is its position   *)
(* in the stream of its direction.                                         *)
(* Definitions named ..._bug are mutated forms of the one that follows.    *)
(***************************************************************************)
EXTENDS Integers, Sequences

CONSTANTS
  BUF,       \* ALTERA_AVALON_JTAG_UART_BUF_LEN (2048)
  HWFIFO,    \* depth of the hardware FIFOs (64)
  TIMEOUT,   \* alarms without activity until the host counts as gone (10)
  INACTIVE,  \* largest host_inactive (INT_MAX - 2)
  TPS,       \* ticks per second, the period of the alarm (1000)
  NTICKS,    \* the tick counter counts modulo NTICKS (2^32)
  REREAD,    \* a waiting write reads host_inactive again and again, as the source
             \* says; host_inactive is not volatile, and the write that was built
             \* (TestBench_FW.objdump) reads it once before it waits
  START,     \* tick at which the driver is initialised
  MaxCall,   \* bound: characters of a call
  MaxChars   \* bound: characters of both directions

ASSUME UartAssumption ==
  /\ BUF \in Nat \ {0, 1} /\ HWFIFO \in Nat \ {0}
  /\ REREAD \in BOOLEAN
  /\ TIMEOUT \in Nat \ {0} /\ INACTIVE \in Nat /\ INACTIVE >= TIMEOUT
  /\ TPS \in Nat \ {0} /\ NTICKS \in Nat /\ TPS + 1 < NTICKS /\ START \in 0 .. NTICKS - 1
  /\ MaxCall \in Nat /\ MaxChars \in Nat

VARIABLES
  rx_buf, rx_in, rx_out,  \* ring of characters read from the UART
  tx_buf, tx_in, tx_out,  \* ring of characters to be written to it
  irq_enable,             \* interrupts enabled in the control register
  host_inactive,          \* alarms since the last activity
  rxfifo, txfifo, ac,     \* hardware: FIFOs, activity bit of the control register
  plugged,                \* the host runs its terminal
  isr, data, space,       \* interrupt routine: next access; RAVAIL; WSPACE
  pc, in, out, n, left, buffer, nonblock, seen,  \* program: next access; its locals
  nticks, alarm,          \* tick counter; the alarm's time and rollover
  written, taken,         \* history: characters put into tx_buf, got by the host,
  typed, read, due        \* typed by the host, taken from rx_buf; ticks to the alarm

rx == <<rx_buf, rx_in, rx_out, rxfifo>>
tx == <<tx_buf, tx_in, tx_out, txfifo>>
locals == <<in, out, n, left, buffer, nonblock, seen>>
clock  == <<nticks, alarm, due>>
vars == <<rx, tx, irq_enable, host_inactive, ac, plugged, isr, data, space,
          pc, locals, clock, written, taken, typed, read>>

\* Values of pc.
Writing == {"close", "wsample", "wcopy", "wadvance", "warm", "wspin", "wcheck"}
Reading == {"rsample", "rcopy", "radvance", "rspin", "rcheck", "rarm"}
Pcs == {"idle"} \cup Writing \cup Reading

Wrap(i) == i % BUF
\* Characters of a ring.
Fill(i, o) == IF i >= o THEN i - o ELSE i - o + BUF
AtMost(a, b) == IF a < b THEN a ELSE b

\* Interrupts pending: what the control register shows.
RI == "RE" \in irq_enable /\ rxfifo # <<>>
WI == "WE" \in irq_enable /\ Len(txfifo) < HWFIFO

\* alt_alarm_start and the re-arming of alt_tick.
Alarm(time, now) == [time |-> time, rollover |-> time < now]

Init ==
  /\ rx_buf = [i \in 0 .. BUF - 1 |-> 0] /\ rx_in = 0 /\ rx_out = 0
  /\ tx_buf = [i \in 0 .. BUF - 1 |-> 0] /\ tx_in = 0 /\ tx_out = 0
  /\ irq_enable = {"RE"} /\ host_inactive = 0
  /\ rxfifo = <<>> /\ txfifo = <<>> /\ ac = FALSE /\ plugged \in BOOLEAN
  /\ isr = "off" /\ data = FALSE /\ space = 0
  /\ pc = "idle" /\ in = 0 /\ out = 0 /\ n = 0 /\ left = 0 /\ buffer = <<>>
  /\ nonblock = FALSE /\ seen = 0
  /\ nticks = START /\ alarm = Alarm((TPS + START + 1) % NTICKS, START) /\ due = TPS + 1
  /\ written = 0 /\ taken = 0 /\ typed = 0 /\ read = 0

-----------------------------------------------------------------------------
(* Host.  Every access of it sets the activity bit. *)

Host(action) ==
  /\ plugged /\ action /\ ac' = TRUE
  /\ UNCHANGED <<rx_buf, rx_in, rx_out, tx_buf, tx_in, tx_out, irq_enable,
                 host_inactive, plugged, isr, data, space, pc, locals, clock,
                 written, read>>

HostTake ==
  Host(/\ txfifo # <<>>
       /\ taken' = Head(txfifo) /\ txfifo' = Tail(txfifo)
       /\ UNCHANGED <<rxfifo, typed>>)

HostType ==
  Host(/\ Len(rxfifo) < HWFIFO /\ typed + written + (IF pc \in Writing THEN left ELSE 0) < MaxChars
       /\ typed' = typed + 1 /\ rxfifo' = Append(rxfifo, typed + 1)
       /\ UNCHANGED <<txfifo, taken>>)

HostPoll == Host(~ac /\ UNCHANGED <<rxfifo, txfifo, typed, taken>>)

Plug ==
  /\ plugged' = ~plugged
  /\ UNCHANGED <<rx, tx, irq_enable, host_inactive, ac, isr, data, space, pc,
                 locals, clock, written, taken, typed, read>>

-----------------------------------------------------------------------------
(* Timer interrupt: alt_tick and altera_avalon_jtag_uart_timeout. *)

Timeout ==
  /\ ac' = FALSE
  /\ host_inactive' = IF ac THEN 0
                      ELSE AtMost(host_inactive + 1, INACTIVE)

Tick_early_bug ==
  /\ isr = "off"
  /\ nticks' = (nticks + 1) % NTICKS
  /\ IF alarm.time <= nticks'
       THEN /\ Timeout
            /\ alarm' = Alarm((alarm.time + TPS) % NTICKS, nticks')
            /\ due' = TPS
       ELSE /\ due' = due - 1
            /\ UNCHANGED <<alarm, ac, host_inactive>>
  /\ UNCHANGED <<rx, tx, irq_enable, plugged, isr, data, space, pc, locals,
                 written, taken, typed, read>>

Tick ==
  /\ isr = "off"
  /\ nticks' = (nticks + 1) % NTICKS
  /\ LET waits == alarm.rollover /\ nticks' # 0
     IN  IF alarm.time <= nticks' /\ ~waits
           THEN /\ Timeout
                /\ alarm' = Alarm((alarm.time + TPS) % NTICKS, nticks')
                /\ due' = TPS
           ELSE /\ alarm' = [alarm EXCEPT !.rollover = waits]
                /\ due' = due - 1
                /\ UNCHANGED <<ac, host_inactive>>
  /\ UNCHANGED <<rx, tx, irq_enable, plugged, isr, data, space, pc, locals,
                 written, taken, typed, read>>

-----------------------------------------------------------------------------
(* The UART's interrupt routine, one access to the device per step. *)

IsrKeeps == <<host_inactive, ac, plugged, pc, locals, clock, written, taken,
              typed, read>>

\* The control register decides what is done in a round; none left: return.
IsrControl ==
  /\ isr = "control" \/ (isr = "off" /\ (RI \/ WI))
  /\ isr' = IF RI THEN "rx" ELSE IF WI THEN "tx" ELSE "off"
  /\ data' = RI
  /\ space' = IF WI THEN HWFIFO - Len(txfifo) ELSE 0
  /\ UNCHANGED <<rx, tx, irq_enable, IsrKeeps>>

IsrRead_overrun_bug ==
  /\ isr = "rx"
  /\ IF rxfifo = <<>>
       THEN /\ isr' = "rxend" /\ data' = FALSE
            /\ UNCHANGED rx
       ELSE /\ rx_buf' = [rx_buf EXCEPT ![rx_in] = Head(rxfifo)]
            /\ rx_in' = Wrap(rx_in + 1)
            /\ rxfifo' = Tail(rxfifo)
            /\ data' = (Tail(rxfifo) # <<>>)
            /\ UNCHANGED <<isr, rx_out>>
  /\ UNCHANGED <<tx, irq_enable, space, IsrKeeps>>

\* A character is read only when the ring has room for it.
IsrRead ==
  /\ isr = "rx"
  /\ \/ /\ Wrap(rx_in + 1) = rx_out
        /\ isr' = "rxend"
        /\ UNCHANGED <<rx, data>>
     \/ /\ Wrap(rx_in + 1) # rx_out
        /\ rxfifo = <<>>
        /\ isr' = "rxend" /\ data' = FALSE
        /\ UNCHANGED rx
     \/ /\ Wrap(rx_in + 1) # rx_out
        /\ rxfifo # <<>>
        /\ rx_buf' = [rx_buf EXCEPT ![rx_in] = Head(rxfifo)]
        /\ rx_in' = Wrap(rx_in + 1)
        /\ rxfifo' = Tail(rxfifo)
        /\ data' = (Tail(rxfifo) # <<>>)
        /\ UNCHANGED <<isr, rx_out>>
  /\ UNCHANGED <<tx, irq_enable, space, IsrKeeps>>

\* Data left: the ring is full, and no further interrupt is wanted.
IsrReadEnd ==
  /\ isr = "rxend"
  /\ irq_enable' = irq_enable \ (IF data THEN {"RE"} ELSE {})
  /\ isr' = IF space > 0 THEN "tx" ELSE "control"
  /\ UNCHANGED <<rx, tx, data, space, IsrKeeps>>

IsrWrite ==
  /\ isr = "tx" /\ space > 0 /\ tx_out # tx_in
  /\ txfifo' = Append(txfifo, tx_buf[tx_out])
  /\ tx_out' = Wrap(tx_out + 1)
  /\ space' = space - 1
  /\ UNCHANGED <<rx, tx_buf, tx_in, irq_enable, isr, data, IsrKeeps>>

\* Space left: there is nothing more to send.
IsrWriteEnd ==
  /\ isr = "tx" /\ (space = 0 \/ tx_out = tx_in)
  /\ irq_enable' = irq_enable \ (IF space > 0 THEN {"WE"} ELSE {})
  /\ isr' = "control"
  /\ UNCHANGED <<rx, tx, data, space, IsrKeeps>>

Isr == IsrControl \/ IsrRead \/ IsrReadEnd \/ IsrWrite \/ IsrWriteEnd

-----------------------------------------------------------------------------
(* The program. *)

MainKeeps == <<host_inactive, ac, plugged, isr, data, space, clock, taken, typed>>

Call(op) ==
  /\ pc = "idle" /\ isr = "off" /\ pc' = op
  /\ nonblock' \in BOOLEAN
  /\ UNCHANGED <<rx, tx, irq_enable, in, out, n, buffer, seen, written, read, MainKeeps>>

WriteCall == \E count \in 1 .. AtMost(MaxCall, MaxChars - written - typed) :
               left' = count /\ Call("wsample")
ReadCall  == \E count \in 1 .. MaxCall : left' = count /\ Call("rsample")
CloseCall == left' = 0 /\ Call("close")

\* A call's locals are gone when it returns.
Return ==
  /\ pc' = "idle"
  /\ in' = 0 /\ out' = 0 /\ n' = 0 /\ left' = 0 /\ buffer' = <<>> /\ nonblock' = FALSE
  /\ seen' = 0

\* A step of the program from pc = p.
At(p) == pc = p /\ isr = "off" /\ UNCHANGED MainKeeps

Room_below_bug(i, o) == IF i < o THEN o - i
                        ELSE IF o > 0 THEN BUF - i ELSE BUF - 1 - i

\* Room for a write: up to the end of the array or below tx_out, one entry
\* always stays free.
Room(i, o) == IF i < o THEN o - 1 - i
              ELSE IF o > 0 THEN BUF - i ELSE BUF - 1 - i

WriteSample ==
  /\ At("wsample")
  /\ LET room == AtMost(Room(tx_in, tx_out), left)
     IN  /\ in' = tx_in /\ out' = tx_out /\ n' = room
         /\ pc' = IF room = 0 THEN "warm" ELSE "wcopy"
  /\ UNCHANGED <<rx, tx, irq_enable, left, buffer, nonblock, seen, written, read>>

WriteCopy ==
  /\ At("wcopy")
  /\ pc' = "wadvance"
  /\ tx_buf' = [i \in 0 .. BUF - 1 |->
                  IF i \in in .. in + n - 1 THEN written + 1 + i - in ELSE tx_buf[i]]
  /\ UNCHANGED <<rx, tx_in, tx_out, txfifo, irq_enable, locals, written, read>>

WriteAdvance_wrap_bug ==
  /\ At("wadvance")
  /\ pc' = "wsample"
  /\ tx_in' = in + n
  /\ left' = left - n
  /\ written' = written + n
  /\ UNCHANGED <<rx, tx_buf, tx_out, txfifo, irq_enable, in, out, n, buffer,
                 nonblock, seen, read>>

WriteAdvance ==
  /\ At("wadvance")
  /\ pc' = "wsample"
  /\ tx_in' = Wrap(in + n)
  /\ left' = left - n
  /\ written' = written + n
  /\ UNCHANGED <<rx, tx_buf, tx_out, txfifo, irq_enable, in, out, n, buffer,
                 nonblock, seen, read>>

\* What a waiting write takes for host_inactive.
Inactive == IF REREAD THEN host_inactive ELSE seen
Wait ==
  /\ pc' = "wspin" /\ seen' = IF REREAD THEN 0 ELSE host_inactive
  /\ UNCHANGED <<in, out, n, left, buffer, nonblock>>

WriteArm_room_bug ==
  /\ At("warm")
  /\ irq_enable' = irq_enable \cup (IF left = 0 THEN {"WE"} ELSE {})
  /\ IF left > 0 /\ ~nonblock THEN Wait ELSE Return
  /\ UNCHANGED <<rx, tx, written, read>>

WriteArm ==
  /\ At("warm")
  /\ irq_enable' = irq_enable \cup {"WE"}
  /\ IF left > 0 /\ ~nonblock THEN Wait ELSE Return
  /\ UNCHANGED <<rx, tx, written, read>>

WriteSpin_forever_bug ==
  /\ At("wspin") /\ out # tx_out
  /\ pc' = "wcheck"
  /\ UNCHANGED <<rx, tx, irq_enable, locals, written, read>>

WriteSpin ==
  /\ At("wspin") /\ (out # tx_out \/ Inactive >= TIMEOUT)
  /\ pc' = "wcheck"
  /\ UNCHANGED <<rx, tx, irq_enable, locals, written, read>>

WriteCheck ==
  /\ At("wcheck")
  /\ IF Inactive # 0 THEN Return ELSE pc' = "wsample" /\ UNCHANGED locals
  /\ UNCHANGED <<rx, tx, irq_enable, written, read>>

\* Characters that can be read without passing the end of the array.
Ready(i, o) == IF i >= o THEN i - o ELSE BUF - o

ReadSample ==
  /\ At("rsample")
  /\ LET ready == AtMost(Ready(rx_in, rx_out), left)
     IN  IF ready > 0
           THEN /\ pc' = "rcopy" /\ in' = rx_in /\ out' = rx_out /\ n' = ready
                /\ UNCHANGED <<left, buffer, nonblock, seen>>
           ELSE IF buffer # <<>> THEN pc' = "rarm" /\ UNCHANGED locals
           ELSE IF nonblock THEN Return
           ELSE /\ pc' = "rspin" /\ in' = rx_in /\ out' = rx_out /\ n' = 0
                /\ UNCHANGED <<left, buffer, nonblock, seen>>
  /\ UNCHANGED <<rx, tx, irq_enable, written, read>>

ReadCopy ==
  /\ At("rcopy")
  /\ pc' = "radvance"
  /\ buffer' = buffer \o [k \in 1 .. n |-> rx_buf[out + k - 1]]
  /\ UNCHANGED <<rx, tx, irq_enable, in, out, n, left, nonblock, seen, written, read>>

ReadAdvance ==
  /\ At("radvance")
  /\ pc' = "rsample"
  /\ rx_out' = Wrap(out + n)
  /\ left' = left - n
  /\ read' = read + n
  /\ UNCHANGED <<rx_buf, rx_in, rxfifo, tx, irq_enable, in, out, n, buffer,
                 nonblock, seen, written>>

ReadSpin ==
  /\ At("rspin") /\ (in # rx_in \/ host_inactive >= TIMEOUT)
  /\ pc' = "rcheck"
  /\ UNCHANGED <<rx, tx, irq_enable, locals, written, read>>

ReadCheck ==
  /\ At("rcheck")
  /\ IF in = rx_in THEN Return ELSE pc' = "rsample" /\ UNCHANGED locals
  /\ UNCHANGED <<rx, tx, irq_enable, written, read>>

ReadArm ==
  /\ At("rarm")
  /\ irq_enable' = irq_enable \cup {"RE"}
  /\ Return
  /\ UNCHANGED <<rx, tx, written, read>>

\* close waits until the ring is empty or the host is gone.
CloseSpin ==
  /\ At("close") /\ (tx_out = tx_in \/ host_inactive >= TIMEOUT \/ nonblock)
  /\ Return
  /\ UNCHANGED <<rx, tx, irq_enable, written, read>>

Steps == \/ WriteSample \/ WriteCopy \/ WriteAdvance \/ WriteArm \/ WriteSpin \/ WriteCheck
         \/ ReadSample \/ ReadCopy \/ ReadAdvance \/ ReadSpin \/ ReadCheck \/ ReadArm
         \/ CloseSpin

Next == \/ HostTake \/ HostType \/ HostPoll \/ Plug
        \/ Tick \/ Isr
        \/ WriteCall \/ ReadCall \/ CloseCall \/ Steps

Spec == Init /\ [][Next]_vars

\* The processor serves interrupts and runs the program, the timer ticks, and a
\* host that is plugged in again and again reads what is sent to it.
FairSpec == Spec /\ WF_vars(Isr) /\ WF_vars(Steps) /\ WF_vars(Tick) /\ SF_vars(HostTake)

-----------------------------------------------------------------------------
(* Properties. *)

\* Every variable has its type, and the hardware FIFOs never hold more than HWFIFO.
TypeOK ==
  /\ rx_buf \in [0 .. BUF - 1 -> Nat] /\ tx_buf \in [0 .. BUF - 1 -> Nat]
  /\ rx_in \in 0 .. BUF - 1 /\ rx_out \in 0 .. BUF - 1
  /\ tx_in \in 0 .. BUF - 1 /\ tx_out \in 0 .. BUF - 1
  /\ irq_enable \subseteq {"RE", "WE"} /\ host_inactive \in 0 .. INACTIVE
  /\ rxfifo \in Seq(Nat) /\ Len(rxfifo) <= HWFIFO
  /\ txfifo \in Seq(Nat) /\ Len(txfifo) <= HWFIFO
  /\ ac \in BOOLEAN /\ plugged \in BOOLEAN
  /\ isr \in {"off", "control", "rx", "rxend", "tx"} /\ data \in BOOLEAN
  /\ space \in 0 .. HWFIFO
  /\ pc \in Pcs /\ in \in 0 .. BUF - 1 /\ out \in 0 .. BUF - 1 /\ n \in 0 .. BUF
  /\ left \in Nat /\ buffer \in Seq(Nat) /\ nonblock \in BOOLEAN /\ seen \in 0 .. INACTIVE
  /\ nticks \in 0 .. NTICKS - 1
  /\ alarm \in [time : 0 .. NTICKS - 1, rollover : BOOLEAN] /\ due \in Int
  /\ written \in Nat /\ taken \in Nat /\ typed \in Nat /\ read \in Nat

\* Whatever the interrupt routine does between two steps of a write, what the
\* host has got, the hardware FIFO and the ring are the stream in order, without
\* a character lost, repeated or overwritten.
TxInOrder ==
  LET sent == taken + Len(txfifo)
  IN  /\ written = sent + Fill(tx_in, tx_out)
      /\ \A k \in 1 .. Len(txfifo) : txfifo[k] = taken + k
      /\ \A k \in 0 .. Fill(tx_in, tx_out) - 1 :
           tx_buf[Wrap(tx_out + k)] = sent + k + 1

\* The same for the characters typed: those of the call in progress, the ring
\* and the hardware FIFO.
RxInOrder ==
  LET stored == read + Fill(rx_in, rx_out)
  IN  /\ typed = stored + Len(rxfifo)
      /\ \A k \in 1 .. Len(rxfifo) : rxfifo[k] = stored + k
      /\ \A k \in 0 .. Fill(rx_in, rx_out) - 1 :
           rx_buf[Wrap(rx_out + k)] = read + k + 1
      /\ LET base == IF pc = "radvance" THEN read + n ELSE read
         IN  \A k \in 1 .. Len(buffer) : buffer[k] = base - Len(buffer) + k

\* An interrupt is switched off only when it has nothing to do: characters wait
\* in tx_buf without the write interrupt only while a write is about to enable
\* it, and the read interrupt is off only while rx_buf is full or a read that
\* made room is about to enable it.
Armed ==
  /\ "WE" \in irq_enable \/ tx_in = tx_out \/ pc \in {"wsample", "wcopy", "wadvance", "warm"}
  /\ \/ "RE" \in irq_enable
     \/ Wrap(rx_in + 1) = rx_out
     \/ buffer # <<>>

\* The alarm's callback runs at the tick it is due, neither early nor late,
\* through every wrap of the tick counter.
AlarmOnTime == [][nticks' # nticks => (due = 1 <=> alarm'.time # alarm.time)]_vars

\* What write has accepted reaches a host that is there again and again, without
\* a further call of the program.
TxDelivered == []<>plugged => []<>(taken = written)

\* Every write and close returns; when the host has gone for good so does every read.
CallsEnd == []<>(pc \notin Writing) /\ (<>[]~plugged => []<>(pc \notin Reading))

=============================================================================
