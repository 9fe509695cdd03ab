------------------------------ MODULE UartProof ------------------------------
(***************************************************************************)
(* Theorems about the console, for every length of the buffers and of the  *)
(* FIFOs and every number of bytes.                                        *)
(***************************************************************************)
EXTENDS JtagUart, SequenceTheorems, TLAPS

Slot == 0 .. BufLen - 1

Writing == {"load", "copy", "advance", "kick"}

Places ==
    Writing \cup {"idle", "spin", "spun", "rload", "rcopy", "rspin", "rdone", "close"}

Calls ==
    [pc: Places, left: Nat, n: Nat, seen: Nat, nonblock: BOOLEAN, moved: {0, 1}]

Handlers ==
    [pc: {"off", "trap", "dispatch", "control", "pending", "receive", "send"},
     wi: BOOLEAN, space: Nat, avail: BOOLEAN]

(* The state of the console is what it should be.  A copy is never longer  *)
(* than what is left of the call.                                          *)
UartTypes ==
    /\ tx_in \in Slot /\ tx_out \in Slot /\ rx_in \in Slot /\ rx_out \in Slot
    /\ tx_buf \in [Slot -> Nat] /\ rx_buf \in [Slot -> Nat]
    /\ irq_enable \subseteq {"RE", "WE"} /\ pause_irq \in BOOLEAN
    /\ wfifo \in Seq(Nat) /\ Len(wfifo) <= FifoLen
    /\ rfifo \in Seq(Nat) /\ Len(rfifo) <= FifoLen
    /\ taken \in Nat /\ typed \in Nat /\ given \in Nat /\ returned \in Nat
    /\ thread \in Calls /\ thread.n <= thread.left

(* What is between the exception and its handler is still pending.         *)
Interrupts ==
    /\ isr \in Handlers
    /\ isr.pc \in {"trap", "dispatch"} => Pending

(* Who will move the bytes that are there, or say that there are some.     *)
Wakes ==
    /\ tx_in # tx_out => "WE" \in irq_enable \/ thread.pc \in Writing
    /\ rx_in = rx_out => \/ "RE" \in irq_enable
                         \/ thread.pc \in {"rload", "rcopy", "rdone"} /\ thread.moved > 0

(* How far slot s is from slot o, going up. *)
Dist(o, s) == IF s >= o THEN s - o ELSE s - o + BufLen

TxCount == Dist(tx_out, tx_in)
RxCount == Dist(rx_out, rx_in)

(* The bytes from write(): the ones of the FIFO, then the ones of the      *)
(* buffer, and those of a copy that is not part of it yet.                 *)
Outgoing ==
    /\ given = taken + Len(wfifo) + TxCount
    /\ \A k \in 1 .. Len(wfifo) : wfifo[k] = taken + k
    /\ \A s \in Slot :
        Dist(tx_out, s) < TxCount => tx_buf[s] = taken + Len(wfifo) + Dist(tx_out, s) + 1
    /\ thread.pc \in {"copy", "advance"} => thread.n <= BufLen - 1 - TxCount
    /\ thread.pc = "advance" =>
        \A s \in Slot : Dist(tx_in, s) < thread.n => tx_buf[s] = given + Dist(tx_in, s) + 1
    /\ isr.pc \in {"receive", "send"} => isr.space <= FifoLen - Len(wfifo)

(* The bytes for read(): the ones of the buffer, then the ones of the FIFO. *)
Incoming ==
    /\ typed = returned + RxCount + Len(rfifo)
    /\ \A k \in 1 .. Len(rfifo) : rfifo[k] = returned + RxCount + k
    /\ \A s \in Slot : Dist(rx_out, s) < RxCount => rx_buf[s] = returned + Dist(rx_out, s) + 1
    /\ thread.pc = "rcopy" => thread.n <= RxCount

-----------------------------------------------------------------------------
(* The remainder of a number below twice the divisor. *)
LEMMA Modulus ==
    ASSUME NEW B \in Nat, B > 1, NEW i \in Nat
    PROVE  /\ i < B => i % B = i
           /\ B <= i /\ i < B + B => i % B = i - B
           /\ i % B \in 0 .. B - 1
<1>1. i < B => i % B = i
  BY Z3
<1>2. B <= i /\ i < B + B => i % B = i - B
  BY Z3
<1>3. i % B \in 0 .. B - 1
  BY Z3
<1> QED
  BY <1>1, <1>2, <1>3

(* The slot after n others: the end of the buffer is its beginning.        *)
LEMMA PastSlot ==
    ASSUME NEW i \in Slot, NEW n \in Nat
    PROVE  /\ Past(i, n) \in Slot
           /\ n < BufLen => Past(i, n) = IF i + n < BufLen THEN i + n ELSE i + n - BufLen
<1>1. BufLen \in Nat /\ BufLen > 1
  BY UartAssumption
<1>2. i + n \in Nat /\ i < BufLen
  BY <1>1 DEF Slot
<1> DEFINE s == i + n
<1>3. s \in Nat
  BY <1>2
<1>4. s % BufLen \in 0 .. BufLen - 1 /\ (s < BufLen => s % BufLen = s)
      /\ (BufLen <= s /\ s < BufLen + BufLen => s % BufLen = s - BufLen)
  <2> HIDE DEF s
  <2> QED
  BY <1>1, <1>3, Modulus
<1> QED
  BY <1>1, <1>2, <1>4 DEF Past, Slot

(* A distance is less than the buffer is long, and nothing only to itself. *)
LEMMA Distance ==
    ASSUME NEW o \in Slot, NEW s \in Slot
    PROVE  /\ Dist(o, s) \in 0 .. BufLen - 1
           /\ Dist(o, s) = 0 <=> s = o
  BY UartAssumption DEF Dist, Slot

(* The distance from another slot. *)
LEMMA DistanceFrom ==
    ASSUME NEW o \in Slot, NEW i \in Slot, NEW s \in Slot
    PROVE  Dist(i, s) = IF Dist(o, s) >= Dist(o, i) THEN Dist(o, s) - Dist(o, i)
                        ELSE Dist(o, s) - Dist(o, i) + BufLen
  BY UartAssumption DEF Dist, Slot

(* n slots further on, as long as it does not come round to o again. *)
LEMMA DistanceToPast ==
    ASSUME NEW o \in Slot, NEW i \in Slot, NEW n \in Nat, Dist(o, i) + n < BufLen
    PROVE  Dist(o, Past(i, n)) = Dist(o, i) + n
<1>1. BufLen \in Nat /\ Dist(o, i) \in Nat
  BY UartAssumption, Distance DEF Slot
<1>2. n < BufLen
  BY <1>1
<1>3. Past(i, n) = IF i + n < BufLen THEN i + n ELSE i + n - BufLen
  BY <1>2, PastSlot
<1> QED
  BY <1>1, <1>3 DEF Dist, Slot

(* The distance as the code counts it. *)
LEMMA Modulo ==
    ASSUME NEW o \in Slot, NEW s \in Slot
    PROVE  (s + BufLen - o) % BufLen = Dist(o, s)
<1>1. BufLen \in Nat /\ BufLen > 1
  BY UartAssumption
<1> DEFINE d == s + BufLen - o
<1>2. d \in Nat /\ d < BufLen + BufLen
  BY <1>1 DEF Slot
<1>3. d % BufLen = IF d < BufLen THEN d ELSE d - BufLen
  <2>1. (d < BufLen => d % BufLen = d) /\ (BufLen <= d => d % BufLen = d - BufLen)
    <3> HIDE DEF d
    <3> QED
      BY <1>1, <1>2, Modulus
  <2>2. d < BufLen \/ BufLen <= d
    BY <1>1, <1>2
  <2> QED
    BY <2>1, <2>2
<1> QED
  BY <1>1, <1>2, <1>3 DEF Dist, Slot

(* What write() and read() take for room and for bytes. *)
LEMMA Rooms ==
    ASSUME NEW i \in Slot, NEW o \in Slot
    PROVE  /\ Room(i, o) \in 0 .. BufLen - 1
           /\ Ready(i, o) \in 0 .. BufLen - 1
           /\ Ready(i, o) > 0 <=> i # o
  BY UartAssumption DEF Room, Ready, Slot

(* The smaller of two numbers. *)
LEMMA LeastOf ==
    ASSUME NEW a \in Nat, NEW b \in Nat
    PROVE  /\ Least(a, b) \in Nat /\ Least(a, b) <= a /\ Least(a, b) <= b
           /\ a > 0 /\ b > 0 => Least(a, b) > 0
  BY DEF Least

-----------------------------------------------------------------------------
(* The console after UartInit. *)
LEMMA UartTypesInit == UartInit => UartTypes /\ Interrupts /\ Wakes
<1> SUFFICES ASSUME UartInit
             PROVE  UartTypes /\ Interrupts /\ Wakes
  OBVIOUS
<1>1. BufLen \in Nat /\ BufLen > 1 /\ FifoLen \in Nat
  BY UartAssumption
<1>2. UartTypes
  <2>1. thread \in Calls /\ thread.n <= thread.left
    BY DEF UartInit, NoCall, Calls, Places, Writing
  <2>2. tx_buf \in [Slot -> Nat] /\ rx_buf \in [Slot -> Nat]
    BY DEF UartInit, Slot
  <2>3. wfifo \in Seq(Nat) /\ Len(wfifo) = 0 /\ rfifo \in Seq(Nat) /\ Len(rfifo) = 0
    BY DEF UartInit
  <2>4. tx_in \in Slot /\ tx_out \in Slot /\ rx_in \in Slot /\ rx_out \in Slot
    BY <1>1 DEF UartInit, Slot
  <2> QED
    BY <1>1, <2>1, <2>2, <2>3, <2>4 DEF UartInit, UartTypes
<1>3. Interrupts
  BY DEF UartInit, Interrupts, Quiet, Handlers
<1>4. Wakes
  BY DEF UartInit, Wakes
<1> QED
  BY <1>2, <1>3, <1>4

(* Where the call is after it has moved on. *)
LEMMA GoneTo ==
    ASSUME UartTypes, NEW p, ThreadGoto(p)
    PROVE  thread'.pc = p /\ (p # "idle" => thread'.moved = thread.moved)
<1>1. CASE p = "idle"
  BY <1>1 DEF ThreadGoto, NoCall
<1>2. CASE p # "idle"
  BY <1>2 DEF ThreadGoto, UartTypes, Calls
<1> QED
  BY <1>1, <1>2

(* A copy is done. *)
LEMMA CallMoved ==
    ASSUME NEW t \in Calls, NEW p \in Places, NEW rest \in Nat, NEW u,
           \/ u = [t EXCEPT !.left = rest, !.n = 0, !.pc = p]
           \/ u = [t EXCEPT !.left = rest, !.n = 0, !.moved = 1, !.pc = p]
    PROVE  u \in Calls /\ u.n <= u.left
<1>1. u.n = 0 /\ u.left = rest
  BY DEF Calls
<1>2. [t EXCEPT !.left = rest, !.n = 0, !.pc = p] \in Calls
  BY DEF Calls
<1>3. [t EXCEPT !.left = rest, !.n = 0, !.moved = 1, !.pc = p] \in Calls
  BY DEF Calls
<1> QED
  BY <1>1, <1>2, <1>3

(* The thread. *)
LEMMA CallKept ==
    ASSUME UartTypes, InCall
    PROVE  thread' \in Calls /\ thread'.n <= thread'.left
<1>0. /\ thread \in Calls /\ thread.pc \in Places /\ thread.left \in Nat /\ thread.n \in Nat
      /\ thread.seen \in Nat /\ thread.moved \in {0, 1} /\ thread.n <= thread.left
  BY DEF UartTypes, Calls
<1>1. tx_out \in Nat /\ rx_in \in Nat /\ Room(tx_in, tx_out) \in Nat
      /\ Ready(rx_in, rx_out) \in Nat
  BY Rooms, UartAssumption DEF UartTypes, Slot
<1>2. ASSUME NEW p \in Places, ThreadGoto(p)
      PROVE  thread' \in Calls /\ thread'.n <= thread'.left
  <2>1. CASE p = "idle"
    BY <1>2, <2>1 DEF ThreadGoto, NoCall, Calls, Places, Writing
  <2>2. CASE p # "idle"
    BY <1>0, <1>2, <2>2 DEF ThreadGoto, Calls
  <2> QED
    BY <2>1, <2>2
<1>3. CASE LoadOut
  <2> DEFINE n == Least(Room(tx_in, tx_out), thread.left)
  <2>1. n \in Nat /\ n <= thread.left
    BY <1>0, <1>1, LeastOf
  <2>2. thread' = [thread EXCEPT !.n = n, !.pc = IF n = 0 THEN "kick" ELSE "copy",
                                 !.seen = IF thread.left > 0 THEN tx_out ELSE 0]
    BY <1>3 DEF LoadOut
  <2> HIDE DEF n
  <2> QED
    BY <1>0, <1>1, <2>1, <2>2 DEF Calls, Places, Writing
<1>4. CASE CopyIn \/ Kick \/ Spin \/ Spun \/ RSpin \/ RDone \/ Drained
  <2>1. PICK p \in Places : ThreadGoto(p)
    BY <1>4 DEF CopyIn, Kick, AfterKick, Spin, Spun, RSpin, RDone, Drained, Places, Writing
  <2> QED
    BY <2>1, <1>2
<1>5. CASE AdvanceIn
  <2>1. thread' = [thread EXCEPT !.left = thread.left - thread.n, !.n = 0, !.pc = "load"]
    BY <1>5 DEF AdvanceIn
  <2>2. thread.left - thread.n \in Nat /\ "load" \in Places
    BY <1>0 DEF Places, Writing
  <2> QED
    BY <1>0, <2>1, <2>2, CallMoved
<1>6. CASE RLoad
  <2> DEFINE n == Least(Ready(rx_in, rx_out), thread.left)
  <2>1. n \in Nat /\ n <= thread.left
    BY <1>0, <1>1, LeastOf
  <2>2. \/ thread' = [thread EXCEPT !.n = n, !.pc = "rcopy"]
        \/ ThreadGoto("rdone") \/ ThreadGoto("idle")
        \/ thread' = [thread EXCEPT !.seen = rx_in, !.pc = "rspin"]
    BY <1>6 DEF RLoad
  <2> HIDE DEF n
  <2>3. CASE thread' = [thread EXCEPT !.n = n, !.pc = "rcopy"]
    BY <1>0, <2>1, <2>3 DEF Calls, Places, Writing
  <2>4. CASE thread' = [thread EXCEPT !.seen = rx_in, !.pc = "rspin"]
    BY <1>0, <1>1, <2>4 DEF Calls, Places, Writing
  <2>5. CASE ThreadGoto("rdone") \/ ThreadGoto("idle")
    BY <1>2, <2>5 DEF Places
  <2> QED
    BY <2>2, <2>3, <2>4, <2>5
<1>7. CASE AdvanceOut
  <2>1. PICK p \in {"rload", "rdone"} :
          thread' = [thread EXCEPT !.left = thread.left - thread.n, !.n = 0, !.moved = 1, !.pc = p]
    BY <1>7 DEF AdvanceOut
  <2>2. thread.left - thread.n \in Nat /\ p \in Places
    BY <1>0 DEF Places, Writing
  <2> QED
    BY <1>0, <2>1, <2>2, CallMoved
<1> QED
  BY <1>3, <1>4, <1>5, <1>6, <1>7 DEF InCall

(* A step of a call keeps the types. *)
LEMMA InCallTypes ==
    ASSUME UartTypes, InCall
    PROVE  UartTypes'
<1>0. BufLen \in Nat /\ BufLen > 1
  BY UartAssumption
<1>7. thread.n \in Nat
  BY DEF UartTypes, Calls
<1>1. thread' \in Calls /\ thread'.n <= thread'.left
  BY CallKept
<1>2. CASE LoadOut \/ Spin \/ Spun \/ RSpin \/ RLoad \/ Drained
  BY <1>1, <1>2 DEF LoadOut, Spin, Spun, RSpin, RLoad, Drained, UartTypes, buffers, core, host
<1>3. CASE Kick \/ RDone
  BY <1>1, <1>3 DEF Kick, RDone, UartTypes, buffers, core, host
<1>4. CASE CopyIn
  <2>1. tx_buf' \in [Slot -> Nat]
    <3>1. ASSUME NEW s \in Slot
          PROVE  (s + BufLen - tx_in) % BufLen \in Nat
      <4>1. s + BufLen - tx_in \in Nat
        BY <1>0 DEF UartTypes, Slot
      <4> QED
        BY <1>0, <4>1, Modulus
    <3>2. tx_buf' = Filled(tx_buf, tx_in, thread.n, given + 1)
      BY <1>4 DEF CopyIn
    <3>3. ASSUME NEW s \in Slot
          PROVE  Filled(tx_buf, tx_in, thread.n, given + 1)[s] \in Nat
      <4> DEFINE k == (s + BufLen - tx_in) % BufLen
      <4>1. Filled(tx_buf, tx_in, thread.n, given + 1)[s]
              = IF k < thread.n THEN given + 1 + k ELSE tx_buf[s]
        BY DEF Filled, Slot
      <4>2. k \in Nat /\ tx_buf[s] \in Nat /\ given \in Nat
        BY <3>1 DEF UartTypes
      <4> HIDE DEF k
      <4> QED
        BY <4>1, <4>2
    <3> QED
      BY <3>2, <3>3 DEF Filled, Slot
  <2> QED
    BY <1>1, <1>4, <2>1 DEF CopyIn, UartTypes, core, host
<1>5. CASE AdvanceIn
  <2>1. tx_in' \in Slot /\ given' \in Nat
    <3>1. tx_in' = Past(tx_in, thread.n) /\ given' = given + thread.n
      BY <1>5 DEF AdvanceIn
    <3>2. tx_in \in Slot /\ given \in Nat
      BY DEF UartTypes
    <3> QED
      BY <1>7, <3>1, <3>2, PastSlot
  <2> QED
    BY <1>1, <1>5, <2>1 DEF AdvanceIn, UartTypes, core, host
<1>6. CASE AdvanceOut
  <2>1. rx_out' \in Slot /\ returned' \in Nat
    <3>1. rx_out' = Past(rx_out, thread.n) /\ returned' = returned + thread.n
      BY <1>6 DEF AdvanceOut
    <3>2. rx_out \in Slot /\ returned \in Nat
      BY DEF UartTypes
    <3> QED
      BY <1>7, <3>1, <3>2, PastSlot
  <2> QED
    BY <1>1, <1>6, <2>1 DEF AdvanceOut, UartTypes, core, host
<1> QED
  BY <1>2, <1>3, <1>4, <1>5, <1>6 DEF InCall

(* So does the start of one. *)
LEMMA CallerTypes ==
    ASSUME UartTypes, Caller
    PROVE  UartTypes'
<1> USE DEF UartTypes, host, core, buffers, calls
<1>1. CASE \E arg \in {0, Timeout} : altera_avalon_jtag_uart_ioctl(arg)
  BY <1>1 DEF altera_avalon_jtag_uart_ioctl
<1>2. ASSUME NEW some \in {1, BufLen}, NEW nonblock \in BOOLEAN,
             \/ altera_avalon_jtag_uart_write(some, nonblock)
             \/ altera_avalon_jtag_uart_read(some, nonblock)
             \/ altera_avalon_jtag_uart_close(nonblock)
      PROVE  UartTypes'
  <2>1. some \in Nat
    BY UartAssumption
  <2>2. thread' \in Calls /\ thread'.n <= thread'.left
    <3>1. PICK p \in {"load", "rload", "close"}, k \in {0, some} :
            thread' = [pc |-> p, left |-> k, n |-> 0, seen |-> 0, nonblock |-> nonblock,
                       moved |-> 0]
      BY <1>2 DEF altera_avalon_jtag_uart_write, altera_avalon_jtag_uart_read,
             altera_avalon_jtag_uart_close, NoCall
    <3>2. k \in Nat
      BY <2>1
    <3> QED
      BY <3>1, <3>2 DEF Calls, Places, Writing
  <2> QED
    BY <1>2, <2>2 DEF altera_avalon_jtag_uart_write, altera_avalon_jtag_uart_read,
           altera_avalon_jtag_uart_close
<1> QED
  BY <1>1, <1>2 DEF Caller

(* The handler. *)
LEMMA HandlerTypes ==
    ASSUME UartTypes, Handler
    PROVE  UartTypes'
<1> USE DEF UartTypes, host, core, buffers, calls
<1>1. CASE Dispatch \/ ReadControl
  BY <1>1 DEF Dispatch, Enter, alt_irq_entry, alt_irq_handler, PendingAgain, IsrGoto, ReadControl
<1>2. CASE Receive
  <2>1. Head(rfifo) \in Nat /\ Tail(rfifo) \in Seq(Nat) /\ Len(Tail(rfifo)) = Len(rfifo) - 1
    BY <1>2, HeadTailProperties DEF Receive
  <2>2. rx_in' \in Slot
    BY <1>2, PastSlot DEF Receive
  <2>3. rx_buf' \in [Slot -> Nat]
    BY <1>2, <2>1 DEF Receive
  <2>4. Len(rfifo') <= FifoLen
    BY <1>2, <2>1, UartAssumption, LenProperties DEF Receive
  <2> QED
    BY <1>2, <2>1, <2>2, <2>3, <2>4 DEF Receive
<1>3. CASE ReceiveEnd
  BY <1>3 DEF ReceiveEnd
<1>4. CASE Send
  <2>1. wfifo' \in Seq(Nat) /\ Len(wfifo') <= FifoLen
    <3>1. tx_buf[tx_out] \in Nat
      OBVIOUS
    <3>2. CASE Len(wfifo) < FifoLen
      <4>1. wfifo' = Append(wfifo, tx_buf[tx_out])
        BY <1>4, <3>2 DEF Send
      <4>2. wfifo' \in Seq(Nat) /\ Len(wfifo') = Len(wfifo) + 1
        BY <3>1, <4>1, AppendProperties
      <4> QED
        BY <3>2, <4>2, UartAssumption, LenProperties
    <3>3. CASE ~(Len(wfifo) < FifoLen)
      BY <1>4, <3>3 DEF Send
    <3> QED
      BY <3>2, <3>3
  <2>2. tx_out' \in Slot
    BY <1>4, PastSlot DEF Send
  <2> QED
    BY <1>4, <2>1, <2>2 DEF Send
<1>5. CASE SendEnd
  BY <1>5 DEF SendEnd
<1> QED
  BY <1>1, <1>2, <1>3, <1>4, <1>5 DEF Handler

(* The timer and the host. *)
LEMMA HostTypesKept ==
    ASSUME UartTypes,
           altera_avalon_jtag_uart_timeout \/ HostReads \/ HostTypes \/ HostPauses \/ Attach
    PROVE  UartTypes'
<1> USE DEF UartTypes, host, core, buffers, calls
<1>1. CASE altera_avalon_jtag_uart_timeout
  BY <1>1 DEF altera_avalon_jtag_uart_timeout
<1>2. CASE HostReads
  <2>1. Tail(wfifo) \in Seq(Nat) /\ Len(Tail(wfifo)) = Len(wfifo) - 1
    BY <1>2, HeadTailProperties DEF HostReads
  <2>2. Len(wfifo') <= FifoLen
    BY <1>2, <2>1, UartAssumption, LenProperties DEF HostReads
  <2> QED
    BY <1>2, <2>1, <2>2 DEF HostReads
<1>3. CASE HostTypes
  <2>1. Append(rfifo, typed + 1) \in Seq(Nat) /\ Len(Append(rfifo, typed + 1)) = Len(rfifo) + 1
    BY AppendProperties
  <2>2. Len(rfifo') <= FifoLen
    BY <1>3, <2>1, UartAssumption, LenProperties DEF HostTypes
  <2> QED
    BY <1>3, <2>1, <2>2 DEF HostTypes
<1>4. CASE HostPauses
  BY <1>4 DEF HostPauses
<1>5. CASE Attach
  BY <1>5 DEF Attach
<1> QED
  BY <1>1, <1>2, <1>3, <1>4, <1>5

(* Every step keeps the types. *)
LEMMA TypesStep ==
    ASSUME UartTypes, [UartNext]_uartvars
    PROVE  UartTypes'
<1>1. CASE UNCHANGED uartvars
  BY <1>1 DEF uartvars, buffers, core, host, calls, UartTypes
<1>2. CASE UartNext
  BY <1>2, InCallTypes, CallerTypes, HandlerTypes, HostTypesKept DEF UartNext
<1> QED
  BY <1>1, <1>2

-----------------------------------------------------------------------------
(* A step of the host never takes a request of the core back. *)
LEMMA HostKeepsPending ==
    ASSUME UartTypes, HostReads \/ HostTypes \/ HostPauses \/ Attach, Pending
    PROVE  Pending'
<1>1. CASE HostReads
  <2>1. Len(wfifo') = Len(wfifo) - 1
    BY <1>1, HeadTailProperties DEF HostReads, UartTypes
  <2>2. Len(wfifo) \in Nat
    BY LenProperties DEF UartTypes
  <2> QED
    BY <1>1, <2>1, <2>2, UartAssumption DEF HostReads, Pending, ipen_AF, ipen_AE
<1>2. CASE HostTypes
  <2>1. Len(rfifo') = Len(rfifo) + 1
    BY <1>2, AppendProperties DEF HostTypes, UartTypes
  <2>2. Len(rfifo) \in Nat
    BY LenProperties DEF UartTypes
  <2> QED
    BY <1>2, <2>1, <2>2, UartAssumption DEF HostTypes, Pending, ipen_AF, ipen_AE
<1>3. CASE HostPauses
  BY <1>3 DEF HostPauses, Pending, ipen_AF, ipen_AE
<1>4. CASE Attach
  BY <1>4 DEF Attach, core, Pending, ipen_AF, ipen_AE
<1> QED
  BY <1>1, <1>2, <1>3, <1>4

(* Every step keeps Interrupts: thread and timer do not run in between. *)
LEMMA InterruptsStep ==
    ASSUME UartTypes, Interrupts, [UartNext]_uartvars
    PROVE  Interrupts'
<1>1. CASE UNCHANGED uartvars
  BY <1>1 DEF uartvars, buffers, core, Interrupts, Pending, ipen_AF, ipen_AE
<1>2. CASE Caller \/ InCall \/ altera_avalon_jtag_uart_timeout
  <2>1. isr.pc = "off" /\ isr' = isr
    <3>1. CASE Caller
      BY <3>1 DEF Caller, altera_avalon_jtag_uart_ioctl, altera_avalon_jtag_uart_write,
             altera_avalon_jtag_uart_read, altera_avalon_jtag_uart_close, At
    <3>2. CASE InCall
      BY <3>2 DEF InCall, At, LoadOut, CopyIn, AdvanceIn, Kick, Spin, Spun, RLoad, AdvanceOut,
             RSpin, RDone, Drained
    <3>3. CASE altera_avalon_jtag_uart_timeout
      BY <3>3 DEF altera_avalon_jtag_uart_timeout
    <3> QED
      BY <1>2, <3>1, <3>2, <3>3
  <2> QED
    BY <2>1 DEF Interrupts
<1>3. CASE Dispatch
  <2>1. Pending' <=> Pending
    BY <1>3 DEF Dispatch, Enter, alt_irq_entry, alt_irq_handler, PendingAgain, IsrGoto, core,
           Pending, ipen_AF, ipen_AE
  <2>2. PICK to \in {"trap", "dispatch", "control", "off"} :
          /\ IsrGoto(to)
          /\ to \in {"trap", "dispatch"} => Pending
    BY <1>3 DEF Dispatch, Enter, alt_irq_entry, alt_irq_handler, PendingAgain, Interrupts
  <2>3. isr' \in Handlers /\ isr'.pc = to
    <3>1. CASE to = "off"
      BY <2>2, <3>1 DEF IsrGoto, Quiet, Handlers
    <3>2. CASE to # "off"
      BY <2>2, <3>2 DEF IsrGoto, Interrupts, Handlers
    <3> QED
      BY <3>1, <3>2
  <2> QED
    BY <2>1, <2>2, <2>3 DEF Interrupts
<1>4. CASE ReadControl
  <2>1. FifoLen - Len(wfifo) \in Nat
    BY UartAssumption, LenProperties DEF UartTypes
  <2> QED
    BY <1>4, <2>1 DEF ReadControl, Interrupts, Handlers, Quiet, ipen_AE
<1>5. CASE Receive \/ ReceiveEnd \/ Send \/ SendEnd
  <2>1. isr' \in Handlers
    <3>1. CASE Receive
      <4> DEFINE b == Len(rfifo) > 1
      <4>1. isr' = [isr EXCEPT !.avail = b] /\ b \in BOOLEAN
        BY <3>1 DEF Receive
      <4> HIDE DEF b
      <4> QED
        BY <4>1 DEF Interrupts, Handlers
    <3>2. CASE ReceiveEnd
      BY <3>2 DEF ReceiveEnd, Interrupts, Handlers
    <3>3. CASE Send
      BY <3>3 DEF Send, Interrupts, Handlers
    <3>4. CASE SendEnd
      BY <3>4 DEF SendEnd, Interrupts, Handlers, Quiet
    <3> QED
      BY <1>5, <3>1, <3>2, <3>3, <3>4
  <2>2. isr'.pc \notin {"trap", "dispatch"}
    BY <1>5 DEF Receive, ReceiveEnd, Send, SendEnd, Interrupts, Handlers, Quiet
  <2> QED
    BY <2>1, <2>2 DEF Interrupts
<1>6. CASE HostReads \/ HostTypes \/ HostPauses \/ Attach
  <2>1. isr' = isr
    BY <1>6 DEF HostReads, HostTypes, HostPauses, Attach
  <2> QED
    BY <1>6, <2>1, HostKeepsPending DEF Interrupts
<1> QED
  BY <1>1, <1>2, <1>3, <1>4, <1>5, <1>6 DEF UartNext, Handler

(* Every step keeps Wakes. *)
LEMMA WakesStep ==
    ASSUME UartTypes, Wakes, [UartNext]_uartvars
    PROVE  Wakes'
<1>0. BufLen \in Nat /\ BufLen > 1
  BY UartAssumption
<1>1. CASE UNCHANGED uartvars
  BY <1>1 DEF uartvars, buffers, calls, Wakes
<1>2. CASE Caller
  BY <1>2 DEF Caller, altera_avalon_jtag_uart_ioctl, altera_avalon_jtag_uart_write,
         altera_avalon_jtag_uart_read, altera_avalon_jtag_uart_close, At, NoCall, buffers,
         calls, Wakes, Writing
<1>3. CASE LoadOut \/ CopyIn \/ AdvanceIn
  BY <1>3 DEF LoadOut, CopyIn, AdvanceIn, At, ThreadGoto, buffers, Wakes, Writing, UartTypes, Calls
<1>4. CASE Kick \/ Spin \/ Spun \/ RSpin \/ Drained
  BY <1>4 DEF Kick, Spin, Spun, RSpin, Drained, At, ThreadGoto, buffers, Wakes, Writing,
         UartTypes, Calls
<1>5. CASE RLoad
  <2>2. thread \in Calls /\ thread.left \in Nat
    BY DEF UartTypes, Calls
  <2>3. UNCHANGED <<tx_in, tx_out, rx_in, rx_out, irq_enable>> /\ thread.pc = "rload"
    BY <1>5 DEF RLoad, At, buffers
  <2>4. \/ thread'.pc \in {"rcopy", "rdone"} /\ thread'.moved = thread.moved
        \/ ~(thread.moved > 0)
    <3> DEFINE n == Least(Ready(rx_in, rx_out), thread.left)
    <3>1. \/ thread' = [thread EXCEPT !.n = n, !.pc = "rcopy"]
          \/ ThreadGoto("rdone")
          \/ thread.moved = 0
      BY <1>5 DEF RLoad
    <3>2. CASE thread.moved = 0
      BY <3>2
    <3>3. CASE thread' = [thread EXCEPT !.n = n, !.pc = "rcopy"]
      BY <2>2, <3>3 DEF Calls
    <3>4. CASE ThreadGoto("rdone")
      BY <2>2, <3>4 DEF ThreadGoto, Calls
    <3> QED
      BY <3>1, <3>2, <3>3, <3>4
  <2> QED
    BY <2>3, <2>4 DEF Wakes, Writing
<1>6. CASE AdvanceOut
  <2>1. thread \in Calls /\ thread.left \in Nat
    BY DEF UartTypes, Calls
  <2>2. thread'.moved = 1 /\ thread'.pc \in {"rload", "rdone"} /\ thread.pc = "rcopy"
    BY <1>6, <2>1 DEF AdvanceOut, At, Calls
  <2> QED
    BY <1>6, <2>2 DEF AdvanceOut, Wakes, Writing
<1>13. CASE RDone
  BY <1>13 DEF RDone, At, ThreadGoto, NoCall, buffers, Wakes, Writing
<1>7. CASE Dispatch \/ ReadControl
  BY <1>7 DEF Dispatch, Enter, alt_irq_entry, alt_irq_handler, PendingAgain, IsrGoto, ReadControl,
         buffers, calls, Wakes
<1>8. CASE Receive
  BY <1>8 DEF Receive, RxFull, calls, Wakes
<1>9. CASE ReceiveEnd
  <2>1. RxFull => rx_in # rx_out
    <3>1. rx_in \in Slot /\ 1 \in Nat /\ 1 < BufLen
      BY <1>0 DEF UartTypes
    <3>2. Past(rx_in, 1) = IF rx_in + 1 < BufLen THEN rx_in + 1 ELSE rx_in + 1 - BufLen
      BY <3>1, PastSlot
    <3> QED
      BY <1>0, <3>1, <3>2 DEF RxFull, Slot
  <2> QED
    BY <1>9, <2>1 DEF ReceiveEnd, buffers, calls, Wakes
<1>10. CASE Send
  BY <1>10 DEF Send, calls, Wakes
<1>11. CASE SendEnd
  BY <1>11 DEF SendEnd, buffers, calls, Wakes
<1>12. CASE altera_avalon_jtag_uart_timeout \/ HostReads \/ HostTypes \/ HostPauses \/ Attach
  BY <1>12 DEF altera_avalon_jtag_uart_timeout, HostReads, HostTypes, HostPauses, Attach,
         buffers, calls, Wakes
<1> QED
  BY <1>1, <1>2, <1>3, <1>4, <1>5, <1>6, <1>7, <1>8, <1>9, <1>10, <1>11, <1>12, <1>13
  DEF UartNext, InCall, Handler

-----------------------------------------------------------------------------
(* No bytes yet. *)
LEMMA BytesInit == UartInit => Outgoing /\ Incoming
<1> SUFFICES ASSUME UartInit
             PROVE  Outgoing /\ Incoming
  OBVIOUS
<1>1. 0 \in Slot /\ Dist(0, 0) = 0
  BY UartAssumption DEF Slot, Dist
<1>2. \A s \in Slot : ~(Dist(0, s) < 0)
  <2>1. ASSUME NEW s \in Slot
        PROVE  Dist(0, s) \in 0 .. BufLen - 1
    BY <1>1, Distance
  <2> QED
    BY <2>1, UartAssumption
<1>3. TxCount = 0 /\ RxCount = 0 /\ tx_out = 0 /\ rx_out = 0
  BY <1>1 DEF UartInit, TxCount, RxCount
<1>4. thread.pc = "idle" /\ isr.pc = "off"
  BY DEF UartInit, NoCall, Quiet
<1>5. wfifo = <<>> /\ rfifo = <<>> /\ given = 0 /\ taken = 0 /\ typed = 0 /\ returned = 0
  BY DEF UartInit
<1>6. Outgoing
  BY <1>2, <1>3, <1>4, <1>5 DEF Outgoing
<1>7. Incoming
  BY <1>2, <1>3, <1>4, <1>5 DEF Incoming
<1> QED
  BY <1>6, <1>7

(* What the following lemmas need of the types. *)
LEMMA Ranges ==
    ASSUME UartTypes
    PROVE  /\ BufLen \in Nat /\ BufLen > 1 /\ FifoLen \in Nat
           /\ TxCount \in 0 .. BufLen - 1 /\ RxCount \in 0 .. BufLen - 1
           /\ Len(wfifo) \in Nat /\ Len(rfifo) \in Nat
           /\ thread.n \in Nat /\ thread.left \in Nat
<1>1. BufLen \in Nat /\ BufLen > 1 /\ FifoLen \in Nat
  BY UartAssumption
<1>2. TxCount \in 0 .. BufLen - 1 /\ RxCount \in 0 .. BufLen - 1
  BY Distance DEF UartTypes, TxCount, RxCount
<1>3. Len(wfifo) \in Nat /\ Len(rfifo) \in Nat
  BY LenProperties DEF UartTypes
<1>4. thread.n \in Nat /\ thread.left \in Nat
  BY DEF UartTypes, Calls
<1> QED
  BY <1>1, <1>2, <1>3, <1>4

(* What write() does to the bytes. *)
LEMMA OutgoingThread ==
    ASSUME UartTypes, Outgoing, InCall
    PROVE  Outgoing'
<1>0. /\ BufLen \in Nat /\ BufLen > 1 /\ TxCount \in 0 .. BufLen - 1
      /\ Len(wfifo) \in Nat /\ thread.n \in Nat /\ thread.left \in Nat
  BY Ranges
<1>1. tx_in \in Slot /\ tx_out \in Slot /\ given \in Nat /\ taken \in Nat
  BY DEF UartTypes
<1>2. isr' = isr /\ isr.pc = "off" /\ wfifo' = wfifo /\ tx_out' = tx_out /\ taken' = taken
  BY DEF InCall, At, LoadOut, CopyIn, AdvanceIn, Kick, Spin, Spun, RLoad, AdvanceOut,
         RSpin, RDone, Drained, buffers, core, host
<1>3. CASE LoadOut
  <2> DEFINE n == Least(Room(tx_in, tx_out), thread.left)
  <2>1. Room(tx_in, tx_out) \in Nat /\ Room(tx_in, tx_out) <= BufLen - 1 - TxCount
    BY <1>0, <1>1 DEF Room, TxCount, Dist, Slot
  <2>2. n <= BufLen - 1 - TxCount
    <3>1. n \in Nat /\ n <= Room(tx_in, tx_out)
      BY <1>0, <2>1, LeastOf
    <3> HIDE DEF n
    <3> QED
      BY <1>0, <2>1, <3>1
  <2>3. thread' = [thread EXCEPT !.n = n, !.pc = IF n = 0 THEN "kick" ELSE "copy",
                                 !.seen = IF thread.left > 0 THEN tx_out ELSE 0]
    BY <1>3 DEF LoadOut
  <2>4. thread'.pc # "advance" /\ thread'.n = n
    <3> HIDE DEF n
    <3> QED
      BY <2>3 DEF UartTypes, Calls
  <2>5. UNCHANGED <<tx_in, tx_out, tx_buf, given, taken, wfifo>>
    BY <1>3, <1>2 DEF LoadOut, buffers
  <2> HIDE DEF n
  <2> QED
    BY <1>2, <2>2, <2>4, <2>5 DEF Outgoing, TxCount
<1>4. CASE CopyIn
  <2>1. thread' = [thread EXCEPT !.pc = "advance"] /\ thread.pc = "copy"
    BY <1>4 DEF CopyIn, ThreadGoto, At
  <2>2. thread'.n = thread.n /\ thread'.pc = "advance"
    BY <2>1 DEF UartTypes, Calls
  <2>3. UNCHANGED <<tx_in, tx_out, given, taken, wfifo>>
    BY <1>4, <1>2 DEF CopyIn
  <2>4. ASSUME NEW s \in Slot
        PROVE  tx_buf'[s] = IF Dist(tx_in, s) < thread.n THEN given + 1 + Dist(tx_in, s)
                            ELSE tx_buf[s]
    <3>1. tx_buf' = Filled(tx_buf, tx_in, thread.n, given + 1)
      BY <1>4 DEF CopyIn
    <3>2. (s + BufLen - tx_in) % BufLen = Dist(tx_in, s)
      BY <1>1, Modulo
    <3> QED
      BY <3>1, <3>2 DEF Filled, Slot
  <2>5. ASSUME NEW s \in Slot, Dist(tx_out, s) < TxCount
        PROVE  tx_buf'[s] = tx_buf[s]
    <3>1. Dist(tx_in, s) = Dist(tx_out, s) - TxCount + BufLen
      BY <1>0, <1>1, <2>5, Distance, DistanceFrom DEF TxCount
    <3>2. Dist(tx_out, s) \in Nat
      BY <1>0, <1>1, Distance
    <3>3. thread.n <= BufLen - 1 - TxCount
      BY <2>1 DEF Outgoing
    <3>4. ~(Dist(tx_in, s) < thread.n)
      BY <1>0, <3>1, <3>2, <3>3
    <3> QED
      BY <2>4, <3>4
  <2>6. ASSUME NEW s \in Slot, Dist(tx_in, s) < thread.n
        PROVE  tx_buf'[s] = given + Dist(tx_in, s) + 1
    <3>1. Dist(tx_in, s) \in Nat
      BY <1>0, <1>1, Distance
    <3> QED
      BY <1>1, <2>4, <2>6, <3>1
  <2> QED
    BY <1>2, <2>1, <2>2, <2>3, <2>5, <2>6 DEF Outgoing, TxCount
<1>5. CASE AdvanceIn
  <2>1. thread.pc = "advance" /\ tx_in' = Past(tx_in, thread.n) /\ given' = given + thread.n
        /\ tx_buf' = tx_buf
    BY <1>5 DEF AdvanceIn, At
  <2>2. TxCount + thread.n < BufLen
    BY <1>0, <2>1 DEF Outgoing
  <2>3. TxCount' = TxCount + thread.n
    BY <1>0, <1>1, <1>2, <2>1, <2>2, DistanceToPast DEF TxCount
  <2>4. thread'.pc = "load"
    BY <1>5 DEF AdvanceIn, UartTypes, Calls
  <2>5. ASSUME NEW s \in Slot, Dist(tx_out, s) < TxCount + thread.n
        PROVE  tx_buf[s] = taken + Len(wfifo) + Dist(tx_out, s) + 1
    <3>1. Dist(tx_out, s) \in Nat
      BY <1>0, <1>1, Distance
    <3>2. CASE Dist(tx_out, s) < TxCount
      BY <3>2 DEF Outgoing
    <3>3. CASE Dist(tx_out, s) >= TxCount
      <4>1. Dist(tx_in, s) = Dist(tx_out, s) - TxCount
        BY <1>1, <3>3, DistanceFrom DEF TxCount
      <4>2. Dist(tx_in, s) < thread.n
        BY <1>0, <2>5, <3>1, <4>1
      <4>3. tx_buf[s] = given + Dist(tx_in, s) + 1
        BY <2>1, <4>2 DEF Outgoing
      <4>4. given = taken + Len(wfifo) + TxCount
        BY DEF Outgoing
      <4> QED
        BY <1>0, <1>1, <3>1, <4>1, <4>3, <4>4
    <3> QED
      BY <1>0, <3>1, <3>2, <3>3
  <2>6. given' = taken + Len(wfifo) + (TxCount + thread.n)
    BY <1>0, <1>1, <2>1 DEF Outgoing
  <2> QED
    BY <1>2, <2>1, <2>3, <2>4, <2>5, <2>6 DEF Outgoing
<1>6. CASE Kick \/ Spin \/ Spun \/ RLoad \/ AdvanceOut \/ RSpin \/ RDone \/ Drained
  <2>1. UNCHANGED <<tx_in, tx_buf, given>>
    BY <1>6 DEF Kick, Spin, Spun, RLoad, AdvanceOut, RSpin, RDone, Drained, buffers
  <2>2. thread'.pc \notin {"copy", "advance"}
    <3>1. CASE Kick \/ Spin \/ Spun \/ RSpin \/ RDone \/ Drained
      <4>1. PICK p \in Places \ {"copy", "advance"} : ThreadGoto(p)
        BY <3>1 DEF Kick, AfterKick, Spin, Spun, RSpin, RDone, Drained, Places, Writing
      <4> QED
        BY <4>1, GoneTo
    <3>2. CASE RLoad
      <4>1. CASE \E n \in {Least(Ready(rx_in, rx_out), thread.left)} :
                   thread' = [thread EXCEPT !.n = n, !.pc = "rcopy"]
        BY <4>1 DEF UartTypes, Calls
      <4>2. CASE ThreadGoto("rdone") \/ ThreadGoto("idle")
        BY <4>2, GoneTo
      <4>3. CASE thread' = [thread EXCEPT !.seen = rx_in, !.pc = "rspin"]
        BY <4>3 DEF UartTypes, Calls
      <4> QED
        BY <3>2, <4>1, <4>2, <4>3 DEF RLoad
    <3>3. CASE AdvanceOut
      BY <3>3 DEF AdvanceOut, UartTypes, Calls
    <3> QED
      BY <1>6, <3>1, <3>2, <3>3
  <2> QED
    BY <1>2, <2>1, <2>2 DEF Outgoing, TxCount
<1> QED
  BY <1>3, <1>4, <1>5, <1>6 DEF InCall

(* What the handler does to the bytes of write(). *)
LEMMA OutgoingHandler ==
    ASSUME UartTypes, Interrupts, Outgoing, Handler
    PROVE  Outgoing'
<1>0. /\ BufLen \in Nat /\ BufLen > 1 /\ TxCount \in 0 .. BufLen - 1 /\ FifoLen \in Nat
      /\ Len(wfifo) \in Nat /\ thread.n \in Nat
  BY Ranges
<1>1. tx_in \in Slot /\ tx_out \in Slot /\ given \in Nat /\ taken \in Nat /\ isr.space \in Nat
  BY DEF UartTypes, Interrupts, Handlers
<1>2. UNCHANGED <<tx_in, tx_buf, given, taken, thread>>
  BY DEF Handler, Dispatch, Enter, alt_irq_entry, alt_irq_handler, PendingAgain, IsrGoto,
         ReadControl, Receive, ReceiveEnd, Send, SendEnd, buffers, calls, host
<1>3. CASE Send
  <2>1. Len(wfifo) < FifoLen
    BY <1>0, <1>1, <1>3 DEF Send, Outgoing
  <2>2. wfifo' = Append(wfifo, tx_buf[tx_out]) /\ tx_out' = Past(tx_out, 1)
        /\ isr' = [isr EXCEPT !.space = isr.space - 1] /\ tx_out # tx_in /\ isr.pc = "send"
    BY <1>3, <2>1 DEF Send
  <2>3. Len(wfifo') = Len(wfifo) + 1 /\ wfifo'[Len(wfifo) + 1] = tx_buf[tx_out]
        /\ \A k \in 1 .. Len(wfifo) : wfifo'[k] = wfifo[k]
    BY <1>1, <2>2, AppendProperties DEF UartTypes
  <2>4. TxCount > 0 /\ Dist(tx_out, tx_out) = 0
    BY <1>0, <1>1, <2>2, Distance DEF TxCount
  <2>5. tx_buf[tx_out] = taken + Len(wfifo) + 1
    BY <1>0, <1>1, <2>4 DEF Outgoing
  <2>6. Past(tx_out, 1) \in Slot /\ Dist(tx_out, Past(tx_out, 1)) = 1
    <3>1. 1 \in Nat /\ Dist(tx_out, tx_out) + 1 < BufLen
      BY <1>0, <2>4
    <3>2. Past(tx_out, 1) \in Slot
      BY <1>1, PastSlot
    <3>3. Dist(tx_out, Past(tx_out, 1)) = Dist(tx_out, tx_out) + 1
      BY <1>1, <3>1, DistanceToPast
    <3> QED
      BY <2>4, <3>2, <3>3
  <2>7. ASSUME NEW s \in Slot
        PROVE  Dist(Past(tx_out, 1), s) = IF s = tx_out THEN BufLen - 1 ELSE Dist(tx_out, s) - 1
    <3>1. Dist(Past(tx_out, 1), s) = IF Dist(tx_out, s) >= 1 THEN Dist(tx_out, s) - 1
                                     ELSE Dist(tx_out, s) - 1 + BufLen
      BY <1>1, <2>6, DistanceFrom
    <3>2. Dist(tx_out, s) \in Nat /\ (Dist(tx_out, s) = 0 <=> s = tx_out)
      BY <1>0, <1>1, Distance
    <3> QED
      BY <1>0, <3>1, <3>2
  <2>8. TxCount' = TxCount - 1
    BY <1>1, <1>2, <2>2, <2>7 DEF TxCount
  <2>9. given = taken + Len(wfifo') + TxCount'
    BY <1>0, <1>1, <2>3, <2>8 DEF Outgoing
  <2>10. \A k \in 1 .. Len(wfifo') : wfifo'[k] = taken + k
    <3>1. ASSUME NEW k \in 1 .. Len(wfifo')
          PROVE  wfifo'[k] = taken + k
      <4>1. CASE k = Len(wfifo) + 1
        BY <1>0, <1>1, <2>3, <2>5, <4>1
      <4>2. CASE k # Len(wfifo) + 1
        <5>1. k \in 1 .. Len(wfifo)
          BY <1>0, <2>3, <4>2
        <5> QED
          BY <2>3, <5>1 DEF Outgoing
      <4> QED
        BY <4>1, <4>2
    <3> QED
      BY <3>1
  <2>11. ASSUME NEW s \in Slot, Dist(Past(tx_out, 1), s) < TxCount'
         PROVE  tx_buf[s] = taken + Len(wfifo') + Dist(Past(tx_out, 1), s) + 1
    <3>1. s # tx_out
      BY <1>0, <2>7, <2>8, <2>11
    <3>2. Dist(Past(tx_out, 1), s) = Dist(tx_out, s) - 1 /\ Dist(tx_out, s) \in Nat
      BY <1>0, <1>1, <2>7, <3>1, Distance
    <3>3. tx_buf[s] = taken + Len(wfifo) + Dist(tx_out, s) + 1
      BY <1>0, <2>8, <2>11, <3>2 DEF Outgoing
    <3> QED
      BY <1>0, <1>1, <2>3, <3>2, <3>3
  <2>12. isr'.pc \in {"receive", "send"} => isr'.space <= FifoLen - Len(wfifo')
    <3>1. isr'.space = isr.space - 1
      BY <2>2 DEF Interrupts, Handlers
    <3> QED
      BY <1>0, <1>1, <2>2, <2>3, <3>1 DEF Outgoing
  <2>13. thread.pc \in {"copy", "advance"} => thread.n <= BufLen - 1 - TxCount'
    BY <1>0, <2>8 DEF Outgoing
  <2> QED
    BY <1>2, <2>2, <2>9, <2>10, <2>11, <2>12, <2>13 DEF Outgoing
<1>4. CASE Dispatch \/ ReadControl \/ Receive \/ ReceiveEnd \/ SendEnd
  <2>1. UNCHANGED <<tx_out, wfifo>>
    BY <1>4 DEF Dispatch, Enter, alt_irq_entry, alt_irq_handler, PendingAgain, IsrGoto,
           ReadControl, Receive, ReceiveEnd, SendEnd, buffers, core
  <2>2. isr'.pc \in {"receive", "send"} => isr'.space <= FifoLen - Len(wfifo)
    <3>1. CASE Dispatch \/ SendEnd
      BY <3>1 DEF Dispatch, Enter, alt_irq_entry, alt_irq_handler, PendingAgain, IsrGoto, SendEnd,
             Quiet, Interrupts, Handlers
    <3>2. CASE ReadControl
      BY <1>0, <3>2 DEF ReadControl, Quiet
    <3>3. CASE Receive \/ ReceiveEnd
      <4>1. isr'.space = isr.space /\ isr.pc = "receive"
        BY <3>3 DEF Receive, ReceiveEnd, Interrupts, Handlers
      <4> QED
        BY <4>1 DEF Outgoing
    <3> QED
      BY <1>4, <3>1, <3>2, <3>3
  <2> QED
    BY <1>2, <2>1, <2>2 DEF Outgoing, TxCount
<1> QED
  BY <1>3, <1>4 DEF Handler

(* What the callers, the timer and the host do to the bytes of write(). *)
LEMMA OutgoingHost ==
    ASSUME UartTypes, Interrupts, Outgoing,
           \/ Caller \/ altera_avalon_jtag_uart_timeout
           \/ HostReads \/ HostTypes \/ HostPauses \/ Attach
    PROVE  Outgoing'
<1>0. /\ BufLen \in Nat /\ BufLen > 1 /\ TxCount \in 0 .. BufLen - 1 /\ FifoLen \in Nat
      /\ Len(wfifo) \in Nat /\ given \in Nat /\ taken \in Nat /\ isr.space \in Nat
  BY Ranges DEF UartTypes, Interrupts, Handlers
<1>1. CASE Caller
  <2>1. UNCHANGED <<buffers, wfifo, taken, given, isr>>
    BY <1>1 DEF Caller, altera_avalon_jtag_uart_ioctl, altera_avalon_jtag_uart_write,
           altera_avalon_jtag_uart_read, altera_avalon_jtag_uart_close, core, host, calls
  <2>2. thread'.pc \notin {"copy", "advance"}
    BY <1>1 DEF Caller, altera_avalon_jtag_uart_ioctl, altera_avalon_jtag_uart_write,
           altera_avalon_jtag_uart_read, altera_avalon_jtag_uart_close, NoCall, calls, At
  <2> QED
    BY <2>1, <2>2 DEF Outgoing, TxCount, buffers
<1>2. CASE altera_avalon_jtag_uart_timeout \/ HostTypes \/ HostPauses \/ Attach
  <2>1. UNCHANGED <<buffers, wfifo, taken, given, isr, thread>>
    BY <1>2 DEF altera_avalon_jtag_uart_timeout, HostTypes, HostPauses, Attach, core, host, calls
  <2> QED
    BY <2>1 DEF Outgoing, TxCount, buffers
<1>3. CASE HostReads
  <2>1. UNCHANGED <<buffers, given, isr, thread>> /\ taken' = taken + 1 /\ wfifo' = Tail(wfifo)
        /\ wfifo # <<>>
    BY <1>3 DEF HostReads, calls
  <2>2. Len(wfifo') = Len(wfifo) - 1 /\ \A k \in 1 .. Len(wfifo') : wfifo'[k] = wfifo[k + 1]
    BY <2>1, HeadTailProperties DEF UartTypes
  <2>3. Len(wfifo') \in Nat
    BY <2>1, HeadTailProperties, LenProperties DEF UartTypes
  <2>4. taken' + Len(wfifo') = taken + Len(wfifo)
    BY <1>0, <2>1, <2>2
  <2>5. TxCount' = TxCount
    BY <2>1 DEF TxCount, buffers
  <2>6. given = taken' + Len(wfifo') + TxCount
    BY <2>4 DEF Outgoing
  <2>7. ASSUME NEW k \in 1 .. Len(wfifo')
        PROVE  wfifo'[k] = taken' + k
    <3>1. k + 1 \in 1 .. Len(wfifo)
      BY <1>0, <2>2
    <3>2. wfifo[k + 1] = taken + (k + 1)
      BY <3>1 DEF Outgoing
    <3> QED
      BY <1>0, <2>1, <2>2, <3>2
  <2>8. \A s \in Slot :
          Dist(tx_out, s) < TxCount => tx_buf[s] = taken' + Len(wfifo') + Dist(tx_out, s) + 1
    BY <2>4 DEF Outgoing
  <2>9. isr.pc \in {"receive", "send"} => isr.space <= FifoLen - Len(wfifo')
    <3>1. ASSUME isr.pc \in {"receive", "send"}
          PROVE  isr.space <= FifoLen - Len(wfifo')
      <4>1. isr.space <= FifoLen - Len(wfifo)
        BY <3>1 DEF Outgoing
      <4> QED
        BY <1>0, <2>2, <2>3, <4>1
    <3> QED
      BY <3>1
  <2> QED
    BY <2>1, <2>5, <2>6, <2>7, <2>8, <2>9 DEF Outgoing, buffers
<1> QED
  BY <1>1, <1>2, <1>3

(* What the handler does to the bytes that were typed. *)
LEMMA IncomingReceive ==
    ASSUME UartTypes, Incoming, Receive
    PROVE  Incoming'
<1>0. /\ BufLen \in Nat /\ BufLen > 1 /\ RxCount \in 0 .. BufLen - 1
      /\ Len(rfifo) \in Nat /\ thread.n \in Nat
  BY Ranges
<1>1. rx_in \in Slot /\ rx_out \in Slot /\ typed \in Nat /\ returned \in Nat
  BY DEF UartTypes
<1>2. /\ UNCHANGED <<rx_out, typed, returned, thread>> /\ Past(rx_in, 1) # rx_out /\ rfifo # <<>>
      /\ rx_buf' = [rx_buf EXCEPT ![rx_in] = Head(rfifo)] /\ rx_in' = Past(rx_in, 1)
      /\ rfifo' = Tail(rfifo)
  BY DEF Receive, RxFull, calls, host
<1>3. /\ Len(rfifo') = Len(rfifo) - 1 /\ Head(rfifo) = rfifo[1]
      /\ \A k \in 1 .. Len(rfifo') : rfifo'[k] = rfifo[k + 1]
  BY <1>2, HeadTailProperties DEF UartTypes
<1>4. Len(rfifo') \in Nat
  BY <1>2, HeadTailProperties, LenProperties DEF UartTypes
<1>5. Past(rx_in, 1) \in Slot
  BY <1>1, PastSlot
<1>6. RxCount + 1 < BufLen
  <2>1. Past(rx_in, 1) = IF rx_in + 1 < BufLen THEN rx_in + 1 ELSE rx_in + 1 - BufLen
    BY <1>0, <1>1, PastSlot
  <2> QED
    BY <1>0, <1>1, <1>2, <2>1 DEF RxCount, Dist, Slot
<1>7. RxCount' = RxCount + 1
  BY <1>0, <1>1, <1>2, <1>6, DistanceToPast DEF RxCount
<1>8. Head(rfifo) = returned + RxCount + 1
  BY <1>0, <1>3, <1>4 DEF Incoming
<1>9. typed = returned + RxCount' + Len(rfifo')
  BY <1>0, <1>1, <1>3, <1>7 DEF Incoming
<1>10. ASSUME NEW k \in 1 .. Len(rfifo')
       PROVE  rfifo'[k] = returned + RxCount' + k
  <2>1. k + 1 \in 1 .. Len(rfifo)
    BY <1>0, <1>3
  <2>2. rfifo[k + 1] = returned + RxCount + (k + 1)
    BY <2>1 DEF Incoming
  <2> QED
    BY <1>0, <1>1, <1>3, <1>7, <2>2
<1>11. ASSUME NEW s \in Slot, Dist(rx_out, s) < RxCount'
       PROVE  rx_buf'[s] = returned + Dist(rx_out, s) + 1
  <2>1. Dist(rx_out, s) \in Nat
    BY <1>0, <1>1, Distance
  <2>2. CASE s = rx_in
    <3>1. rx_buf'[s] = Head(rfifo) /\ Dist(rx_out, s) = RxCount
      BY <1>2, <2>2 DEF UartTypes, RxCount
    <3> QED
      BY <1>8, <3>1
  <2>3. CASE s # rx_in
    <3>1. rx_buf'[s] = rx_buf[s]
      BY <1>2, <2>3 DEF UartTypes
    <3>2. Dist(rx_out, s) # RxCount
      BY <1>1, <2>3, UartAssumption DEF RxCount, Dist, Slot
    <3>3. Dist(rx_out, s) < RxCount
      BY <1>0, <1>7, <1>11, <2>1, <3>2
    <3> QED
      BY <3>1, <3>3 DEF Incoming
  <2> QED
    BY <2>2, <2>3
<1>12. thread.pc = "rcopy" => thread.n <= RxCount'
  BY <1>0, <1>7 DEF Incoming
<1> QED
  BY <1>2, <1>9, <1>10, <1>11, <1>12 DEF Incoming

(* What read() does to the bytes that were typed. *)
LEMMA IncomingThread ==
    ASSUME UartTypes, Incoming, InCall
    PROVE  Incoming'
<1>0. /\ BufLen \in Nat /\ BufLen > 1 /\ RxCount \in 0 .. BufLen - 1
      /\ Len(rfifo) \in Nat /\ thread.n \in Nat /\ thread.left \in Nat
  BY Ranges
<1>1. rx_in \in Slot /\ rx_out \in Slot /\ typed \in Nat /\ returned \in Nat
  BY DEF UartTypes
<1>2. UNCHANGED <<rx_in, rx_buf, rfifo, typed>>
  BY DEF InCall, LoadOut, CopyIn, AdvanceIn, Kick, Spin, Spun, RLoad, AdvanceOut, RSpin, RDone,
         Drained, buffers, core, host
<1>3. CASE RLoad
  <2> DEFINE n == Least(Ready(rx_in, rx_out), thread.left)
  <2>1. n \in Nat /\ n <= RxCount
    <3>1. Ready(rx_in, rx_out) \in Nat /\ Ready(rx_in, rx_out) <= RxCount
      BY <1>0, <1>1 DEF Ready, RxCount, Dist, Slot
    <3>2. n \in Nat /\ n <= Ready(rx_in, rx_out)
      BY <1>0, <3>1, LeastOf
    <3> HIDE DEF n
    <3> QED
      BY <1>0, <3>1, <3>2
  <2>2. \/ thread' = [thread EXCEPT !.n = n, !.pc = "rcopy"]
        \/ ThreadGoto("rdone") \/ ThreadGoto("idle")
        \/ thread' = [thread EXCEPT !.seen = rx_in, !.pc = "rspin"]
    BY <1>3 DEF RLoad
  <2> HIDE DEF n
  <2>3. thread'.pc = "rcopy" => thread'.n = n
    <3>1. CASE ThreadGoto("rdone") \/ ThreadGoto("idle")
      BY <3>1, GoneTo
    <3>2. CASE \/ thread' = [thread EXCEPT !.n = n, !.pc = "rcopy"]
               \/ thread' = [thread EXCEPT !.seen = rx_in, !.pc = "rspin"]
      BY <3>2 DEF UartTypes, Calls
    <3> QED
      BY <2>2, <3>1, <3>2
  <2>4. UNCHANGED <<rx_out, returned>>
    BY <1>3 DEF RLoad, buffers
  <2> QED
    BY <1>2, <2>1, <2>3, <2>4 DEF Incoming, RxCount
<1>4. CASE AdvanceOut
  <2>1. thread.pc = "rcopy" /\ rx_out' = Past(rx_out, thread.n) /\ returned' = returned + thread.n
    BY <1>4 DEF AdvanceOut, At
  <2>2. thread'.pc # "rcopy"
    BY <1>4 DEF AdvanceOut, UartTypes, Calls
  <2>3. thread.n <= RxCount
    BY <2>1 DEF Incoming
  <2>4. Past(rx_out, thread.n) \in Slot /\ Dist(rx_out, Past(rx_out, thread.n)) = thread.n
    <3>1. Past(rx_out, thread.n) \in Slot
      BY <1>0, <1>1, PastSlot
    <3>2. Dist(rx_out, rx_out) = 0
      BY <1>1, Distance
    <3>3. Dist(rx_out, rx_out) + thread.n < BufLen
      BY <1>0, <2>3, <3>2
    <3>4. Dist(rx_out, Past(rx_out, thread.n)) = Dist(rx_out, rx_out) + thread.n
      BY <1>0, <1>1, <3>3, DistanceToPast
    <3> QED
      BY <1>0, <3>1, <3>2, <3>4
  <2>5. ASSUME NEW s \in Slot
        PROVE  Dist(rx_out', s) = IF Dist(rx_out, s) >= thread.n THEN Dist(rx_out, s) - thread.n
                                  ELSE Dist(rx_out, s) - thread.n + BufLen
    BY <1>1, <2>1, <2>4, DistanceFrom
  <2>6. RxCount' = RxCount - thread.n
    BY <1>1, <1>2, <2>3, <2>5 DEF RxCount
  <2>7. typed = returned' + RxCount' + Len(rfifo)
    BY <1>0, <1>1, <2>1, <2>6 DEF Incoming
  <2>8. returned' + RxCount' = returned + RxCount
    BY <1>0, <1>1, <2>1, <2>6
  <2>9. \A k \in 1 .. Len(rfifo) : rfifo[k] = returned' + RxCount' + k
    BY <2>8 DEF Incoming
  <2>10. ASSUME NEW s \in Slot, Dist(rx_out', s) < RxCount'
         PROVE  rx_buf[s] = returned' + Dist(rx_out', s) + 1
    <3>1. Dist(rx_out, s) \in Nat
      BY <1>0, <1>1, Distance
    <3>2. Dist(rx_out, s) >= thread.n /\ Dist(rx_out, s) < RxCount
      BY <1>0, <2>5, <2>6, <2>10, <3>1
    <3>3. rx_buf[s] = returned + Dist(rx_out, s) + 1
      BY <3>2 DEF Incoming
    <3>4. Dist(rx_out', s) = Dist(rx_out, s) - thread.n
      BY <2>5, <3>2
    <3> QED
      BY <1>0, <1>1, <2>1, <3>1, <3>3, <3>4
  <2> QED
    BY <1>2, <2>2, <2>7, <2>9, <2>10 DEF Incoming
<1>5. CASE LoadOut \/ CopyIn \/ AdvanceIn \/ Kick \/ Spin \/ Spun \/ RSpin \/ RDone \/ Drained
  <2>1. UNCHANGED <<rx_out, returned>>
    BY <1>5 DEF LoadOut, CopyIn, AdvanceIn, Kick, Spin, Spun, RSpin, RDone, Drained, buffers
  <2>2. thread'.pc # "rcopy"
    <3>1. CASE CopyIn \/ Kick \/ Spin \/ Spun \/ RSpin \/ RDone \/ Drained
      <4>1. PICK p \in Places \ {"rcopy"} : ThreadGoto(p)
        BY <3>1 DEF CopyIn, Kick, AfterKick, Spin, Spun, RSpin, RDone, Drained, Places, Writing
      <4> QED
        BY <4>1, GoneTo
    <3>2. CASE LoadOut
      <4> DEFINE n == Least(Room(tx_in, tx_out), thread.left)
      <4>1. thread' = [thread EXCEPT !.n = n, !.pc = IF n = 0 THEN "kick" ELSE "copy",
                                     !.seen = IF thread.left > 0 THEN tx_out ELSE 0]
        BY <3>2 DEF LoadOut
      <4> HIDE DEF n
      <4> QED
        BY <4>1 DEF UartTypes, Calls
    <3>3. CASE AdvanceIn
      BY <3>3 DEF AdvanceIn, UartTypes, Calls
    <3> QED
      BY <1>5, <3>1, <3>2, <3>3
  <2> QED
    BY <1>2, <2>1, <2>2 DEF Incoming, RxCount
<1> QED
  BY <1>3, <1>4, <1>5 DEF InCall

(* What the others do to them: HostTypes adds one. *)
LEMMA IncomingOthers ==
    ASSUME UartTypes, Incoming,
           \/ Caller \/ Dispatch \/ ReadControl \/ ReceiveEnd \/ Send \/ SendEnd
           \/ altera_avalon_jtag_uart_timeout \/ HostReads \/ HostTypes \/ HostPauses \/ Attach
    PROVE  Incoming'
<1>1. UNCHANGED <<rx_in, rx_out, rx_buf, returned>>
  BY DEF Caller, altera_avalon_jtag_uart_ioctl, altera_avalon_jtag_uart_write,
         altera_avalon_jtag_uart_read, altera_avalon_jtag_uart_close, Dispatch, Enter,
         alt_irq_entry, alt_irq_handler, PendingAgain, IsrGoto, ReadControl, ReceiveEnd, Send, SendEnd,
         altera_avalon_jtag_uart_timeout, HostReads, HostTypes, HostPauses, Attach, buffers, calls
<1>2. CASE Caller
  <2>1. UNCHANGED <<rfifo, typed>>
    BY <1>2 DEF Caller, altera_avalon_jtag_uart_ioctl, altera_avalon_jtag_uart_write,
           altera_avalon_jtag_uart_read, altera_avalon_jtag_uart_close, core, host
  <2>2. thread'.pc # "rcopy"
    BY <1>2 DEF Caller, altera_avalon_jtag_uart_ioctl, altera_avalon_jtag_uart_write,
           altera_avalon_jtag_uart_read, altera_avalon_jtag_uart_close, NoCall, calls, At
  <2> QED
    BY <1>1, <2>1, <2>2 DEF Incoming, RxCount
<1>3. CASE HostTypes
  <2>1. rfifo' = Append(rfifo, typed + 1) /\ typed' = typed + 1 /\ thread' = thread
    BY <1>3 DEF HostTypes, calls
  <2>2. typed \in Nat /\ returned \in Nat /\ RxCount \in Nat /\ Len(rfifo) \in Nat
    BY Ranges DEF UartTypes
  <2>3. Len(rfifo') = Len(rfifo) + 1 /\ rfifo'[Len(rfifo) + 1] = typed + 1
        /\ \A k \in 1 .. Len(rfifo) : rfifo'[k] = rfifo[k]
    BY <2>1, <2>2, AppendProperties DEF UartTypes
  <2>4. ASSUME NEW k \in 1 .. Len(rfifo')
        PROVE  rfifo'[k] = returned + RxCount + k
    <3>1. CASE k = Len(rfifo) + 1
      BY <2>2, <2>3, <3>1 DEF Incoming
    <3>2. CASE k # Len(rfifo) + 1
      <4>1. k \in 1 .. Len(rfifo)
        BY <2>2, <2>3, <3>2
      <4> QED
        BY <2>3, <4>1 DEF Incoming
    <3> QED
      BY <3>1, <3>2
  <2>5. typed' = returned + RxCount + Len(rfifo')
    BY <2>1, <2>2, <2>3 DEF Incoming
  <2> QED
    BY <1>1, <2>1, <2>4, <2>5 DEF Incoming, RxCount
<1>4. CASE \/ Dispatch \/ ReadControl \/ ReceiveEnd \/ Send \/ SendEnd
           \/ altera_avalon_jtag_uart_timeout \/ HostReads \/ HostPauses \/ Attach
  <2>1. UNCHANGED <<rfifo, typed, thread>>
    BY <1>4 DEF Dispatch, Enter, alt_irq_entry, alt_irq_handler, PendingAgain, IsrGoto, ReadControl,
           ReceiveEnd, Send, SendEnd, altera_avalon_jtag_uart_timeout, HostReads, HostPauses,
           Attach, core, host, calls
  <2> QED
    BY <1>1, <2>1 DEF Incoming, RxCount
<1> QED
  BY <1>2, <1>3, <1>4

(* Every step keeps the bytes in order. *)
LEMMA BytesStep ==
    ASSUME UartTypes, Interrupts, Outgoing, Incoming, [UartNext]_uartvars
    PROVE  Outgoing' /\ Incoming'
<1>1. CASE UNCHANGED uartvars
  BY <1>1 DEF uartvars, buffers, core, host, calls, Outgoing, Incoming, TxCount, RxCount
<1>2. CASE UartNext
  <2>1. Outgoing'
    BY <1>2, OutgoingThread, OutgoingHandler, OutgoingHost DEF UartNext
  <2>2. Incoming'
    BY <1>2, IncomingReceive, IncomingThread, IncomingOthers DEF UartNext, Handler
  <2> QED
    BY <2>1, <2>2
<1> QED
  BY <1>1, <1>2

(* The inductive invariant. *)
LEMMA UartInvariant ==
    UartSpec => [](UartTypes /\ Interrupts /\ Wakes /\ Outgoing /\ Incoming)
<1>1. UartTypes /\ Interrupts /\ Wakes /\ Outgoing /\ Incoming /\ [UartNext]_uartvars
        => (UartTypes /\ Interrupts /\ Wakes /\ Outgoing /\ Incoming)'
  BY TypesStep, InterruptsStep, WakesStep, BytesStep
<1>2. UartInit => UartTypes /\ Interrupts /\ Wakes /\ Outgoing /\ Incoming
  BY UartTypesInit, BytesInit
<1> QED
  BY <1>1, <1>2, PTL DEF UartSpec

(* The bytes of a buffer as a sequence. *)
LEMMA HeldBytes ==
    ASSUME NEW buf \in [Slot -> Nat], NEW out \in Slot, NEW in \in Slot
    PROVE  /\ Held(buf, out, in) \in Seq(Nat) /\ Len(Held(buf, out, in)) = Dist(out, in)
           /\ \A k \in 1 .. Dist(out, in) :
                /\ Past(out, k - 1) \in Slot /\ Dist(out, Past(out, k - 1)) = k - 1
                /\ Held(buf, out, in)[k] = buf[Past(out, k - 1)]
<1> DEFINE n == Dist(out, in)
<1>1. BufLen \in Nat /\ n \in Nat /\ n < BufLen /\ Dist(out, out) = 0
  BY UartAssumption, Distance
<1>2. Held(buf, out, in) = [k \in 1 .. n |-> buf[Past(out, k - 1)]]
  BY Modulo DEF Held
<1> HIDE DEF n
<1>3. ASSUME NEW k \in 1 .. n
      PROVE  Past(out, k - 1) \in Slot /\ Dist(out, Past(out, k - 1)) = k - 1
  <2>1. k - 1 \in Nat /\ Dist(out, out) + (k - 1) < BufLen
    BY <1>1
  <2>2. Past(out, k - 1) \in Slot
    BY <2>1, PastSlot
  <2>3. Dist(out, Past(out, k - 1)) = Dist(out, out) + (k - 1)
    BY <2>1, DistanceToPast
  <2> QED
    BY <1>1, <2>1, <2>2, <2>3
<1>4. Held(buf, out, in) \in [1 .. n -> Nat]
  BY <1>2, <1>3
<1>5. Held(buf, out, in) \in Seq(Nat)
  BY <1>1, <1>4, SeqDef
<1>6. Len(Held(buf, out, in)) = n
  BY <1>1, <1>4, <1>5, LenProperties
<1>7. \A k \in 1 .. n : Held(buf, out, in)[k] = buf[Past(out, k - 1)]
  BY <1>2
<1> QED
  BY <1>3, <1>5, <1>6, <1>7 DEF n

(* The numbers of the bytes after a, up to b. *)
Numbers(a, b) == [k \in 1 .. b - a |-> a + k]

(* Consecutive numbers after consecutive numbers. *)
LEMMA InOrder ==
    ASSUME NEW s1 \in Seq(Nat), NEW s2 \in Seq(Nat), NEW a \in Nat, NEW b \in Nat,
           b = a + Len(s1) + Len(s2),
           \A k \in 1 .. Len(s1) : s1[k] = a + k,
           \A k \in 1 .. Len(s2) : s2[k] = a + Len(s1) + k
    PROVE  s1 \o s2 = Numbers(a, b)
<1> DEFINE t == [k \in 1 .. b - a |-> a + k]
<1>1. Len(s1) \in Nat /\ Len(s2) \in Nat /\ b - a \in Nat /\ b - a = Len(s1) + Len(s2)
  <2>1. Len(s1) \in Nat /\ Len(s2) \in Nat
    BY LenProperties
  <2> QED
    BY <2>1
<1>2. t \in [1 .. b - a -> Nat]
  OBVIOUS
<1>3. t \in Seq(Nat) /\ Len(t) = b - a
  <2>1. t \in Seq(Nat)
    BY <1>1, <1>2, SeqDef
  <2>2. DOMAIN t = 1 .. b - a /\ DOMAIN t = 1 .. Len(t) /\ Len(t) \in Nat
    BY <2>1, LenProperties
  <2> QED
    BY <1>1, <2>1, <2>2
<1>4. s1 \o s2 \in Seq(Nat) /\ Len(s1 \o s2) = b - a
      /\ \A i \in 1 .. b - a : (s1 \o s2)[i] = IF i <= Len(s1) THEN s1[i] ELSE s2[i - Len(s1)]
  BY <1>1, ConcatProperties
<1>5. ASSUME NEW i \in 1 .. b - a
      PROVE  (s1 \o s2)[i] = t[i]
  <2>1. CASE i <= Len(s1)
    BY <1>1, <1>4, <2>1
  <2>2. CASE i > Len(s1)
    <3>1. i - Len(s1) \in 1 .. Len(s2)
      BY <1>1, <2>2
    <3>2. s2[i - Len(s1)] = a + Len(s1) + (i - Len(s1))
      BY <3>1
    <3> QED
      BY <1>1, <1>4, <2>2, <3>2
  <2> QED
    BY <1>1, <2>1, <2>2
<1> HIDE DEF t
<1>6. s1 \o s2 = t
  BY <1>3, <1>4, <1>5, SeqEqual
<1> QED
  BY <1>6 DEF t, Numbers

(* An interrupt stays until its handler has run: between the exception and *)
(* the search only the host moves, and what the host does cannot take a    *)
(* request of the core back.                                               *)
THEOREM InterruptsAreReal == UartSpec => []NoSpuriousInterrupt
<1>1. Interrupts => NoSpuriousInterrupt
  BY DEF Interrupts, Handlers, NoSpuriousInterrupt
<1> QED
  BY <1>1, UartInvariant, PTL

(* No wake-up is lost between thread and handler, which both switch the    *)
(* interrupts.                                                             *)
THEOREM WakeupsStay == UartSpec => []NoLostWakeup
<1>1. Wakes => NoLostWakeup
  BY DEF Wakes, NoLostWakeup, AtRest, Writing
<1> QED
  BY <1>1, UartInvariant, PTL
(* What write() has taken reaches the host complete and in order, and what *)
(* was typed reaches read().                                               *)
THEOREM BytesArrive == UartSpec => []NothingLost
<1>1. UartTypes /\ Outgoing /\ Incoming => NothingLost
  <2> SUFFICES ASSUME UartTypes, Outgoing, Incoming
               PROVE  NothingLost
    OBVIOUS
  <2>0. /\ tx_in \in Slot /\ tx_out \in Slot /\ rx_in \in Slot /\ rx_out \in Slot
        /\ tx_buf \in [Slot -> Nat] /\ rx_buf \in [Slot -> Nat]
        /\ wfifo \in Seq(Nat) /\ rfifo \in Seq(Nat)
        /\ taken \in Nat /\ typed \in Nat /\ given \in Nat /\ returned \in Nat
    BY DEF UartTypes
  <2>1. TxCount \in Nat /\ RxCount \in Nat /\ Len(wfifo) \in Nat /\ Len(rfifo) \in Nat
    BY Ranges
  <2>2. wfifo \o Held(tx_buf, tx_out, tx_in) = [k \in 1 .. given - taken |-> taken + k]
    <3> DEFINE held == Held(tx_buf, tx_out, tx_in)
    <3>1. held \in Seq(Nat) /\ Len(held) = TxCount
          /\ \A k \in 1 .. TxCount :
                /\ Past(tx_out, k - 1) \in Slot /\ Dist(tx_out, Past(tx_out, k - 1)) = k - 1
                /\ held[k] = tx_buf[Past(tx_out, k - 1)]
      BY <2>0, HeldBytes DEF TxCount
    <3> HIDE DEF held
    <3>2. ASSUME NEW k \in 1 .. TxCount
          PROVE  held[k] = taken + Len(wfifo) + k
      <4>1. k - 1 < TxCount
        BY <2>1
      <4>2. tx_buf[Past(tx_out, k - 1)] = taken + Len(wfifo) + (k - 1) + 1
        BY <3>1, <4>1 DEF Outgoing
      <4> QED
        BY <2>0, <2>1, <3>1, <4>2
    <3>3. given = taken + Len(wfifo) + Len(held) /\ \A k \in 1 .. Len(wfifo) : wfifo[k] = taken + k
      BY <3>1 DEF Outgoing
    <3>4. \A k \in 1 .. Len(held) : held[k] = taken + Len(wfifo) + k
      BY <3>1, <3>2
    <3>5. wfifo \o held = Numbers(taken, given)
      BY <2>0, <3>1, <3>3, <3>4, InOrder
    <3> QED
      BY <3>5 DEF held, Numbers
  <2>3. Held(rx_buf, rx_out, rx_in) \o rfifo = [k \in 1 .. typed - returned |-> returned + k]
    <3> DEFINE held == Held(rx_buf, rx_out, rx_in)
    <3>1. held \in Seq(Nat) /\ Len(held) = RxCount
          /\ \A k \in 1 .. RxCount :
                /\ Past(rx_out, k - 1) \in Slot /\ Dist(rx_out, Past(rx_out, k - 1)) = k - 1
                /\ held[k] = rx_buf[Past(rx_out, k - 1)]
      BY <2>0, HeldBytes DEF RxCount
    <3> HIDE DEF held
    <3>2. ASSUME NEW k \in 1 .. RxCount
          PROVE  held[k] = returned + k
      <4>1. k - 1 < RxCount
        BY <2>1
      <4>2. rx_buf[Past(rx_out, k - 1)] = returned + (k - 1) + 1
        BY <3>1, <4>1 DEF Incoming
      <4> QED
        BY <2>0, <2>1, <3>1, <4>2
    <3>3. typed = returned + Len(held) + Len(rfifo)
          /\ \A k \in 1 .. Len(rfifo) : rfifo[k] = returned + Len(held) + k
      BY <3>1 DEF Incoming
    <3>4. \A k \in 1 .. Len(held) : held[k] = returned + k
      BY <3>1, <3>2
    <3>5. held \o rfifo = Numbers(returned, typed)
      BY <2>0, <3>1, <3>3, <3>4, InOrder
    <3> QED
      BY <3>5 DEF held, Numbers
  <2> QED
    BY <2>2, <2>3 DEF NothingLost
<1> QED
  BY <1>1, UartInvariant, PTL
==============================================================================
