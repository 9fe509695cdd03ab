------------------------------- MODULE JtagUart ------------------------------
(***************************************************************************)
(* The console of the program: printf of main.c ends in the JTAG UART      *)
(* driver of the board support package.  The thread copies bytes into a    *)
(* circular buffer, the interrupt handler moves them to the FIFO of the    *)
(* core, the host takes them from there; what is typed comes back the same *)
(* way.  One step is one access to what thread, handler, timer or host     *)
(* share.  Bytes are numbered in the order in which they are given.        *)
(***************************************************************************)
EXTENDS Naturals, Sequences

CONSTANTS
    BufLen,      \* ALTERA_AVALON_JTAG_UART_BUF_LEN = 2048
    FifoLen,     \* 64, both ways
    Margin,      \* 8: the FIFO interrupts when almost empty, or almost full
    Timeout,     \* DEFAULT_TIMEOUT: seconds until the host is taken to be away
    IntMax,      \* INT_MAX: a time that never comes, when there is no timer
    MaxBytes, MaxTyped  \* bounds: bytes asked for, taken by write() and typed; typed

ASSUME UartAssumption ==
    /\ {BufLen, FifoLen, Timeout} \subseteq Nat \ {0, 1} /\ IntMax \in Nat /\ Timeout < IntMax - 1
    /\ Margin \in 1 .. FifoLen - 1
    /\ {MaxBytes, MaxTyped} \subseteq Nat

VARIABLES
    tx_buf, tx_in, tx_out, rx_buf, rx_in, rx_out,  \* the buffers of the driver
    irq_enable,     \* {"RE", "WE"}: what the core may interrupt for
    host_inactive,  \* seconds
    timeout,        \* IntMax when there is no system clock and alt_alarm_start failed
    wfifo, rfifo,   \* the FIFOs of the core
    pause_irq,      \* the host has stopped sending and rfifo is not empty
    ac,             \* the host was active since the timer looked
    attached,       \* a host reads from and writes to the core
    taken, typed,   \* how many bytes the host has got, and has sent
    thread,         \* the call: [pc, left, n, seen, nonblock, moved]
    given, returned,     \* how many bytes write() has taken, and read() has returned
    isr             \* the handler: [pc, wi, space, avail]

buffers == <<tx_buf, tx_in, tx_out, rx_buf, rx_in, rx_out>>
core == <<wfifo, rfifo, pause_irq>>
host == <<attached, taken, typed>>
calls == <<thread, given, returned>>
uartvars == <<buffers, irq_enable, host_inactive, timeout, core, ac, host, calls, isr>>


Past(i, n) == (i + n) % BufLen

(* The bytes in a buffer, oldest first. *)
Held(buf, out, in) == [k \in 1 .. (in + BufLen - out) % BufLen |-> buf[Past(out, k - 1)]]

(* Bytes from, from + 1, ... in n slots. *)
Filled(buf, in, n, from) ==
    [s \in 0 .. BufLen - 1 |->
        LET k == (s + BufLen - in) % BufLen IN IF k < n THEN from + k ELSE buf[s]]

NoCall == [pc |-> "idle", left |-> 0, n |-> 0, seen |-> 0, nonblock |-> FALSE, moved |-> 0]
Quiet == [pc |-> "off", wi |-> FALSE, space |-> 0, avail |-> FALSE]

UartInit ==
    /\ tx_buf = [s \in 0 .. BufLen - 1 |-> 0] /\ rx_buf = tx_buf
    /\ tx_in = 0 /\ tx_out = 0 /\ rx_in = 0 /\ rx_out = 0
    /\ irq_enable = {"RE"} /\ host_inactive = 0 /\ timeout \in {Timeout, IntMax}
    /\ wfifo = <<>> /\ rfifo = <<>> /\ pause_irq = FALSE /\ ac = FALSE
    /\ attached \in BOOLEAN /\ taken = 0 /\ typed = 0
    /\ thread = NoCall /\ given = 0 /\ returned = 0 /\ isr = Quiet

-----------------------------------------------------------------------------
(* The thread, which runs while no handler does. *)
At(from) == isr.pc = "off" /\ thread.pc = from

ThreadGoto(to) == thread' = IF to = "idle" THEN NoCall ELSE [thread EXCEPT !.pc = to]

(* Mutant of Present: nobody looks at the time. *)
Present_always == TRUE

Present == host_inactive < timeout

altera_avalon_jtag_uart_write(count, flags) ==
    /\ At("idle") /\ count + given + typed <= MaxBytes
    /\ thread' = [NoCall EXCEPT !.pc = "load", !.left = count, !.nonblock = flags]
    /\ UNCHANGED <<buffers, irq_enable, host_inactive, timeout, core, ac, host, given, returned, isr>>

(* Mutant of Room: the slot that tells full from empty is used. *)
Room_full(in, out) == IF in < out THEN out - in ELSE BufLen - in

(* What can be copied in one piece. *)
Room(in, out) ==
    IF in < out THEN out - 1 - in
    ELSE IF out > 0 THEN BufLen - in
    ELSE BufLen - 1 - in

Least(a, b) == IF a < b THEN a ELSE b

LoadOut ==
    /\ At("load")
    /\ LET n == Least(Room(tx_in, tx_out), thread.left)
       IN  thread' = [thread EXCEPT !.n = n, !.pc = IF n = 0 THEN "kick" ELSE "copy",
                                    !.seen = IF thread.left > 0 THEN tx_out ELSE 0]
    /\ UNCHANGED <<buffers, irq_enable, host_inactive, timeout, core, ac, host, given, returned, isr>>

CopyIn ==
    /\ At("copy") /\ ThreadGoto("advance")
    /\ tx_buf' = Filled(tx_buf, tx_in, thread.n, given + 1)
    /\ UNCHANGED <<tx_in, tx_out, rx_buf, rx_in, rx_out, irq_enable, host_inactive, timeout, core>>
    /\ UNCHANGED <<ac, host, given, returned, isr>>

AdvanceIn ==
    /\ At("advance")
    /\ tx_in' = Past(tx_in, thread.n) /\ given' = given + thread.n
    /\ thread' = [thread EXCEPT !.left = @ - thread.n, !.n = 0, !.pc = "load"]
    /\ UNCHANGED <<tx_buf, tx_out, rx_buf, rx_in, rx_out, irq_enable, host_inactive, timeout, core>>
    /\ UNCHANGED <<ac, host, returned, isr>>

AfterKick == IF thread.left > 0 /\ ~thread.nonblock THEN "spin" ELSE "idle"

(* Mutant of Kick: only if bytes are left over. *)
Kick_ifleft ==
    /\ At("kick") /\ ThreadGoto(AfterKick)
    /\ irq_enable' = IF thread.left > 0 THEN irq_enable \cup {"WE"} ELSE irq_enable
    /\ UNCHANGED <<buffers, host_inactive, timeout, core, ac, host, given, returned, isr>>

(* Interrupts are off for this one. *)
Kick ==
    /\ At("kick") /\ ThreadGoto(AfterKick)
    /\ irq_enable' = irq_enable \cup {"WE"}
    /\ UNCHANGED <<buffers, host_inactive, timeout, core, ac, host, given, returned, isr>>

Spin ==
    /\ At("spin") /\ (thread.seen # tx_out \/ ~Present) /\ ThreadGoto("spun")
    /\ UNCHANGED <<buffers, irq_enable, host_inactive, timeout, core, ac, host, given, returned, isr>>

(* A host that was silent for a second is not waited for any longer. *)
Spun ==
    /\ At("spun") /\ ThreadGoto(IF host_inactive > 0 THEN "idle" ELSE "load")
    /\ UNCHANGED <<buffers, irq_enable, host_inactive, timeout, core, ac, host, given, returned, isr>>

altera_avalon_jtag_uart_read(space, flags) ==
    /\ At("idle")
    /\ thread' = [NoCall EXCEPT !.pc = "rload", !.left = space, !.nonblock = flags]
    /\ UNCHANGED <<buffers, irq_enable, host_inactive, timeout, core, ac, host, given, returned, isr>>

Ready(in, out) == IF in >= out THEN in - out ELSE BufLen - out

RLoad ==
    /\ At("rload")
    /\ LET n == Least(Ready(rx_in, rx_out), thread.left)
       IN  \/ n > 0 /\ thread' = [thread EXCEPT !.n = n, !.pc = "rcopy"]
           \/ n = 0 /\ thread.moved > 0 /\ ThreadGoto("rdone")
           \/ n = 0 /\ thread.moved = 0 /\ thread.nonblock /\ ThreadGoto("idle")
           \/ /\ n = 0 /\ thread.moved = 0 /\ ~thread.nonblock
              /\ thread' = [thread EXCEPT !.seen = rx_in, !.pc = "rspin"]
    /\ UNCHANGED <<buffers, irq_enable, host_inactive, timeout, core, ac, host, given, returned, isr>>

(* The bytes of the copy are those the caller gets: see NothingLost. *)
AdvanceOut ==
    /\ At("rcopy")
    /\ rx_out' = Past(rx_out, thread.n) /\ returned' = returned + thread.n
    /\ thread' = [thread EXCEPT !.left = @ - thread.n, !.n = 0, !.moved = 1,
                                !.pc = IF thread.left > thread.n THEN "rload" ELSE "rdone"]
    /\ UNCHANGED <<tx_buf, tx_in, tx_out, rx_buf, rx_in, irq_enable, host_inactive, timeout, core>>
    /\ UNCHANGED <<ac, host, given, isr>>

RSpin ==
    /\ At("rspin") /\ (thread.seen # rx_in \/ ~Present)
    /\ ThreadGoto(IF thread.seen = rx_in THEN "idle" ELSE "rload")
    /\ UNCHANGED <<buffers, irq_enable, host_inactive, timeout, core, ac, host, given, returned, isr>>

RDone ==
    /\ At("rdone") /\ ThreadGoto("idle") /\ irq_enable' = irq_enable \cup {"RE"}
    /\ UNCHANGED <<buffers, host_inactive, timeout, core, ac, host, given, returned, isr>>

altera_avalon_jtag_uart_close(flags) ==
    /\ At("idle") /\ thread' = [NoCall EXCEPT !.pc = "close", !.nonblock = flags]
    /\ UNCHANGED <<buffers, irq_enable, host_inactive, timeout, core, ac, host, given, returned, isr>>

(* The loop ends when the buffer is empty or the host silent, at the first *)
(* turn if the call must not block.                                        *)
Drained ==
    /\ At("close") /\ (tx_out = tx_in \/ ~Present \/ thread.nonblock) /\ ThreadGoto("idle")
    /\ UNCHANGED <<buffers, irq_enable, host_inactive, timeout, core, ac, host, given, returned, isr>>

(* TIOCSTIMEOUT.  Without a timer it is refused; a value that makes no     *)
(* sense means that the host is never taken to be away.                    *)
altera_avalon_jtag_uart_ioctl(arg) ==
    /\ At("idle") /\ timeout # IntMax
    /\ timeout' = IF arg >= 2 /\ arg < IntMax THEN arg ELSE IntMax - 1
    /\ UNCHANGED <<buffers, irq_enable, host_inactive, core, ac, host, calls, isr>>

InCall ==
    \/ LoadOut \/ CopyIn \/ AdvanceIn \/ Kick \/ Spin \/ Spun
    \/ RLoad \/ AdvanceOut \/ RSpin \/ RDone \/ Drained
-----------------------------------------------------------------------------
(* The core. *)
ipen_AF == "RE" \in irq_enable /\ (pause_irq \/ FifoLen - Len(rfifo) <= Margin)
ipen_AE == "WE" \in irq_enable /\ Len(wfifo) <= Margin

Pending == ipen_AF \/ ipen_AE

IsrGoto(to) ==
    /\ isr' = IF to = "off" THEN Quiet ELSE [isr EXCEPT !.pc = to]
    /\ UNCHANGED <<buffers, irq_enable, host_inactive, timeout, core, ac, host, calls>>

(* The exception is taken.  The core is then looked at twice more before   *)
(* its handler runs: whether the exception was an interrupt, and which.    *)
Enter == isr.pc = "off" /\ Pending /\ IsrGoto("trap")

(* Without an interrupt it is an exception nobody knows.                   *)
alt_irq_entry == isr.pc = "trap" /\ IsrGoto(IF Pending THEN "dispatch" ELSE "unknown")

(* Without an interrupt the search for the lowest bit never ends.          *)
alt_irq_handler == isr.pc = "dispatch" /\ IsrGoto(IF Pending THEN "control" ELSE "lost")

(* After the handler, the next interrupt if there is one. *)
PendingAgain == isr.pc = "pending" /\ IsrGoto(IF Pending THEN "control" ELSE "off")

Dispatch == Enter \/ alt_irq_entry \/ alt_irq_handler \/ PendingAgain

(* altera_avalon_jtag_uart_irq. *)
ReadControl ==
    /\ isr.pc = "control"
    /\ isr' = IF ~Pending THEN [Quiet EXCEPT !.pc = "pending"]
              ELSE [pc |-> IF ipen_AF THEN "receive" ELSE "send", wi |-> ipen_AE,
                    space |-> FifoLen - Len(wfifo), avail |-> TRUE]
    /\ UNCHANGED <<buffers, irq_enable, host_inactive, timeout, core, ac, host, calls>>

RxFull == Past(rx_in, 1) = rx_out

Receive ==
    /\ isr.pc = "receive" /\ ~RxFull /\ rfifo # <<>>
    /\ rx_buf' = [rx_buf EXCEPT ![rx_in] = Head(rfifo)] /\ rx_in' = Past(rx_in, 1)
    /\ rfifo' = Tail(rfifo) /\ pause_irq' = FALSE
    /\ isr' = [isr EXCEPT !.avail = Len(rfifo) > 1]
    /\ UNCHANGED <<tx_buf, tx_in, tx_out, rx_out, irq_enable, host_inactive, timeout, wfifo, ac>>
    /\ UNCHANGED <<host, calls>>

(* The loop ends with a full buffer, or with a read that found nothing.    *)
ReceiveEnd ==
    /\ isr.pc = "receive" /\ (RxFull \/ rfifo = <<>>)
    /\ pause_irq' = (pause_irq /\ RxFull)
    /\ irq_enable' = IF RxFull /\ isr.avail THEN irq_enable \ {"RE"} ELSE irq_enable
    /\ isr' = [isr EXCEPT !.pc = IF isr.wi THEN "send" ELSE "control"]
    /\ UNCHANGED <<buffers, host_inactive, timeout, wfifo, rfifo, ac, host, calls>>

(* A byte written to a full FIFO is dropped by the core. *)
Send ==
    /\ isr.pc = "send" /\ isr.space > 0 /\ tx_out # tx_in
    /\ wfifo' = IF Len(wfifo) < FifoLen THEN Append(wfifo, tx_buf[tx_out]) ELSE wfifo
    /\ tx_out' = Past(tx_out, 1) /\ isr' = [isr EXCEPT !.space = @ - 1]
    /\ UNCHANGED <<tx_buf, tx_in, rx_buf, rx_in, rx_out, irq_enable, host_inactive, timeout>>
    /\ UNCHANGED <<rfifo, pause_irq, ac, host, calls>>

SendEnd ==
    /\ isr.pc = "send" /\ (isr.space = 0 \/ tx_out = tx_in)
    /\ irq_enable' = IF isr.space > 0 THEN irq_enable \ {"WE"} ELSE irq_enable
    /\ isr' = [Quiet EXCEPT !.pc = "control"]
    /\ UNCHANGED <<buffers, host_inactive, timeout, core, ac, host, calls>>

Handler == Dispatch \/ ReadControl \/ Receive \/ ReceiveEnd \/ Send \/ SendEnd

(* Every second, if there is a system clock. *)
altera_avalon_jtag_uart_timeout ==
    /\ timeout # IntMax /\ isr.pc = "off"
    /\ ac' = FALSE
    /\ host_inactive' = IF ac THEN 0 ELSE Least(host_inactive + 1, IntMax - 2)
    /\ UNCHANGED <<buffers, irq_enable, timeout, core, host, calls, isr>>
-----------------------------------------------------------------------------
(* The host. *)
HostReads ==
    /\ attached /\ wfifo # <<>> /\ Head(wfifo) = taken + 1
    /\ taken' = taken + 1 /\ wfifo' = Tail(wfifo)
    /\ UNCHANGED <<buffers, irq_enable, host_inactive, timeout, rfifo, pause_irq, ac>>
    /\ UNCHANGED <<attached, typed, calls, isr>>

HostTypes ==
    /\ attached /\ typed < MaxTyped /\ thread.left + given + typed < MaxBytes /\ Len(rfifo) < FifoLen
    /\ typed' = typed + 1 /\ rfifo' = Append(rfifo, typed + 1) /\ ac' = TRUE
    /\ UNCHANGED <<buffers, irq_enable, host_inactive, timeout, wfifo, pause_irq>>
    /\ UNCHANGED <<attached, taken, calls, isr>>

(* Mutant of HostPauses: the request is not latched, it comes and goes. *)
HostPauses_unlatched ==
    /\ attached /\ ac' = TRUE /\ pause_irq' = (~pause_irq /\ rfifo # <<>>)
    /\ UNCHANGED <<buffers, irq_enable, host_inactive, timeout, wfifo, rfifo, host, calls, isr>>

HostPauses ==
    /\ attached /\ ac' = TRUE /\ pause_irq' = (pause_irq \/ rfifo # <<>>)
    /\ UNCHANGED <<buffers, irq_enable, host_inactive, timeout, wfifo, rfifo, host, calls, isr>>

Attach ==
    /\ attached' = ~attached
    /\ UNCHANGED <<buffers, irq_enable, host_inactive, timeout, core, ac, taken, typed, calls, isr>>

(* A call is for one byte, or for more than there is room for.             *)
Caller ==
    \/ \E arg \in {0, Timeout} : altera_avalon_jtag_uart_ioctl(arg)
    \/ \E some \in {1, BufLen}, nonblock \in BOOLEAN :
        \/ altera_avalon_jtag_uart_write(some, nonblock)
        \/ altera_avalon_jtag_uart_read(some, nonblock)
        \/ altera_avalon_jtag_uart_close(nonblock)

UartNext ==
    \/ Caller \/ InCall \/ Handler \/ altera_avalon_jtag_uart_timeout
    \/ HostReads \/ HostTypes \/ HostPauses \/ Attach

(* The processor runs, handler first; the timer ticks; a host that stays     *)
(* reads, and pauses now and then.                                         *)
UartFair ==
    /\ WF_uartvars(InCall) /\ WF_uartvars(Handler) /\ WF_uartvars(HostReads)
    /\ WF_uartvars(altera_avalon_jtag_uart_timeout) /\ WF_uartvars(HostPauses)

UartSpec == UartInit /\ [][UartNext]_uartvars /\ UartFair
-----------------------------------------------------------------------------
(* What write() has taken reaches the host complete and in order, and what *)
(* was typed reaches read(): the bytes in FIFO and buffer are the next     *)
(* ones, although thread, handler and host move the ends of both at any    *)
(* time.                                                                   *)
NothingLost ==
    /\ wfifo \o Held(tx_buf, tx_out, tx_in) = [k \in 1 .. given - taken |-> taken + k]
    /\ Held(rx_buf, rx_out, rx_in) \o rfifo = [k \in 1 .. typed - returned |-> returned + k]

(* No wake-up is lost, although thread and handler both switch the         *)
(* interrupts: outside of a handler, a call at rest leaves bytes in the    *)
(* buffer only with the interrupt on that will move them, and the core is  *)
(* only silent about typed bytes while there are some for the next read(). *)
AtRest == isr.pc = "off" /\ thread.pc \in {"idle", "spin", "rspin", "close"}

NoLostWakeup ==
    AtRest => /\ tx_in # tx_out => "WE" \in irq_enable
              /\ rx_in = rx_out => "RE" \in irq_enable

(* An interrupt stays until its handler has run, whatever the host does    *)
(* meanwhile.  The dispatcher relies on it: taken back between the         *)
(* exception and the search, it would end in the handler for unknown       *)
(* exceptions, or in a loop that shifts for a bit that is not there.       *)
NoSpuriousInterrupt == isr.pc \notin {"unknown", "lost"}

(* write() and close() return when the host stays, and, if a time is set   *)
(* after which it is given up, when it stays away: the time has run out,   *)
(* or write() gives back what it has taken.  Without a timer, as in this   *)
(* build, both wait for a host for ever.                                   *)
WriteReturns ==
    <>[]attached \/ (<>[](timeout < IntMax - 1) /\ <>[]~attached) =>
        (thread.pc \in {"load", "close"} ~> thread.pc = "idle")
==============================================================================
