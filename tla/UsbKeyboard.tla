---------------------------- MODULE UsbKeyboard ------------------------------
(***************************************************************************)
(* software/usb_kb: the program of the Nios processor.  It initializes the *)
(* chip, enumerates the keyboard and then polls it, writing the first key  *)
(* code of each report to the port the game reads.  Any other keyboard or  *)
(* chip state sends it back to USB_HOT_PLUG, here the label "restart".     *)
(*                                                                         *)
(* One step is one access to the chip that another party can come before   *)
(* or after; the words of a transfer list are one access, UsbLists takes   *)
(* them apart.  Sleeps are left out: they only make some orders rare.      *)
(***************************************************************************)
EXTENDS UsbChip

CONSTANTS LooksBefore, LooksAfter  \* hot_plug_count: 5 and 7

ASSUME LooksAssumption == LooksBefore \in Nat /\ LooksAfter \in Nat

VARIABLES
    pc,       \* where the program is
    request,  \* the request it is at, Poll in the polling loop
    got,      \* usb_ctl_val: the message last read
    looks,    \* hot_plug_count
    keycode,  \* the variable of main
    port,     \* *keycode_base
    lapsed,   \* history: unplugged, or the button pressed, since the restart
    late,     \* history: a list was written over one the chip was still to do
    reported, \* history: the keys of all reports
    lost      \* history: a message was erased unread

driver == <<pc, request, got, looks, keycode, port>>
history == <<lapsed, late, reported, lost>>
dvars == <<usbvars, driver, history>>

Goto(from, to) == pc = from /\ pc' = to

(* UsbSoftReset and step 1a, then the command of step 1b.  The mailbox may *)
(* hold anything until the chip answers again.                             *)
Restart ==
    /\ Goto("restart", "init wait")
    /\ ready' = FALSE /\ command' = "init"
    /\ answer' \in {"ACK", "other"} /\ answered' = FALSE
    /\ msg' = "none" /\ flag' = FALSE
    /\ started' = "none" /\ running' = Nothing /\ begun' = FALSE
    /\ request' = SetAddress /\ looks' = 0 /\ lapsed' = FALSE /\ late' = FALSE
    /\ UNCHANGED <<list, buffer, keyboard, got, keycode, port, reported, lost>>

(* Any bit of the status ends the wait, also that of a message. *)
InitWait ==
    /\ Goto("init wait", "init read") /\ (answered \/ flag)
    /\ UNCHANGED <<usbvars, request, got, looks, keycode, port, history>>

ReadMailbox(from, to) ==
    /\ pc = from /\ pc' = IF answer = "ACK" THEN to ELSE "restart"
    /\ answered' = FALSE
    /\ UNCHANGED <<ready, command, answer, messages, transfer, keyboard>>
    /\ UNCHANGED <<request, got, looks, keycode, port, history>>

InitRead == ReadMailbox("init read", "bus reset")

BusReset ==
    /\ Goto("bus reset", "bus read") /\ command' = "bus reset"
    /\ UNCHANGED <<ready, answer, answered, messages, transfer, keyboard>>
    /\ UNCHANGED <<request, got, looks, keycode, port, history>>

(* Step 2 reads the mailbox at once: the ACK may be that of step 1. *)
BusRead == ReadMailbox("bus read", "look")

(* The port is looked at once and then some times more. *)
Look(from, present, absent, times) ==
    /\ pc = from
    /\ \/ plugged /\ pc' = present /\ looks' = 0
       \/ ~plugged /\ looks < times /\ pc' = from /\ looks' = looks + 1
       \/ ~plugged /\ looks = times /\ pc' = absent /\ looks' = 0
    /\ UNCHANGED <<usbvars, request, got, keycode, port, history>>

LookBefore == Look("look", "submit", "no device", LooksBefore)

LookAfter == Look("look after", "submit", "no device", LooksAfter)

(* With no device only a new one leads on. *)
Inserted ==
    /\ Goto("no device", "restart") /\ plugged
    /\ UNCHANGED <<usbvars, request, got, looks, keycode, port, history>>

(* A message can come early: the chip still has the list of the request    *)
(* before, and may find the new one half written (see UsbLists).           *)
Overtakes == list.req # request /\ (started = "list" \/ Walking)

(* Mutant of Submit: the lists do not reach as far as the report buffer.   *)
Submit_short ==
    /\ Goto("submit", "start")
    /\ list' = [req |-> request, ctl |-> "active"]
    /\ late' = (late \/ Overtakes)
    /\ UNCHANGED <<chip, messages, started, running, begun, buffer, keyboard>>
    /\ UNCHANGED <<request, got, looks, keycode, port, lapsed, reported, lost>>

(* Usb...(): the list of the request, then the pointer to it.  Those of    *)
(* the enumeration cover the word at 0x051e.                               *)
Submit ==
    /\ Goto("submit", "start")
    /\ list' = [req |-> request, ctl |-> "active"]
    /\ buffer' = IF request = Poll THEN buffer ELSE "leftover"
    /\ late' = (late \/ Overtakes)
    /\ UNCHANGED <<chip, messages, started, running, begun, keyboard>>
    /\ UNCHANGED <<request, got, looks, keycode, port, lapsed, reported, lost>>

(* Mutant of Start: the list is not started again in the polling loop. *)
Start_once ==
    /\ Goto("start", "flag")
    /\ started' = IF request = Poll THEN started ELSE "list"
    /\ UNCHANGED <<chip, messages, list, running, begun, buffer, keyboard>>
    /\ UNCHANGED <<request, got, looks, keycode, port, history>>

Start ==
    /\ Goto("start", "flag") /\ started' = "list"
    /\ UNCHANGED <<chip, messages, list, running, begun, buffer, keyboard>>
    /\ UNCHANGED <<request, got, looks, keycode, port, history>>

(* Mutant of CheckFlag: without a message everything begins again. *)
CheckFlag_restart ==
    /\ pc = "flag" /\ pc' = IF flag THEN "message" ELSE "restart"
    /\ UNCHANGED <<usbvars, request, got, looks, keycode, port, history>>

(* As long as there is no message the request is submitted again. *)
CheckFlag ==
    /\ pc = "flag" /\ pc' = IF flag THEN "message" ELSE "submit"
    /\ UNCHANGED <<usbvars, request, got, looks, keycode, port, history>>

(* UsbWaitTDListDone: a read of the message, a write of 0, until the       *)
(* message was the right one.                                              *)
ReadMessage ==
    /\ Goto("message", "clear") /\ got' = msg /\ flag' = FALSE
    /\ UNCHANGED <<chip, msg, transfer, keyboard>>
    /\ UNCHANGED <<request, looks, keycode, port, history>>

ClearMessage ==
    /\ pc = "clear" /\ msg' = "none"
    /\ lost' = (lost \/ flag)
    /\ pc' = IF got # "done" THEN "message" ELSE IF request = Poll THEN "report" ELSE "check"
    /\ UNCHANGED <<chip, flag, transfer, keyboard>>
    /\ UNCHANGED <<request, got, looks, keycode, port, lapsed, late, reported>>

(* Mutant of Accepted: the control byte is not looked at. *)
Accepted_always == TRUE

(* The control byte of the list at 0x0508. *)
Accepted == list.ctl = "ok"

(* Before the configuration is set main.c also starts a list at 0x0576,    *)
(* the bytes of an endpoint descriptor.                                    *)
Proceed ==
    /\ pc = "check" /\ Accepted
    /\ request' = request + 1
    /\ pc' = IF request + 1 = SetConfig THEN "stray" ELSE "submit"
    /\ UNCHANGED <<usbvars, got, looks, keycode, port, history>>

StartStray ==
    /\ Goto("stray", "submit") /\ started' = "stray"
    /\ UNCHANGED <<chip, messages, list, running, begun, buffer, keyboard>>
    /\ UNCHANGED <<request, got, looks, keycode, port, history>>

Refuse ==
    /\ Goto("check", "retry") /\ ~Accepted
    /\ UNCHANGED <<usbvars, request, got, looks, keycode, port, history>>

(* UsbGetRetryCnt, which main only calls on its way to a restart. *)
RetryRead ==
    /\ pc = "retry" /\ pc' = IF msg = "done" THEN "retry clear" ELSE "restart"
    /\ flag' = FALSE
    /\ UNCHANGED <<chip, msg, transfer, keyboard>>
    /\ UNCHANGED <<request, got, looks, keycode, port, history>>

RetryClear ==
    /\ Goto("retry clear", "retry wait") /\ msg' = "none"
    /\ lost' = (lost \/ flag)
    /\ UNCHANGED <<chip, flag, transfer, keyboard>>
    /\ UNCHANGED <<request, got, looks, keycode, port, lapsed, late, reported>>

RetryWait ==
    /\ Goto("retry wait", "restart") /\ flag
    /\ UNCHANGED <<usbvars, request, got, looks, keycode, port, history>>

(* Mutant of KeyWord: the word at 0x052a, the end of a list of the         *)
(* enumeration: 0x052c, whose lower byte is the code of Space.             *)
KeyWord_in_list == IF buffer = "leftover" THEN "Space" ELSE buffer

(* The word at 0x051e: the end of another list until a report comes.       *)
KeyWord == buffer

ReadReport ==
    /\ Goto("report", "publish") /\ keycode' = KeyWord
    /\ UNCHANGED <<usbvars, request, got, looks, port, history>>

Publish ==
    /\ Goto("publish", "look after") /\ port' = keycode
    /\ UNCHANGED <<usbvars, request, got, looks, keycode, history>>

Driver ==
    \/ Restart \/ InitWait \/ InitRead \/ BusReset \/ BusRead
    \/ LookBefore \/ LookAfter \/ Inserted
    \/ Submit \/ Start \/ CheckFlag \/ ReadMessage \/ ClearMessage
    \/ Proceed \/ StartStray \/ Refuse
    \/ RetryRead \/ RetryClear \/ RetryWait
    \/ ReadReport \/ Publish
-----------------------------------------------------------------------------
DriverInit ==
    /\ pc = "restart" /\ request = SetAddress /\ got = "none" /\ looks = 0
    /\ lapsed = FALSE /\ late = FALSE /\ reported = {} /\ lost = FALSE

KeyboardInit ==
    /\ UsbInit /\ buffer = "leftover"
    /\ DriverInit /\ keycode = "None" /\ port = "None"

(* A step of the chip or the keyboard while the program does nothing. *)
Beside(A) ==
    /\ A
    /\ reported' = IF unsent /\ ~unsent' THEN reported \cup {buffer'} ELSE reported
    /\ UNCHANGED <<driver, lapsed, late, lost>>

Replug ==
    /\ Plug \/ Unplug
    /\ lapsed' = TRUE
    /\ UNCHANGED <<driver, late, reported, lost>>

(* lab8.sv: the button that resets the game is also the reset pin of the   *)
(* chip.  The program is not told.                                         *)
ButtonReset ==
    /\ ready' = FALSE /\ command' = "none" /\ answer' = "other" /\ answered' = FALSE
    /\ msg' = "none" /\ flag' = FALSE
    /\ started' = "none" /\ running' = Nothing /\ begun' = FALSE
    /\ lapsed' = TRUE
    /\ UNCHANGED <<list, buffer, keyboard, driver, late, reported, lost>>

KeyboardNext == Driver \/ Beside(Surroundings) \/ Replug \/ ButtonReset

KeyboardSpec == KeyboardInit /\ [][KeyboardNext]_dvars

(* From a restart with a keyboard that stays, and no reset: the buffer and *)
(* the port may still hold a key from before.  The program runs, a command *)
(* is executed, a list is taken, one of the enumeration ends, and a report *)
(* that is asked for again and again is sent.                              *)
SteadyInit ==
    /\ UsbInit /\ plugged
    /\ buffer \in Key \cup {"None", "leftover"}
    /\ DriverInit
    /\ port \in Key \cup {"None"} /\ keycode = port

SteadyNext == Driver \/ Beside(Surroundings)

SteadySpec ==
    /\ SteadyInit /\ [][SteadyNext]_dvars
    /\ WF_dvars(Driver)
    /\ WF_dvars(Beside(ChipCommand)) /\ WF_dvars(Beside(Take))
    /\ WF_dvars(Beside(Stray)) /\ WF_dvars(Beside(Fail /\ running # Poll))
    /\ SF_dvars(Beside(Report))
-----------------------------------------------------------------------------
(* The enumeration never runs ahead of the keyboard: every request the     *)
(* program has passed was heard by the keyboard that is plugged in now,    *)
(* although requests are submitted again before the first answer and the   *)
(* message of one may be taken for that of another.  This is as long as no *)
(* other keyboard is plugged in, the button is not pressed, and the chip   *)
(* is not still at the list before when the next is written: such a list   *)
(* can deceive the program, and nothing is said of what follows.           *)
EnumerationHonest ==
    ~lapsed /\ ~late => \A r \in 1 .. request - 1 : r \in heard

(* The game is never given a key no keyboard has reported, even when a     *)
(* poll ends without a report and the program reads what is left in the    *)
(* buffer.                                                                 *)
NoGhostKey == {keycode, port} \cap Key \subseteq reported

(* A program that submits to a chip that has forgotten its initialization. *)
Deaf == pc \in {"submit", "start", "flag"} /\ ~ready /\ ~flag /\ command = "none"

(* main.c only looks for an answer of the chip: once the reset button has  *)
(* silenced it the program submits for ever, no keyboard that is pulled    *)
(* out or plugged in brings it back, and the game keeps the key it had.    *)
ResetSilences == [][Deaf => Deaf' /\ port' = port]_dvars

(* Once the keyboard is configured, a key that is held arrives at the port *)
(* and stays there, whatever transfers fail, unless the program erases a   *)
(* message it has not read: nothing else stops it.                         *)
Polling == request = Poll /\ SetConfig \in has
HeldKeyArrives ==
    \A k \in Key : <>[](pressed = k /\ Polling) => <>[](port = k) \/ <>lost

(* A key that was down when the keyboard was pulled out stays in the port, *)
(* and perhaps in the buffer.  What the program writes to the port after   *)
(* the restart is never that key, but one reported since, even if the      *)
(* first message of the polling loop comes without a report.               *)
NoStaleKey == pc = "publish" /\ keycode \in Key => keycode \in reported

(* main.c:229-230 says of a failed request "Fatal problem; try again" and  *)
(* "Encountered Fatal Error, restarting".                                  *)
FatalErrorRestarts == pc = "retry" ~> pc = "restart"
=============================================================================
