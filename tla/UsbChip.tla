------------------------------- MODULE UsbChip -------------------------------
(***************************************************************************)
(* What the driver talks to, as far as the driver's code tells: the host   *)
(* controller chip (its mailbox, its SIE1 message register with the status *)
(* flag, one transfer list in its memory and the buffer a report comes     *)
(* into) and the keyboard plugged into it.  Nothing here is in src/.       *)
(*                                                                         *)
(* A transfer list is the number of a request: 1 .. LastRequest are those  *)
(* of the enumeration in the order of main.c, Poll asks for a report.      *)
(***************************************************************************)
EXTENDS Naturals

CONSTANTS
    LastRequest,  \* 9: from set address to get report descriptor
    SetAddress, SetConfig,  \* 1 and 6
    Key           \* key codes a keyboard may report

ASSUME UsbAssumption ==
    /\ SetAddress = 1 /\ LastRequest \in Nat /\ SetConfig \in 2 .. LastRequest
    /\ Key # {} /\ "None" \notin Key /\ "leftover" \notin Key

Poll == LastRequest + 1
Nothing == 0
StrayList == Poll + 1

VARIABLES
    ready,    \* SIE1 was initialized since the chip was last reset
    command,  \* "none", "init", "bus reset": written to the mailbox, not yet executed
    answer,   \* what a read of the mailbox gives: "ACK" or "other"
    answered, \* the mailbox bit of HPI_STATUS
    msg,      \* SIE1 message register: "none", "done", "change"
    flag,     \* HPI_STATUS_SIE1msg_FLAG: a message was written and not read
    list,     \* the list in memory and its control byte
    started,  \* HUSB_SIE1_pCurrentTDPtr: "list", "stray" (see UsbKeyboard), or
              \* "none" when the chip has taken it
    running,  \* what the chip is at: Nothing, a request, or StrayList
    begun,    \* the SETUP packet of the request it is at went through
    buffer,   \* the word at 0x051e
    plugged,  \* a keyboard is on the port (D+ or D- is high)
    heard,    \* the requests whose SETUP packet it heard since it was plugged or
              \* reset, all the program looks at
    has,      \* what it was given by those that went through: SetAddress, SetConfig
    pressed,  \* the key that is down on it
    unsent    \* it has a report that was not yet taken

chip == <<ready, command, answer, answered>>
messages == <<msg, flag>>
transfer == <<list, started, running, begun, buffer>>
keyboard == <<plugged, heard, has, pressed, unsent>>
usbvars == <<chip, messages, transfer, keyboard>>

Message(m) == msg' = m /\ flag' = TRUE

(* A bus reset, or another keyboard. *)
Forgets == heard' = {} /\ has' = {}

(* The chip executes a command and answers it. *)
ChipCommand ==
    /\ command # "none" /\ command' = "none"
    /\ answer' \in {"ACK", "other"} /\ answered' = TRUE
    /\ ready' = (ready \/ command = "init")
    /\ IF command = "bus reset" THEN Forgets ELSE UNCHANGED <<heard, has>>
    /\ UNCHANGED <<messages, transfer, plugged, pressed, unsent>>

(* A keyboard without an address only hears the first request, one with an *)
(* address only the others; reports come from a configured one.            *)
Answers(r) ==
    /\ plugged
    /\ \/ r = SetAddress /\ SetAddress \notin has
       \/ r \in 2 .. LastRequest /\ SetAddress \in has
       \/ r = Poll /\ SetConfig \in has

(* One thing at a time, and commands first: main.c goes on after the bus   *)
(* reset command without waiting for it.                                   *)
AtWork == ready /\ command = "none"

(* The chip takes the list as it finds it.                                 *)
Take ==
    /\ AtWork /\ running = Nothing /\ started # "none" /\ started' = "none"
    /\ running' = IF started = "stray" THEN StrayList ELSE list.req
    /\ UNCHANGED <<chip, messages, list, begun, buffer, keyboard>>

Walking == running \in 1 .. Poll

(* The control byte is written to where the list is, even if there is      *)
(* another by now.                                                         *)
Control(ctl) == list' = [list EXCEPT !.ctl = ctl]

(* The SETUP packet of a request of the enumeration, the first transaction *)
(* of its list.  Only the control byte of this one is looked at.           *)
Hear ==
    /\ AtWork /\ running \in 1 .. LastRequest /\ ~begun /\ begun' = TRUE
    /\ Answers(running) /\ Control("ok")
    /\ heard' = heard \cup {running}
    /\ UNCHANGED <<chip, messages, started, running, buffer, plugged, has, pressed, unsent>>

Finish ==
    /\ AtWork /\ Walking /\ running' = Nothing /\ begun' = FALSE
    /\ Message("done")
    /\ UNCHANGED <<chip, started, plugged, pressed>>

(* The rest of a request went through. *)
Serve ==
    /\ Finish /\ begun /\ running \in heard /\ Answers(running)
    /\ has' = has \cup ({running} \cap {SetAddress, SetConfig})
    /\ UNCHANGED <<list, buffer, heard, unsent>>

(* A report is taken. *)
Report ==
    /\ Finish /\ Control("ok")
    /\ running = Poll /\ Answers(Poll) /\ unsent
    /\ buffer' = pressed /\ unsent' = FALSE
    /\ UNCHANGED <<heard, has>>

(* No answer, or a transaction that failed with all its retries: the rest  *)
(* of the list is dropped.  A poll may end this way too when there is      *)
(* nothing to report.                                                      *)
Fail ==
    /\ Finish
    /\ IF begun THEN UNCHANGED list ELSE Control("error")
    /\ UNCHANGED <<buffer, heard, has, unsent>>

Stray ==
    /\ AtWork /\ running = StrayList /\ running' = Nothing
    /\ Message("done")
    /\ UNCHANGED <<chip, list, started, begun, buffer, keyboard>>

(* The connect change interrupt leaves a message of its own. *)
Change == IF ready THEN Message("change") ELSE UNCHANGED messages

Plug ==
    /\ ~plugged /\ plugged' = TRUE
    /\ Forgets /\ pressed' = "None" /\ unsent' = FALSE
    /\ Change /\ UNCHANGED <<chip, transfer>>

Unplug ==
    /\ plugged /\ plugged' = FALSE
    /\ Forgets /\ pressed' = "None" /\ unsent' = FALSE
    /\ Change /\ UNCHANGED <<chip, transfer>>

Press(k) ==
    /\ plugged /\ pressed # k
    /\ pressed' = k /\ unsent' = TRUE
    /\ UNCHANGED <<chip, messages, transfer, plugged, heard, has>>

UsbInit ==
    /\ ready = FALSE /\ command = "none" /\ answer = "other" /\ answered = FALSE
    /\ msg = "none" /\ flag = FALSE
    /\ list = [req |-> SetAddress, ctl |-> "error"]
    /\ started = "none" /\ running = Nothing /\ begun = FALSE
    /\ plugged \in BOOLEAN /\ heard = {} /\ has = {}
    /\ pressed = "None" /\ unsent = FALSE

(* What goes on by itself, with a keyboard that stays where it is. *)
Surroundings ==
    \/ ChipCommand \/ Take \/ Hear \/ Serve \/ Report \/ Fail \/ Stray
    \/ \E k \in Key \cup {"None"} : Press(k)
=============================================================================
