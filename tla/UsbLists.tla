------------------------------ MODULE UsbLists ------------------------------
(***************************************************************************)
(* The transfer lists of usb.c word by word.  The program writes the list  *)
(* of a request into the memory of the chip at 0x0500, writes the address  *)
(* to HUSB_SIE1_pCurrentTDPtr and, as long as there is no message, does    *)
(* both again, while the chip walks through what it finds there and        *)
(* receives data into the same memory.  What UsbKeyboard takes as one      *)
(* access is taken apart here, from the first request of the enumeration   *)
(* to the last; in turn the program is not ahead of the chip: it goes to   *)
(* the next request when the chip is through with the last submission,     *)
(* and it stops where it would restart (UsbKeyboard has the rest).  The    *)
(* walk of the chip is not in src/.                                        *)
(***************************************************************************)
EXTENDS Integers, Sequences

(* usb.c, request by request: the address in the token words, the setup    *)
(* data, the buffers of the data stage, each with its length.              *)
UsbSetAddress ==
    [dev |-> \h0000, setup |-> <<\h0500, \h0002, \h0000, \h0000>>, in |-> <<>>]

UsbGetDeviceDesc1 ==
    [dev |-> \h0200, setup |-> <<\h0680, \h0100, \h0000, \h0008>>, in |-> <<<<\h052C, 8>>>>]

UsbGetDeviceDesc2 ==
    [dev |-> \h0200, setup |-> <<\h0680, \h0100, \h0000, \h0012>>,
     in |-> <<<<\h0544, 8>>, <<\h054C, 8>>, <<\h0554, 2>>>>]

UsbGetConfigDesc1 ==
    [dev |-> \h0200, setup |-> <<\h0680, \h0200, \h0000, \h0009>>,
     in |-> <<<<\h0544, 8>>, <<\h054C, 1>>>>]

UsbGetConfigDesc2 ==
    [dev |-> \h0200, setup |-> <<\h0680, \h0200, \h0000, \h00FF>>,
     in |-> <<<<\h055C, 8>>, <<\h0564, 8>>, <<\h056C, 8>>, <<\h0574, 8>>, <<\h057C, 2>>>>]

UsbSetConfig ==
    [dev |-> \h0200, setup |-> <<\h0900, \h0001, \h0000, \h0000>>, in |-> <<>>]

UsbClassRequest ==
    [dev |-> \h0200, setup |-> <<\h0A21, \h0000, \h0000, \h0000>>, in |-> <<>>]

UsbGetHidDesc ==
    [dev |-> \h0200, setup |-> <<\h0681, \h2100, \h0000, \h007B>>, in |-> <<<<\h0544, 8>>>>]

UsbGetReportDesc ==
    [dev |-> \h0200, setup |-> <<\h0681, \h2200, \h0000, \h007B>>,
     in |-> <<<<\h0580, 8>>, <<\h0588, 8>>, <<\h0590, 8>>, <<\h0598, 8>>, <<\h05A0, 8>>,
            <<\h05A8, 8>>, <<\h05B0, 8>>, <<\h05B8, 3>>>>]

(* main.c, in this order. *)
Request ==
    <<UsbSetAddress, UsbGetDeviceDesc1, UsbGetDeviceDesc2, UsbGetConfigDesc1,
      UsbGetConfigDesc2, UsbSetConfig, UsbClassRequest, UsbGetHidDesc, UsbGetReportDesc>>
Requests == 9
SetAddress == 1
SetConfig == 6

(* A transfer descriptor: buffer, length, token, control with the toggle,  *)
(* 0x13 for three retries of an active one, and the link to the next.      *)
TD(base, len, token, ctl, next) == <<base, len, token, ctl, \h0013, next>>

Start == \h0500
SetupTd == \h0514  \* the descriptor after the setup data
StrayTd == \h0576  \* what main.c also starts before SetConfig
After(k) == SetupTd + 12 * k
DATA0 == \h0001
DATA1 == \h0041
SetupTo(dev) == dev + \h00D0
InFrom(dev) == dev + \h0090
OutTo(dev) == dev + \h0010

(* Mutant of DataTD: the same toggle in every packet. *)
DataTD_toggle(r, k) ==
    TD(Request[r].in[k][1], Request[r].in[k][2], InFrom(Request[r].dev), DATA1, After(k))

(* Mutant of DataTD: the link leads to the descriptor itself. *)
DataTD_loop(r, k) ==
    TD(Request[r].in[k][1], Request[r].in[k][2], InFrom(Request[r].dev),
       IF k % 2 = 1 THEN DATA1 ELSE DATA0, After(k - 1))

DataTD(r, k) ==
    TD(Request[r].in[k][1], Request[r].in[k][2], InFrom(Request[r].dev),
       IF k % 2 = 1 THEN DATA1 ELSE DATA0, After(k))

(* The last descriptor: nothing, the other way. *)
StatusTD(r) ==
    TD(0, 0, IF Request[r].in = <<>> THEN InFrom(Request[r].dev) ELSE OutTo(Request[r].dev), DATA1, 0)

(* All words of a list, in the order IO_write puts them at 0x0500, 0x0502, *)
(* ...: a descriptor, the setup data, six words for each of the others.    *)
SetupTD(r) == TD(\h050C, 8, SetupTo(Request[r].dev), DATA0, SetupTd)

Packets(r) == Len(Request[r].in)
Later(r, k) == IF k < Packets(r) THEN DataTD(r, k + 1) ELSE StatusTD(r)

ListLen(r) == 16 + 6 * Packets(r)

ListOf(r) ==
    [i \in 1 .. ListLen(r) |->
        IF i <= 6 THEN SetupTD(r)[i]
        ELSE IF i <= 10 THEN Request[r].setup[i - 6]
        ELSE Later(r, (i - 11) \div 6)[((i - 11) % 6) + 1]]

Lists == [r \in 1 .. Requests |-> ListOf(r)]

Address == {Start + 2 * i : i \in 0 .. 63}
Data == -1  \* a word received from the keyboard: anything

Anything == [a \in Address |-> Data]

VARIABLES
    mem,      \* the chip's memory from 0x0500 on, as words
    place,    \* where the program is, the labels of UsbKeyboard
    request,  \* the request it is at
    written,  \* how many words of the list are written
    got,      \* usb_ctl_val: the message last read
    msg,      \* SIE1 message register: "none" or "done"
    flag,     \* HPI_STATUS_SIE1msg_FLAG: a message was written and not read
    pointer,  \* HUSB_SIE1_pCurrentTDPtr, 0 when taken
    cur,      \* the descriptor the chip is at, 0 when it is idle
    td,       \* the words it has fetched, <<>> before
    expects,  \* the keyboard: next toggle of the data stage, "idle" outside a transfer
    heard,    \* the requests whose SETUP packet it heard
    has,      \* what it was given by those that went through (see UsbChip)
    askew,    \* history: a packet with a wrong toggle, or outside a transfer
    wild      \* history: a transfer with a garbled descriptor

steps == <<place, request, written, got>>
messages == <<msg, flag>>
walk == <<pointer, cur, td>>
keyboard == <<expects, heard, has>>
history == <<askew, wild>>
lvars == <<mem, steps, messages, walk, keyboard, history>>

Goto(from, to) == place = from /\ place' = to

Busy == pointer # 0 \/ cur # 0

(* One IO_write(HPI_DATA, ...): the address counts up by itself.           *)
WriteWord ==
    /\ place = "submit" /\ written < ListLen(request) /\ written' = written + 1
    /\ mem' = [mem EXCEPT ![Start + 2 * written] = Lists[request][written + 1]]
    /\ UNCHANGED <<place, request, got, messages, walk, keyboard, history>>

StartList ==
    /\ Goto("submit", "flag") /\ written = ListLen(request)
    /\ pointer' = Start
    /\ UNCHANGED <<mem, request, written, got, messages, cur, td, keyboard, history>>

(* while (!(... SIE1msg_FLAG)): the whole list again. *)
CheckFlag ==
    /\ place = "flag"
    /\ IF flag THEN place' = "message" /\ UNCHANGED written
       ELSE place' = "submit" /\ written' = 0
    /\ UNCHANGED <<mem, request, got, messages, walk, keyboard, history>>

(* UsbWaitTDListDone. *)
ReadMessage ==
    /\ Goto("message", "clear") /\ got' = msg /\ flag' = FALSE
    /\ UNCHANGED <<mem, request, written, msg, walk, keyboard, history>>

ClearMessage ==
    /\ place = "clear" /\ place' = IF got = "done" THEN "check" ELSE "message"
    /\ msg' = "none"
    /\ UNCHANGED <<mem, request, written, got, flag, walk, keyboard, history>>

(* Mutant of Accepted: the control byte is not looked at. *)
Accepted_always == TRUE

(* The control byte of the first descriptor. *)
Accepted == mem[\h0508] = \h0003

(* What is in the memory counts as unknown from then on, the next list is  *)
(* written over it.                                                        *)
Proceed ==
    /\ place = "check" /\ Accepted /\ ~Busy /\ request < Requests
    /\ request' = request + 1 /\ written' = 0 /\ mem' = Anything
    /\ place' = IF request + 1 = SetConfig THEN "stray" ELSE "submit"
    /\ UNCHANGED <<got, messages, walk, keyboard, history>>

(* The bytes of an endpoint descriptor, started as a list. *)
StartStray ==
    /\ Goto("stray", "submit") /\ pointer' = StrayTd
    /\ UNCHANGED <<mem, request, written, got, messages, cur, td, keyboard, history>>

Refuse ==
    /\ Goto("check", "retry") /\ ~Accepted
    /\ UNCHANGED <<mem, request, written, got, messages, walk, keyboard, history>>

(* The chip takes the pointer, and reads a descriptor when it comes to it. *)
TakePointer ==
    /\ cur = 0 /\ pointer # 0 /\ cur' = pointer /\ pointer' = 0
    /\ UNCHANGED <<mem, steps, messages, td, keyboard, history>>

Walking == cur \notin {0, StrayTd}

Fetch ==
    /\ Walking /\ td = <<>> /\ td' = [i \in 1 .. 6 |-> mem[cur + 2 * (i - 1)]]
    /\ UNCHANGED <<mem, steps, messages, pointer, cur, keyboard, history>>

IsSetup == td[3] \in {SetupTo(0), SetupTo(\h0200)}
IsData == td[3] \in {InFrom(0), InFrom(\h0200)} /\ td[2] > 0
IsStatus == ~IsSetup /\ ~IsData

(* A keyboard without an address answers to 0, one with an address to 2.   *)
AnswersTo ==
    IF SetAddress \in has THEN td[3] \in {SetupTo(\h0200), InFrom(\h0200), OutTo(\h0200)}
    ELSE td[3] \in {SetupTo(0), InFrom(0), OutTo(0)}

(* What the keyboard makes of a transaction: SETUP always begins a         *)
(* transfer, the data stage alternates from DATA1, the status stage is     *)
(* DATA1 and ends it.                                                      *)
Right ==
    IF IsSetup THEN td[4] = DATA0
    ELSE /\ expects # "idle"
         /\ td[4] = IF IsData /\ expects = "0" THEN DATA0 ELSE DATA1

Heard ==
    /\ askew' = (askew \/ ~Right)
    /\ expects' = IF IsSetup THEN "1" ELSE IF IsStatus THEN "idle"
                  ELSE IF expects = "1" THEN "0" ELSE "1"
    /\ wild' = (wild \/ Data \in {td[1], td[2], td[3], td[4]})
    /\ heard' = IF IsSetup THEN heard \cup {request} ELSE heard
    /\ has' = IF IsStatus THEN has \cup ({request} \cap {SetAddress, SetConfig}) ELSE has

(* The buffer of a data packet, in words. *)
Received ==
    IF IsData THEN {a \in Address : a >= td[1] /\ a < td[1] + td[2]} ELSE {}

Message == msg' = "done" /\ flag' = TRUE

(* A transaction that went through: the control byte becomes 0x03 and the  *)
(* chip goes on to the next descriptor, or tells that the list is done.    *)
Transact ==
    /\ td # <<>> /\ td' = <<>> /\ AnswersTo
    /\ mem' = [a \in Address |->
                IF a = \h0508 /\ cur = Start THEN \h0003 ELSE IF a \in Received THEN Data ELSE mem[a]]
    /\ cur' = td[6] /\ Heard
    /\ IF td[6] = 0 THEN Message ELSE UNCHANGED messages
    /\ UNCHANGED <<steps, pointer>>

(* All retries failed: the rest of the list is dropped. *)
GiveUp ==
    /\ td # <<>> /\ td' = <<>> /\ cur' = 0 /\ Message
    /\ mem' = IF cur = Start THEN [mem EXCEPT ![\h0508] = \h0000] ELSE mem
    /\ UNCHANGED <<steps, pointer, keyboard, history>>

(* Whatever the chip makes of it, a message comes at the end. *)
EndStray ==
    /\ cur = StrayTd /\ cur' = 0 /\ Message
    /\ UNCHANGED <<mem, steps, pointer, td, keyboard, history>>

ListsInit ==
    /\ mem = Anything
    /\ place = "submit" /\ request = SetAddress /\ written = 0 /\ got = "none"
    /\ msg = "none" /\ flag = FALSE
    /\ pointer = 0 /\ cur = 0 /\ td = <<>>
    /\ expects = "idle" /\ heard = {} /\ has = {}
    /\ askew = FALSE /\ wild = FALSE

Program ==
    \/ WriteWord \/ StartList \/ CheckFlag \/ ReadMessage \/ ClearMessage
    \/ Proceed \/ StartStray \/ Refuse

ListsNext == Program \/ TakePointer \/ Fetch \/ Transact \/ GiveUp \/ EndStray

(* The chip goes on with what it has, and so does the program. *)
ListsFair ==
    /\ WF_lvars(TakePointer) /\ WF_lvars(Fetch) /\ WF_lvars(Transact \/ GiveUp)
    /\ WF_lvars(EndStray) /\ WF_lvars(Program)

ListsSpec == ListsInit /\ [][ListsNext]_lvars /\ ListsFair
-----------------------------------------------------------------------------
(* The state in the terms of UsbKeyboard.  The words that were written so  *)
(* far are a list from the fifth on, the control byte at 0x0508.  There is *)
(* no reset and no report here, and that a message was once lost, which    *)
(* UsbKeyboard records, is taken for granted.                              *)
AsPlace == IF place = "submit" /\ written > 4 THEN "start" ELSE place

AsList ==
    IF mem[\h0508] = Data
    THEN IF request = SetAddress THEN [req |-> SetAddress, ctl |-> "error"]
         ELSE [req |-> request - 1, ctl |-> "ok"]
    ELSE [req |-> request,
          ctl |-> IF mem[\h0508] = \h0003 THEN "ok"
                  ELSE IF mem[\h0508] = \h0013 THEN "active" ELSE "error"]

AsStarted == IF pointer = 0 THEN "none" ELSE IF pointer = StrayTd THEN "stray" ELSE "list"

AsRunning == IF cur = 0 THEN 0 ELSE IF cur = StrayTd THEN Requests + 2 ELSE request

Driver == INSTANCE UsbKeyboard WITH
    LastRequest <- Requests, Key <- {"Space"}, LooksBefore <- 5, LooksAfter <- 7,
    ready <- TRUE, command <- "none", answer <- "ACK", answered <- FALSE,
    list <- AsList, started <- AsStarted, running <- AsRunning,
    begun <- cur \notin {0, Start, StrayTd}, buffer <- "leftover",
    plugged <- TRUE, pressed <- "None", unsent <- FALSE,
    pc <- AsPlace, looks <- 0, keycode <- "None", port <- "None",
    lapsed <- FALSE, late <- FALSE, reported <- {}, lost <- TRUE

(* Word by word, with the chip at work in the same memory, nothing happens *)
(* that does not happen when a list is one access: each word the program   *)
(* writes, each packet and each message is one step of UsbKeyboard or      *)
(* none.                                                                   *)
ImplementsDriver == [][Driver!KeyboardNext]_(Driver!dvars)

(* Submitting a request again while the chip is at its list does no harm:  *)
(* whatever word of the list is being written, every descriptor the chip   *)
(* fetches is whole, it never leaves the list, and to the keyboard every   *)
(* packet is the next one of a control transfer: SETUP, data with          *)
(* alternating toggles, status.                                            *)
AgainIsHarmless ==
    /\ ~askew /\ ~wild
    /\ Walking => \E k \in 0 .. Packets(request) : cur \in {Start, After(k)}

(* Every walk of the chip ends and leaves a message, so the program never  *)
(* submits for ever.                                                       *)
WalkEnds == Busy ~> flag

(* main.c:202 prints "set address done!" when it goes on to the second     *)
(* request: the keyboard has its address.                                  *)
DoneIsDone == [][request = SetAddress /\ request' # request => SetAddress \in has]_lvars
=============================================================================
