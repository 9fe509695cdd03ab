---------------------------- MODULE KeyboardProof ----------------------------
(***************************************************************************)
(* Theorems about the keyboard driver, for every number of requests, of    *)
(* looks at the port and of keys.                                          *)
(***************************************************************************)
EXTENDS UsbKeyboard, TLAPS

(* The places before the first request, and those after a list is written. *)
Early == {"restart", "init wait", "init read", "bus reset", "bus read", "look"}
Written == {"start", "flag", "message", "clear", "check"}

Requests == 1 .. Poll

(* What the program and the chip are at.                                   *)
Places ==
    /\ request \in Requests /\ running \in 0 .. StrayList
    /\ list \in [req: Requests, ctl: {"active", "ok", "error"}]
    /\ command \in {"none", "init", "bus reset"}
    /\ lapsed \in BOOLEAN /\ late \in BOOLEAN
    /\ pc \in Early \ {"restart"} => request = SetAddress
    /\ pc = "check" => request # Poll

(* In an enumeration that nothing has disturbed the chip works at the list *)
(* that is in memory, its control byte is good only if the keyboard heard *)
(* it, and the bus reset, which makes it forget, comes before all.         *)
Honest ==
    /\ \A r \in 1 .. request - 1 : r \in heard
    /\ Walking => running = list.req
    /\ command # "none" => request = SetAddress
    /\ pc \in Written =>
        /\ list.req = request
        /\ list.ctl = "ok" => command = "none" /\ (list.req = Poll \/ list.req \in heard)

Undisturbed == ~lapsed /\ ~late => Honest

(* Every key the program or the game has was reported.                     *)
KeysReported == {buffer, keycode, port} \cap Key \subseteq reported
(* Before the first list is written the buffer may hold a key of the past; *)
(* the lists of the enumeration cover it.                                  *)
Before == request = SetAddress /\ pc \in Early \cup {"submit", "no device"}

Fresh ==
    /\ Before \/ (buffer \in Key => buffer \in reported)
    /\ pc = "publish" /\ keycode \in Key => keycode \in reported

-----------------------------------------------------------------------------
(* What the assumptions say of the numbers. *)
LEMMA Numbers ==
    /\ LastRequest \in Nat /\ LastRequest >= 2 /\ SetAddress = 1 /\ SetAddress \in Requests
    /\ Poll = LastRequest + 1 /\ Poll \in Requests /\ StrayList = Poll + 1
    /\ StrayList \in Nat /\ Nothing = 0 /\ Nothing \in 0 .. StrayList
    /\ "leftover" \notin Key /\ "None" \notin Key
  BY UsbAssumption DEF Poll, StrayList, Requests, Nothing

(* The beginning. *)
LEMMA KeyboardStarts == KeyboardInit => Places /\ Undisturbed /\ KeysReported
<1> SUFFICES ASSUME KeyboardInit
             PROVE  Places /\ Undisturbed /\ KeysReported
  OBVIOUS
<1>1. Places
  <2>1. list \in [req: Requests, ctl: {"active", "ok", "error"}]
    BY Numbers DEF KeyboardInit, UsbInit
  <2>2. running \in 0 .. StrayList
    BY Numbers DEF KeyboardInit, UsbInit, Nothing
  <2> QED
    BY <2>1, <2>2, Numbers DEF KeyboardInit, UsbInit, DriverInit, Places, Early
<1>2. Undisturbed
  BY Numbers DEF KeyboardInit, UsbInit, DriverInit, Undisturbed, Honest, Walking, Nothing, Written
<1>3. KeysReported
  BY Numbers DEF KeyboardInit, UsbInit, DriverInit, KeysReported
<1> QED
  BY <1>1, <1>2, <1>3

(* A step of the program keeps the types. *)
LEMMA DriverPlaces ==
    ASSUME Places, Driver
    PROVE  Places'
<1> USE Numbers
<1>1. CASE Restart
  <2>1. running' \in 0 .. StrayList
    BY <1>1 DEF Restart
  <2> QED
    BY <1>1, <2>1 DEF Restart, Goto, Places, Early
<1>2. CASE InitWait \/ InitRead \/ BusReset \/ BusRead \/ LookBefore \/ LookAfter \/ Inserted
  BY <1>2 DEF InitWait, InitRead, BusReset, BusRead, LookBefore, LookAfter, Inserted, ReadMailbox,
         Look, Goto, Places, Early, usbvars, chip, messages, transfer, keyboard, history
<1>3. CASE Submit
  <2>1. list' = [req |-> request, ctl |-> "active"] /\ pc' = "start" /\ late' \in BOOLEAN
        /\ UNCHANGED <<request, running, command, lapsed>>
    BY <1>3 DEF Submit, Goto, chip, Places
  <2> QED
    BY <2>1 DEF Places, Early
<1>4. CASE Proceed
  <2>1. request \in 1 .. LastRequest
    <3>1. request \in Requests /\ request # Poll
      BY <1>4 DEF Proceed, Places
    <3> QED
      BY <3>1 DEF Requests
  <2>2. request' \in Requests
    BY <1>4, <2>1 DEF Proceed, Requests
  <2> QED
    BY <1>4, <2>2 DEF Proceed, Places, Early, usbvars, chip, transfer, history
<1>5. CASE Start \/ CheckFlag \/ ReadMessage \/ ClearMessage \/ StartStray \/ Refuse
  BY <1>5 DEF Start, CheckFlag, ReadMessage, ClearMessage, StartStray, Refuse, Goto, Places, Early,
         usbvars, chip, transfer, history
<1>6. CASE RetryRead \/ RetryClear \/ RetryWait \/ ReadReport \/ Publish
  BY <1>6 DEF RetryRead, RetryClear, RetryWait, ReadReport, Publish, Goto, Places, Early, usbvars,
         chip, transfer, history
<1> QED
  BY <1>1, <1>2, <1>3, <1>4, <1>5, <1>6 DEF Driver

(* So does one of the chip or of the keyboard, and the reset button. *)
LEMMA ChipPlaces ==
    ASSUME Places, Beside(Surroundings) \/ Replug \/ ButtonReset
    PROVE  Places'
<1> USE Numbers
<1>1. CASE Beside(Surroundings)
  <2>0. UNCHANGED <<pc, request, lapsed, late>>
    BY <1>1 DEF Beside, driver
  <2>1. CASE ChipCommand \/ \E k \in Key \cup {"None"} : Press(k)
    BY <2>0, <2>1 DEF ChipCommand, Press, Places, chip, transfer
  <2>2. CASE Take
    <3>1. running' \in 0 .. StrayList
      <4>1. running' \in {StrayList, list.req} /\ list.req \in Requests
        BY <2>2 DEF Take, Places
      <4> QED
        BY <4>1 DEF Requests
    <3> QED
      BY <2>0, <2>2, <3>1 DEF Take, Places, chip
  <2>3. CASE Hear \/ Serve \/ Report \/ Fail
    <3>1. list' \in [req: Requests, ctl: {"active", "ok", "error"}]
      BY <2>3 DEF Hear, Serve, Report, Fail, Control, Places
    <3>2. running' \in 0 .. StrayList /\ command' = command
      BY <2>3 DEF Hear, Serve, Report, Fail, Finish, Places, chip
    <3> QED
      BY <2>0, <3>1, <3>2 DEF Places
  <2>4. CASE Stray
    BY <2>0, <2>4 DEF Stray, Places, chip
  <2> QED
    BY <1>1, <2>1, <2>2, <2>3, <2>4 DEF Beside, Surroundings
<1>2. CASE Replug
  BY <1>2 DEF Replug, Plug, Unplug, Places, driver, chip, transfer
<1>3. CASE ButtonReset
  BY <1>3 DEF ButtonReset, Places, driver
<1> QED
  BY <1>1, <1>2, <1>3

(* Every step keeps the types. *)
LEMMA PlacesStep ==
    ASSUME Places, [KeyboardNext]_dvars
    PROVE  Places'
<1>1. CASE UNCHANGED dvars
  BY <1>1 DEF dvars, usbvars, chip, transfer, driver, history, Places
<1> QED
  BY <1>1, DriverPlaces, ChipPlaces DEF KeyboardNext

-----------------------------------------------------------------------------
(* The program does not run ahead of the keyboard. *)
LEMMA DriverHonest ==
    ASSUME Places, Undisturbed, Driver
    PROVE  Undisturbed'
<1> USE Numbers
<1>1. CASE Restart
  <2>1. request' = 1
    BY <1>1 DEF Restart
  <2>2. running' = 0
    BY <1>1 DEF Restart
  <2>3. pc' = "init wait"
    BY <1>1 DEF Restart, Goto
  <2>4. \A r \in 1 .. request' - 1 : r \in heard'
    BY <2>1
  <2>5. ~Walking'
    BY <2>2 DEF Walking
  <2>6. pc' \notin Written
    BY <2>3 DEF Written
  <2> QED
    BY <2>1, <2>4, <2>5, <2>6 DEF Undisturbed, Honest
<1>2. CASE Submit
  <2> SUFFICES ASSUME ~lapsed', ~late'
               PROVE  Honest'
    BY DEF Undisturbed
  <2>1. list' = [req |-> request, ctl |-> "active"] /\ pc' = "start"
        /\ UNCHANGED <<request, running, command, heard, lapsed>>
    BY <1>2 DEF Submit, Goto, chip, keyboard
  <2>2. ~late /\ ~Overtakes
    BY <1>2 DEF Submit
  <2>3. Honest
    BY <2>1, <2>2 DEF Undisturbed
  <2>4. Walking' => running' = list'.req
    BY <2>1, <2>2, <2>3 DEF Overtakes, Honest, Walking
  <2> QED
    BY <2>1, <2>3, <2>4 DEF Honest
<1>3. CASE Proceed
  <2> SUFFICES ASSUME ~lapsed', ~late'
               PROVE  Honest'
    BY DEF Undisturbed
  <2>1. pc = "check" /\ list.ctl = "ok" /\ request' = request + 1 /\ pc' \notin Written
        /\ UNCHANGED <<list, running, command, heard, lapsed, late>>
    BY <1>3 DEF Proceed, Accepted, usbvars, chip, transfer, keyboard, history, Written
  <2>2. Honest
    BY <2>1 DEF Undisturbed
  <2>3. request \in heard /\ command = "none"
    BY <2>1, <2>2 DEF Honest, Places, Written
  <2>4. \A r \in 1 .. request' - 1 : r \in heard
    <3>1. request \in Nat
      <4>1. request \in Requests
        BY DEF Places
      <4> QED
        BY <4>1 DEF Requests
    <3>2. ASSUME NEW r \in 1 .. request' - 1
          PROVE  r \in heard
      <4>1. r = request \/ r \in 1 .. request - 1
        BY <2>1, <3>1
      <4> QED
        BY <2>2, <2>3, <4>1 DEF Honest
    <3> QED
      BY <3>2
  <2> QED
    BY <2>1, <2>2, <2>3, <2>4 DEF Honest, Walking
<1>4. CASE BusReset
  <2>1. pc = "bus reset" /\ pc' = "bus read" 
        /\ UNCHANGED <<request, list, running, heard, lapsed, late>>
    BY <1>4 DEF BusReset, Goto, transfer, keyboard, history
  <2>2. request = SetAddress
    BY <2>1 DEF Places, Early
  <2> QED
    BY <2>1, <2>2 DEF Undisturbed, Honest, Walking, Written
<1>5. CASE Start \/ CheckFlag \/ ReadMessage \/ ClearMessage
  <2>1. pc \in Written /\ UNCHANGED <<request, list, running, command, heard, lapsed, late>>
    BY <1>5 DEF Start, CheckFlag, ReadMessage, ClearMessage, Goto, usbvars, chip, transfer,
           keyboard, history, Written
  <2> QED
    BY <2>1 DEF Undisturbed, Honest, Walking
<1>6. CASE StartStray \/ Refuse \/ RetryRead \/ RetryClear \/ RetryWait \/ ReadReport \/ Publish
  <2>1. pc' \notin Written /\ UNCHANGED <<request, list, running, command, heard, lapsed, late>>
    BY <1>6 DEF StartStray, Refuse, RetryRead, RetryClear, RetryWait, ReadReport, Publish, Goto,
           usbvars, chip, transfer, keyboard, history, Written
  <2> QED
    BY <2>1 DEF Undisturbed, Honest, Walking
<1>7. CASE InitWait \/ InitRead \/ BusRead \/ LookBefore \/ LookAfter \/ Inserted
  <2>1. pc' \notin Written /\ UNCHANGED <<request, list, running, command, heard, lapsed, late>>
    BY <1>7 DEF InitWait, InitRead, BusRead, LookBefore, LookAfter, Inserted, ReadMailbox, Look,
           Goto, usbvars, chip, transfer, keyboard, history, Written
  <2> QED
    BY <2>1 DEF Undisturbed, Honest, Walking
<1> QED
  BY <1>1, <1>2, <1>3, <1>4, <1>5, <1>6, <1>7 DEF Driver

(* Nor does the chip deceive it. *)
LEMMA ChipHonest ==
    ASSUME Places, Undisturbed, Beside(Surroundings) \/ Replug \/ ButtonReset
    PROVE  Undisturbed'
<1> USE Numbers
<1>1. CASE Beside(Surroundings)
  <2> SUFFICES ASSUME ~lapsed', ~late'
               PROVE  Honest'
    BY DEF Undisturbed
  <2>0. Honest /\ UNCHANGED <<pc, request>>
    BY <1>1 DEF Beside, driver, Undisturbed
  <2>1. CASE ChipCommand
    <3>1. command # "none" /\ command' = "none" /\ UNCHANGED <<list, running>>
      BY <2>1 DEF ChipCommand, transfer
    <3>2. request = 1
      BY <2>0, <3>1 DEF Honest
    <3> QED
      BY <2>0, <3>1, <3>2 DEF Honest, Walking
  <2>2. CASE \E k \in Key \cup {"None"} : Press(k)
    BY <2>0, <2>2 DEF Press, Honest, Walking, chip, transfer
  <2>3. CASE Take
    <3>1. running' \in {StrayList, list.req} /\ UNCHANGED <<list, command, heard>>
      BY <2>3 DEF Take, chip, keyboard
    <3>2. StrayList \notin 1 .. Poll
      OBVIOUS
    <3> QED
      BY <2>0, <3>1, <3>2 DEF Honest, Walking
  <2>4. CASE Stray
    BY <2>0, <2>4 DEF Stray, Honest, Walking, chip, keyboard
  <2>5. ASSUME NEW ctl \in {"ok", "error"}, Walking, AtWork, Control(ctl),
               command' = command, running' \in {0, running}, heard \subseteq heard',
               ctl = "ok" => running = Poll \/ running \in heard'
        PROVE  Honest'
    <3>1. command = "none" /\ command' = "none"
      BY <2>5 DEF AtWork
    <3>2. list' = [list EXCEPT !.ctl = ctl]
      BY <2>5 DEF Control
    <3>3. list'.req = list.req /\ list'.ctl = ctl
      BY <3>2 DEF Places
    <3>4. running = list.req
      BY <2>0, <2>5 DEF Honest
    <3> QED
      BY <2>0, <2>5, <3>1, <3>3, <3>4 DEF Honest, Walking
  <2>6. CASE Hear
    <3>1. Walking /\ AtWork /\ command' = command /\ running' = running
      BY <2>6 DEF Hear, Walking, chip
    <3> QED
      BY <2>5, <2>6, <3>1 DEF Hear
  <2>7. CASE Serve \/ Report \/ Fail
    <3>1. Walking /\ AtWork /\ command' = command /\ running' = 0 /\ heard' = heard
      BY <2>7 DEF Serve, Report, Fail, Finish, chip
    <3>2. CASE list' = list
      BY <2>0, <3>1, <3>2 DEF Honest, Walking
    <3>3. CASE Report
      BY <2>5, <3>1, <3>3 DEF Report
    <3>4. CASE Control("error")
      BY <2>5, <3>1, <3>4
    <3> QED
      BY <2>7, <3>2, <3>3, <3>4 DEF Serve, Fail
  <2> QED
    BY <1>1, <2>1, <2>2, <2>3, <2>4, <2>6, <2>7 DEF Beside, Surroundings
<1>2. CASE Replug \/ ButtonReset
  BY <1>2 DEF Replug, ButtonReset, Undisturbed
<1> QED
  BY <1>1, <1>2

(* Every step keeps Undisturbed. *)
LEMMA UndisturbedStep ==
    ASSUME Places, Undisturbed, [KeyboardNext]_dvars
    PROVE  Undisturbed'
<1>1. CASE UNCHANGED dvars
  BY <1>1 DEF dvars, usbvars, chip, transfer, keyboard, driver, history, Undisturbed, Honest,
         Walking
<1> QED
  BY <1>1, DriverHonest, ChipHonest DEF KeyboardNext

(* Every step keeps KeysReported: a key comes into the buffer with a       *)
(* report, and from there to the program.                                  *)
LEMMA KeysStep ==
    ASSUME KeysReported, [KeyboardNext]_dvars
    PROVE  KeysReported'
<1>1. CASE UNCHANGED dvars
  BY <1>1 DEF dvars, usbvars, transfer, driver, history, KeysReported
<1>2. CASE Driver
  <2>1. CASE Submit
    BY <2>1, Numbers DEF Submit, KeysReported
  <2>2. CASE ReadReport \/ Publish
    BY <2>2 DEF ReadReport, Publish, KeyWord, usbvars, transfer, history, KeysReported
  <2>3. CASE Restart \/ InitWait \/ InitRead \/ BusReset \/ BusRead \/ LookBefore \/ LookAfter
    BY <2>3 DEF Restart, InitWait, InitRead, BusReset, BusRead, LookBefore, LookAfter, Look,
           ReadMailbox, usbvars, transfer, history, KeysReported
  <2>4. CASE Inserted \/ Start \/ CheckFlag \/ ReadMessage \/ ClearMessage \/ Proceed
    BY <2>4 DEF Inserted, Start, CheckFlag, ReadMessage, ClearMessage, Proceed, usbvars, transfer,
           history, KeysReported
  <2>5. CASE StartStray \/ Refuse \/ RetryRead \/ RetryClear \/ RetryWait
    BY <2>5 DEF StartStray, Refuse, RetryRead, RetryClear, RetryWait, usbvars, transfer, history,
           KeysReported
  <2> QED
    BY <1>2, <2>1, <2>2, <2>3, <2>4, <2>5 DEF Driver
<1>3. CASE Beside(Surroundings)
  <2>0. UNCHANGED <<keycode, port>> /\ reported \subseteq reported'
    BY <1>3 DEF Beside, driver
  <2>1. CASE Report
    <3>1. reported' = reported \cup {buffer'}
      BY <1>3, <2>1 DEF Report, Beside
    <3> QED
      BY <2>0, <3>1 DEF KeysReported
  <2>2. CASE ChipCommand \/ Take \/ Hear \/ Serve \/ Fail \/ Stray \/ \E k \in Key \cup {"None"} : Press(k)
    <3>1. buffer' = buffer
      BY <2>2 DEF ChipCommand, Take, Hear, Serve, Fail, Stray, Press, transfer
    <3> QED
      BY <2>0, <3>1 DEF KeysReported
  <2> QED
    BY <1>3, <2>1, <2>2 DEF Beside, Surroundings
<1>4. CASE Replug \/ ButtonReset
  BY <1>4 DEF Replug, Plug, Unplug, ButtonReset, driver, transfer, KeysReported
<1> QED
  BY <1>1, <1>2, <1>3, <1>4 DEF KeyboardNext

(* The inductive invariant. *)
LEMMA KeyboardInvariant == KeyboardSpec => [](Places /\ Undisturbed /\ KeysReported)
<1>1. Places /\ Undisturbed /\ KeysReported /\ [KeyboardNext]_dvars
        => (Places /\ Undisturbed /\ KeysReported)'
  BY PlacesStep, UndisturbedStep, KeysStep
<1> QED
  BY <1>1, KeyboardStarts, PTL DEF KeyboardSpec

(* The enumeration never runs ahead of the keyboard, as long as since the  *)
(* restart nothing was unplugged or reset (lapsed), and no list was        *)
(* written over one the chip was still to do (late).                       *)
THEOREM EnumerationIsHonest == KeyboardSpec => []EnumerationHonest
<1>1. Undisturbed => EnumerationHonest
  BY DEF Undisturbed, Honest, EnumerationHonest
<1> QED
  BY <1>1, KeyboardInvariant, PTL

(* No key reaches the game that no keyboard reported. *)
THEOREM NoKeyInvented == KeyboardSpec => []NoGhostKey
<1>1. KeysReported => NoGhostKey
  BY DEF KeysReported, NoGhostKey
<1> QED
  BY <1>1, KeyboardInvariant, PTL

(* After the reset button, in the middle of a submission, nothing changes  *)
(* any more for the game: not by the program, by the chip or the player.   *)
THEOREM SilentForEver == KeyboardSpec => ResetSilences
<1>1. ASSUME Deaf, [KeyboardNext]_dvars
      PROVE  Deaf' /\ port' = port
  <2>0. pc \in {"submit", "start", "flag"} /\ ~ready /\ ~flag /\ command = "none"
    BY <1>1 DEF Deaf
  <2>1. CASE UNCHANGED dvars
    BY <1>1, <2>1 DEF dvars, usbvars, chip, messages, driver, Deaf
  <2>2. CASE Driver
    <3>1. Submit \/ Start \/ CheckFlag
      BY <2>0, <2>2 DEF Driver, Restart, InitWait, InitRead, BusReset, BusRead, LookBefore,
             LookAfter, Inserted, ReadMessage, ClearMessage, Proceed, StartStray, Refuse, RetryRead,
             RetryClear, RetryWait, ReadReport, Publish, Goto, Look, ReadMailbox
    <3> QED
      BY <2>0, <3>1 DEF Submit, Start, CheckFlag, Goto, usbvars, chip, messages, Deaf
  <2>3. CASE Beside(Surroundings)
    <3>1. \E k \in Key \cup {"None"} : Press(k)
      BY <2>0, <2>3 DEF Beside, Surroundings, ChipCommand, Take, Hear, Serve, Report, Fail, Stray, Finish,
             AtWork
    <3> QED
      BY <2>0, <2>3, <3>1 DEF Beside, Press, driver, chip, messages, Deaf
  <2>4. CASE Replug
    BY <2>0, <2>4 DEF Replug, Plug, Unplug, Change, driver, chip, messages, Deaf
  <2>5. CASE ButtonReset
    BY <2>0, <2>5 DEF ButtonReset, driver, Deaf
  <2> QED
    BY <1>1, <2>1, <2>2, <2>3, <2>4, <2>5 DEF KeyboardNext
<1>2. [KeyboardNext]_dvars => [Deaf => Deaf' /\ port' = port]_dvars
  BY <1>1
<1> QED
  BY <1>2, PTL DEF KeyboardSpec, ResetSilences

(* From a restart on, with a keyboard that stays: what is published was    *)
(* reported since, although the buffer is read after each message.         *)
LEMMA FreshStep ==
    ASSUME Fresh, [SteadyNext]_dvars
    PROVE  Fresh'
<1>1. CASE UNCHANGED dvars
  BY <1>1 DEF dvars, usbvars, transfer, driver, history, Fresh, Before
<1>2. CASE Submit
  <2>1. pc = "submit" /\ pc' = "start" /\ reported' = reported /\ request' = request
    BY <1>2 DEF Submit, Goto
  <2>2. buffer' = IF request = Poll THEN buffer ELSE "leftover"
    BY <1>2 DEF Submit
  <2>3. SetAddress # Poll /\ "leftover" \notin Key
    BY Numbers
  <2>4. buffer' \in Key => buffer' \in reported
    BY <2>2, <2>3 DEF Fresh, Before
  <2> QED
    BY <2>1, <2>4 DEF Fresh
<1>3. CASE ReadReport
  <2>1. pc = "report" /\ keycode' = buffer /\ UNCHANGED <<buffer, reported>>
    BY <1>3 DEF ReadReport, Goto, KeyWord, usbvars, transfer, history
  <2> QED
    BY <2>1 DEF Fresh, Before, Early
<1>4. CASE Restart
  BY <1>4 DEF Restart, Goto, Fresh, Before, Early
<1>5. CASE InitWait \/ InitRead \/ BusReset \/ BusRead \/ LookBefore \/ LookAfter \/ Inserted
  <2>1. UNCHANGED <<buffer, request, keycode, reported>> /\ pc' # "publish"
    BY <1>5 DEF InitWait, InitRead, BusReset, BusRead, LookBefore, LookAfter, Inserted, ReadMailbox,
           Look, Goto, usbvars, transfer, history
  <2>2. pc \in Early \cup {"look after", "no device"}
    BY <1>5 DEF InitWait, InitRead, BusReset, BusRead, LookBefore, LookAfter, Inserted, ReadMailbox,
           Look, Goto, Early
  <2>3. pc \in Early \cup {"no device"} => pc' \in Early \cup {"submit", "no device"}
    BY <1>5 DEF InitWait, InitRead, BusReset, BusRead, LookBefore, LookAfter, Inserted, ReadMailbox,
           Look, Goto, Early
  <2> QED
    BY <2>1, <2>2, <2>3 DEF Fresh, Before, Early
<1>6. CASE \/ Start \/ CheckFlag \/ ReadMessage \/ ClearMessage \/ Proceed \/ StartStray \/ Refuse
           \/ RetryRead \/ RetryClear \/ RetryWait \/ Publish
  <2>1. UNCHANGED <<buffer, keycode, reported>> /\ pc' # "publish"
    BY <1>6 DEF Start, CheckFlag, ReadMessage, ClearMessage, Proceed, StartStray, Refuse, RetryRead,
           RetryClear, RetryWait, Publish, Goto, usbvars, transfer, history
  <2>2. pc \notin Early \cup {"submit", "no device"}
    BY <1>6 DEF Start, CheckFlag, ReadMessage, ClearMessage, Proceed, StartStray, Refuse, RetryRead,
           RetryClear, RetryWait, Publish, Goto, Early
  <2> QED
    BY <2>1, <2>2 DEF Fresh, Before
<1>7. CASE Beside(Surroundings)
  <2>0. UNCHANGED <<pc, request, keycode>> /\ reported \subseteq reported'
    BY <1>7 DEF Beside, driver
  <2>1. CASE Report
    <3>1. reported' = reported \cup {buffer'}
      BY <1>7, <2>1 DEF Report, Beside
    <3> QED
      BY <2>0, <3>1 DEF Fresh, Before
  <2>2. CASE ChipCommand \/ Take \/ Hear \/ Serve \/ Fail \/ Stray \/ \E k \in Key \cup {"None"} : Press(k)
    <3>1. buffer' = buffer
      BY <2>2 DEF ChipCommand, Take, Hear, Serve, Fail, Stray, Press, transfer
    <3> QED
      BY <2>0, <3>1 DEF Fresh, Before
  <2> QED
    BY <1>7, <2>1, <2>2 DEF Beside, Surroundings
<1> QED
  BY <1>1, <1>2, <1>3, <1>4, <1>5, <1>6, <1>7 DEF SteadyNext, Driver

(* What the program writes to the port after a restart is never a key that *)
(* was left there by the keyboard before.                                  *)
THEOREM NoKeyLeftOver == SteadySpec => []NoStaleKey
<1>1. SteadyInit => Fresh
  BY DEF SteadyInit, DriverInit, Fresh, Before, Early
<1>2. Fresh /\ [SteadyNext]_dvars => Fresh'
  BY FreshStep
<1>3. Fresh => NoStaleKey
  BY DEF Fresh, NoStaleKey
<1> QED
  BY <1>1, <1>2, <1>3, PTL DEF SteadySpec
==============================================================================
