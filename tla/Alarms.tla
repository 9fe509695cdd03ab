-------------------------------- MODULE Alarms --------------------------------
(***************************************************************************)
(* The alarms of the board support package: alt_alarm_start() and          *)
(* alt_alarm_stop() of the program, alt_tick() of the system clock, which  *)
(* walks the linked list and rings what is due.  The JTAG UART driver asks *)
(* for one alarm every second.  The tick counter and the times are words   *)
(* that wrap.  Nothing interrupts alt_tick(); a step of it is one alarm.   *)
(***************************************************************************)
EXTENDS Integers

CONSTANTS
    TickWords,  \* 2^32
    Alarm,      \* the alarm structures of the program
    List        \* alt_alarm_list, the head

ASSUME AlarmAssumption == TickWords \in Nat \ {0, 1} /\ List \notin Alarm

Node == Alarm \cup {List}
Ticks == 0 .. TickWords - 1

VARIABLES
    tick_rate,  \* _alt_tick_rate is set: there is a system clock
    nticks,     \* _alt_nticks
    time, rollover,
    links,      \* the pointers, [next, previous]; a node that points to itself is in no list
    alarm,      \* where alt_tick() is; List when it is not running
    ringing,    \* it is in the callback of alarm
    following,  \* "next" of alt_tick(), read before the callback
    left        \* for the properties: ticks until an alarm has been asked to ring

clockvars == <<tick_rate, nticks>>
walkvars == <<alarm, ringing, following>>
alarmvars == <<clockvars, time, rollover, links, walkvars, left>>

Listed == {a \in Alarm : links.next[a] # a}

AlarmInit ==
    /\ tick_rate = FALSE /\ nticks = 0 /\ alarm = List /\ ringing = FALSE /\ following = List
    /\ time = [a \in Alarm |-> 0] /\ rollover = [a \in Alarm |-> FALSE]
    /\ links = [next |-> [n \in Node |-> n], previous |-> [n \in Node |-> n]]
    /\ left = [a \in Alarm |-> 0]

(* The sum of two words and 1. *)
Wrap(n) == IF n < TickWords THEN n ELSE n - TickWords

alt_llist_insert(l, entry) ==
    [next |-> [l.next EXCEPT ![entry] = l.next[List], ![List] = entry],
     previous |-> [l.previous EXCEPT ![entry] = List, ![l.next[List]] = entry]]

(* Harmless for a node that is in no list. *)
alt_llist_remove(l, entry) ==
    [next |-> [l.next EXCEPT ![l.previous[entry]] = l.next[entry], ![entry] = entry],
     previous |-> [l.previous EXCEPT ![l.next[entry]] = l.previous[entry], ![entry] = entry]]

alt_sysclk_init ==
    /\ ~tick_rate /\ alarm = List /\ tick_rate' = TRUE
    /\ UNCHANGED <<nticks, time, rollover, links, walkvars, left>>

(* Calls come from the program or from the callback that is running.  A    *)
(* caller asks for fewer than 2^32-1 ticks, for which the sum comes back   *)
(* to now, and not for an alarm that is listed, which would tie the list   *)
(* into a knot, or is ringing, which has its answer for that.  Without a   *)
(* system clock the call fails and does nothing.                           *)
Called == alarm = List \/ ringing
Time(n) == Wrap(n + nticks + 1)

alt_alarm_start(a, n) ==
    /\ Called /\ tick_rate /\ a \notin Listed /\ (ringing => a # alarm)
    /\ time' = [time EXCEPT ![a] = Time(n)]
    /\ rollover' = [rollover EXCEPT ![a] = Time(n) < nticks]
    /\ links' = alt_llist_insert(links, a)
    /\ left' = [left EXCEPT ![a] = n + 1]
    /\ UNCHANGED <<clockvars, walkvars>>

(* A callback does not stop the alarm that alt_tick() goes to next: the    *)
(* pointer to it is read already, and it would point to itself.            *)
alt_alarm_stop(a) ==
    /\ Called /\ a \in Listed /\ (ringing => a # following)
    /\ links' = alt_llist_remove(links, a)
    /\ UNCHANGED <<clockvars, time, rollover, walkvars, left>>

TickBegin ==
    /\ tick_rate /\ alarm = List
    /\ nticks' = Wrap(nticks + 1) /\ alarm' = links.next[List]
    /\ left' = [a \in Alarm |-> IF a \in Listed THEN left[a] - 1 ELSE left[a]]
    /\ UNCHANGED <<tick_rate, time, rollover, links, ringing, following>>

(* The roll-over flag is cleared in the tick in which the counter wraps.   *)
RolledOver(a) == rollover[a] /\ nticks # 0
Due(a) == time[a] <= nticks /\ ~RolledOver(a)

Visit ==
    /\ alarm # List /\ ~ringing
    /\ rollover' = [rollover EXCEPT ![alarm] = RolledOver(alarm)]
    /\ following' = links.next[alarm]
    /\ ringing' = Due(alarm)
    /\ alarm' = IF Due(alarm) THEN alarm ELSE following'
    /\ UNCHANGED <<clockvars, time, links, left>>

(* Mutant of Again: the roll-over flag is left alone. *)
Again_noflag(answer) ==
    /\ time' = [time EXCEPT ![alarm] = Wrap(@ + answer)]
    /\ left' = [left EXCEPT ![alarm] = answer]
    /\ UNCHANGED <<rollover, links>>

(* The callback answers with the ticks until it wants to ring again ...    *)
Again(answer) ==
    /\ time' = [time EXCEPT ![alarm] = Wrap(@ + answer)]
    /\ rollover' = [rollover EXCEPT ![alarm] = time'[alarm] < nticks]
    /\ left' = [left EXCEPT ![alarm] = answer]
    /\ links' = links

(* ... or with 0.                                                          *)
Over ==
    /\ links' = alt_llist_remove(links, alarm)
    /\ UNCHANGED <<time, rollover, left>>

Answer(answer) ==
    /\ ringing /\ IF answer = 0 THEN Over ELSE Again(answer)
    /\ alarm' = following /\ ringing' = FALSE
    /\ UNCHANGED <<clockvars, following>>

AlarmNext ==
    \/ alt_sysclk_init \/ TickBegin \/ Visit
    \/ \E a \in Alarm : alt_alarm_stop(a) \/ \E n \in 0 .. TickWords - 2 : alt_alarm_start(a, n)
    \/ \E answer \in Ticks : Answer(answer)

AlarmSpec == AlarmInit /\ [][AlarmNext]_alarmvars
-----------------------------------------------------------------------------
AlarmTypeOK ==
    /\ tick_rate \in BOOLEAN /\ nticks \in Ticks
    /\ time \in [Alarm -> Ticks] /\ rollover \in [Alarm -> BOOLEAN]
    /\ links \in [next : [Node -> Node], previous : [Node -> Node]]
    /\ alarm \in Node /\ ringing \in BOOLEAN /\ following \in Node
    /\ left \in [Alarm -> Ticks]

(* Every alarm rings in the tick it was asked for, not earlier, not later, *)
(* and none is missed: alt_tick() calls back exactly those whose time is   *)
(* over, also when the counter wraps in between, when callbacks start and  *)
(* stop other alarms under its hands, and when one asks for nearly as many *)
(* ticks as a word can count.                                              *)
OnTime ==
    /\ alarm # List /\ ~ringing => alarm \in Listed /\ (Due(alarm) <=> left[alarm] = 0)
    /\ alarm = List => \A a \in Listed : left[a] > 0
==============================================================================
