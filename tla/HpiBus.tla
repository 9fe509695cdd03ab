-------------------------------- MODULE HpiBus -------------------------------
(***************************************************************************)
(* What IO_write and IO_read promise: a call takes effect once, between    *)
(* its beginning and its end.  A reset of the chip in between spoils it: a *)
(* write is lost or not, a read returns anything.  HpiIo implements it.    *)
(***************************************************************************)
CONSTANTS
    Register,  \* the registers of the chip
    Value,     \* what they hold
    Cleared    \* what a reset leaves in them

VARIABLES
    chipreg,  \* the chip's registers
    call,     \* the call the program is in
    effect,   \* of the call: "pending", "done" or "spoiled"
    result    \* what the last IO_read returned

busvars == <<chipreg, call, effect, result>>

Calls == [do : {"write", "read"}, reg : Register, val : Value]

(* The program begins with IO_init, which has no effect of its own. *)
BusInit ==
    /\ chipreg = [a \in Register |-> Cleared]
    /\ call.do = "init" /\ effect = "done" /\ result = Cleared

Begin ==
    /\ call.do = "none" /\ call' \in Calls /\ effect' = "pending"
    /\ UNCHANGED <<chipreg, result>>

Open(do) == call.do = do /\ effect \in {"pending", "spoiled"} /\ UNCHANGED call

Land ==
    /\ Open("write") /\ effect' \in {effect, "done"} \ {"pending"}
    /\ chipreg' = [chipreg EXCEPT ![call.reg] = call.val] /\ UNCHANGED result

Sample ==
    /\ Open("read") /\ effect' \in {effect, "done"} \ {"pending"}
    /\ result' = chipreg[call.reg] /\ UNCHANGED chipreg

SampleSpoiled ==
    /\ Open("read") /\ effect = "spoiled" /\ effect' = "spoiled"
    /\ result' \in Value /\ UNCHANGED chipreg

End ==
    /\ call.do # "none" /\ effect # "pending" /\ call'.do = "none" /\ effect' = "done"
    /\ UNCHANGED <<chipreg, result>>

(* The chip writes a register on its own. *)
Own ==
    /\ \E a \in Register, v \in Value : chipreg' = [chipreg EXCEPT ![a] = v]
    /\ UNCHANGED <<call, effect, result>>

ResetChip ==
    /\ chipreg' = [a \in Register |-> Cleared]
    /\ effect' = IF call \in Calls THEN "spoiled" ELSE "done"
    /\ UNCHANGED <<call, result>>

BusNext == Begin \/ Land \/ Sample \/ SampleSpoiled \/ End \/ Own \/ ResetChip

BusSpec == BusInit /\ [][BusNext]_busvars
=============================================================================
