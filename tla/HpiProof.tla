------------------------------ MODULE HpiProof -------------------------------
(***************************************************************************)
(* Theorems about the way to the USB chip, for every number of registers   *)
(* and words and every distance of the accesses that is long enough.       *)
(***************************************************************************)
EXTENDS HpiIo, TLAPS

(* Where in a call the levels of the ports are low: before statement n.    *)
LowRst(do, n) == do = "init" /\ n \in {1, 9}
LowCs(do, n) ==
    \/ do = "init" /\ n \in {1, 2, 8, 9, 10}
    \/ do \in {"write", "read"} /\ n \in {2, 3, 4, 5, 6}
LowR(do, n) == (do = "init" /\ n \in {1, 2, 3}) \/ (do = "read" /\ n \in {4, 5})
LowW(do, n) == (do = "init" /\ n \in {1, 2, 3, 4}) \/ (do = "write" /\ n = 5)

(* The two levels by name: the provers keep them apart from truth values.  *)
High == TRUE
Low == FALSE
Level(low) == IF low THEN Low ELSE High

Length(do) == CASE do = "init" -> 10 [] do = "none" -> 0 [] OTHER -> 6

Ports == [reset: BOOLEAN, cs: BOOLEAN, r: BOOLEAN, w: BOOLEAN, address: HpiReg, data: HpiValue]
Pins == [rst: BOOLEAN, cs: BOOLEAN, rd: BOOLEAN, wr: BOOLEAN, address: HpiReg]

Wires ==
    /\ ports \in Ports /\ pins \in Pins
    /\ outbuf \in HpiValue
    /\ data_in \in Word /\ readdata \in Word /\ held \in Word
    /\ idle \in 0 .. Hold /\ reading \in 0 .. AccessTime /\ wait \in 0 .. Gap
    /\ chipreg \in [HpiReg -> Word] /\ result \in Word
    /\ call \in [do: {"init", "none", "write", "read"}, reg: HpiReg, val: HpiValue]
    /\ effect \in {"pending", "done", "spoiled"}
    /\ at \in 1 .. 11 /\ (call.do # "none" => at <= Length(call.do) + 1)

(* The ports are what the statements before this one have made of them.    *)
PortsFollow ==
    /\ ports.reset = Level(LowRst(call.do, at)) /\ ports.cs = Level(LowCs(call.do, at))
    /\ ports.r = Level(LowR(call.do, at)) /\ ports.w = Level(LowW(call.do, at))
    /\ (call.do \in {"write", "read"} /\ at >= 3) => ports.address = call.reg
    /\ (call.do = "write" /\ at >= 4) => ports.data = call.val

(* The pins follow with the next edge of Clk, unless the reset is pressed. *)
Shown(n) ==
    /\ pins.cs = Level(LowCs(call.do, n)) /\ pins.rd = Level(LowR(call.do, n))
    /\ pins.wr = Level(LowW(call.do, n))

PinsFollow ==
    pins.rst =>
        /\ wait < Gap => Shown(at) /\ pins.address = ports.address
        /\ wait = Gap => at > 1 /\ Shown(at - 1)
        /\ (wait = Gap /\ call.do \in {"write", "read"} /\ at > 3) => pins.address = ports.address

(* A call that no reset has fallen into.                                   *)
Untouched == effect = "pending" /\ (at > 2 \/ (at = 2 /\ wait < Gap))

CallsLast ==
    /\ effect = "pending" =>
        \/ call.do = "write" /\ (at < 6 \/ (at = 6 /\ wait = Gap))
        \/ call.do = "read" /\ at < 5
    /\ (call.do = "read" /\ at < 5) => effect # "done"
    /\ Untouched => pins.rst
    /\ call.do = "none" => wait = 0

(* The word is on the bus before, while and just after the strobe is low.  *)
WordStays ==
    (call.do = "write" /\ Untouched) =>
        /\ (at > 4 \/ (at = 4 /\ wait < Gap)) => outbuf = call.val
        /\ (at > 5 \/ (at = 5 /\ wait < Gap)) => (held = call.val /\ idle = 0)

(* The register is on the bus, and in the port, before the program looks.  *)
AnswerComes ==
    (call.do = "read" /\ at = 4 /\ Untouched /\ wait < Gap) =>
        /\ reading >= AccessTime \/ reading >= Gap - 1 - wait
        /\ wait + AccessTime + 2 <= Gap => data_in = chipreg[call.reg]
        /\ wait + AccessTime + 3 <= Gap => readdata = chipreg[call.reg]

(* The inductive invariant. *)
HpiInv == Wires /\ PortsFollow /\ PinsFollow /\ CallsLast /\ WordStays /\ AnswerComes
-----------------------------------------------------------------------------
(* What the statements of a call are. *)
LEMMA CodeIs ==
    /\ call.do = "init" => Code = IO_init
    /\ call.do = "write" => Code = IO_write(call.reg, call.val)
    /\ call.do = "read" => Code = IO_read(call.reg)
    /\ call.do = "none" => Code = <<>>
BY DEF Code

LEMMA Lengths ==
    ASSUME Wires
    PROVE Len(Code) = Length(call.do)
<1>1. CASE call.do = "init"
    <2>1. Code = IO_init
        BY <1>1, CodeIs
    <2>2. Len(IO_init) = 10
        BY DEF IO_init
    <2> QED BY <1>1, <2>1, <2>2 DEF Length
<1>2. CASE call.do = "write"
    <2>1. Code = IO_write(call.reg, call.val)
        BY <1>2, CodeIs
    <2>2. Len(IO_write(call.reg, call.val)) = 6
        BY DEF IO_write
    <2> QED BY <1>2, <2>1, <2>2 DEF Length
<1>3. CASE call.do = "read"
    <2>1. Code = IO_read(call.reg)
        BY <1>3, CodeIs
    <2>2. Len(IO_read(call.reg)) = 6
        BY DEF IO_read
    <2> QED BY <1>3, <2>1, <2>2 DEF Length
<1>4. CASE call.do = "none"
    <2>1. Code = <<>>
        BY <1>4, CodeIs
    <2>2. Len(<<>>) = 0
        OBVIOUS
    <2> QED BY <1>4, <2>1, <2>2 DEF Length
<1> QED BY <1>1, <1>2, <1>3, <1>4 DEF Wires

(* What a store does to the ports. *)
Set(port, level) == ports' = [ports EXCEPT ![port] = level]

LEMMA InitStores ==
    ASSUME Wires, Store, call.do = "init"
    PROVE  \/ at = 1 /\ Set("reset", High)
           \/ at = 2 /\ Set("cs", High)
           \/ at = 3 /\ Set("r", High)
           \/ at = 4 /\ Set("w", High)
           \/ at = 5 /\ Set("address", SomeReg)
           \/ at = 6 /\ Set("data", Zero)
           \/ at = 7 /\ Set("cs", Low)
           \/ at = 8 /\ Set("reset", Low)
           \/ at = 9 /\ Set("reset", High)
           \/ at = 10 /\ Set("cs", High)
<1>1. Code = IO_init /\ Len(Code) = 10
    BY CodeIs, Lengths DEF Length
<1>2. at \in 1 .. 10
    BY <1>1 DEF Store, Wires
<1>3. Set(IO_init[at][1], IO_init[at][2])
    BY <1>1 DEF Store, Set
<1>4. CASE at = 1
    <2>1. IO_init[1] = <<"reset", High>>
        BY DEF IO_init, High, Low
    <2>2. IO_init[at][1] = "reset" /\ IO_init[at][2] = High
        BY <1>4, <2>1
    <2> QED BY <1>4, <1>3, <2>2
<1>5. CASE at = 2
    <2>1. IO_init[2] = <<"cs", High>>
        BY DEF IO_init, High, Low
    <2>2. IO_init[at][1] = "cs" /\ IO_init[at][2] = High
        BY <1>5, <2>1
    <2> QED BY <1>5, <1>3, <2>2
<1>6. CASE at = 3
    <2>1. IO_init[3] = <<"r", High>>
        BY DEF IO_init, High, Low
    <2>2. IO_init[at][1] = "r" /\ IO_init[at][2] = High
        BY <1>6, <2>1
    <2> QED BY <1>6, <1>3, <2>2
<1>7. CASE at = 4
    <2>1. IO_init[4] = <<"w", High>>
        BY DEF IO_init, High, Low
    <2>2. IO_init[at][1] = "w" /\ IO_init[at][2] = High
        BY <1>7, <2>1
    <2> QED BY <1>7, <1>3, <2>2
<1>8. CASE at = 5
    <2>1. IO_init[5] = <<"address", SomeReg>>
        BY DEF IO_init
    <2>2. IO_init[at][1] = "address" /\ IO_init[at][2] = SomeReg
        BY <1>8, <2>1
    <2> QED BY <1>8, <1>3, <2>2
<1>9. CASE at = 6
    <2>1. IO_init[6] = <<"data", Zero>>
        BY DEF IO_init
    <2>2. IO_init[at][1] = "data" /\ IO_init[at][2] = Zero
        BY <1>9, <2>1
    <2> QED BY <1>9, <1>3, <2>2
<1>10. CASE at = 7
    <2>1. IO_init[7] = <<"cs", Low>>
        BY DEF IO_init, High, Low
    <2>2. IO_init[at][1] = "cs" /\ IO_init[at][2] = Low
        BY <1>10, <2>1
    <2> QED BY <1>10, <1>3, <2>2
<1>11. CASE at = 8
    <2>1. IO_init[8] = <<"reset", Low>>
        BY DEF IO_init, High, Low
    <2>2. IO_init[at][1] = "reset" /\ IO_init[at][2] = Low
        BY <1>11, <2>1
    <2> QED BY <1>11, <1>3, <2>2
<1>12. CASE at = 9
    <2>1. IO_init[9] = <<"reset", High>>
        BY DEF IO_init, High, Low
    <2>2. IO_init[at][1] = "reset" /\ IO_init[at][2] = High
        BY <1>12, <2>1
    <2> QED BY <1>12, <1>3, <2>2
<1>13. CASE at = 10
    <2>1. IO_init[10] = <<"cs", High>>
        BY DEF IO_init, High, Low
    <2>2. IO_init[at][1] = "cs" /\ IO_init[at][2] = High
        BY <1>13, <2>1
    <2> QED BY <1>13, <1>3, <2>2
<1>20. \/ at = 1 \/ at = 2 \/ at = 3 \/ at = 4 \/ at = 5
       \/ at = 6 \/ at = 7 \/ at = 8 \/ at = 9 \/ at = 10
    BY <1>2
<1> QED
    BY <1>20, <1>4, <1>5, <1>6, <1>7, <1>8, <1>9, <1>10, <1>11, <1>12, <1>13, Zenon

LEMMA WriteStores ==
    ASSUME Wires, Store, call.do = "write"
    PROVE  \/ at = 1 /\ Set("cs", Low)
           \/ at = 2 /\ Set("address", call.reg)
           \/ at = 3 /\ Set("data", call.val)
           \/ at = 4 /\ Set("w", Low)
           \/ at = 5 /\ Set("w", High)
           \/ at = 6 /\ Set("cs", High)
<1>1. Code = IO_write(call.reg, call.val) /\ Len(Code) = 6
    BY CodeIs, Lengths DEF Length
<1>2. at \in 1 .. 6
    BY <1>1 DEF Store, Wires
<1>3. Set(IO_write(call.reg, call.val)[at][1], IO_write(call.reg, call.val)[at][2])
    BY <1>1 DEF Store, Set
<1>4. CASE at = 1
    <2>1. IO_write(call.reg, call.val)[1] = <<"cs", Low>>
        BY DEF IO_write, High, Low
    <2>2. IO_write(call.reg, call.val)[at][1] = "cs" /\ IO_write(call.reg, call.val)[at][2] = Low
        BY <1>4, <2>1
    <2> QED BY <1>4, <1>3, <2>2
<1>5. CASE at = 2
    <2>1. IO_write(call.reg, call.val)[2] = <<"address", call.reg>>
        BY DEF IO_write
    <2>2. IO_write(call.reg, call.val)[at][1] = "address" /\ IO_write(call.reg, call.val)[at][2] = call.reg
        BY <1>5, <2>1
    <2> QED BY <1>5, <1>3, <2>2
<1>6. CASE at = 3
    <2>1. IO_write(call.reg, call.val)[3] = <<"data", call.val>>
        BY DEF IO_write
    <2>2. IO_write(call.reg, call.val)[at][1] = "data" /\ IO_write(call.reg, call.val)[at][2] = call.val
        BY <1>6, <2>1
    <2> QED BY <1>6, <1>3, <2>2
<1>7. CASE at = 4
    <2>1. IO_write(call.reg, call.val)[4] = <<"w", Low>>
        BY DEF IO_write, High, Low
    <2>2. IO_write(call.reg, call.val)[at][1] = "w" /\ IO_write(call.reg, call.val)[at][2] = Low
        BY <1>7, <2>1
    <2> QED BY <1>7, <1>3, <2>2
<1>8. CASE at = 5
    <2>1. IO_write(call.reg, call.val)[5] = <<"w", High>>
        BY DEF IO_write, High, Low
    <2>2. IO_write(call.reg, call.val)[at][1] = "w" /\ IO_write(call.reg, call.val)[at][2] = High
        BY <1>8, <2>1
    <2> QED BY <1>8, <1>3, <2>2
<1>9. CASE at = 6
    <2>1. IO_write(call.reg, call.val)[6] = <<"cs", High>>
        BY DEF IO_write, High, Low
    <2>2. IO_write(call.reg, call.val)[at][1] = "cs" /\ IO_write(call.reg, call.val)[at][2] = High
        BY <1>9, <2>1
    <2> QED BY <1>9, <1>3, <2>2
<1>20. at = 1 \/ at = 2 \/ at = 3 \/ at = 4 \/ at = 5 \/ at = 6
    BY <1>2
<1> QED
    BY <1>20, <1>4, <1>5, <1>6, <1>7, <1>8, <1>9, Zenon

LEMMA ReadStores ==
    ASSUME Wires, Store, call.do = "read"
    PROVE  \/ at = 1 /\ Set("cs", Low)
           \/ at = 2 /\ Set("address", call.reg)
           \/ at = 3 /\ Set("r", Low)
           \/ at = 5 /\ Set("r", High)
           \/ at = 6 /\ Set("cs", High)
<1>1. Code = IO_read(call.reg) /\ Len(Code) = 6
    BY CodeIs, Lengths DEF Length
<1>2. at \in 1 .. 6
    BY <1>1 DEF Store, Wires
<1>3. Set(IO_read(call.reg)[at][1], IO_read(call.reg)[at][2])
    BY <1>1 DEF Store, Set
<1>4. IO_read(call.reg)[at][1] # "load"
    BY <1>1 DEF Store
<1>5. at # 4
    BY <1>4 DEF IO_read
<1>6. CASE at = 1
    <2>1. IO_read(call.reg)[1] = <<"cs", Low>>
        BY DEF IO_read, High, Low
    <2>2. IO_read(call.reg)[at][1] = "cs" /\ IO_read(call.reg)[at][2] = Low
        BY <1>6, <2>1
    <2> QED BY <1>6, <1>3, <2>2
<1>7. CASE at = 2
    <2>1. IO_read(call.reg)[2] = <<"address", call.reg>>
        BY DEF IO_read
    <2>2. IO_read(call.reg)[at][1] = "address" /\ IO_read(call.reg)[at][2] = call.reg
        BY <1>7, <2>1
    <2> QED BY <1>7, <1>3, <2>2
<1>8. CASE at = 3
    <2>1. IO_read(call.reg)[3] = <<"r", Low>>
        BY DEF IO_read, High, Low
    <2>2. IO_read(call.reg)[at][1] = "r" /\ IO_read(call.reg)[at][2] = Low
        BY <1>8, <2>1
    <2> QED BY <1>8, <1>3, <2>2
<1>9. CASE at = 5
    <2>1. IO_read(call.reg)[5] = <<"r", High>>
        BY DEF IO_read, High, Low
    <2>2. IO_read(call.reg)[at][1] = "r" /\ IO_read(call.reg)[at][2] = High
        BY <1>9, <2>1
    <2> QED BY <1>9, <1>3, <2>2
<1>10. CASE at = 6
    <2>1. IO_read(call.reg)[6] = <<"cs", High>>
        BY DEF IO_read, High, Low
    <2>2. IO_read(call.reg)[at][1] = "cs" /\ IO_read(call.reg)[at][2] = High
        BY <1>10, <2>1
    <2> QED BY <1>10, <1>3, <2>2
<1>20. at = 1 \/ at = 2 \/ at = 3 \/ at = 5 \/ at = 6
    BY <1>2, <1>5
<1> QED
    BY <1>20, <1>6, <1>7, <1>8, <1>9, <1>10, Zenon

(* The only load is the fourth statement of IO_read. *)
LEMMA LoadIsFourth ==
    ASSUME Wires, Load
    PROVE  call.do = "read" /\ at = 4
<1>1. at \in 1 .. Length(call.do) /\ Code[at][1] = "load"
    BY Lengths DEF Load, Wires, Length
<1>2. CASE call.do = "init"
    <2>1. at \in 1 .. 10 /\ IO_init[at][1] = "load"
        BY <1>1, <1>2, CodeIs DEF Length
    <2> QED BY <2>1 DEF IO_init
<1>3. CASE call.do = "write"
    <2>1. at \in 1 .. 6 /\ IO_write(call.reg, call.val)[at][1] = "load"
        BY <1>1, <1>3, CodeIs DEF Length
    <2> QED BY <2>1 DEF IO_write
<1>4. CASE call.do = "read"
    <2>1. at \in 1 .. 6 /\ IO_read(call.reg)[at][1] = "load"
        BY <1>1, <1>4, CodeIs DEF Length
    <2> QED BY <1>4, <2>1 DEF IO_read
<1>5. CASE call.do = "none"
    BY <1>1, <1>5 DEF Length
<1> QED
    BY <1>2, <1>3, <1>4, <1>5 DEF Wires


(* One store changes one port. *)
LEMMA OnePort ==
    ASSUME NEW p, NEW l, ports \in Ports, Set(p, l),
           p \in {"reset", "cs", "r", "w", "address", "data"}
    PROVE  /\ ports'.reset = IF p = "reset" THEN l ELSE ports.reset
           /\ ports'.cs = IF p = "cs" THEN l ELSE ports.cs
           /\ ports'.r = IF p = "r" THEN l ELSE ports.r
           /\ ports'.w = IF p = "w" THEN l ELSE ports.w
           /\ ports'.address = IF p = "address" THEN l ELSE ports.address
           /\ ports'.data = IF p = "data" THEN l ELSE ports.data
BY DEF Set, Ports

LEMMA PortTyped ==
    ASSUME NEW p, NEW l, ports \in Ports, Set(p, l),
           \/ p \in {"reset", "cs", "r", "w"} /\ l \in BOOLEAN
           \/ p = "address" /\ l \in HpiReg
           \/ p = "data" /\ l \in HpiValue
    PROVE  ports' \in Ports
<1>1. CASE p = "reset" /\ l \in BOOLEAN BY <1>1 DEF Set, Ports
<1>2. CASE p = "cs" /\ l \in BOOLEAN BY <1>2 DEF Set, Ports
<1>3. CASE p = "r" /\ l \in BOOLEAN BY <1>3 DEF Set, Ports
<1>4. CASE p = "w" /\ l \in BOOLEAN BY <1>4 DEF Set, Ports
<1>5. CASE p = "address" /\ l \in HpiReg BY <1>5 DEF Set, Ports
<1>6. CASE p = "data" /\ l \in HpiValue BY <1>6 DEF Set, Ports
<1> QED BY <1>1, <1>2, <1>3, <1>4, <1>5, <1>6

LEMMA SomeRegister == SomeReg \in HpiReg
BY HpiAssumption DEF SomeReg

LEMMA InitFollows ==
    ASSUME Wires, Store, call.do = "init"
    PROVE  /\ ports' \in Ports
           /\ ports'.reset = IF at = 1 THEN High ELSE IF at = 8 THEN Low ELSE IF at = 9 THEN High ELSE ports.reset
           /\ ports'.cs = IF at = 2 THEN High ELSE IF at = 7 THEN Low ELSE IF at = 10 THEN High ELSE ports.cs
           /\ ports'.r = IF at = 3 THEN High ELSE ports.r
           /\ ports'.w = IF at = 4 THEN High ELSE ports.w
           /\ ports'.address = IF at = 5 THEN SomeReg ELSE ports.address
           /\ ports'.data = IF at = 6 THEN Zero ELSE ports.data
<1>1. ports \in Ports
    BY DEF Wires
<1>2. Zero \in HpiValue /\ SomeReg \in HpiReg /\ call.reg \in HpiReg /\ call.val \in HpiValue
    BY SomeRegister, HpiAssumption DEF Wires
<1>3. Low \in BOOLEAN /\ High \in BOOLEAN
    BY DEF Low, High
<1>4. CASE at = 1 /\ Set("reset", High)
    BY <1>4, <1>1, <1>2, <1>3, OnePort, PortTyped
<1>5. CASE at = 2 /\ Set("cs", High)
    BY <1>5, <1>1, <1>2, <1>3, OnePort, PortTyped
<1>6. CASE at = 3 /\ Set("r", High)
    BY <1>6, <1>1, <1>2, <1>3, OnePort, PortTyped
<1>7. CASE at = 4 /\ Set("w", High)
    BY <1>7, <1>1, <1>2, <1>3, OnePort, PortTyped
<1>8. CASE at = 5 /\ Set("address", SomeReg)
    BY <1>8, <1>1, <1>2, <1>3, OnePort, PortTyped
<1>9. CASE at = 6 /\ Set("data", Zero)
    BY <1>9, <1>1, <1>2, <1>3, OnePort, PortTyped
<1>10. CASE at = 7 /\ Set("cs", Low)
    BY <1>10, <1>1, <1>2, <1>3, OnePort, PortTyped
<1>11. CASE at = 8 /\ Set("reset", Low)
    BY <1>11, <1>1, <1>2, <1>3, OnePort, PortTyped
<1>12. CASE at = 9 /\ Set("reset", High)
    BY <1>12, <1>1, <1>2, <1>3, OnePort, PortTyped
<1>13. CASE at = 10 /\ Set("cs", High)
    BY <1>13, <1>1, <1>2, <1>3, OnePort, PortTyped
<1> QED BY InitStores, <1>4, <1>5, <1>6, <1>7, <1>8, <1>9, <1>10, <1>11, <1>12, <1>13

LEMMA WriteFollows ==
    ASSUME Wires, Store, call.do = "write"
    PROVE  /\ ports' \in Ports
           /\ ports'.reset = ports.reset
           /\ ports'.cs = IF at = 1 THEN Low ELSE IF at = 6 THEN High ELSE ports.cs
           /\ ports'.r = ports.r
           /\ ports'.w = IF at = 4 THEN Low ELSE IF at = 5 THEN High ELSE ports.w
           /\ ports'.address = IF at = 2 THEN call.reg ELSE ports.address
           /\ ports'.data = IF at = 3 THEN call.val ELSE ports.data
<1>1. ports \in Ports
    BY DEF Wires
<1>2. Zero \in HpiValue /\ SomeReg \in HpiReg /\ call.reg \in HpiReg /\ call.val \in HpiValue
    BY SomeRegister, HpiAssumption DEF Wires
<1>3. Low \in BOOLEAN /\ High \in BOOLEAN
    BY DEF Low, High
<1>4. CASE at = 1 /\ Set("cs", Low)
    BY <1>4, <1>1, <1>2, <1>3, OnePort, PortTyped
<1>5. CASE at = 2 /\ Set("address", call.reg)
    BY <1>5, <1>1, <1>2, <1>3, OnePort, PortTyped
<1>6. CASE at = 3 /\ Set("data", call.val)
    BY <1>6, <1>1, <1>2, <1>3, OnePort, PortTyped
<1>7. CASE at = 4 /\ Set("w", Low)
    BY <1>7, <1>1, <1>2, <1>3, OnePort, PortTyped
<1>8. CASE at = 5 /\ Set("w", High)
    BY <1>8, <1>1, <1>2, <1>3, OnePort, PortTyped
<1>9. CASE at = 6 /\ Set("cs", High)
    BY <1>9, <1>1, <1>2, <1>3, OnePort, PortTyped
<1> QED BY WriteStores, <1>4, <1>5, <1>6, <1>7, <1>8, <1>9

LEMMA ReadFollows ==
    ASSUME Wires, Store, call.do = "read"
    PROVE  /\ ports' \in Ports
           /\ ports'.reset = ports.reset
           /\ ports'.cs = IF at = 1 THEN Low ELSE IF at = 6 THEN High ELSE ports.cs
           /\ ports'.r = IF at = 3 THEN Low ELSE IF at = 5 THEN High ELSE ports.r
           /\ ports'.w = ports.w
           /\ ports'.address = IF at = 2 THEN call.reg ELSE ports.address
           /\ ports'.data = ports.data
<1>1. ports \in Ports
    BY DEF Wires
<1>2. Zero \in HpiValue /\ SomeReg \in HpiReg /\ call.reg \in HpiReg /\ call.val \in HpiValue
    BY SomeRegister, HpiAssumption DEF Wires
<1>3. Low \in BOOLEAN /\ High \in BOOLEAN
    BY DEF Low, High
<1>4. CASE at = 1 /\ Set("cs", Low)
    BY <1>4, <1>1, <1>2, <1>3, OnePort, PortTyped
<1>5. CASE at = 2 /\ Set("address", call.reg)
    BY <1>5, <1>1, <1>2, <1>3, OnePort, PortTyped
<1>6. CASE at = 3 /\ Set("r", Low)
    BY <1>6, <1>1, <1>2, <1>3, OnePort, PortTyped
<1>8. CASE at = 5 /\ Set("r", High)
    BY <1>8, <1>1, <1>2, <1>3, OnePort, PortTyped
<1>9. CASE at = 6 /\ Set("cs", High)
    BY <1>9, <1>1, <1>2, <1>3, OnePort, PortTyped
<1> QED BY ReadStores, <1>4, <1>5, <1>6, <1>8, <1>9

LEMMA BusWord ==
    ASSUME Wires
    PROVE  OTG_DATA \in Word
<1>1. chipreg[pins.address] \in Word /\ outbuf \in Word /\ held \in Word /\ "junk" \in Word
    BY DEF Wires, Word, Pins
<1> QED
    BY <1>1 DEF OTG_DATA

LEMMA StorePorts ==
    ASSUME Wires, PortsFollow, Store
    PROVE  /\ ports' \in Ports /\ PortsFollow'
           /\ (call.do \in {"write", "read"} /\ at >= 3) => ports'.address = ports.address
<1>1. call' = call /\ at' = at + 1
    BY DEF Store, bus
<1>2. /\ ports.reset = Level(LowRst(call.do, at)) /\ ports.cs = Level(LowCs(call.do, at))
      /\ ports.r = Level(LowR(call.do, at)) /\ ports.w = Level(LowW(call.do, at))
      /\ (call.do \in {"write", "read"} /\ at >= 3) => ports.address = call.reg
      /\ (call.do = "write" /\ at >= 4) => ports.data = call.val
    BY DEF PortsFollow
<1>3. at \in 1 .. Length(call.do)
    BY Lengths DEF Store, Wires, Length
<1>4. CASE call.do = "init"
    <2>1. at \in 1 .. 10
        BY <1>3, <1>4 DEF Length
    <2>2. ports'.reset = Level(LowRst("init", at + 1))
        BY <1>2, <1>4, <2>1, InitFollows DEF Level, LowRst
    <2>3. ports'.cs = Level(LowCs("init", at + 1))
        BY <1>2, <1>4, <2>1, InitFollows DEF Level, LowCs
    <2>4. ports'.r = Level(LowR("init", at + 1))
        BY <1>2, <1>4, <2>1, InitFollows DEF Level, LowR
    <2>5. ports'.w = Level(LowW("init", at + 1))
        BY <1>2, <1>4, <2>1, InitFollows DEF Level, LowW
    <2> QED
        BY <1>1, <1>4, <2>2, <2>3, <2>4, <2>5, InitFollows DEF PortsFollow
<1>5. CASE call.do = "write"
    <2>1. at \in 1 .. 6
        BY <1>3, <1>5 DEF Length
    <2>2. ports'.reset = Level(LowRst("write", at + 1))
        BY <1>2, <1>5, <2>1, WriteFollows DEF Level, LowRst
    <2>3. ports'.cs = Level(LowCs("write", at + 1))
        BY <1>2, <1>5, <2>1, WriteFollows DEF Level, LowCs
    <2>4. ports'.r = Level(LowR("write", at + 1))
        BY <1>2, <1>5, <2>1, WriteFollows DEF Level, LowR
    <2>5. ports'.w = Level(LowW("write", at + 1))
        BY <1>2, <1>5, <2>1, WriteFollows DEF Level, LowW
    <2>6. /\ at + 1 >= 3 => ports'.address = call.reg
          /\ at + 1 >= 4 => ports'.data = call.val
          /\ at >= 3 => ports'.address = ports.address
        BY <1>2, <1>5, <2>1, WriteFollows
    <2> QED
        BY <1>1, <1>5, <2>2, <2>3, <2>4, <2>5, <2>6, WriteFollows DEF PortsFollow
<1>6. CASE call.do = "read"
    <2>1. at \in 1 .. 6
        BY <1>3, <1>6 DEF Length
    <2>2. ports'.reset = Level(LowRst("read", at + 1))
        BY <1>2, <1>6, <2>1, ReadFollows DEF Level, LowRst
    <2>3. ports'.cs = Level(LowCs("read", at + 1))
        BY <1>2, <1>6, <2>1, ReadFollows DEF Level, LowCs
    <2>4. at # 4
        BY <1>6, ReadStores
    <2>5. ports'.r = Level(LowR("read", at + 1))
        BY <1>2, <1>6, <2>1, <2>4, ReadFollows DEF Level, LowR
    <2>6. ports'.w = Level(LowW("read", at + 1))
        BY <1>2, <1>6, <2>1, ReadFollows DEF Level, LowW
    <2>7. /\ at + 1 >= 3 => ports'.address = call.reg
          /\ at >= 3 => ports'.address = ports.address
        BY <1>2, <1>6, <2>1, ReadFollows
    <2> QED
        BY <1>1, <1>6, <2>2, <2>3, <2>5, <2>6, <2>7, ReadFollows DEF PortsFollow
<1> QED
    BY <1>3, <1>4, <1>5, <1>6 DEF Wires, Length

LEMMA StoreKeeps ==
    ASSUME HpiInv, Store
    PROVE  HpiInv'
<1> USE DEF HpiInv
<1>1. wait = 0 /\ at' = at + 1 /\ wait' = Gap /\ at \in 1 .. Length(call.do)
    BY Lengths DEF Store, Wires, Length
<1>2. UNCHANGED <<pins, outbuf, data_in, readdata, held, idle, reading, chipreg, call, effect, result>>
    BY DEF Store, hardware, bus
<1>3. Gap \in Nat /\ Gap > 0 /\ AccessTime \in Nat
    BY HpiAssumption
<1>4. call.do \in {"init", "write", "read"} /\ (call.do = "read" => at # 4)
    BY <1>1, ReadStores DEF Wires, Length
<1>5. Wires'
    <2>1. at' \in 1 .. 11 /\ (call'.do # "none" => at' <= Length(call'.do) + 1)
        BY <1>1, <1>2, <1>4 DEF Length
    <2>2. wait' \in 0 .. Gap
        BY <1>1, <1>3
    <2> QED
        BY <1>2, <2>1, <2>2, StorePorts DEF Wires, Word
<1>6. PortsFollow'
    BY StorePorts
<1>7. PinsFollow'
    <2>1. at + 1 - 1 = at /\ at + 1 > 1 /\ wait < Gap
        BY <1>1, <1>3
    <2>2. pins.rst => Shown(at) /\ pins.address = ports.address
        BY <2>1 DEF PinsFollow
    <2>3. pins'.rst => Shown(at - 1)'
        BY <2>2, <2>1, <1>1, <1>2 DEF Shown
    <2>4. (at' > 3 /\ call.do \in {"write", "read"} /\ pins.rst) => pins.address = ports'.address
        BY <2>2, <1>1, StorePorts
    <2> QED
        BY <1>1, <1>2, <1>3, <2>1, <2>3, <2>4 DEF PinsFollow
<1>8. CallsLast'
    BY <1>1, <1>2, <1>3, <1>4 DEF CallsLast, Untouched, Wires
<1>9. WordStays'
    BY <1>1, <1>2, <1>3, <1>4 DEF WordStays, Untouched, Wires
<1>10. AnswerComes'
    BY <1>1, <1>3 DEF AnswerComes
<1> QED
    BY <1>5, <1>6, <1>7, <1>8, <1>9, <1>10

LEMMA BeginKeeps ==
    ASSUME HpiInv, BeginCall
    PROVE  HpiInv'
<1> USE DEF HpiInv
<1>1. call.do = "none" /\ at' = 1 /\ effect' = "pending" /\ wait' = wait
    BY DEF BeginCall
<1>2. UNCHANGED <<ports, pins, outbuf, data_in, readdata, held, idle, reading, chipreg, result>>
    BY DEF BeginCall, hardware
<1>3. call'.do \in {"write", "read"} /\ call'.reg \in HpiReg /\ call'.val \in HpiValue
    BY HpiAssumption DEF BeginCall
<1>4. call' \in [do: {"init", "none", "write", "read"}, reg: HpiReg, val: HpiValue]
    BY HpiAssumption DEF BeginCall
<1>5. wait = 0 /\ 0 < Gap /\ Gap \in Nat
    BY <1>1, HpiAssumption DEF CallsLast
<1>6. Wires'
    BY <1>1, <1>2, <1>3, <1>4 DEF Wires, Length, Word
<1>7. /\ ports.reset = High /\ ports.cs = High /\ ports.r = High /\ ports.w = High
    BY <1>1 DEF PortsFollow, Level, LowRst, LowCs, LowR, LowW
<1>8. PortsFollow'
    BY <1>1, <1>2, <1>3, <1>7 DEF PortsFollow, Level, LowRst, LowCs, LowR, LowW
<1>9. PinsFollow'
    <2>1. pins.rst => pins.cs = High /\ pins.rd = High /\ pins.wr = High /\ pins.address = ports.address
        BY <1>1, <1>5 DEF PinsFollow, Shown, Level, LowCs, LowR, LowW
    <2>2. pins.rst => Shown(1)'
        BY <2>1, <1>2, <1>3 DEF Shown, Level, LowCs, LowR, LowW
    <2> QED
        BY <1>1, <1>2, <1>5, <2>1, <2>2 DEF PinsFollow
<1>10. CallsLast' /\ WordStays' /\ AnswerComes'
    BY <1>1, <1>3 DEF CallsLast, WordStays, AnswerComes, Untouched
<1> QED
    BY <1>6, <1>8, <1>9, <1>10

LEMMA EndKeeps ==
    ASSUME HpiInv, EndCall
    PROVE  HpiInv'
<1> USE DEF HpiInv
<1>1. call.do # "none" /\ at = Length(call.do) + 1 /\ wait = 0
    <2>1. call.do # "none" /\ at > Length(call.do) /\ wait = 0
        BY Lengths DEF EndCall
    <2>2. Length(call.do) \in Nat
        BY DEF Length
    <2>3. at \in Nat /\ at <= Length(call.do) + 1
        BY <2>1 DEF Wires
    <2> QED
        BY <2>1, <2>2, <2>3
<1>2. call'.do = "none" /\ effect' = "done"
    BY DEF EndCall, Idle
<1>3. UNCHANGED <<ports, pins, outbuf, data_in, readdata, held, idle, reading, chipreg, result, at, wait>>
    BY DEF EndCall, hardware
<1>4. Idle("none") \in [do: {"init", "none", "write", "read"}, reg: HpiReg, val: HpiValue]
    BY SomeRegister, HpiAssumption DEF Idle
<1>5. Wires'
    BY <1>2, <1>3, <1>4 DEF Wires, Word, EndCall
<1>6. \/ call.do = "init" /\ at = 11
      \/ call.do \in {"write", "read"} /\ at = 7
    BY <1>1 DEF Wires, Length
<1>7. /\ ports.reset = High /\ ports.cs = High /\ ports.r = High /\ ports.w = High
    BY <1>6 DEF PortsFollow, Level, LowRst, LowCs, LowR, LowW
<1>8. PortsFollow'
    BY <1>2, <1>3, <1>7 DEF PortsFollow, Level, LowRst, LowCs, LowR, LowW
<1>9. PinsFollow'
    <2>1. 0 < Gap /\ Gap \in Nat
        BY HpiAssumption
    <2>2. pins.rst => pins.cs = High /\ pins.rd = High /\ pins.wr = High /\ pins.address = ports.address
        BY <1>1, <1>6, <2>1 DEF PinsFollow, Shown, Level, LowCs, LowR, LowW
    <2>3. pins.rst => Shown(at)'
        BY <2>2, <1>2, <1>3 DEF Shown, Level, LowCs, LowR, LowW
    <2> QED
        BY <1>1, <1>2, <1>3, <2>1, <2>2, <2>3 DEF PinsFollow
<1>10. CallsLast' /\ WordStays' /\ AnswerComes'
    BY <1>1, <1>2, <1>3 DEF CallsLast, WordStays, AnswerComes, Untouched
<1> QED
    BY <1>5, <1>8, <1>9, <1>10

LEMMA LoadKeeps ==
    ASSUME HpiInv, Load
    PROVE  HpiInv'
<1> USE DEF HpiInv
<1>1. call.do = "read" /\ at = 4 /\ at' = 5 /\ wait = 0 /\ wait' = Gap
    BY LoadIsFourth DEF Load
<1>2. UNCHANGED <<ports, pins, outbuf, data_in, readdata, held, idle, reading, chipreg, call>>
    BY DEF Load, hardware
<1>3. 0 < Gap /\ Gap \in Nat
    BY HpiAssumption
<1>4. effect' \in {"done", "spoiled"} /\ result' \in Word
    BY DEF Load, Wires
<1>5. Wires'
    BY <1>1, <1>2, <1>3, <1>4 DEF Wires, Length, Word
<1>6. PortsFollow'
    BY <1>1, <1>2 DEF PortsFollow, Level, LowRst, LowCs, LowR, LowW
<1>7. PinsFollow'
    <2>1. pins.rst => Shown(4) /\ pins.address = ports.address
        BY <1>1, <1>3 DEF PinsFollow
    <2>2. pins.rst => Shown(4)'
        BY <2>1, <1>2 DEF Shown
    <2> QED
        BY <1>1, <1>2, <1>3, <2>1, <2>2 DEF PinsFollow
<1>8. CallsLast' /\ WordStays' /\ AnswerComes'
    BY <1>1, <1>2, <1>3, <1>4 DEF CallsLast, WordStays, AnswerComes, Untouched
<1> QED
    BY <1>5, <1>6, <1>7, <1>8

(* From the fourth statement on the chip drives the bus for a read. *)
LEMMA ChipAnswers ==
    ASSUME HpiInv, call.do = "read", at = 4, Untouched, wait < Gap
    PROVE  ChipDrives /\ ~Driven /\ pins.address = call.reg
<1>1. pins.rst /\ Shown(4) /\ pins.address = ports.address /\ ports.address = call.reg
    BY DEF HpiInv, CallsLast, PinsFollow, PortsFollow
<1>2. pins.cs = Low /\ pins.rd = Low /\ ports.w = High
    BY <1>1 DEF HpiInv, PortsFollow, Shown, Level, LowCs, LowR, LowW
<1> QED
    BY <1>1, <1>2 DEF ChipDrives, Driven, Low, High

LEMMA AnswerKeeps ==
    ASSUME HpiInv, Answer
    PROVE  HpiInv'
<1> USE DEF HpiInv
<1>1. UNCHANGED <<ports, pins, outbuf, data_in, readdata, held, idle, reading, call, effect, result, at, wait>>
    BY DEF Answer, hardware
<1>2. PICK a \in HpiReg, v \in HpiValue :
        ~(ChipDrives /\ pins.address = a) /\ chipreg' = [chipreg EXCEPT ![a] = v]
    BY DEF Answer
<1>3. chipreg' \in [HpiReg -> Word]
    BY <1>2 DEF Wires, Word
<1>4. Wires'
    BY <1>1, <1>3 DEF Wires, Word
<1>5. PortsFollow' /\ PinsFollow' /\ CallsLast' /\ WordStays'
    BY <1>1 DEF PortsFollow, PinsFollow, Shown, CallsLast, WordStays, Untouched
<1>6. AnswerComes'
    <2>1. ASSUME call.do = "read", at = 4, Untouched, wait < Gap
          PROVE  chipreg'[call.reg] = chipreg[call.reg]
        <3>1. a # call.reg
            BY <2>1, <1>2, ChipAnswers
        <3> QED
            BY <3>1, <1>2 DEF Wires
    <2> QED
        BY <1>1, <2>1 DEF AnswerComes, Untouched
<1> QED
    BY <1>4, <1>5, <1>6

(* What every edge of Clk does. *)
LEMMA EdgeFacts ==
    ASSUME HpiInv, NEW Reset \in BOOLEAN, Clock(Reset)
    PROVE  /\ UNCHANGED <<ports, call, result, at>>
           /\ wait' = IF wait = 0 THEN 0 ELSE wait - 1
           /\ wait' \in 0 .. Gap /\ wait' < Gap
           /\ pins'.rst => pins' = Pass /\ outbuf' = ports.data /\ data_in' = OTG_DATA
           /\ readdata' = data_in /\ held' = OTG_DATA
<1>1. Gap \in Nat /\ Gap > 0 /\ wait \in 0 .. Gap
    BY HpiAssumption DEF HpiInv, Wires
<1>2. wait' = IF wait = 0 THEN 0 ELSE wait - 1
    BY DEF Clock
<1>3. pins'.rst => pins' = Pass /\ outbuf' = ports.data /\ data_in' = OTG_DATA
    BY DEF Clock, Interface
<1> QED
    BY <1>1, <1>2, <1>3 DEF Clock

(* The write strobe ends in one place only. *)
LEMMA StrobeIsWrite ==
    ASSUME HpiInv, NEW Reset \in BOOLEAN, Clock(Reset),
           pins'.rst, pins.rst, ~pins.cs, ~pins.wr, pins'.wr
    PROVE  call.do = "write" /\ at = 6 /\ wait = Gap
<1> USE DEF HpiInv
<1>1. ports.w = High /\ pins.cs = Low /\ pins.wr = Low
    BY EdgeFacts DEF Pass, Wires, Pins, Ports, High, Low
<1>2. wait = Gap
    <2>1. SUFFICES ASSUME wait < Gap
                   PROVE  FALSE
        BY HpiAssumption DEF Wires
    <2>2. pins.wr = Level(LowW(call.do, at)) /\ ports.w = Level(LowW(call.do, at))
        BY <2>1 DEF PinsFollow, Shown, PortsFollow
    <2> QED
        BY <1>1, <2>2 DEF High, Low
<1>3. at > 1 /\ Shown(at - 1)
    BY <1>2 DEF PinsFollow
<1>4. LowCs(call.do, at - 1) /\ LowW(call.do, at - 1) /\ ~LowW(call.do, at)
    BY <1>1, <1>3 DEF Shown, PortsFollow, Level, High, Low
<1>5. at \in 1 .. 11
    BY DEF Wires
<1> QED
    BY <1>2, <1>3, <1>4, <1>5 DEF LowCs, LowW

LEMMA StrobeComes ==
    ASSUME HpiInv, NEW Reset \in BOOLEAN, Clock(Reset), pins'.rst,
           call.do = "write", at = 6, wait = Gap, Untouched
    PROVE  pins.rst /\ ~pins.cs /\ ~pins.wr /\ pins'.wr
<1> USE DEF HpiInv
<1>1. pins.rst
    BY DEF CallsLast
<1>2. Shown(6 - 1)
    BY <1>1 DEF PinsFollow
<1>3. 6 - 1 = 5
    OBVIOUS
<1>4. pins.cs = Low /\ pins.wr = Low /\ ports.w = High
    BY <1>2, <1>3 DEF Shown, PortsFollow, Level, LowCs, LowW
<1>5. pins'.wr = ports.w
    BY EdgeFacts DEF Pass
<1> QED
    BY <1>1, <1>4, <1>5 DEF High, Low

(* What an edge does to the chip. *)
LEMMA EdgeCases ==
    ASSUME HpiInv, NEW Reset \in BOOLEAN, Clock(Reset)
    PROVE  \/ /\ ~pins'.rst /\ chipreg' = [a \in HpiReg |-> Zero]
              /\ call.do \in {"write", "read"} => effect' = "spoiled"
              /\ call.do \in {"init", "none"} => effect' = "done"
           \/ /\ pins'.rst /\ call.do = "write" /\ at = 6 /\ wait = Gap
              /\ chipreg' = [chipreg EXCEPT ![pins.address] = OTG_DATA]
              /\ effect' = IF effect = "pending" THEN "done" ELSE effect
           \/ /\ pins'.rst /\ UNCHANGED <<chipreg, effect>>
              /\ ~(call.do = "write" /\ at = 6 /\ wait = Gap /\ Untouched)
<1>1. CASE ~pins'.rst
    BY <1>1 DEF Clock, Chip
<1>2. CASE pins'.rst /\ pins.rst /\ ~pins.cs /\ ~pins.wr /\ pins'.wr
    BY <1>2, StrobeIsWrite DEF Clock, Chip
<1>3. CASE pins'.rst /\ ~(pins.rst /\ ~pins.cs /\ ~pins.wr /\ pins'.wr)
    BY <1>3, StrobeComes DEF Clock, Chip
<1> QED
    BY <1>1, <1>2, <1>3

LEMMA EdgeKeepsTypes ==
    ASSUME HpiInv, NEW Reset \in BOOLEAN, Clock(Reset)
    PROVE  Wires'
<1> USE DEF HpiInv
<1>1. pins' \in Pins /\ outbuf' \in HpiValue /\ data_in' \in Word
    <2>1. CASE Reset
        <3>1. pins' = [rst |-> FALSE, cs |-> TRUE, rd |-> TRUE, wr |-> TRUE, address |-> SomeReg]
              /\ outbuf' = Zero /\ data_in' = Zero
            BY <2>1 DEF Clock, Interface
        <3> QED
            BY <3>1, SomeRegister, HpiAssumption DEF Pins, Word
    <2>2. CASE ~Reset
        <3>1. pins' = Pass /\ outbuf' = ports.data /\ data_in' = OTG_DATA
            BY <2>2 DEF Clock, Interface
        <3> QED
            BY <3>1, BusWord DEF Pass, Pins, Ports, Wires
    <2> QED
        BY <2>1, <2>2
<1>2. chipreg' \in [HpiReg -> Word] /\ effect' \in {"pending", "done", "spoiled"}
    <2>1. OTG_DATA \in Word /\ Zero \in Word
        BY BusWord, HpiAssumption DEF Word
    <2>2. chipreg' \in [HpiReg -> Word]
        BY <2>1, EdgeCases DEF Wires
    <2>3. effect' \in {"pending", "done", "spoiled"}
        BY EdgeCases DEF Wires
    <2> QED
        BY <2>2, <2>3
<1>3. idle' \in 0 .. Hold
    BY HpiAssumption DEF Clock, Wires
<1>4. reading' \in 0 .. AccessTime
    BY HpiAssumption DEF Clock, Wires
<1>5. readdata' \in Word /\ held' \in Word
    BY EdgeFacts, BusWord DEF Wires
<1> QED
    BY <1>1, <1>2, <1>3, <1>4, <1>5, EdgeFacts DEF Wires

LEMMA EdgeKeepsPins ==
    ASSUME HpiInv, NEW Reset \in BOOLEAN, Clock(Reset)
    PROVE  PortsFollow' /\ PinsFollow'
<1> USE DEF HpiInv
<1>1. PortsFollow'
    BY EdgeFacts DEF PortsFollow
<1>2. ASSUME pins'.rst
      PROVE  Shown(at)' /\ pins'.address = ports'.address
    <2>1. pins'.cs = ports.cs /\ pins'.rd = ports.r /\ pins'.wr = ports.w
          /\ pins'.address = ports.address
        BY <1>2, EdgeFacts DEF Pass
    <2> QED
        BY <2>1, EdgeFacts DEF Shown, PortsFollow
<1>3. wait' # Gap
    BY EdgeFacts, HpiAssumption
<1> QED
    BY <1>1, <1>2, <1>3 DEF PinsFollow

LEMMA EdgeKeepsCalls ==
    ASSUME HpiInv, NEW Reset \in BOOLEAN, Clock(Reset)
    PROVE  CallsLast'
<1> USE DEF HpiInv
<1>1. effect' = "pending" => pins'.rst /\ effect = "pending"
    BY EdgeCases DEF Wires
<1>2. effect' = "pending" => \/ call.do = "write" /\ at < 6
                             \/ call.do = "read" /\ at < 5
    <2>1. ASSUME effect' = "pending", call.do = "write", at = 6, wait = Gap
          PROVE  FALSE
        BY <2>1, <1>1, EdgeCases DEF Untouched
    <2> QED
        BY <2>1, <1>1 DEF CallsLast
<1>3. call.do = "read" /\ at < 5 => effect' # "done"
    BY EdgeCases DEF CallsLast
<1>4. call.do = "none" => wait' = 0
    BY EdgeFacts DEF CallsLast
<1>5. Untouched' => pins'.rst
    BY <1>1 DEF Untouched
<1> QED
    BY <1>2, <1>3, <1>4, <1>5, EdgeFacts DEF CallsLast

LEMMA EdgeKeepsWord ==
    ASSUME HpiInv, NEW Reset \in BOOLEAN, Clock(Reset)
    PROVE  WordStays'
<1> USE DEF HpiInv
<1>1. SUFFICES ASSUME call.do = "write", Untouched'
               PROVE  /\ at >= 4 => outbuf' = call.val
                      /\ at >= 5 => held' = call.val /\ idle' = 0
    BY EdgeFacts DEF WordStays, Wires
<1>2. effect = "pending" /\ pins'.rst /\ effect' = "pending"
    BY <1>1, EdgeCases DEF Untouched, Wires
<1>3. at \in 2 .. 5
    <2>1. CallsLast' /\ wait' < Gap /\ wait' \in 0 .. Gap /\ at' = at /\ call' = call
        BY EdgeKeepsCalls, EdgeFacts
    <2> QED
        BY <2>1, <1>1, <1>2, HpiAssumption DEF CallsLast, Untouched, Wires
<1>4. at >= 4 => outbuf' = call.val
    BY <1>1, <1>2, EdgeFacts DEF PortsFollow
<1>5. ASSUME at = 5
      PROVE  held' = call.val /\ idle' = 0
    <2>1. Untouched
        BY <1>2, <1>5 DEF Untouched
    <2>2. outbuf = call.val
        BY <2>1, <1>1, <1>5 DEF WordStays
    <2>3. Driven
        BY <1>1, <1>5 DEF Driven, PortsFollow, Level, LowW, Low
    <2>4. ~ChipDrives
        <3>1. pins.rst => pins.rd = High
            <4>1. CASE wait < Gap
                BY <4>1, <1>1, <1>5 DEF PinsFollow, Shown, Level, LowR
            <4>2. CASE wait = Gap
                BY <4>2, <1>1, <1>5 DEF PinsFollow, Shown, Level, LowR
            <4> QED
                BY <4>1, <4>2, HpiAssumption DEF Wires
        <3> QED
            BY <3>1 DEF ChipDrives, High
    <2>5. OTG_DATA = call.val
        BY <2>2, <2>3, <2>4 DEF OTG_DATA
    <2> QED
        BY <2>3, <2>5, EdgeFacts DEF Clock
<1> QED
    BY <1>3, <1>4, <1>5

LEMMA EdgeKeepsAnswer ==
    ASSUME HpiInv, NEW Reset \in BOOLEAN, Clock(Reset)
    PROVE  AnswerComes'
<1> USE DEF HpiInv
<1>1. SUFFICES ASSUME call.do = "read", at = 4, Untouched'
               PROVE  /\ reading' >= AccessTime \/ reading' >= Gap - 1 - wait'
                      /\ wait' + AccessTime + 2 <= Gap => data_in' = chipreg'[call.reg]
                      /\ wait' + AccessTime + 3 <= Gap => readdata' = chipreg'[call.reg]
    BY EdgeFacts DEF AnswerComes
<1>2. pins'.rst /\ Untouched
    BY <1>1, EdgeCases DEF Untouched, Wires
<1>3. chipreg' = chipreg
    BY <1>1, <1>2, EdgeCases
<1>4. Gap \in Nat /\ AccessTime \in Nat /\ Gap >= AccessTime + 3 /\ wait \in 0 .. Gap
      /\ reading \in 0 .. AccessTime /\ reading' \in 0 .. AccessTime
    BY HpiAssumption, EdgeKeepsTypes DEF Wires
<1>5. wait' = IF wait = 0 THEN 0 ELSE wait - 1
    BY EdgeFacts
<1>6. CASE wait = Gap
    BY <1>4, <1>5, <1>6
<1>7. CASE wait < Gap
    <2>1. ChipDrives /\ ~Driven /\ pins.address = call.reg
        BY <1>1, <1>2, <1>7, ChipAnswers
    <2>2. reading' = IF reading < AccessTime THEN reading + 1 ELSE AccessTime
        BY <2>1 DEF Clock
    <2>3. /\ reading >= AccessTime \/ reading >= Gap - 1 - wait
          /\ wait + AccessTime + 2 <= Gap => data_in = chipreg[call.reg]
        BY <1>1, <1>2, <1>7 DEF AnswerComes
    <2>4. OTG_DATA = IF reading >= AccessTime THEN chipreg[call.reg] ELSE "junk"
        BY <2>1 DEF OTG_DATA
    <2>5. data_in' = OTG_DATA /\ readdata' = data_in
        BY <1>2, EdgeFacts
    <2>6. reading' >= AccessTime \/ reading' >= Gap - 1 - wait'
        BY <1>4, <1>5, <1>7, <2>2, <2>3
    <2>7. wait' + AccessTime + 2 <= Gap => reading >= AccessTime
        BY <1>4, <1>5, <1>7, <2>3
    <2>8. wait' + AccessTime + 3 <= Gap => wait + AccessTime + 2 <= Gap
        BY <1>4, <1>5, <1>7
    <2> QED
        BY <1>3, <2>3, <2>4, <2>5, <2>6, <2>7, <2>8
<1> QED
    BY <1>4, <1>6, <1>7

-----------------------------------------------------------------------------
LEMMA HpiStarts == HpiInit => HpiInv
<1> SUFFICES ASSUME HpiInit
             PROVE  HpiInv
    OBVIOUS
<1>1. SomeReg \in HpiReg /\ Zero \in HpiValue /\ Gap \in Nat /\ 0 < Gap
      /\ AccessTime \in Nat /\ Hold \in Nat
    BY SomeRegister, HpiAssumption
<1>2. call.do = "init" /\ at = 1 /\ effect = "done" /\ wait = 0 /\ pins.rst = FALSE
    BY DEF HpiInit, Idle
<1>3. ports \in Ports /\ pins \in Pins
    BY <1>1 DEF HpiInit, Ports, Pins
<1>4. call \in [do: {"init", "none", "write", "read"}, reg: HpiReg, val: HpiValue]
    BY <1>1 DEF HpiInit, Idle
<1>5. chipreg \in [HpiReg -> Word] /\ result \in Word /\ outbuf \in HpiValue
      /\ data_in \in Word /\ readdata \in Word /\ held \in Word
    BY <1>1 DEF HpiInit, Word
<1>6. Wires
    BY <1>1, <1>2, <1>3, <1>4, <1>5 DEF Wires, Length, HpiInit
<1>7. ports.reset = Low /\ ports.cs = Low /\ ports.r = Low /\ ports.w = Low
    BY DEF HpiInit, Low
<1>8. PortsFollow
    BY <1>2, <1>7 DEF PortsFollow, Level, LowRst, LowCs, LowR, LowW
<1> QED
    BY <1>2, <1>6, <1>8 DEF HpiInv, PinsFollow, CallsLast, WordStays, AnswerComes, Untouched

LEMMA HpiStep == HpiInv /\ [HpiNext]_hvars => HpiInv'
<1> SUFFICES ASSUME HpiInv, [HpiNext]_hvars
             PROVE  HpiInv'
    OBVIOUS
<1>1. ASSUME NEW Reset \in BOOLEAN, Clock(Reset)
      PROVE  HpiInv'
    BY <1>1, EdgeKeepsTypes, EdgeKeepsPins, EdgeKeepsCalls, EdgeKeepsWord,
       EdgeKeepsAnswer DEF HpiInv
<1>2. CASE UNCHANGED hvars
    BY <1>2 DEF hvars, hardware, bus, HpiInv, Wires, PortsFollow, PinsFollow, Shown, CallsLast,
                WordStays, AnswerComes, Untouched
<1> QED
    BY <1>1, <1>2, BeginKeeps, StoreKeeps, LoadKeeps, EndKeeps, AnswerKeeps DEF HpiNext

LEMMA HpiSafe == HpiSpec => []HpiInv
BY HpiStarts, HpiStep, PTL DEF HpiSpec

(* The FPGA and the chip never drive the data bus at the same time after   *)
(* IO_init, although the one is switched by a port, the other by a pin.    *)
THEOREM OneDriver == HpiSpec => []NoContention
<1>1. HpiInv => NoContention
    <2> SUFFICES ASSUME HpiInv, call.do # "init", Driven, ChipDrives
                 PROVE  FALSE
        BY DEF NoContention
    <2>1. ports.w = Low /\ pins.rd = Low /\ pins.rst /\ ports.w # High /\ pins.rd # High
        BY DEF Driven, ChipDrives, HpiInv, Wires, Ports, Pins, Low, High
    <2>2. call.do = "write" /\ at = 5
        BY <2>1 DEF HpiInv, PortsFollow, Level, LowW
    <2>3. pins.rd = High
        <3>1. CASE wait < Gap
            BY <2>1, <2>2, <3>1 DEF HpiInv, PinsFollow, Shown, Level, LowR
        <3>2. CASE wait = Gap
            BY <2>1, <2>2, <3>2 DEF HpiInv, PinsFollow, Shown, Level, LowR
        <3> QED
            BY <3>1, <3>2, HpiAssumption DEF HpiInv, Wires
    <2> QED
        BY <2>1, <2>3
<1> QED
    BY <1>1, HpiSafe, PTL

-----------------------------------------------------------------------------
(* Every edge of Clk is a reset, the landing of a write, or nothing to the *)
(* program.                                                                *)
LEMMA EdgeIsPromised ==
    ASSUME HpiInv, NEW Reset \in BOOLEAN, Clock(Reset)
    PROVE  Promise!BusNext \/ UNCHANGED Promise!busvars
<1> USE DEF HpiInv
<1>1. UNCHANGED <<call, result>>
    BY EdgeFacts
<1>2. CASE /\ ~pins'.rst /\ chipreg' = [a \in HpiReg |-> Zero]
           /\ call.do \in {"write", "read"} => effect' = "spoiled"
           /\ call.do \in {"init", "none"} => effect' = "done"
    <2>1. call \in Promise!Calls <=> call.do \in {"write", "read"}
        BY DEF Promise!Calls, Wires, Word
    <2>2. call.do \in {"init", "none", "write", "read"}
        BY DEF Wires
    <2>3. Promise!ResetChip
        BY <1>1, <1>2, <2>1, <2>2 DEF Promise!ResetChip
    <2> QED
        BY <2>3 DEF Promise!BusNext
<1>3. CASE /\ pins'.rst /\ call.do = "write" /\ at = 6 /\ wait = Gap
           /\ chipreg' = [chipreg EXCEPT ![pins.address] = OTG_DATA]
           /\ effect' = IF effect = "pending" THEN "done" ELSE effect
    <2>1. CASE effect = "pending"
        <3>1. Untouched
            BY <1>3, <2>1 DEF Untouched
        <3>2. pins.rst /\ Shown(6 - 1) /\ pins.address = call.reg /\ 6 - 1 = 5
            BY <1>3, <3>1 DEF CallsLast, PinsFollow, PortsFollow
        <3>3. pins.rd = High /\ ports.w = High
            BY <1>3, <3>2 DEF Shown, PortsFollow, Level, LowR, LowW
        <3>4. held = call.val /\ idle = 0
            BY <1>3, <3>1 DEF WordStays
        <3>5. OTG_DATA = call.val
            BY <3>3, <3>4, HpiAssumption DEF OTG_DATA, Driven, ChipDrives, High
        <3>6. Promise!Land
            BY <1>1, <1>3, <2>1, <3>2, <3>5 DEF Promise!Land, Promise!Open
        <3> QED
            BY <3>6 DEF Promise!BusNext
    <2>2. CASE effect # "pending"
        <3>1. pins.address \in HpiReg /\ OTG_DATA \in Word
            BY BusWord DEF Wires, Pins
        <3>2. effect' = effect
            BY <1>3, <2>2
        <3>3. Promise!Own
            BY <1>1, <1>3, <3>1, <3>2 DEF Promise!Own
        <3> QED
            BY <3>3 DEF Promise!BusNext
    <2> QED
        BY <2>1, <2>2
<1>4. CASE UNCHANGED <<chipreg, effect>>
    BY <1>1, <1>4 DEF Promise!busvars
<1> QED
    BY <1>2, <1>3, <1>4, EdgeCases

LEMMA LoadIsPromised ==
    ASSUME HpiInv, Load
    PROVE  Promise!Sample \/ Promise!SampleSpoiled
<1> USE DEF HpiInv
<1>1. call.do = "read" /\ at = 4 /\ wait = 0 /\ result' = readdata
      /\ UNCHANGED <<call, chipreg>>
      /\ effect' = IF effect = "pending" THEN "done" ELSE effect
    BY LoadIsFourth DEF Load
<1>2. CASE effect = "pending"
    <2>1. Untouched /\ 0 < Gap /\ 0 + AccessTime + 3 <= Gap
        BY <1>1, <1>2, HpiAssumption DEF Untouched
    <2>2. readdata = chipreg[call.reg]
        BY <1>1, <2>1 DEF AnswerComes
    <2> QED
        BY <1>1, <1>2, <2>2 DEF Promise!Sample, Promise!Open
<1>3. CASE effect = "spoiled"
    BY <1>1, <1>3 DEF Promise!SampleSpoiled, Promise!Open, Wires
<1> QED
    BY <1>1, <1>2, <1>3 DEF CallsLast, Wires

(* Seen from the program the wires are registers: HpiIo implements HpiBus. *)
THEOREM WiresAreRegisters == HpiSpec => HpiImplementsBus
<1>1. HpiInit => Promise!BusInit
    BY DEF HpiInit, Idle, Promise!BusInit
<1>2. HpiInv /\ [HpiNext]_hvars => [Promise!BusNext]_(Promise!busvars)
    <2> SUFFICES ASSUME HpiInv, [HpiNext]_hvars
                 PROVE  Promise!BusNext \/ UNCHANGED Promise!busvars
        OBVIOUS
    <2>1. CASE BeginCall
        <3>1. call' \in Promise!Calls
            BY <2>1, HpiAssumption DEF BeginCall, Promise!Calls, Word
        <3> QED
            BY <2>1, <3>1 DEF BeginCall, Promise!Begin, Promise!BusNext
    <2>2. CASE Store
        BY <2>2 DEF Store, bus, Promise!busvars
    <2>3. CASE Load
        BY <2>3, LoadIsPromised DEF Promise!BusNext
    <2>4. CASE EndCall
        <3>1. at > Length(call.do) /\ call.do # "none" /\ wait = 0
            BY <2>4, Lengths DEF EndCall, HpiInv
        <3>2. effect # "pending"
            BY <3>1, HpiAssumption DEF HpiInv, CallsLast, Length, Wires
        <3> QED
            BY <2>4, <3>2 DEF EndCall, Idle, Promise!End, Promise!BusNext
    <2>5. CASE Answer
        BY <2>5 DEF Answer, Word, Promise!Own, Promise!BusNext
    <2>6. ASSUME NEW Reset \in BOOLEAN, Clock(Reset)
          PROVE  Promise!BusNext \/ UNCHANGED Promise!busvars
        BY <2>6, EdgeIsPromised
    <2>7. CASE UNCHANGED hvars
        BY <2>7 DEF hvars, bus, Promise!busvars
    <2> QED
        BY <2>1, <2>2, <2>3, <2>4, <2>5, <2>6, <2>7 DEF HpiNext
<1> QED
    BY <1>1, <1>2, HpiSafe, PTL DEF HpiSpec, HpiImplementsBus, Promise!BusSpec
=============================================================================
