-------------------------------- MODULE HpiIo --------------------------------
(***************************************************************************)
(* How the processor reaches the USB chip: io_handler.c sets the ports of  *)
(* the Nios system (PIOs) one by one, hpi_io_intf.sv registers them with   *)
(* Clk and drives the pins and the bidirectional bus.  Clock is one rising *)
(* edge of Clk; Access is one store to or load from a port, at least Gap   *)
(* edges after the one before; the chip is not in src/.                    *)
(***************************************************************************)
EXTENDS Naturals, Sequences

CONSTANTS
    HpiReg,       \* HPI_DATA, HPI_MAILBOX, HPI_ADDR, HPI_STATUS
    HpiValue,     \* 16-bit words
    Zero,         \* the word 0
    Gap,          \* edges of Clk between two accesses of the program
    AccessTime,   \* edges until the chip's data is valid
    Hold          \* edges for which a bus nobody drives keeps its value

ASSUME HpiAssumption ==
    /\ Zero \in HpiValue /\ "junk" \notin HpiValue /\ HpiReg # {}
    /\ AccessTime \in Nat /\ Hold \in Nat \ {0} /\ Gap \in Nat
    /\ Gap >= AccessTime + 3

VARIABLES
    ports,    \* the PIOs: reset, cs, r, w (TRUE is the level 1), address, data
    pins,     \* OTG_RST_N, OTG_CS_N, OTG_RD_N, OTG_WR_N, OTG_ADDR
    outbuf,   \* from_sw_data_out_buffer
    data_in,  \* from_sw_data_in
    readdata, \* the read register of the data PIO
    held,     \* what was last on the bus
    idle,     \* edges since somebody drove it, at most Hold
    reading,  \* edges since OTG_RD_N went low, at most AccessTime
    chipreg, call, effect, result, \* see HpiBus
    at,       \* the statement of the call
    wait      \* edges before the next access

hardware == <<pins, outbuf, data_in, readdata, held, idle, reading>>
bus == <<chipreg, call, effect, result>>
hvars == <<ports, hardware, bus, at, wait>>

Word == HpiValue \cup {"junk"}
Promise == INSTANCE HpiBus WITH Register <- HpiReg, Value <- Word, Cleared <- Zero

SomeReg == CHOOSE a \in HpiReg : TRUE
Idle(do) == [do |-> do, reg |-> SomeReg, val |-> Zero]

(* The statements of io_handler.c; "load" is temp = *otg_hpi_data.         *)
IO_init ==
    << <<"reset", TRUE>>, <<"cs", TRUE>>, <<"r", TRUE>>, <<"w", TRUE>>,
       <<"address", SomeReg>>, <<"data", Zero>>,
       <<"cs", FALSE>>, <<"reset", FALSE>>, <<"reset", TRUE>>, <<"cs", TRUE>> >>

(* Mutants of IO_write: the chip is deselected before the strobe ends; the *)
(* data follows the strobe.                                                *)
IO_write_deselected(a, d) ==
    << <<"cs", FALSE>>, <<"address", a>>, <<"data", d>>, <<"w", FALSE>>,
       <<"cs", TRUE>>, <<"w", TRUE>> >>

IO_write(a, d) ==
    << <<"cs", FALSE>>, <<"address", a>>, <<"data", d>>, <<"w", FALSE>>,
       <<"w", TRUE>>, <<"cs", TRUE>> >>

(* Mutant of IO_read: the read strobe is not taken back. *)
IO_read_strobed(a) ==
    << <<"cs", FALSE>>, <<"address", a>>, <<"r", FALSE>>, <<"load", 0>>, <<"cs", TRUE>> >>

IO_read(a) ==
    << <<"cs", FALSE>>, <<"address", a>>, <<"r", FALSE>>, <<"load", 0>>,
       <<"r", TRUE>>, <<"cs", TRUE>> >>

Code ==
    CASE call.do = "init" -> IO_init
      [] call.do = "write" -> IO_write(call.reg, call.val)
      [] call.do = "read" -> IO_read(call.reg)
      [] call.do = "none" -> <<>>

(* After power-up all PIOs are 0. *)
HpiInit ==
    /\ ports = [reset |-> FALSE, cs |-> FALSE, r |-> FALSE, w |-> FALSE,
                address |-> SomeReg, data |-> Zero]
    /\ pins = [rst |-> FALSE, cs |-> TRUE, rd |-> TRUE, wr |-> TRUE, address |-> SomeReg]
    /\ outbuf = Zero /\ data_in = Zero /\ readdata = Zero
    /\ held = "junk" /\ idle = Hold /\ reading = 0
    /\ chipreg = [a \in HpiReg |-> Zero] /\ call = Idle("init") /\ effect = "done"
    /\ result = Zero /\ at = 1 /\ wait = 0

-----------------------------------------------------------------------------
(* The program. *)
BeginCall ==
    /\ call.do = "none" /\ call' \in [do : {"write"}, reg : HpiReg, val : HpiValue]
                                      \cup [do : {"read"}, reg : HpiReg, val : {Zero}]
    /\ effect' = "pending" /\ at' = 1
    /\ UNCHANGED <<ports, hardware, chipreg, result, wait>>

Store ==
    /\ at <= Len(Code) /\ wait = 0 /\ Code[at][1] # "load"
    /\ ports' = [ports EXCEPT ![Code[at][1]] = Code[at][2]]
    /\ at' = at + 1 /\ wait' = Gap
    /\ UNCHANGED <<hardware, bus>>

Load ==
    /\ at <= Len(Code) /\ wait = 0 /\ Code[at][1] = "load"
    /\ result' = readdata
    /\ effect' = IF effect = "pending" THEN "done" ELSE effect
    /\ at' = at + 1 /\ wait' = Gap
    /\ UNCHANGED <<ports, hardware, chipreg, call>>

EndCall ==
    /\ call.do # "none" /\ at > Len(Code) /\ wait = 0
    /\ call' = Idle("none") /\ effect' = "done"
    /\ UNCHANGED <<ports, hardware, chipreg, result, at, wait>>

-----------------------------------------------------------------------------
(* The wires. *)
Driven == ~ports.w
ChipDrives == pins.rst /\ ~pins.cs /\ ~pins.rd

(* OTG_DATA: the module drives it by the port w itself, before and after   *)
(* the pin OTG_WR_N, which is a register later.                            *)
OTG_DATA ==
    CASE Driven /\ ~ChipDrives -> outbuf
      [] ChipDrives /\ ~Driven -> IF reading >= AccessTime THEN chipreg[pins.address] ELSE "junk"
      [] Driven /\ ChipDrives -> "junk"
      [] ~Driven /\ ~ChipDrives -> IF idle < Hold THEN held ELSE "junk"

Pass == [rst |-> ports.reset, cs |-> ports.cs, rd |-> ports.r, wr |-> ports.w,
         address |-> ports.address]

Interface(Reset) ==
    \/ /\ Reset
       /\ pins' = [rst |-> FALSE, cs |-> TRUE, rd |-> TRUE, wr |-> TRUE, address |-> SomeReg]
       /\ outbuf' = Zero /\ data_in' = Zero
    \/ /\ ~Reset
       /\ pins' = Pass /\ outbuf' = ports.data /\ data_in' = OTG_DATA

(* The chip takes the bus when the write strobe ends. *)
Chip ==
    \/ /\ ~pins'.rst
       /\ chipreg' = [a \in HpiReg |-> Zero]
       /\ effect' = IF call.do \in {"write", "read"} THEN "spoiled" ELSE "done"
    \/ /\ pins'.rst /\ pins.rst /\ ~pins.cs /\ ~pins.wr /\ pins'.wr
       /\ chipreg' = [chipreg EXCEPT ![pins.address] = OTG_DATA]
       /\ effect' = IF effect = "pending" THEN "done" ELSE effect
    \/ /\ pins'.rst /\ ~(pins.rst /\ ~pins.cs /\ ~pins.wr /\ pins'.wr)
       /\ UNCHANGED <<chipreg, effect>>

Clock(Reset) ==
    /\ Interface(Reset) /\ Chip
    /\ readdata' = data_in
    /\ held' = OTG_DATA
    /\ idle' = IF Driven \/ ChipDrives THEN 0 ELSE IF idle < Hold THEN idle + 1 ELSE Hold
    /\ reading' = IF ~ChipDrives THEN 0 ELSE IF reading < AccessTime THEN reading + 1 ELSE AccessTime
    /\ wait' = IF wait = 0 THEN 0 ELSE wait - 1
    /\ UNCHANGED <<ports, call, result, at>>

(* The chip answers in a register, but not while that one is being read.   *)
Answer ==
    /\ \E a \in HpiReg, v \in HpiValue :
        /\ ~(ChipDrives /\ pins.address = a)
        /\ chipreg' = [chipreg EXCEPT ![a] = v]
    /\ UNCHANGED <<ports, hardware, call, effect, result, at, wait>>

HpiNext ==
    \/ BeginCall \/ Store \/ Load \/ EndCall \/ Answer
    \/ \E Reset \in BOOLEAN : Clock(Reset)

HpiSpec == HpiInit /\ [][HpiNext]_hvars
-----------------------------------------------------------------------------
(* Seen from the program the wires are registers: a write lands, once, and *)
(* a read returns what the register holds, whatever the chip and the reset *)
(* button do; a call the reset falls into is the only one that is lost.    *)
HpiImplementsBus == Promise!BusSpec

(* Once IO_init is over, the FPGA and the chip never drive the bus at the  *)
(* same time, although one is switched by a port and the other by a pin.   *)
NoContention == call.do # "init" => ~(Driven /\ ChipDrives)
=============================================================================
