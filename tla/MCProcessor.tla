----------------------------- MODULE MCProcessor -----------------------------
(***************************************************************************)
(* The software, in one run: the keyboard driver with a keyboard that      *)
(* stays, the table of file descriptors, the console below it and the      *)
(* alarms.  They share no state; "part" says which one moves.              *)
(***************************************************************************)
EXTENDS UsbKeyboard, FileTable, JtagUart, Alarms

VARIABLE part

processorvars == <<part, dvars, tvars, uartvars, alarmvars>>

ProcessorInit ==
    /\ part \in {"keyboard", "files", "console", "alarms"}
    /\ SteadyInit /\ TableInit /\ UartInit /\ AlarmInit
    /\ part # "keyboard" => buffer = "leftover" /\ port = "None" /\ answer = "other"
    /\ part # "console" => timeout = Timeout /\ attached

OfKeyboard(A) == part = "keyboard" /\ A /\ UNCHANGED <<part, tvars, uartvars, alarmvars>>
OfFiles(A) == part = "files" /\ A /\ UNCHANGED <<part, dvars, uartvars, alarmvars>>
OfConsole(A) == part = "console" /\ A /\ UNCHANGED <<part, dvars, tvars, alarmvars>>
OfAlarms(A) == part = "alarms" /\ A /\ UNCHANGED <<part, dvars, tvars, uartvars>>

(* The fairness of SteadySpec and UartSpec. *)
ProcessorSpec ==
    /\ ProcessorInit
    /\ [][\/ OfKeyboard(SteadyNext) \/ OfFiles(TableNext)
          \/ OfConsole(UartNext) \/ OfAlarms(AlarmNext)]_processorvars
    /\ WF_processorvars(OfKeyboard(Driver))
    /\ WF_processorvars(OfKeyboard(Beside(ChipCommand)))
    /\ WF_processorvars(OfKeyboard(Beside(Take)))
    /\ WF_processorvars(OfKeyboard(Beside(Stray)))
    /\ WF_processorvars(OfKeyboard(Beside(Fail /\ running # Poll)))
    /\ SF_processorvars(OfKeyboard(Beside(Report)))
    /\ WF_processorvars(OfConsole(InCall)) /\ WF_processorvars(OfConsole(Handler))
    /\ WF_processorvars(OfConsole(altera_avalon_jtag_uart_timeout))
    /\ WF_processorvars(OfConsole(HostReads)) /\ WF_processorvars(OfConsole(HostPauses))
=============================================================================
