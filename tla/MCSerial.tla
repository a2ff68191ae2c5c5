------------------------------ MODULE MCSerial ------------------------------
(***************************************************************************)
(* The start of the system, and the servers of the serial lines, each on   *)
(* its own: terminal output with three tasks that print lines longer than  *)
(* half the FIFO; the train line with a task that polls the sensors (with  *)
(* answers of two bytes) and two that send two-byte commands; terminal     *)
(* input.  The variable subject says which one a behaviour is about.       *)
(***************************************************************************)
EXTENDS Startup, SerialLines

CONSTANTS a, b, c

VARIABLE subject

\* The tasks poll the sensors, or send a command.
MCProgram == [x \in Clients |-> IF x = a THEN <<"ask", "get", "get", "release">>
                                 ELSE <<"put", "put", "release">>]

StartTasks ==
  {"k1init", "nameserver", "clockserver", "clocknotifier", "uart2tx", "uart2txnotifier",
   "uart1", "uart1txnotifier", "uart1rxnotifier", "uart2rx", "uart2rxnotifier",
   "trainserver", "trainworker", "navigation", "straightpathworker", "pathfindworker",
   "dispatch", "sensorcourier", "attributioncourier", "shellinit", "shell",
   "timerprinter", "sensorprinter", "trainstateprinter", "reservationprinter",
   "switchprinter", "subscribeprinter"}

ASSUME LinesAssumption /\ StartupAssumption

vars == <<subject, lines, startup>>

MCInit ==
  /\ subject \in {"output", "line", "input", "start"}
  /\ LinesInit /\ Init

\* A step of the part that the behaviour is about.
Of(part, Step) == subject = part /\ Step /\ UNCHANGED subject
StepOutput(Step) == Of("output", Step) /\ UNCHANGED <<lineVars, inputVars, startup>>
StepLine(Step) == Of("line", Step) /\ UNCHANGED <<outputVars, inputVars, startup>>
StepInput(Step) == Of("input", Step) /\ UNCHANGED <<outputVars, lineVars, startup>>
StepStart(Step) == Of("start", Step) /\ UNCHANGED lines

\* When every task has reached its loop and waits, the idle task runs.
Idle == StepStart(queue = <<>> /\ UNCHANGED startup)

MCNext ==
  StepOutput(Output!Next) \/ StepLine(Line!Next) \/ StepInput(Input!Next)
    \/ StepStart(Next) \/ Idle

\* The fairness of the parts, in each conjunct that of one action of every part.
Fairness ==
  /\ WF_vars(StepOutput(Output!Serve) \/ StepLine(Line!Serve) \/ StepInput(Input!Serve)
             \/ StepStart(Syscall))
  /\ WF_vars(StepOutput(Output!NotifierSends) \/ StepLine(Line!TxSends) \/ StepInput(Input!NotifierSends))
  /\ WF_vars(StepOutput(Output!NotifierAwaits) \/ StepLine(Line!TxAwaits) \/ StepInput(Input!NotifierAwaits))
  /\ WF_vars(StepOutput(Output!TransmitInterrupt) \/ StepLine(Line!Interrupt) \/ StepInput(Input!ReceiveInterrupt))
  /\ WF_vars(StepOutput(Output!Transmit) \/ StepLine(Line!ShiftOut) \/ StepInput(Input!Getc))
  /\ \A x \in Clients : WF_vars(StepOutput(Output!ClientStep(x)) \/ StepLine(Line!Call(x)))
  /\ WF_vars(StepLine(Line!RxSends)) /\ WF_vars(StepLine(Line!RxAwaits))
  /\ WF_vars(StepLine(Line!LowerCts)) /\ WF_vars(StepLine(Line!RaiseCts))
  /\ WF_vars(StepLine(Line!ByteArrives))

MCSpec == MCInit /\ [][MCNext]_vars /\ Fairness

-----------------------------------------------------------------------------
\* Every Putc, every release of a lock, and every Getc for which there is a byte or a key
\* returns: no notifier is forgotten, and no lock is lost.
CallsReturn == Output!CallsReturn /\ Line!CallsReturn /\ Input!GetcReturns

\* The start gets every task to its loop.
StartEnds == subject = "start" => StartsUp
=============================================================================
