----------------------------- MODULE SerialLines -----------------------------
(***************************************************************************)
(* The three servers of uartserver.c as they run next to each other: the   *)
(* terminal's output and input, and the train line.  They share no data,   *)
(* so a step of one leaves the others alone; and so each is correct        *)
(* whatever the others do.                                                 *)
(***************************************************************************)
EXTENDS Integers, Sequences, FiniteSets

CONSTANTS
  Clients,       \* the tasks that call Putc and Getc
  FifoSize,      \* of both FIFOs of UART 2
  LockCapacity,  \* of both lock_cb
  PrintLength, Overtakes,    \* see Uart2Tx
  Program, Bytes, Prompt,    \* see Uart1
  MaxKey, NoKey,             \* see Uart2Rx
  NoOwner

VARIABLES
  owned_by, lock_cb, char_buffer, notifier_parking, mailbox, notifier, client, place,
  fifo, overtaken, written, lost, stray,
  line_owned_by, line_lock_cb, can_send, want_send, send_buffer, line_mailbox,
  line_notifier, uart1_tx_flag, intr, thr, rdr, cts, dcts, controller, toSend,
  line_client, pc, result,
  waiting, key_mailbox, key_notifier, key_intr, key_fifo, next_key, shell_client, got

Output == INSTANCE Uart2Tx

Line == INSTANCE Uart1
          WITH owned_by <- line_owned_by, lock_cb <- line_lock_cb, mailbox <- line_mailbox,
               notifier <- line_notifier, client <- line_client

Input == INSTANCE Uart2Rx
           WITH mailbox <- key_mailbox, notifier <- key_notifier, intr <- key_intr,
                fifo <- key_fifo, key <- next_key, client <- shell_client, result <- got

LinesAssumption ==
  Output!Uart2TxAssumption /\ Line!Uart1Assumption /\ Input!Uart2RxAssumption

outputVars == <<owned_by, lock_cb, char_buffer, notifier_parking, mailbox, notifier, client,
                place, fifo, overtaken, written, lost, stray>>
lineVars == <<line_owned_by, line_lock_cb, can_send, want_send, send_buffer, line_mailbox,
              line_notifier, uart1_tx_flag, intr, thr, rdr, cts, dcts, controller, toSend,
              line_client, pc, result>>
inputVars == <<waiting, key_mailbox, key_notifier, key_intr, key_fifo, next_key, shell_client, got>>
lines == <<outputVars, lineVars, inputVars>>

LinesInit == Output!Init /\ Line!Init /\ Input!Init

LinesNext ==
  \/ Output!Next /\ UNCHANGED <<lineVars, inputVars>>
  \/ Line!Next /\ UNCHANGED <<outputVars, inputVars>>
  \/ Input!Next /\ UNCHANGED <<outputVars, lineVars>>

LinesSpec == LinesInit /\ [][LinesNext]_lines

-----------------------------------------------------------------------------
\* The locks of the terminal's output and of the train line: a task that waits for one is
\* in its queue once, with what it wants kept, the owner is not, and the servers know
\* where their notifiers are.
LocksConsistent == Output!LocksConsistent /\ Line!LocksConsistent

\* A line reaches the terminal in one piece, in the order of its characters, none of
\* which is written into a full FIFO.
PrintsWhole == Output!PrintsWhole /\ []Output!NothingLost

\* A byte goes to the train controller when the one before has left and CTS has cycled.
TransmitsWhenClear == Line!TransmitsWhenClear

\* The replies of the train line go to tasks that wait for them, and the bytes of an
\* answer are read in order.
AnswersInOrder == Line!AnswersInOrder

\* The shell gets the keys in the order in which they were pressed.
KeysInOrder == Input!KeysInOrder
=============================================================================
