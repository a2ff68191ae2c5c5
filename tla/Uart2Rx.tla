------------------------------- MODULE Uart2Rx -------------------------------
(***************************************************************************)
(* The terminal's receive server (uart_com2_rx_server), its notifier, the  *)
(* UART2 receive FIFO, and the shell, which alone calls Getc on COM2.      *)
(*                                                                         *)
(* A Getc that finds the FIFO empty is remembered and the notifier is let  *)
(* go to wait for a key; the notifier's message has the server read the    *)
(* FIFO without asking whether there is anything in it.                    *)
(***************************************************************************)
EXTENDS Naturals, Sequences

CONSTANTS FifoSize,   \* 16 on the EP9302
          MaxKey,     \* keys are numbered from 0 to MaxKey in the order in which they
                      \* get into the FIFO, and then from 0 again
          NoKey       \* what is read from an empty FIFO

Uart2RxAssumption ==
  /\ FifoSize \in Nat /\ FifoSize >= 2
  /\ MaxKey \in Nat /\ MaxKey > FifoSize
  /\ NoKey \notin 0 .. MaxKey

VARIABLES
  waiting,    \* the server's variable: whether the shell waits for its reply
  mailbox,    \* its want_send queue
  notifier,   \* "woken" (before Send), "sent", "held" (received, not replied to),
              \* "released" (before AwaitEvent), "awaiting"
  intr,       \* whether the UART2RXINTR and UART2RTIEINTR are enabled
  fifo,       \* the keys in the receive FIFO
  key,        \* the number of the next key
  client,     \* the shell: "ready", "sent", "received" (waits for the reply)
  result      \* history: what its last Getc returned

vars == <<waiting, mailbox, notifier, intr, fifo, key, client, result>>

\* The notifier is created before the server first calls Receive.
Init ==
  /\ waiting = FALSE
  /\ mailbox = <<"NOTIFIER_RX_GOOD">> /\ notifier = "sent" /\ intr = FALSE
  /\ fifo = <<>> /\ key = 0
  /\ client = "ready" /\ result = MaxKey

-----------------------------------------------------------------------------
(* The keyboard and the hardware *)

\* A key is pressed.  One that finds the FIFO full is lost and changes nothing.
Press ==
  /\ Len(fifo) < FifoSize
  /\ fifo' = Append(fifo, key)
  /\ key' = (key + 1) % (MaxKey + 1)
  /\ UNCHANGED <<waiting, mailbox, notifier, intr, client, result>>

\* UART2RXINTR (the FIFO is half full) or UART2RTIEINTR (there are keys in it, and no
\* new one for a while); the kernel disables both.
ReceiveInterrupt ==
  /\ intr /\ fifo # <<>>
  /\ intr' = FALSE
  /\ notifier' = "woken"
  /\ UNCHANGED <<waiting, mailbox, fifo, key, client, result>>

-----------------------------------------------------------------------------
(* The notifier and the shell *)

\* AwaitEvent(UART2_RX_INCOMING)
NotifierAwaits ==
  /\ notifier = "released"
  /\ notifier' = "awaiting" /\ intr' = TRUE
  /\ UNCHANGED <<waiting, mailbox, fifo, key, client, result>>

NotifierSends ==
  /\ notifier = "woken"
  /\ notifier' = "sent"
  /\ mailbox' = Append(mailbox, "NOTIFIER_RX_GOOD")
  /\ UNCHANGED <<waiting, intr, fifo, key, client, result>>

Getc ==
  /\ client = "ready"
  /\ client' = "sent"
  /\ mailbox' = Append(mailbox, "GET_CHAR")
  /\ UNCHANGED <<waiting, notifier, intr, fifo, key, result>>

-----------------------------------------------------------------------------
(* The server *)

Received(type) == mailbox # <<>> /\ type = Head(mailbox) /\ mailbox' = Tail(mailbox)

\* Reply to the shell with what uart_get_char(COM2) returns.
ReplyKey ==
  /\ client' = "ready"
  /\ result' = IF fifo = <<>> THEN NoKey ELSE Head(fifo)
  /\ fifo' = IF fifo = <<>> THEN <<>> ELSE Tail(fifo)

\* NOTIFIER_RX_GOOD
RxGood ==
  /\ Received("NOTIFIER_RX_GOOD")
  /\ notifier' = "held" /\ waiting' = FALSE
  /\ IF waiting THEN ReplyKey ELSE UNCHANGED <<client, result, fifo>>
  /\ UNCHANGED <<intr, key>>

\* Seeded fault: the notifier is let go after every Getc.
GetCharReleases ==
  /\ Received("GET_CHAR")
  /\ IF fifo # <<>> THEN ReplyKey /\ UNCHANGED waiting
     ELSE waiting' = TRUE /\ client' = "received" /\ UNCHANGED <<result, fifo>>
  /\ notifier' = IF notifier = "held" THEN "released" ELSE notifier
  /\ UNCHANGED <<intr, key>>

\* GET_CHAR.  A Reply to a notifier that does not wait for one does nothing.
GetChar ==
  /\ Received("GET_CHAR")
  /\ IF fifo # <<>> THEN ReplyKey /\ UNCHANGED <<waiting, notifier>>
     ELSE /\ waiting' = TRUE /\ client' = "received"
          /\ notifier' = IF notifier = "held" THEN "released" ELSE notifier
          /\ UNCHANGED <<result, fifo>>
  /\ UNCHANGED <<intr, key>>

Serve == RxGood \/ GetChar

Next == Press \/ ReceiveInterrupt \/ NotifierAwaits \/ NotifierSends \/ Getc \/ Serve

\* Every task that can run does, and interrupts are served; nobody has to press a key.
Spec == Init /\ [][Next]_vars
        /\ WF_vars(ReceiveInterrupt) /\ WF_vars(NotifierAwaits) /\ WF_vars(NotifierSends)
        /\ WF_vars(Getc) /\ WF_vars(Serve)

-----------------------------------------------------------------------------
\* Getc returns the keys in order, each once, and never what is left in an empty FIFO,
\* although the server does not look before it reads on the notifier's word.
KeysInOrder ==
  [][client # "ready" /\ client' = "ready" => result' = (result + 1) % (MaxKey + 1)]_vars

\* A Getc returns once there is a key, although the server never asks where its notifier
\* is when it lets it go.
GetcReturns == client # "ready" /\ fifo # <<>> ~> client = "ready"
=============================================================================
