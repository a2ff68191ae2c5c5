----------------------------- MODULE Uart2Proofs -----------------------------
(***************************************************************************)
(* Proofs of the terminal's two servers, for all sets of tasks that print, *)
(* all lengths of prints, all sizes of the FIFOs and any number of keys.   *)
(***************************************************************************)
EXTENDS SerialLines, FiniteSetTheorems, FunctionTheorems, TLAPS

-----------------------------------------------------------------------------
(* The transmit server *)

Messages == [from : Clients \cup {Output!Notifier}, char : Output!Chars \cup {Output!NoChar},
             type : {"NOTIFIER_TX_GOOD", "SEND_CHAR", "RELEASE_LOCK"}]

\* The messages in want_send: one at most of each task, which waits, and a task's message is
\* about the character it prints next.
MailboxOK ==
  /\ \A i \in 1 .. Len(mailbox) : LET m == mailbox[i]
       IN  /\ m.type = "NOTIFIER_TX_GOOD" <=> m.from = Output!Notifier
           /\ m.from = Output!Notifier => notifier = "sent"
           /\ m.from # Output!Notifier => client[m.from] = "sent"
           /\ m.type = "SEND_CHAR" => m.char = place[m.from] /\ m.char <= PrintLength
           /\ m.type = "RELEASE_LOCK" => place[m.from] = PrintLength + 1
  /\ \A i, j \in 1 .. Len(mailbox) : mailbox[i].from = mailbox[j].from => i = j

\* What is buffered is the character that the task prints next.
BufferedOK ==
  \A c \in Clients : char_buffer[c] # Output!NoChar =>
    char_buffer[c] = place[c] /\ place[c] <= PrintLength

\* The notifier's message finds room in the FIFO, unless the owner waits for nothing and has
\* no message before it.
RoomLeft ==
  /\ IF notifier = "woken" THEN fifo <= FifoSize \div 2 + overtaken ELSE overtaken = 0
  /\ \A k \in 1 .. Len(mailbox) : mailbox[k].from = Output!Notifier =>
       \/ fifo < FifoSize
       \/ /\ owned_by # NoOwner /\ char_buffer[owned_by] = Output!NoChar
          /\ \A j \in 1 .. k - 1 : mailbox[j].from # owned_by

\* Only the owner is in the middle of a print, and the last character written is the one
\* before its next.
WrittenLast ==
  /\ \A c \in Clients \ {owned_by} : place[c] = 1
  /\ IF owned_by # NoOwner /\ place[owned_by] > 1
       THEN written = [by |-> owned_by, char |-> place[owned_by] - 1]
       ELSE written.char \in {Output!NoChar, PrintLength}

OutputInv == /\ Output!TypeOK /\ Output!LocksConsistent /\ Output!NothingLost
             /\ MailboxOK /\ BufferedOK /\ RoomLeft /\ WrittenLast

\* What PrintsWhole says of a step.
NextCharacter ==
  written' # written =>
    IF written.char \in {Output!NoChar, PrintLength}
      THEN written'.char = 1
      ELSE written' = [written EXCEPT !.char = @ + 1]

-----------------------------------------------------------------------------
LEMMA TypeFacts ==
  ASSUME Output!Uart2TxAssumption, OutputInv
  PROVE  /\ owned_by \in Clients \cup {NoOwner} /\ NoOwner \notin Clients
         /\ Output!Notifier \notin Clients
         /\ lock_cb \in Seq(Clients) /\ Len(lock_cb) \in Nat
         /\ \A i \in 1 .. Len(lock_cb) : lock_cb[i] \in Clients
         /\ char_buffer \in [Clients -> Output!Chars \cup {Output!NoChar}]
         /\ client \in [Clients -> {"ready", "sent", "received"}]
         /\ place \in [Clients -> 1 .. PrintLength + 1] /\ PrintLength \in Nat /\ PrintLength >= 1
         /\ fifo \in Nat /\ fifo <= FifoSize /\ FifoSize \in Nat
         /\ overtaken \in Nat /\ Overtakes \in Nat /\ overtaken <= Overtakes
         /\ mailbox \in Seq(Messages) /\ Len(mailbox) \in Nat
         /\ \A i \in 1 .. Len(mailbox) : mailbox[i] \in Messages
<1>1. /\ mailbox \in Seq(Messages) /\ lock_cb \in Seq(Clients)
      /\ owned_by \in Clients \cup {NoOwner}
      /\ char_buffer \in [Clients -> Output!Chars \cup {Output!NoChar}]
      /\ client \in [Clients -> {"ready", "sent", "received"}]
      /\ place \in [Clients -> 1 .. PrintLength + 1]
      /\ fifo \in 0 .. FifoSize /\ overtaken \in 0 .. Overtakes
  BY DEF OutputInv, Output!TypeOK, Messages
<1>2. /\ Len(mailbox) \in Nat /\ Len(lock_cb) \in Nat
      /\ \A i \in 1 .. Len(mailbox) : mailbox[i] \in Messages
      /\ \A i \in 1 .. Len(lock_cb) : lock_cb[i] \in Clients
  BY <1>1
<1>3. /\ NoOwner \notin Clients /\ Output!Notifier \notin Clients /\ PrintLength \in Nat
      /\ PrintLength >= 1 /\ FifoSize \in Nat /\ Overtakes \in Nat
  BY DEF Output!Uart2TxAssumption
<1>4. QED
  BY <1>1, <1>2, <1>3

LEMMA InitInv == ASSUME Output!Uart2TxAssumption PROVE Output!Init => OutputInv
<1> SUFFICES ASSUME Output!Init PROVE OutputInv
  OBVIOUS
<1> DEFINE m == [from |-> Output!Notifier, type |-> "NOTIFIER_TX_GOOD", char |-> Output!NoChar]
<1>1. mailbox = <<m>> /\ m \in Messages /\ m.from = Output!Notifier /\ m.type = "NOTIFIER_TX_GOOD"
  BY DEF Output!Init, Messages
<1> HIDE DEF m
<1>2. mailbox \in Seq(Messages) /\ Len(mailbox) = 1 /\ mailbox[1] = m
  BY <1>1
<1>3. PrintLength \in Nat /\ PrintLength >= 1 /\ FifoSize \in Nat /\ FifoSize >= 2
      /\ LockCapacity \in Nat /\ Overtakes \in Nat
  BY DEF Output!Uart2TxAssumption
<1>4. Output!TypeOK
  <2>1. /\ lock_cb \in Seq(Clients) /\ Len(lock_cb) <= LockCapacity
        /\ fifo \in 0 .. FifoSize /\ overtaken \in 0 .. Overtakes
        /\ place \in [Clients -> 1 .. PrintLength + 1]
    BY <1>3 DEF Output!Init
  <2>2. /\ char_buffer \in [Clients -> Output!Chars \cup {Output!NoChar}]
        /\ client \in [Clients -> {"ready", "sent", "received"}]
        /\ written \in [by : Clients \cup {NoOwner}, char : Output!Chars \cup {Output!NoChar}]
    BY DEF Output!Init
  <2>3. QED
    BY <1>2, <2>1, <2>2 DEF Output!Init, Output!TypeOK, Messages
<1>5. Output!LocksConsistent /\ Output!NothingLost
  BY <1>3 DEF Output!Init, Output!LocksConsistent, Output!LockConsistent, Output!NotifierTracked, Output!NothingLost
<1>6. MailboxOK
  BY <1>1, <1>2 DEF Output!Init, MailboxOK
<1>7. BufferedOK /\ RoomLeft /\ WrittenLast
  BY <1>3 DEF Output!Init, BufferedOK, RoomLeft, WrittenLast
<1>8. QED
  BY <1>4, <1>5, <1>6, <1>7 DEF OutputInv

LEMMA StutterInv == ASSUME OutputInv, UNCHANGED Output!vars PROVE OutputInv'
<1>1. Output!TypeOK' /\ Output!LocksConsistent' /\ Output!NothingLost'
  BY DEF Output!vars, Output!server, OutputInv, Output!TypeOK, Output!LocksConsistent, Output!LockConsistent, Output!NotifierTracked, Output!NothingLost
<1>2. MailboxOK' /\ BufferedOK'
  BY DEF Output!vars, Output!server, OutputInv, MailboxOK, BufferedOK
<1>3. RoomLeft' /\ WrittenLast'
  BY DEF Output!vars, Output!server, OutputInv, RoomLeft, WrittenLast
<1>4. QED
  BY <1>1, <1>2, <1>3 DEF OutputInv

-----------------------------------------------------------------------------
(* The notifier, the hardware and the tasks that print *)

LEMMA AwaitInv == ASSUME Output!Uart2TxAssumption, OutputInv, Output!NotifierAwaits \/ Output!TransmitInterrupt PROVE OutputInv'
<1>1. /\ UNCHANGED <<Output!server, mailbox, client, place, fifo, overtaken, written, lost, stray>>
      /\ notifier \in {"released", "awaiting"} /\ notifier' \in {"awaiting", "woken"}
      /\ notifier' = "woken" => fifo <= FifoSize \div 2
  BY DEF Output!NotifierAwaits, Output!TransmitInterrupt
<1>2. Output!TypeOK'
  BY <1>1 DEF OutputInv, Output!TypeOK, Output!server
<1>3. Output!LocksConsistent' /\ Output!NothingLost' /\ BufferedOK' /\ WrittenLast'
  BY <1>1 DEF OutputInv, Output!LocksConsistent, Output!LockConsistent, Output!NotifierTracked, Output!NothingLost, BufferedOK,
              WrittenLast, Output!server
<1>4. MailboxOK'
  BY <1>1 DEF OutputInv, MailboxOK, Output!server
<1>5. RoomLeft'
  <2>1. overtaken = 0 /\ fifo \in Nat /\ FifoSize \in Nat
    BY <1>1, TypeFacts DEF OutputInv, RoomLeft
  <2>2. IF notifier' = "woken" THEN fifo' <= FifoSize \div 2 + overtaken' ELSE overtaken' = 0
    BY <1>1, <2>1
  <2>3. QED
    BY <1>1, <2>2 DEF OutputInv, RoomLeft, Output!server
<1>6. QED
  BY <1>2, <1>3, <1>4, <1>5 DEF OutputInv

LEMMA TransmitInv == ASSUME Output!Uart2TxAssumption, OutputInv, Output!Transmit PROVE OutputInv'
<1>1. /\ UNCHANGED <<Output!server, mailbox, notifier, client, place, overtaken, written, lost, stray>>
      /\ fifo' = fifo - 1 /\ fifo > 0
  BY DEF Output!Transmit
<1>2. fifo \in Nat /\ FifoSize \in Nat /\ fifo <= FifoSize /\ fifo' \in 0 .. FifoSize /\ overtaken \in Nat
  BY <1>1, TypeFacts
<1>3. Output!TypeOK'
  BY <1>1, <1>2 DEF OutputInv, Output!TypeOK, Output!server
<1>4. Output!LocksConsistent' /\ Output!NothingLost' /\ BufferedOK' /\ WrittenLast' /\ MailboxOK'
  BY <1>1 DEF OutputInv, Output!LocksConsistent, Output!LockConsistent, Output!NotifierTracked, Output!NothingLost, BufferedOK,
              WrittenLast, MailboxOK, Output!server
<1>5. RoomLeft'
  <2>1. IF notifier' = "woken" THEN fifo' <= FifoSize \div 2 + overtaken' ELSE overtaken' = 0
    BY <1>1, <1>2 DEF OutputInv, RoomLeft
  <2>2. fifo' < FifoSize
    BY <1>1, <1>2
  <2>3. QED
    BY <2>1, <2>2 DEF RoomLeft
<1>6. QED
  BY <1>3, <1>4, <1>5 DEF OutputInv

\* A task whose message the mailbox does not hold sends one.
LEMMA SendFacts ==
  ASSUME Output!Uart2TxAssumption, OutputInv, NEW m \in Messages, mailbox' = Append(mailbox, m),
         UNCHANGED <<Output!server, place, fifo, written, lost, stray>>,
         m.type = "NOTIFIER_TX_GOOD" <=> m.from = Output!Notifier,
         m.from = Output!Notifier => /\ notifier # "sent" /\ notifier' = "sent" /\ UNCHANGED client
                                     /\ fifo < FifoSize,
         m.from # Output!Notifier => /\ client[m.from] = "ready" /\ UNCHANGED <<notifier, overtaken>>
                                     /\ client' = [client EXCEPT ![m.from] = "sent"],
         m.type = "SEND_CHAR" => m.char = place[m.from] /\ m.char <= PrintLength,
         m.type = "RELEASE_LOCK" => place[m.from] = PrintLength + 1
  PROVE  /\ mailbox' \in Seq(Messages) /\ MailboxOK'
         /\ \A k \in 1 .. Len(mailbox') : mailbox'[k].from = Output!Notifier =>
              \/ fifo < FifoSize
              \/ /\ owned_by # NoOwner /\ char_buffer[owned_by] = Output!NoChar
                 /\ \A j \in 1 .. k - 1 : mailbox'[j].from # owned_by
<1> DEFINE n == Len(mailbox)
<1>1. mailbox \in Seq(Messages) /\ n \in Nat
  BY TypeFacts
<1>2. /\ mailbox' \in Seq(Messages) /\ Len(mailbox') = n + 1 /\ mailbox'[n + 1] = m
      /\ \A i \in 1 .. n : mailbox'[i] = mailbox[i]
  BY <1>1
<1>3. /\ client \in [Clients -> {"ready", "sent", "received"}]
      /\ (m.from = Output!Notifier \/ m.from \in Clients) /\ Output!Notifier \notin Clients
      /\ \A i \in 1 .. n : mailbox[i].from = Output!Notifier \/ mailbox[i].from \in Clients
  BY TypeFacts DEF Messages
<1>4. \A i \in 1 .. n : mailbox[i].from # m.from
  BY DEF OutputInv, MailboxOK
<1>5. \A i \in 1 .. n + 1 : i \in 1 .. n \/ i = n + 1
  BY <1>1
<1>6. ASSUME NEW i \in 1 .. n + 1
      PROVE  LET q == mailbox'[i]
             IN  /\ q.type = "NOTIFIER_TX_GOOD" <=> q.from = Output!Notifier
                 /\ q.from = Output!Notifier => notifier' = "sent"
                 /\ q.from # Output!Notifier => client'[q.from] = "sent"
                 /\ q.type = "SEND_CHAR" => q.char = place'[q.from] /\ q.char <= PrintLength
                 /\ q.type = "RELEASE_LOCK" => place'[q.from] = PrintLength + 1
  <2>1. CASE i = n + 1
    BY <1>2, <1>3, <2>1
  <2>2. CASE i \in 1 .. n
    <3>1. /\ mailbox'[i] = mailbox[i] /\ mailbox[i].from # m.from
          /\ mailbox[i].from = Output!Notifier \/ mailbox[i].from \in Clients
      BY <1>2, <1>3, <1>4, <2>2
    <3>2. LET q == mailbox[i]
          IN  /\ q.type = "NOTIFIER_TX_GOOD" <=> q.from = Output!Notifier
              /\ q.from = Output!Notifier => notifier = "sent"
              /\ q.from # Output!Notifier => client[q.from] = "sent"
              /\ q.type = "SEND_CHAR" => q.char = place[q.from] /\ q.char <= PrintLength
              /\ q.type = "RELEASE_LOCK" => place[q.from] = PrintLength + 1
      BY <2>2 DEF OutputInv, MailboxOK
    <3>3. mailbox[i].from = Output!Notifier => notifier' = "sent"
      BY <3>1, <3>2
    <3>4. mailbox[i].from # Output!Notifier => client'[mailbox[i].from] = "sent"
      BY <1>3, <3>1, <3>2
    <3>5. QED
      BY <3>1, <3>2, <3>3, <3>4
  <2>3. QED
    BY <1>5, <2>1, <2>2
<1>7. \A i, j \in 1 .. n + 1 : mailbox'[i].from = mailbox'[j].from => i = j
  <2>1. \A i, j \in 1 .. n : mailbox[i].from = mailbox[j].from => i = j
    BY DEF OutputInv, MailboxOK
  <2>2. QED
    BY <1>2, <1>4, <1>5, <2>1
<1>8. ASSUME NEW k \in 1 .. n + 1, mailbox'[k].from = Output!Notifier, ~(fifo < FifoSize)
      PROVE  /\ owned_by # NoOwner /\ char_buffer[owned_by] = Output!NoChar
             /\ \A j \in 1 .. k - 1 : mailbox'[j].from # owned_by
  <2>1. k \in 1 .. n
    BY <1>2, <1>5, <1>8
  <2>2. mailbox[k].from = Output!Notifier /\ \A j \in 1 .. k - 1 : mailbox'[j] = mailbox[j]
    BY <1>1, <1>2, <1>8, <2>1
  <2>3. QED
    BY <1>8, <2>1, <2>2 DEF OutputInv, RoomLeft
<1>9. QED
  BY <1>2, <1>6, <1>7, <1>8 DEF MailboxOK

LEMMA NotifierSendsInv == ASSUME Output!Uart2TxAssumption, OutputInv, Output!NotifierSends PROVE OutputInv'
<1> DEFINE m == [from |-> Output!Notifier, type |-> "NOTIFIER_TX_GOOD", char |-> Output!NoChar]
<1>1. /\ notifier = "woken" /\ notifier' = "sent" /\ mailbox' = Append(mailbox, m)
      /\ overtaken' = 0 /\ UNCHANGED <<Output!server, client, place, fifo, written, lost, stray>>
  BY DEF Output!NotifierSends
<1>2. m \in Messages /\ m.from = Output!Notifier /\ m.type = "NOTIFIER_TX_GOOD"
  BY DEF Messages
<1> HIDE DEF m
<1>3. fifo < FifoSize
  <2>1. fifo <= FifoSize \div 2 + overtaken
    BY <1>1 DEF OutputInv, RoomLeft
  <2>2. Overtakes + 1 <= FifoSize - FifoSize \div 2
    BY DEF Output!Uart2TxAssumption
  <2>3. fifo \in Nat /\ FifoSize \in Nat /\ overtaken \in Nat /\ Overtakes \in Nat
        /\ overtaken <= Overtakes /\ FifoSize \div 2 \in Int
    BY TypeFacts
  <2> DEFINE half == FifoSize \div 2
  <2> HIDE DEF half
  <2>4. fifo <= half + overtaken /\ Overtakes + 1 <= FifoSize - half /\ half \in Int
    BY <2>1, <2>2, <2>3 DEF half
  <2>5. QED
    BY <2>3, <2>4
<1>4. /\ mailbox' \in Seq(Messages) /\ MailboxOK'
      /\ \A k \in 1 .. Len(mailbox') : mailbox'[k].from = Output!Notifier =>
              \/ fifo < FifoSize
              \/ /\ owned_by # NoOwner /\ char_buffer[owned_by] = Output!NoChar
                 /\ \A j \in 1 .. k - 1 : mailbox'[j].from # owned_by
  BY <1>1, <1>2, <1>3, SendFacts
<1>5. Output!TypeOK'
  <2>1. overtaken' \in 0 .. Overtakes
    BY <1>1, TypeFacts
  <2>2. QED
    BY <1>1, <1>4, <2>1 DEF OutputInv, Output!TypeOK, Messages, Output!server
<1>6. Output!LocksConsistent' /\ Output!NothingLost' /\ BufferedOK' /\ WrittenLast'
  BY <1>1 DEF OutputInv, Output!LocksConsistent, Output!LockConsistent, Output!NotifierTracked, Output!NothingLost, BufferedOK,
              WrittenLast, Output!server
<1>7. RoomLeft'
  BY <1>1, <1>3 DEF RoomLeft
<1>8. QED
  BY <1>4, <1>5, <1>6, <1>7 DEF OutputInv

LEMMA ClientInv == ASSUME Output!Uart2TxAssumption, OutputInv, NEW c \in Clients, Output!ClientStep(c) PROVE OutputInv'
<1>1. PICK type \in {"SEND_CHAR", "RELEASE_LOCK"}, char \in Output!Chars \cup {Output!NoChar} :
        /\ mailbox' = Append(mailbox, [from |-> c, type |-> type, char |-> char])
        /\ type = "SEND_CHAR" => char = place[c] /\ char <= PrintLength
        /\ type = "RELEASE_LOCK" => place[c] = PrintLength + 1
  <2>1. CASE Output!Putc(c)
    <3>1. place[c] \in Output!Chars
      BY <2>1, TypeFacts DEF Output!Putc, Output!Chars
    <3>2. QED
      BY <2>1, <3>1 DEF Output!Putc
  <2>2. CASE Output!ReleaseUartLock(c)
    BY <2>2 DEF Output!ReleaseUartLock
  <2>3. QED
    BY <2>1, <2>2 DEF Output!ClientStep
<1>2. /\ client[c] = "ready" /\ client' = [client EXCEPT ![c] = "sent"]
      /\ UNCHANGED <<Output!server, notifier, place, fifo, overtaken, written, lost, stray>>
  BY DEF Output!ClientStep, Output!Putc, Output!ReleaseUartLock
<1> DEFINE m == [from |-> c, type |-> type, char |-> char]
<1>3. m \in Messages /\ m.from = c /\ m.type = type /\ m.char = char /\ mailbox' = Append(mailbox, m)
  BY <1>1 DEF Messages
<1> HIDE DEF m
<1>4. c # Output!Notifier
  BY TypeFacts
<1>5. /\ mailbox' \in Seq(Messages) /\ MailboxOK'
      /\ \A k \in 1 .. Len(mailbox') : mailbox'[k].from = Output!Notifier =>
              \/ fifo < FifoSize
              \/ /\ owned_by # NoOwner /\ char_buffer[owned_by] = Output!NoChar
                 /\ \A j \in 1 .. k - 1 : mailbox'[j].from # owned_by
  BY <1>1, <1>2, <1>3, <1>4, SendFacts
<1>6. Output!TypeOK'
  BY <1>2, <1>5 DEF OutputInv, Output!TypeOK, Messages, Output!server
<1>7. Output!LocksConsistent'
  <2>1. \A d \in Clients : client'[d] = "received" <=> client[d] = "received"
    BY <1>2, TypeFacts
  <2>2. QED
    BY <1>2, <2>1 DEF OutputInv, Output!LocksConsistent, Output!LockConsistent, Output!NotifierTracked, Output!server
<1>8. Output!NothingLost' /\ BufferedOK' /\ WrittenLast'
  BY <1>2 DEF OutputInv, Output!NothingLost, BufferedOK, WrittenLast, Output!server
<1>9. RoomLeft'
  BY <1>2, <1>5 DEF OutputInv, RoomLeft, Output!server
<1>10. QED
  BY <1>5, <1>6, <1>7, <1>8, <1>9 DEF OutputInv

-----------------------------------------------------------------------------
(* The server *)

\* The message at the head of the mailbox, and those behind it.
LEMMA ReceivedFacts ==
  ASSUME Output!Uart2TxAssumption, OutputInv, NEW m, Output!Received(m)
  PROVE  /\ m \in Messages /\ (m.from = Output!Notifier \/ m.from \in Clients)
         /\ mailbox' \in Seq(Messages)
         /\ m.type = "NOTIFIER_TX_GOOD" <=> m.from = Output!Notifier
         /\ m.from = Output!Notifier => notifier = "sent"
         /\ m.from # Output!Notifier => client[m.from] = "sent"
         /\ m.type = "SEND_CHAR" => m.char = place[m.from] /\ m.char <= PrintLength
         /\ m.type = "RELEASE_LOCK" => place[m.from] = PrintLength + 1
         /\ m.from = Output!Notifier => \/ fifo < FifoSize
                                        \/ owned_by # NoOwner /\ char_buffer[owned_by] = Output!NoChar
         /\ \A i \in 1 .. Len(mailbox') :
              /\ i + 1 \in 1 .. Len(mailbox) /\ mailbox'[i] = mailbox[i + 1]
              /\ mailbox'[i].from # m.from
         /\ \A k \in 1 .. Len(mailbox') : mailbox'[k].from = Output!Notifier =>
              \/ fifo < FifoSize
              \/ /\ owned_by # NoOwner /\ char_buffer[owned_by] = Output!NoChar /\ m.from # owned_by
                 /\ \A j \in 1 .. k - 1 : mailbox'[j].from # owned_by
<1>1. mailbox # <<>> /\ m = Head(mailbox) /\ mailbox' = Tail(mailbox) /\ mailbox \in Seq(Messages)
  BY TypeFacts DEF Output!Received
<1>2. /\ Len(mailbox) \in Nat /\ 1 \in 1 .. Len(mailbox) /\ m = mailbox[1]
      /\ mailbox' \in Seq(Messages) /\ Len(mailbox') = Len(mailbox) - 1
      /\ \A i \in 1 .. Len(mailbox') : i + 1 \in 1 .. Len(mailbox) /\ mailbox'[i] = mailbox[i + 1]
  BY <1>1
<1>3. m \in Messages /\ (m.from = Output!Notifier \/ m.from \in Clients)
  BY <1>2, TypeFacts DEF Messages
<1>4. /\ m.type = "NOTIFIER_TX_GOOD" <=> m.from = Output!Notifier
      /\ m.from = Output!Notifier => notifier = "sent"
      /\ m.from # Output!Notifier => client[m.from] = "sent"
      /\ m.type = "SEND_CHAR" => m.char = place[m.from] /\ m.char <= PrintLength
      /\ m.type = "RELEASE_LOCK" => place[m.from] = PrintLength + 1
  BY <1>2 DEF OutputInv, MailboxOK
<1>5. m.from = Output!Notifier => \/ fifo < FifoSize
                                  \/ owned_by # NoOwner /\ char_buffer[owned_by] = Output!NoChar
  BY <1>2 DEF OutputInv, RoomLeft
<1>6. \A i \in 1 .. Len(mailbox') : mailbox'[i].from # m.from
  <2>1. \A i \in 1 .. Len(mailbox) : mailbox[i].from = mailbox[1].from => i = 1
    BY <1>2 DEF OutputInv, MailboxOK
  <2>2. QED
    BY <1>2, <2>1
<1>7. ASSUME NEW k \in 1 .. Len(mailbox'), mailbox'[k].from = Output!Notifier, ~(fifo < FifoSize)
      PROVE  /\ owned_by # NoOwner /\ char_buffer[owned_by] = Output!NoChar /\ m.from # owned_by
             /\ \A j \in 1 .. k - 1 : mailbox'[j].from # owned_by
  <2>1. k + 1 \in 1 .. Len(mailbox) /\ mailbox[k + 1].from = Output!Notifier
    BY <1>2, <1>7
  <2>2. /\ owned_by # NoOwner /\ char_buffer[owned_by] = Output!NoChar
        /\ \A j \in 1 .. (k + 1) - 1 : mailbox[j].from # owned_by
    BY <1>7, <2>1 DEF OutputInv, RoomLeft
  <2>3. m.from # owned_by
    BY <1>2, <2>1, <2>2
  <2>4. ASSUME NEW j \in 1 .. k - 1 PROVE mailbox'[j].from # owned_by
    <3>1. j \in 1 .. Len(mailbox') /\ j + 1 \in 1 .. (k + 1) - 1
      BY <1>2
    <3>2. QED
      BY <1>2, <2>2, <3>1
  <2>5. QED
    BY <2>2, <2>3, <2>4
<1>8. QED
  BY <1>2, <1>3, <1>4, <1>5, <1>6, <1>7

\* The messages that are left, if their senders go on waiting.
LEMMA ReceivedMailbox ==
  ASSUME Output!Uart2TxAssumption, OutputInv, NEW m, Output!Received(m),
         m.from # Output!Notifier /\ notifier = "sent" => notifier' = "sent",
         \A c \in Clients \ {m.from} : client[c] = "sent" =>
           client'[c] = "sent" /\ place'[c] = place[c]
  PROVE  mailbox' \in Seq(Messages) /\ MailboxOK'
<1>1. ASSUME NEW i \in 1 .. Len(mailbox')
      PROVE  LET q == mailbox'[i]
             IN  /\ q.type = "NOTIFIER_TX_GOOD" <=> q.from = Output!Notifier
                 /\ q.from = Output!Notifier => notifier' = "sent"
                 /\ q.from # Output!Notifier => client'[q.from] = "sent"
                 /\ q.type = "SEND_CHAR" => q.char = place'[q.from] /\ q.char <= PrintLength
                 /\ q.type = "RELEASE_LOCK" => place'[q.from] = PrintLength + 1
  <2>1. i + 1 \in 1 .. Len(mailbox) /\ mailbox'[i] = mailbox[i + 1] /\ mailbox'[i].from # m.from
    BY ReceivedFacts
  <2>2. LET q == mailbox[i + 1]
        IN  /\ q.type = "NOTIFIER_TX_GOOD" <=> q.from = Output!Notifier
            /\ q.from = Output!Notifier => notifier = "sent"
            /\ q.from # Output!Notifier => client[q.from] = "sent"
            /\ q.type = "SEND_CHAR" => q.char = place[q.from] /\ q.char <= PrintLength
            /\ q.type = "RELEASE_LOCK" => place[q.from] = PrintLength + 1
    BY <2>1 DEF OutputInv, MailboxOK
  <2>3. mailbox[i + 1] \in Messages /\ (mailbox[i + 1].from # Output!Notifier => mailbox[i + 1].from \in Clients)
    BY <2>1, TypeFacts DEF Messages
  <2>4. mailbox[i + 1].type \in {"SEND_CHAR", "RELEASE_LOCK"} => mailbox[i + 1].from # Output!Notifier
    BY <2>2
  <2>5. QED
    BY <2>1, <2>2, <2>3, <2>4
<1>2. ASSUME NEW i \in 1 .. Len(mailbox'), NEW j \in 1 .. Len(mailbox'),
             mailbox'[i].from = mailbox'[j].from
      PROVE  i = j
  <2>1. /\ i + 1 \in 1 .. Len(mailbox) /\ mailbox'[i] = mailbox[i + 1]
        /\ j + 1 \in 1 .. Len(mailbox) /\ mailbox'[j] = mailbox[j + 1]
    BY ReceivedFacts
  <2>2. i + 1 = j + 1
    BY <1>2, <2>1 DEF OutputInv, MailboxOK
  <2>3. QED
    BY <2>2
<1>3. QED
  BY <1>1, <1>2, ReceivedFacts DEF MailboxOK

\* What a task waits for, and what it holds.
LEMMA LockFacts ==
  ASSUME Output!Uart2TxAssumption, OutputInv, NEW c \in Clients
  PROVE  /\ (\E i \in 1 .. Len(lock_cb) : lock_cb[i] = c) <=> (client[c] = "received" /\ owned_by # c)
         /\ char_buffer[c] # Output!NoChar <=> client[c] = "received"
         /\ owned_by = NoOwner => client[c] # "received"
         /\ owned_by # c => place[c] = 1
         /\ char_buffer[c] # Output!NoChar => char_buffer[c] = place[c] /\ place[c] <= PrintLength
         /\ place[c] \in 1 .. PrintLength + 1
<1>1. (\E i \in 1 .. Len(lock_cb) : lock_cb[i] = c) <=> (client[c] = "received" /\ owned_by # c)
  BY DEF OutputInv, Output!LocksConsistent, Output!LockConsistent
<1>2. owned_by = NoOwner => Len(lock_cb) = 0
  BY DEF OutputInv, Output!LocksConsistent, Output!LockConsistent
<1>3. owned_by = NoOwner => client[c] # "received"
  BY <1>1, <1>2, TypeFacts
<1>4. QED
  BY <1>1, <1>3, TypeFacts DEF OutputInv, Output!LocksConsistent, Output!LockConsistent, BufferedOK, WrittenLast

\* The owner's next character is written.
LEMMA WriteFacts ==
  ASSUME Output!Uart2TxAssumption, OutputInv, NEW c \in Clients, owned_by \in {c, NoOwner}, owned_by' = c,
         place[c] <= PrintLength, written' = [by |-> c, char |-> place[c]],
         place' = [place EXCEPT ![c] = IF @ = PrintLength + 1 THEN 1 ELSE @ + 1]
  PROVE  /\ WrittenLast' /\ NextCharacter
         /\ place' \in [Clients -> 1 .. PrintLength + 1]
         /\ written' \in [by : Clients \cup {NoOwner}, char : Output!Chars \cup {Output!NoChar}]
<1> DEFINE k == place[c]
<1>1. k \in Nat /\ k >= 1 /\ k <= PrintLength /\ PrintLength \in Nat /\ NoOwner # c
      /\ place \in [Clients -> 1 .. PrintLength + 1]
  BY TypeFacts
<1>2. place'[c] = k + 1 /\ \A d \in Clients \ {c} : place'[d] = place[d]
  BY <1>1
<1>3. \A d \in Clients \ {c} : place[d] = 1
  BY TypeFacts DEF OutputInv, WrittenLast
<1>4. WrittenLast'
  <2>1. place'[c] > 1 /\ written' = [by |-> c, char |-> place'[c] - 1]
    BY <1>1, <1>2
  <2>2. QED
    BY <1>1, <1>2, <1>3, <2>1 DEF WrittenLast
<1>5. NextCharacter
  <2>1. CASE k = 1
    <3>1. written.char \in {Output!NoChar, PrintLength}
      BY <1>1, <2>1 DEF OutputInv, WrittenLast
    <3>2. written'.char = 1
      BY <2>1
    <3>3. QED
      BY <3>1, <3>2 DEF NextCharacter
  <2>2. CASE k > 1
    <3>1. owned_by = c
      BY <1>1, <2>2, LockFacts
    <3>2. written = [by |-> c, char |-> k - 1]
      BY <1>1, <2>2, <3>1 DEF OutputInv, WrittenLast
    <3>3. written.char = k - 1 /\ k - 1 # Output!NoChar /\ k - 1 # PrintLength
      BY <1>1, <2>2, <3>2 DEF Output!NoChar
    <3>4. written' = [written EXCEPT !.char = k]
      BY <3>2
    <3>5. k = (k - 1) + 1
      BY <1>1
    <3>6. QED
      BY <3>3, <3>4, <3>5 DEF NextCharacter
  <2>3. QED
    BY <1>1, <2>1, <2>2
<1>6. place' \in [Clients -> 1 .. PrintLength + 1]
  BY <1>1
<1>7. written' \in [by : Clients \cup {NoOwner}, char : Output!Chars \cup {Output!NoChar}]
  BY <1>1 DEF Output!Chars
<1>8. QED
  BY <1>4, <1>5, <1>6, <1>7

\* The count of messages that are served while the notifier is ready.
Counted ==
  IF notifier = "woken" THEN overtaken < Overtakes /\ overtaken' = overtaken + 1
                        ELSE UNCHANGED overtaken

LEMMA TxGoodInv ==
  ASSUME Output!Uart2TxAssumption, OutputInv, Counted, NEW m, Output!TxGood(m)
  PROVE  OutputInv' /\ NextCharacter
<1>1. /\ Output!Received(m) /\ m.type = "NOTIFIER_TX_GOOD" /\ notifier' = "held"
      /\ notifier_parking' = TRUE
      /\ UNCHANGED <<owned_by, lock_cb>>
  BY DEF Output!TxGood
<1>2. m.from = Output!Notifier /\ notifier = "sent" /\ UNCHANGED overtaken
  BY <1>1, ReceivedFacts DEF Counted
<1>3. \A k \in 1 .. Len(mailbox') : mailbox'[k].from # Output!Notifier
  BY <1>1, <1>2, ReceivedFacts
<1>4. RoomLeft'
  BY <1>1, <1>2, <1>3 DEF OutputInv, RoomLeft
<1>5. overtaken' \in 0 .. Overtakes
  BY <1>2 DEF OutputInv, Output!TypeOK
<1>6. CASE owned_by # NoOwner /\ char_buffer[owned_by] # Output!NoChar
  <2> DEFINE o == owned_by
  <2>1. o \in Clients
    BY <1>6, TypeFacts
  <2>2. /\ client[o] = "received" /\ char_buffer[o] = place[o] /\ place[o] <= PrintLength
        /\ place[o] # PrintLength + 1
    BY <1>6, <2>1, LockFacts, TypeFacts
  <2>3. fifo < FifoSize
    BY <1>1, <1>2, <1>6, ReceivedFacts
  <2>4. /\ written' = [by |-> o, char |-> char_buffer[o]]
        /\ fifo' = IF fifo < FifoSize THEN fifo + 1 ELSE fifo
        /\ lost' = (lost \/ fifo = FifoSize)
        /\ char_buffer' = [char_buffer EXCEPT ![o] = Output!NoChar]
        /\ client' = [client EXCEPT ![o] = "ready"]
        /\ stray' = (stray \/ client[o] # "received")
        /\ place' = [place EXCEPT ![o] = IF @ = PrintLength + 1 THEN 1 ELSE @ + 1]
    BY <1>6, Zenon DEF Output!TxGood, Output!PutChar, Output!ReplyTo
  <2>5. fifo' \in 0 .. FifoSize /\ fifo # FifoSize
    BY <2>3, <2>4, TypeFacts
  <2>6. lost' = FALSE /\ stray' = FALSE
    <3>1. lost = FALSE /\ stray = FALSE
      BY DEF OutputInv, Output!TypeOK, Output!NothingLost, Output!LocksConsistent, Output!NotifierTracked
    <3>2. QED
      BY <2>2, <2>4, <2>5, <3>1
  <2>7. /\ WrittenLast' /\ NextCharacter /\ place' \in [Clients -> 1 .. PrintLength + 1]
        /\ written' \in [by : Clients \cup {NoOwner}, char : Output!Chars \cup {Output!NoChar}]
    BY <1>1, <2>1, <2>2, <2>4, WriteFacts
  <2>8. mailbox' \in Seq(Messages) /\ MailboxOK'
    <3>1. \A c \in Clients : client[c] = "sent" => client'[c] = "sent" /\ place'[c] = place[c]
      BY <2>1, <2>2, <2>4, TypeFacts
    <3>2. QED
      BY <1>1, <1>2, <3>1, ReceivedMailbox
  <2>9. Output!TypeOK'
    <3>1. /\ char_buffer' \in [Clients -> Output!Chars \cup {Output!NoChar}]
          /\ client' \in [Clients -> {"ready", "sent", "received"}]
      BY <2>4, TypeFacts
    <3>2. QED
      BY <1>1, <1>5, <2>5, <2>6, <2>7, <2>8, <3>1 DEF OutputInv, Output!TypeOK, Messages
  <2>10. Output!LocksConsistent'
    <3>1. \A c \in Clients : /\ client'[c] = IF c = o THEN "ready" ELSE client[c]
                             /\ char_buffer'[c] = IF c = o THEN Output!NoChar ELSE char_buffer[c]
                             /\ c # o => place'[c] = place[c]
      BY <2>1, <2>4, TypeFacts
    <3>2. ~\E i \in 1 .. Len(lock_cb) : lock_cb[i] = o
      BY <2>1, LockFacts
    <3>3. \A c \in Clients : place'[c] = PrintLength + 1 => owned_by' = c
      BY <1>1, <3>1 DEF OutputInv, Output!LocksConsistent, Output!LockConsistent
    <3>4. \A c \in Clients : (c \in {lock_cb'[i] : i \in 1 .. Len(lock_cb')})
                               <=> (client'[c] = "received" /\ owned_by' # c)
      BY <1>1, <3>1, <3>2 DEF OutputInv, Output!LocksConsistent, Output!LockConsistent
    <3>5. \A c \in Clients : char_buffer'[c] # Output!NoChar <=> client'[c] = "received"
      BY <3>1 DEF OutputInv, Output!LocksConsistent, Output!LockConsistent
    <3>6. notifier_parking' <=> notifier' = "held"
      BY <1>1
    <3>7. QED
      BY <1>1, <2>6, <3>3, <3>4, <3>5, <3>6
      DEF OutputInv, Output!LocksConsistent, Output!LockConsistent, Output!NotifierTracked
  <2>11. BufferedOK'
    BY <2>1, <2>4, TypeFacts DEF OutputInv, BufferedOK
  <2>12. QED
    BY <1>4, <2>6, <2>7, <2>8, <2>9, <2>10, <2>11 DEF OutputInv, Output!NothingLost
<1>7. CASE ~(owned_by # NoOwner /\ char_buffer[owned_by] # Output!NoChar)
  <2>1. UNCHANGED <<fifo, written, lost, client, stray, place, char_buffer>>
    BY <1>7, Zenon DEF Output!TxGood, Output!NoPut, Output!NoReply
  <2>2. mailbox' \in Seq(Messages) /\ MailboxOK'
    BY <1>1, <1>2, <2>1, ReceivedMailbox
  <2>3. Output!TypeOK'
    BY <1>1, <1>5, <2>1, <2>2 DEF OutputInv, Output!TypeOK, Messages
  <2>4. Output!LocksConsistent' /\ Output!NothingLost' /\ BufferedOK' /\ WrittenLast'
    BY <1>1, <2>1 DEF OutputInv, Output!LocksConsistent, Output!LockConsistent, Output!NotifierTracked, Output!NothingLost, BufferedOK,
                      WrittenLast
  <2>5. QED
    BY <1>4, <2>1, <2>2, <2>3, <2>4 DEF OutputInv, NextCharacter
<1>8. QED
  BY <1>6, <1>7
\* What Counted and the messages left mean for RoomLeft when nothing is written.
LEMMA RoomKept ==
  ASSUME Output!Uart2TxAssumption, OutputInv, Counted, NEW m, Output!Received(m), m.from # Output!Notifier, UNCHANGED fifo,
         notifier' = notifier \/ (notifier = "held" /\ notifier' = "released"),
         \A k \in 1 .. Len(mailbox') : mailbox'[k].from = Output!Notifier =>
           \/ fifo < FifoSize
           \/ /\ owned_by' # NoOwner /\ char_buffer'[owned_by'] = Output!NoChar
              /\ \A j \in 1 .. k - 1 : mailbox'[j].from # owned_by'
  PROVE  RoomLeft' /\ overtaken' \in 0 .. Overtakes
<1>1. overtaken \in Nat /\ fifo \in Nat /\ overtaken <= Overtakes /\ Overtakes \in Nat
  BY TypeFacts
<1> DEFINE half == FifoSize \div 2
<1>2. half \in Int
  BY TypeFacts
<1>3. IF notifier = "woken" THEN fifo <= half + overtaken ELSE overtaken = 0
  BY DEF OutputInv, RoomLeft
<1> HIDE DEF half
<1>4. /\ overtaken' \in 0 .. Overtakes
      /\ IF notifier' = "woken" THEN fifo' <= half + overtaken' ELSE overtaken' = 0
  BY <1>1, <1>2, <1>3 DEF Counted
<1>5. QED
  BY <1>4 DEF RoomLeft, half

\* The notifier is let go if it is parked.
LEMMA UnparkFacts ==
  ASSUME OutputInv, Output!Unpark
  PROVE  /\ notifier' = notifier \/ (notifier = "held" /\ notifier' = "released")
         /\ notifier_parking' <=> notifier' = "held"
         /\ notifier_parking' \in BOOLEAN
         /\ notifier' \in {"woken", "sent", "held", "released", "awaiting"}
<1>1. notifier_parking <=> notifier = "held"
  BY DEF OutputInv, Output!LocksConsistent, Output!NotifierTracked
<1>2. /\ notifier_parking \in BOOLEAN
      /\ notifier \in {"woken", "sent", "held", "released", "awaiting"}
  BY DEF OutputInv, Output!TypeOK
<1>3. QED
  BY <1>1, <1>2 DEF Output!Unpark

LEMMA SendCharOwnerWrites ==
  ASSUME Output!Uart2TxAssumption, OutputInv, Counted, NEW m, Output!SendCharOwner(m), fifo < FifoSize
  PROVE  OutputInv' /\ NextCharacter
<1> DEFINE c == m.from
<1>1. Output!Received(m) /\ m.type = "SEND_CHAR" /\ owned_by \in {c, NoOwner} /\ owned_by' = c
  BY DEF Output!SendCharOwner
<1>2. /\ c \in Clients /\ c # Output!Notifier /\ client[c] = "sent" /\ m.char = place[c]
      /\ place[c] <= PrintLength
      /\ c # NoOwner /\ place[c] # PrintLength + 1
  BY <1>1, ReceivedFacts, TypeFacts
<1>3. /\ written' = [by |-> c, char |-> place[c]]
      /\ fifo' = IF fifo < FifoSize THEN fifo + 1 ELSE fifo
      /\ lost' = (lost \/ fifo = FifoSize)
      /\ client' = [Output!Taken(c) EXCEPT ![c] = "ready"]
      /\ stray' = (stray \/ Output!Taken(c)[c] # "received")
      /\ place' = [place EXCEPT ![c] = IF @ = PrintLength + 1 THEN 1 ELSE @ + 1]
      /\ UNCHANGED <<char_buffer, notifier_parking, notifier, lock_cb>>
  BY <1>2, Zenon DEF Output!SendCharOwner, Output!PutChar, Output!ReplyTo
<1>4. fifo' = fifo + 1 /\ fifo' \in 0 .. FifoSize /\ fifo # FifoSize /\ fifo \in Nat /\ FifoSize \in Nat
  BY <1>3, TypeFacts
<1>5. lost' = FALSE /\ stray' = FALSE
  <2>1. lost = FALSE /\ stray = FALSE
    BY DEF OutputInv, Output!TypeOK, Output!NothingLost, Output!LocksConsistent, Output!NotifierTracked
  <2>2. Output!Taken(c)[c] = "received"
    BY <1>2, TypeFacts DEF Output!Taken
  <2>3. QED
    BY <1>3, <1>4, <2>1, <2>2
<1>6. /\ WrittenLast' /\ NextCharacter /\ place' \in [Clients -> 1 .. PrintLength + 1]
      /\ written' \in [by : Clients \cup {NoOwner}, char : Output!Chars \cup {Output!NoChar}]
  BY <1>1, <1>2, <1>3, WriteFacts
<1>7. /\ client' \in [Clients -> {"ready", "sent", "received"}] /\ client'[c] = "ready"
      /\ \A d \in Clients \ {c} : client'[d] = client[d] /\ place'[d] = place[d]
  BY <1>2, <1>3, TypeFacts DEF Output!Taken
<1>8. mailbox' \in Seq(Messages) /\ MailboxOK'
  BY <1>1, <1>2, <1>3, <1>7, ReceivedMailbox
<1>9. char_buffer[c] = Output!NoChar
  BY <1>2, LockFacts
<1>10. RoomLeft' /\ overtaken' \in 0 .. Overtakes
  <2>1. \A k \in 1 .. Len(mailbox') : mailbox'[k].from # c
    BY <1>1, ReceivedFacts
  <2>2. overtaken \in Nat /\ overtaken <= Overtakes /\ Overtakes \in Nat
    BY TypeFacts
  <2> DEFINE half == FifoSize \div 2
  <2>3. half \in Int
    BY TypeFacts
  <2>4. IF notifier = "woken" THEN fifo <= half + overtaken ELSE overtaken = 0
    BY DEF OutputInv, RoomLeft
  <2> HIDE DEF half
  <2>5. /\ overtaken' \in 0 .. Overtakes
        /\ IF notifier' = "woken" THEN fifo' <= half + overtaken' ELSE overtaken' = 0
    BY <1>3, <1>4, <2>2, <2>3, <2>4 DEF Counted
  <2>6. \A k \in 1 .. Len(mailbox') : \A j \in 1 .. k - 1 : mailbox'[j].from # owned_by'
    <3>1. Len(mailbox') \in Nat
      BY <1>8
    <3>2. QED
      BY <1>1, <2>1, <3>1
  <2>7. owned_by' # NoOwner /\ char_buffer'[owned_by'] = Output!NoChar
    BY <1>1, <1>2, <1>3, <1>9
  <2>8. QED
    BY <2>5, <2>6, <2>7 DEF RoomLeft, half
<1>11. Output!TypeOK'
  BY <1>1, <1>2, <1>3, <1>4, <1>5, <1>6, <1>7, <1>8, <1>10 DEF OutputInv, Output!TypeOK, Messages
<1>12. Output!LocksConsistent'
  <2>1. ASSUME NEW d \in Clients
        PROVE  /\ (d \in {lock_cb'[i] : i \in 1 .. Len(lock_cb')})
                     <=> (client'[d] = "received" /\ owned_by' # d)
               /\ char_buffer'[d] # Output!NoChar <=> client'[d] = "received"
               /\ place'[d] = PrintLength + 1 => owned_by' = d
    <3>1. CASE d = c
      BY <1>1, <1>2, <1>3, <1>7, <1>9, <3>1, LockFacts
    <3>2. CASE d # c
      <4>1. place[d] = 1 /\ PrintLength + 1 # 1
        BY <1>1, <1>2, <3>2, LockFacts, TypeFacts
      <4>2. client[d] = "received" => owned_by # d /\ owned_by = c
        BY <1>1, <1>2, <3>2, LockFacts
      <4>3. QED
        BY <1>1, <1>3, <1>7, <3>2, <4>1, <4>2, LockFacts
    <3>3. QED
      BY <3>1, <3>2
  <2>2. QED
    BY <1>1, <1>2, <1>3, <1>5, <2>1 DEF OutputInv, Output!LocksConsistent, Output!LockConsistent, Output!NotifierTracked
<1>13. BufferedOK'
  BY <1>3, <1>7, <1>9 DEF OutputInv, BufferedOK
<1>14. QED
  BY <1>5, <1>6, <1>8, <1>10, <1>11, <1>12, <1>13 DEF OutputInv, Output!NothingLost

LEMMA SendCharOwnerWaits ==
  ASSUME Output!Uart2TxAssumption, OutputInv, Counted, NEW m, Output!SendCharOwner(m), ~(fifo < FifoSize)
  PROVE  OutputInv' /\ NextCharacter
<1> DEFINE c == m.from
<1>1. /\ Output!Received(m) /\ m.type = "SEND_CHAR" /\ owned_by \in {c, NoOwner} /\ owned_by' = c
      /\ char_buffer' = [char_buffer EXCEPT ![c] = m.char] /\ Output!Unpark
      /\ client' = Output!Taken(c) /\ UNCHANGED <<fifo, written, lost, stray, place, lock_cb>>
  BY DEF Output!SendCharOwner, Output!NoPut, Output!NoReply
<1>2. /\ c \in Clients /\ c # Output!Notifier /\ client[c] = "sent" /\ m.char = place[c]
      /\ place[c] <= PrintLength /\ c # NoOwner /\ place[c] \in Output!Chars
      /\ place[c] # Output!NoChar
  BY <1>1, ReceivedFacts, TypeFacts DEF Output!Chars, Output!NoChar
<1>3. /\ client' \in [Clients -> {"ready", "sent", "received"}] /\ client'[c] = "received"
      /\ char_buffer' \in [Clients -> Output!Chars \cup {Output!NoChar}]
      /\ char_buffer'[c] = place[c]
      /\ \A d \in Clients \ {c} : client'[d] = client[d] /\ char_buffer'[d] = char_buffer[d]
  BY <1>1, <1>2, TypeFacts DEF Output!Taken
<1>4. /\ notifier' = notifier \/ (notifier = "held" /\ notifier' = "released")
      /\ notifier_parking' <=> notifier' = "held"
      /\ notifier_parking' \in BOOLEAN
      /\ notifier' \in {"woken", "sent", "held", "released", "awaiting"}
  BY <1>1, UnparkFacts
<1>5. mailbox' \in Seq(Messages) /\ MailboxOK'
  BY <1>1, <1>3, <1>4, ReceivedMailbox
<1>6. RoomLeft' /\ overtaken' \in 0 .. Overtakes
  <2>1. \A k \in 1 .. Len(mailbox') : mailbox'[k].from # Output!Notifier
    BY <1>1, ReceivedFacts
  <2>2. QED
    BY <1>1, <1>2, <1>4, <2>1, RoomKept
<1>7. WrittenLast' /\ NextCharacter
  <2>1. \A d \in Clients \ {c} : place[d] = 1
    BY <1>1, TypeFacts DEF OutputInv, WrittenLast
  <2>2. owned_by = NoOwner => place[c] = 1
    BY <1>2 DEF OutputInv, WrittenLast
  <2>3. QED
    BY <1>1, <1>2, <2>1, <2>2 DEF OutputInv, WrittenLast, NextCharacter
<1>8. Output!TypeOK'
  BY <1>1, <1>2, <1>3, <1>4, <1>5, <1>6 DEF OutputInv, Output!TypeOK, Messages
<1>9. Output!LocksConsistent'
  <2>1. ASSUME NEW d \in Clients
        PROVE  /\ (d \in {lock_cb'[i] : i \in 1 .. Len(lock_cb')})
                     <=> (client'[d] = "received" /\ owned_by' # d)
               /\ char_buffer'[d] # Output!NoChar <=> client'[d] = "received"
               /\ place'[d] = PrintLength + 1 => owned_by' = d
    <3>1. CASE d = c
      BY <1>1, <1>2, <1>3, <3>1, LockFacts
    <3>2. CASE d # c
      <4>1. place[d] = 1 /\ PrintLength + 1 # 1
        BY <1>1, <1>2, <3>2, LockFacts, TypeFacts
      <4>2. client[d] = "received" => owned_by # d /\ owned_by = c
        BY <1>1, <1>2, <3>2, LockFacts
      <4>3. QED
        BY <1>1, <1>3, <3>2, <4>1, <4>2, LockFacts
    <3>3. QED
      BY <3>1, <3>2
  <2>2. QED
    BY <1>1, <1>2, <1>4, <2>1 DEF OutputInv, Output!LocksConsistent, Output!LockConsistent, Output!NotifierTracked
<1>10. BufferedOK'
  BY <1>1, <1>2, <1>3 DEF OutputInv, BufferedOK
<1>11. QED
  BY <1>1, <1>5, <1>6, <1>7, <1>8, <1>9, <1>10 DEF OutputInv, Output!NothingLost

\* The queue of the lock has a place for a task that is neither in it nor the owner.
LEMMA LockHasRoom ==
  ASSUME Output!Uart2TxAssumption, OutputInv, NEW c \in Clients, client[c] # "received",
         NEW o \in Clients, o = owned_by, o # c
  PROVE  Len(lock_cb) < LockCapacity
<1> DEFINE n == Len(lock_cb)
           others == Clients \ {o, c}
           f == [i \in 1 .. n |-> lock_cb[i]]
<1>1. n \in Nat
  BY TypeFacts
<1>2. f \in [1 .. n -> others]
  <2>1. ASSUME NEW i \in 1 .. n PROVE lock_cb[i] \in others
    <3>1. lock_cb[i] \in Clients
      BY TypeFacts
    <3>2. client[lock_cb[i]] = "received" /\ owned_by # lock_cb[i]
      BY <3>1, LockFacts
    <3>3. QED
      BY <3>1, <3>2
  <2>2. QED
    BY <2>1
<1>3. \A i, j \in 1 .. n : f[i] = f[j] => i = j
  BY DEF OutputInv, Output!LocksConsistent, Output!LockConsistent
<1>4. IsFiniteSet(Clients) /\ Cardinality(Clients) <= LockCapacity + 1 /\ LockCapacity \in Nat
  BY DEF Output!Uart2TxAssumption, Output!IsFiniteSet, IsFiniteSet, Output!Cardinality, Cardinality
<1>5. /\ IsFiniteSet(Clients \ {o}) /\ Cardinality(Clients \ {o}) = Cardinality(Clients) - 1
      /\ Cardinality(Clients) \in Nat
  BY <1>4, FS_RemoveElement, FS_CardinalityType
<1>6. /\ IsFiniteSet((Clients \ {o}) \ {c})
      /\ Cardinality((Clients \ {o}) \ {c}) = Cardinality(Clients \ {o}) - 1
  <2>1. c \in Clients \ {o}
    OBVIOUS
  <2> DEFINE S == Clients \ {o}
  <2> HIDE DEF S
  <2>2. IsFiniteSet(S) /\ c \in S
    BY <1>5, <2>1 DEF S
  <2>3. IsFiniteSet(S \ {c}) /\ Cardinality(S \ {c}) = Cardinality(S) - 1
    BY <2>2, FS_RemoveElement
  <2>4. QED
    BY <2>3 DEF S
<1>7. (Clients \ {o}) \ {c} = others
  OBVIOUS
<1>8. IsFiniteSet(others) /\ Cardinality(others) = Cardinality(Clients) - 2
  BY <1>5, <1>6, <1>7
<1>9. \A k \in Nat : IsFiniteSet(1 .. k) /\ Cardinality(1 .. k) = k
  <2>1. TAKE k \in Nat
  <2>2. IsFiniteSet(1 .. k)
    BY FS_Interval
  <2>3. Cardinality(1 .. k) = IF 1 > k THEN 0 ELSE k - 1 + 1
    BY FS_Interval
  <2>4. QED
    BY <2>2, <2>3
<1>10. IsFiniteSet(1 .. n) /\ Cardinality(1 .. n) = n
  BY <1>1, <1>9
<1>11. f \in Injection(1 .. n, others)
  BY <1>2, <1>3 DEF Injection, IsInjective
<1> DEFINE I == 1 .. n
<1> HIDE DEF others, f, n
<1>12. IsFiniteSet(I) /\ Cardinality(I) = n /\ f \in Injection(I, others)
  BY <1>10, <1>11
<1> HIDE DEF I
<1>13. Cardinality(I) <= Cardinality(others)
  BY <1>8, <1>12, FS_Injection
<1>14. n < LockCapacity
  BY <1>1, <1>4, <1>5, <1>8, <1>12, <1>13
<1>15. QED
  BY <1>14 DEF n

LEMMA SendCharOtherInv ==
  ASSUME Output!Uart2TxAssumption, OutputInv, Counted, NEW m, Output!SendCharOther(m)
  PROVE  OutputInv' /\ NextCharacter
<1> DEFINE c == m.from
           n == Len(lock_cb)
<1>1. /\ Output!Received(m) /\ m.type = "SEND_CHAR" /\ owned_by \notin {c, NoOwner}
      /\ lock_cb' = IF n < LockCapacity THEN Append(lock_cb, c) ELSE lock_cb
      /\ char_buffer' = [char_buffer EXCEPT ![c] = m.char]
      /\ client' = Output!Taken(c)
      /\ UNCHANGED <<owned_by, notifier_parking, notifier, fifo, written, lost, stray, place>>
  BY DEF Output!SendCharOther, Output!NoPut, Output!NoReply
<1>2. /\ c \in Clients /\ c # Output!Notifier /\ client[c] = "sent" /\ m.char = place[c]
      /\ place[c] <= PrintLength /\ place[c] \in Output!Chars /\ place[c] # Output!NoChar
      /\ owned_by \in Clients
  BY <1>1, ReceivedFacts, TypeFacts DEF Output!Chars, Output!NoChar
<1>3. /\ client' \in [Clients -> {"ready", "sent", "received"}] /\ client'[c] = "received"
      /\ char_buffer' \in [Clients -> Output!Chars \cup {Output!NoChar}]
      /\ char_buffer'[c] = place[c]
      /\ \A d \in Clients \ {c} : client'[d] = client[d] /\ char_buffer'[d] = char_buffer[d]
  BY <1>1, <1>2, TypeFacts DEF Output!Taken
<1>4. n < LockCapacity
  BY <1>1, <1>2, LockHasRoom
<1>5. /\ lock_cb' \in Seq(Clients) /\ Len(lock_cb') = n + 1 /\ n \in Nat
      /\ lock_cb'[n + 1] = c /\ \A i \in 1 .. n : lock_cb'[i] = lock_cb[i]
      /\ \A i \in 1 .. n + 1 : i \in 1 .. n \/ i = n + 1
      /\ Len(lock_cb') <= LockCapacity
  <2>1. lock_cb \in Seq(Clients) /\ n \in Nat /\ lock_cb' = Append(lock_cb, c) /\ LockCapacity \in Nat
    BY <1>1, <1>4, TypeFacts DEF Output!Uart2TxAssumption
  <2>2. /\ lock_cb' \in Seq(Clients) /\ Len(lock_cb') = n + 1
        /\ lock_cb'[n + 1] = c /\ \A i \in 1 .. n : lock_cb'[i] = lock_cb[i]
    BY <1>2, <2>1
  <2>3. Len(lock_cb') <= LockCapacity /\ \A i \in 1 .. n + 1 : i \in 1 .. n \/ i = n + 1
    BY <1>4, <2>1, <2>2
  <2>4. QED
    BY <2>1, <2>2, <2>3
<1>6. mailbox' \in Seq(Messages) /\ MailboxOK'
  BY <1>1, <1>2, <1>3, ReceivedMailbox
<1>7. RoomLeft' /\ overtaken' \in 0 .. Overtakes
  <2>1. \A k \in 1 .. Len(mailbox') : mailbox'[k].from = Output!Notifier =>
           \/ fifo < FifoSize
           \/ /\ owned_by # NoOwner /\ char_buffer[owned_by] = Output!NoChar
              /\ \A j \in 1 .. k - 1 : mailbox'[j].from # owned_by
    BY <1>1, ReceivedFacts
  <2>2. char_buffer'[owned_by] = char_buffer[owned_by]
    BY <1>1, <1>2, <1>3
  <2>3. QED
    BY <1>1, <1>2, <2>1, <2>2, RoomKept
<1>8. WrittenLast' /\ NextCharacter
  BY <1>1 DEF OutputInv, WrittenLast, NextCharacter
<1>9. Output!TypeOK'
  BY <1>1, <1>3, <1>5, <1>6, <1>7 DEF OutputInv, Output!TypeOK, Messages
<1>10. Output!LocksConsistent'
  <2>1. \A i \in 1 .. n : lock_cb[i] # c
    BY <1>2, LockFacts
  <2>2. \A i, j \in 1 .. Len(lock_cb') : i # j => lock_cb'[i] # lock_cb'[j]
    <3>1. \A i, j \in 1 .. n : i # j => lock_cb[i] # lock_cb[j]
      BY DEF OutputInv, Output!LocksConsistent, Output!LockConsistent
    <3>2. QED
      BY <1>5, <2>1, <3>1
  <2>3. ASSUME NEW d \in Clients
        PROVE  /\ (d \in {lock_cb'[i] : i \in 1 .. Len(lock_cb')})
                     <=> (client'[d] = "received" /\ owned_by' # d)
               /\ char_buffer'[d] # Output!NoChar <=> client'[d] = "received"
               /\ place'[d] = PrintLength + 1 => owned_by' = d
    <3>1. CASE d = c
      <4>1. n + 1 \in 1 .. Len(lock_cb')
        BY <1>5
      <4>2. place[c] # PrintLength + 1
        BY <1>2, TypeFacts
      <4>3. QED
        BY <1>1, <1>2, <1>3, <1>5, <3>1, <4>1, <4>2
    <3>2. CASE d # c
      <4>1. (\E i \in 1 .. n + 1 : lock_cb'[i] = d) <=> \E i \in 1 .. n : lock_cb[i] = d
        <5>1. ASSUME NEW i \in 1 .. n + 1, lock_cb'[i] = d PROVE \E j \in 1 .. n : lock_cb[j] = d
          BY <1>5, <3>2, <5>1
        <5>2. ASSUME NEW i \in 1 .. n, lock_cb[i] = d PROVE \E j \in 1 .. n + 1 : lock_cb'[j] = d
          <6>1. i \in 1 .. n + 1 /\ lock_cb'[i] = d
            BY <1>5, <5>2
          <6>2. QED
            BY <6>1
        <5>3. QED
          BY <5>1, <5>2
      <4>2. place[d] = PrintLength + 1 => owned_by = d
        BY DEF OutputInv, Output!LocksConsistent, Output!LockConsistent
      <4>3. QED
        BY <1>1, <1>3, <1>5, <3>2, <4>1, <4>2, LockFacts
    <3>3. QED
      BY <3>1, <3>2
  <2>4. QED
    BY <1>1, <2>2, <2>3 DEF OutputInv, Output!LocksConsistent, Output!LockConsistent, Output!NotifierTracked
<1>11. BufferedOK'
  BY <1>1, <1>2, <1>3 DEF OutputInv, BufferedOK
<1>12. QED
  BY <1>1, <1>6, <1>7, <1>8, <1>9, <1>10, <1>11 DEF OutputInv, Output!NothingLost

LEMMA ReleaseInv ==
  ASSUME Output!Uart2TxAssumption, OutputInv, Counted, NEW m, Output!Release(m)
  PROVE  OutputInv' /\ NextCharacter
<1> DEFINE c == m.from
           n == Len(lock_cb)
<1>1. /\ Output!Received(m) /\ m.type = "RELEASE_LOCK" /\ owned_by = c /\ Output!Unpark
      /\ owned_by' = IF lock_cb = <<>> THEN NoOwner ELSE Head(lock_cb)
      /\ lock_cb' = IF lock_cb = <<>> THEN <<>> ELSE Tail(lock_cb)
      /\ UNCHANGED <<char_buffer, fifo, written, lost>>
  BY DEF Output!Release, Output!NoPut
<1>2. /\ c \in Clients /\ c # Output!Notifier /\ client[c] = "sent" /\ place[c] = PrintLength + 1
      /\ PrintLength \in Nat /\ PrintLength >= 1
  BY <1>1, ReceivedFacts, TypeFacts
<1>3. /\ client' = [Output!Taken(c) EXCEPT ![c] = "ready"]
      /\ stray' = (stray \/ Output!Taken(c)[c] # "received")
      /\ place' = [place EXCEPT ![c] = IF @ = PrintLength + 1 THEN 1 ELSE @ + 1]
  BY Zenon DEF Output!Release, Output!ReplyTo
<1>4. /\ client' \in [Clients -> {"ready", "sent", "received"}] /\ client'[c] = "ready"
      /\ place' \in [Clients -> 1 .. PrintLength + 1] /\ place'[c] = 1
      /\ \A d \in Clients \ {c} : client'[d] = client[d] /\ place'[d] = place[d]
  BY <1>2, <1>3, TypeFacts DEF Output!Taken
<1>5. stray' = FALSE
  <2>1. stray = FALSE
    BY DEF OutputInv, Output!TypeOK, Output!LocksConsistent, Output!NotifierTracked
  <2>2. Output!Taken(c)[c] = "received"
    BY <1>2, TypeFacts DEF Output!Taken
  <2>3. QED
    BY <1>3, <2>1, <2>2
<1>6. /\ notifier' = notifier \/ (notifier = "held" /\ notifier' = "released")
      /\ notifier_parking' <=> notifier' = "held"
      /\ notifier_parking' \in BOOLEAN
      /\ notifier' \in {"woken", "sent", "held", "released", "awaiting"}
  BY <1>1, UnparkFacts
<1>7. mailbox' \in Seq(Messages) /\ MailboxOK'
  BY <1>1, <1>2, <1>4, <1>6, ReceivedMailbox
<1>8. RoomLeft' /\ overtaken' \in 0 .. Overtakes
  <2>1. \A k \in 1 .. Len(mailbox') : mailbox'[k].from = Output!Notifier => fifo < FifoSize
    BY <1>1, ReceivedFacts
  <2>2. QED
    BY <1>1, <1>2, <1>6, <2>1, RoomKept
<1>9. WrittenLast' /\ NextCharacter
  <2>1. \A d \in Clients : place'[d] = 1
    <3>1. \A d \in Clients \ {c} : place[d] = 1
      BY <1>1 DEF OutputInv, WrittenLast
    <3>2. QED
      BY <1>4, <3>1
  <2>2. written.char = PrintLength
    <3>1. c # NoOwner /\ place[c] > 1 /\ place[c] - 1 = PrintLength
      BY <1>2, TypeFacts
    <3>2. written = [by |-> c, char |-> place[c] - 1]
      BY <1>1, <3>1 DEF OutputInv, WrittenLast
    <3>3. QED
      BY <3>1, <3>2
  <2>3. owned_by' \in Clients \cup {NoOwner}
    BY <1>1, TypeFacts
  <2>4. QED
    BY <1>1, <2>1, <2>2, <2>3 DEF WrittenLast, NextCharacter
<1>10. BufferedOK'
  <2>1. char_buffer[c] = Output!NoChar
    BY <1>2, LockFacts
  <2>2. QED
    BY <1>1, <1>4, <2>1 DEF OutputInv, BufferedOK
<1>11. /\ \A i, j \in 1 .. n : i # j => lock_cb[i] # lock_cb[j]
       /\ \A d \in Clients : client[d] = "received" => \E i \in 1 .. n : lock_cb[i] = d
       /\ \A i \in 1 .. n : lock_cb[i] \in Clients \ {c} /\ client[lock_cb[i]] = "received"
  <2>1. \A i, j \in 1 .. n : i # j => lock_cb[i] # lock_cb[j]
    BY DEF OutputInv, Output!LocksConsistent, Output!LockConsistent
  <2>2. ASSUME NEW d \in Clients, client[d] = "received" PROVE \E i \in 1 .. n : lock_cb[i] = d
    BY <1>1, <1>2, <2>2, LockFacts
  <2>3. ASSUME NEW i \in 1 .. n
        PROVE  lock_cb[i] \in Clients \ {c} /\ client[lock_cb[i]] = "received"
    <3>1. lock_cb[i] \in Clients
      BY TypeFacts
    <3>2. client[lock_cb[i]] = "received" /\ owned_by # lock_cb[i]
      BY <3>1, LockFacts
    <3>3. QED
      BY <1>1, <3>1, <3>2
  <2>4. QED
    BY <2>1, <2>2, <2>3
<1>12. /\ lock_cb' \in Seq(Clients) /\ Len(lock_cb') <= LockCapacity
       /\ \A i, j \in 1 .. Len(lock_cb') : i # j => lock_cb'[i] # lock_cb'[j]
       /\ owned_by' \in Clients \cup {NoOwner}
       /\ owned_by' = NoOwner => lock_cb' = <<>>
       /\ \A d \in Clients : (\E i \in 1 .. Len(lock_cb') : lock_cb'[i] = d)
                               <=> (client[d] = "received" /\ owned_by' # d)
  <2>1. CASE lock_cb = <<>>
    <3>1. n = 0 /\ Len(lock_cb') = 0 /\ lock_cb' = <<>> /\ owned_by' = NoOwner /\ LockCapacity \in Nat
      BY <1>1, <2>1 DEF Output!Uart2TxAssumption
    <3>2. \A d \in Clients : client[d] # "received"
      BY <1>11, <3>1
    <3>3. lock_cb' \in Seq(Clients)
      BY <3>1
    <3>4. QED
      BY <3>1, <3>2, <3>3
  <2>2. CASE lock_cb # <<>>
    <3>1. /\ n \in Nat /\ n >= 1 /\ lock_cb' \in Seq(Clients) /\ Len(lock_cb') = n - 1
          /\ \A i \in 1 .. n - 1 : lock_cb'[i] = lock_cb[i + 1] /\ i + 1 \in 1 .. n
          /\ owned_by' = lock_cb[1] /\ 1 \in 1 .. n
      <4>1. lock_cb \in Seq(Clients) /\ lock_cb' = Tail(lock_cb) /\ owned_by' = Head(lock_cb)
        BY <1>1, <2>2, TypeFacts
      <4>2. QED
        BY <2>2, <4>1
    <3>2. owned_by' \in Clients /\ owned_by' # NoOwner
      BY <1>11, <3>1, TypeFacts
    <3>3. ASSUME NEW d \in Clients
          PROVE  (\E i \in 1 .. n - 1 : lock_cb'[i] = d) <=> (client[d] = "received" /\ owned_by' # d)
      <4>1. ASSUME NEW i \in 1 .. n - 1, lock_cb'[i] = d
            PROVE  client[d] = "received" /\ owned_by' # d
        <5>1. i + 1 \in 1 .. n /\ lock_cb[i + 1] = d /\ i + 1 # 1
          BY <3>1, <4>1
        <5>2. QED
          BY <1>11, <3>1, <5>1
      <4>2. ASSUME client[d] = "received", owned_by' # d
            PROVE  \E i \in 1 .. n - 1 : lock_cb'[i] = d
        <5>1. PICK j \in 1 .. n : lock_cb[j] = d
          BY <1>11, <4>2
        <5>2. j # 1
          BY <3>1, <4>2, <5>1
        <5>3. j - 1 \in 1 .. n - 1 /\ (j - 1) + 1 = j
          BY <3>1, <5>2
        <5>4. lock_cb'[j - 1] = d
          BY <3>1, <5>1, <5>3
        <5>5. QED
          BY <5>3, <5>4
      <4>3. QED
        BY <4>1, <4>2
    <3>4. ASSUME NEW i \in 1 .. n - 1, NEW j \in 1 .. n - 1, i # j PROVE lock_cb'[i] # lock_cb'[j]
      <4>1. i + 1 \in 1 .. n /\ j + 1 \in 1 .. n /\ i + 1 # j + 1
        BY <3>1, <3>4
      <4>2. QED
        BY <1>11, <3>1, <4>1
    <3>5. Len(lock_cb') <= LockCapacity
      <4>1. n <= LockCapacity /\ LockCapacity \in Nat
        BY DEF OutputInv, Output!TypeOK, Output!Uart2TxAssumption
      <4>2. QED
        BY <3>1, <4>1
    <3>6. QED
      BY <3>1, <3>2, <3>3, <3>4, <3>5
  <2>3. QED
    BY <2>1, <2>2
<1>13. Output!TypeOK'
  BY <1>1, <1>4, <1>5, <1>6, <1>7, <1>8, <1>12 DEF OutputInv, Output!TypeOK, Messages
<1>14. Output!LocksConsistent'
  <2>1. ASSUME NEW d \in Clients
        PROVE  /\ (d \in {lock_cb'[i] : i \in 1 .. Len(lock_cb')})
                     <=> (client'[d] = "received" /\ owned_by' # d)
               /\ char_buffer'[d] # Output!NoChar <=> client'[d] = "received"
               /\ place'[d] # PrintLength + 1
    <3>1. client'[d] = "received" <=> client[d] = "received"
      BY <1>2, <1>4
    <3>2. place'[d] # PrintLength + 1
      <4>1. d # c => place[d] = 1
        BY <1>1, LockFacts
      <4>2. 1 # PrintLength + 1
        BY <1>2
      <4>3. QED
        BY <1>4, <4>1, <4>2
    <3>3. char_buffer'[d] # Output!NoChar <=> client[d] = "received"
      BY <1>1, LockFacts
    <3>4. QED
      BY <1>12, <3>1, <3>2, <3>3
  <2>2. QED
    BY <1>5, <1>6, <1>12, <2>1 DEF Output!LocksConsistent, Output!LockConsistent, Output!NotifierTracked
<1>15. QED
  BY <1>1, <1>7, <1>8, <1>9, <1>10, <1>13, <1>14 DEF OutputInv, Output!NothingLost

-----------------------------------------------------------------------------
LEMMA NextInv == ASSUME Output!Uart2TxAssumption PROVE OutputInv /\ [Output!Next]_(Output!vars) => OutputInv' /\ [NextCharacter]_(Output!vars)
<1> SUFFICES ASSUME OutputInv, [Output!Next]_(Output!vars) PROVE OutputInv' /\ [NextCharacter]_(Output!vars)
  OBVIOUS
<1>1. CASE Output!NotifierSends \/ Output!NotifierAwaits \/ Output!TransmitInterrupt \/ Output!Transmit \/ UNCHANGED Output!vars
  <2>1. OutputInv'
    BY <1>1, NotifierSendsInv, AwaitInv, TransmitInv, StutterInv
  <2>2. written' = written
    BY <1>1 DEF Output!NotifierSends, Output!NotifierAwaits, Output!TransmitInterrupt, Output!Transmit, Output!vars
  <2>3. QED
    BY <2>1, <2>2 DEF NextCharacter
<1>2. ASSUME NEW c \in Clients, Output!ClientStep(c) PROVE OutputInv' /\ NextCharacter
  BY <1>2, ClientInv DEF NextCharacter, Output!ClientStep, Output!Putc, Output!ReleaseUartLock
<1>3. CASE Output!Serve
  <2>1. Counted
    BY <1>3 DEF Output!Serve, Counted
  <2>2. PICK m : Output!TxGood(m) \/ Output!SendCharOwner(m) \/ Output!SendCharOther(m) \/ Output!Release(m)
    BY <1>3 DEF Output!Serve
  <2>3. OutputInv' /\ NextCharacter
    BY <2>1, <2>2, TxGoodInv, SendCharOwnerWrites, SendCharOwnerWaits, SendCharOtherInv, ReleaseInv
  <2>4. QED
    BY <2>3
<1>4. QED
  BY <1>1, <1>2, <1>3 DEF Output!Next

\* What the other two servers do is a stutter to each.
LEMMA LinesSteps ==
  [LinesNext]_lines =>
    [Output!Next]_(Output!vars) /\ [Line!Next]_(Line!vars) /\ [Input!Next]_(Input!vars)
<1>1. UNCHANGED outputVars => UNCHANGED Output!vars
  BY DEF outputVars, Output!vars, Output!server
<1>2. UNCHANGED lineVars => UNCHANGED Line!vars
  BY DEF lineVars, Line!vars, Line!server, Line!kernel, Line!line, Line!tasks
<1>3. UNCHANGED inputVars => UNCHANGED Input!vars
  BY DEF inputVars, Input!vars
<1>4. QED
  BY <1>1, <1>2, <1>3 DEF LinesNext, lines

LEMMA SpecInv == ASSUME Output!Uart2TxAssumption PROVE LinesSpec => []OutputInv
<1>1. LinesInit => OutputInv
  BY InitInv DEF LinesInit
<1>2. OutputInv /\ [LinesNext]_lines => OutputInv'
  BY NextInv, LinesSteps
<1>3. QED
  BY <1>1, <1>2, PTL DEF LinesSpec

\* The variables of the terminal's server, its notifier and the tasks that print keep
\* their types.
THEOREM Uart2TxTypeCorrect == ASSUME Output!Uart2TxAssumption PROVE LinesSpec => []Output!TypeOK
<1>1. OutputInv => Output!TypeOK
  BY DEF OutputInv
<1>2. QED
  BY <1>1, SpecInv, PTL

\* The characters of different prints do not mix, and those of one come in order; and
\* NOTIFIER_TX_GOOD, which writes without asking uart_can_write, never writes into a full
\* FIFO.
THEOREM PrintsNotMixed == ASSUME Output!Uart2TxAssumption PROVE LinesSpec => PrintsWhole
<1>1. OutputInv => Output!NothingLost
  BY DEF OutputInv
<1>2. OutputInv /\ [LinesNext]_lines => [NextCharacter]_(Output!vars)
  BY NextInv, LinesSteps
<1>3. LinesSpec => Output!PrintsWhole
  BY <1>2, SpecInv, PTL DEF LinesSpec, Output!PrintsWhole, NextCharacter
<1>4. QED
  BY <1>1, <1>3, SpecInv, PTL DEF PrintsWhole

-----------------------------------------------------------------------------
(* The receive server *)

Keys == 0 .. MaxKey

\* The key after k.
Succ(k) == (k + 1) % (MaxKey + 1)

\* The keys in the FIFO follow the one that the shell got last, and each other.
FifoOK ==
  /\ key_fifo \in Seq(Keys) /\ got \in Keys /\ next_key \in Keys
  /\ \A i \in 1 .. Len(key_fifo) : key_fifo[i] = Succ(IF i = 1 THEN got ELSE key_fifo[i - 1])
  /\ next_key = Succ(IF key_fifo = <<>> THEN got ELSE key_fifo[Len(key_fifo)])

\* The notifier is under way only while the shell waits (its first message excepted), and
\* it has been woken for a key that nobody has taken since.
KeyNotifierOK ==
  /\ shell_client \in {"ready", "sent", "received"} /\ waiting \in BOOLEAN /\ key_intr \in BOOLEAN
  /\ key_notifier \in {"woken", "sent", "held", "released", "awaiting"}
  /\ waiting <=> shell_client = "received"
  /\ key_notifier \in {"woken", "released", "awaiting"} => waiting
  /\ key_intr => key_notifier = "awaiting"
  /\ waiting /\ key_notifier \in {"woken", "sent"} => key_fifo # <<>>

\* The messages in want_send: the notifier's and the shell's, if they have sent one.
KeyMailboxOK ==
  key_mailbox = IF key_notifier = "sent"
                  THEN IF shell_client = "sent" THEN <<"NOTIFIER_RX_GOOD", "GET_CHAR">>
                       ELSE <<"NOTIFIER_RX_GOOD">>
                  ELSE IF shell_client = "sent" THEN <<"GET_CHAR">> ELSE <<>>

InputInv == FifoOK /\ KeyNotifierOK /\ KeyMailboxOK

\* What KeysInOrder says of a step.
KeyStep == shell_client # "ready" /\ shell_client' = "ready" => got' = Succ(got)

LEMMA SuccType == ASSUME MaxKey \in Nat, NEW k \in Keys PROVE Succ(k) \in Keys
<1>1. CASE k = MaxKey
  <2>1. Succ(k) = 0
    BY <1>1 DEF Succ
  <2>2. QED
    BY <2>1 DEF Keys
<1>2. CASE k < MaxKey
  <2>1. Succ(k) = k + 1
    BY <1>2 DEF Succ, Keys
  <2>2. QED
    BY <1>2, <2>1 DEF Keys
<1>3. QED
  BY <1>1, <1>2 DEF Keys

LEMMA InputInitInv == ASSUME Input!Uart2RxAssumption PROVE Input!Init => InputInv
<1> SUFFICES ASSUME Input!Init PROVE InputInv
  OBVIOUS
<1>1. MaxKey \in Nat /\ MaxKey + 1 # 0
  BY DEF Input!Uart2RxAssumption
<1>2. FifoOK
  <2>1. got = MaxKey /\ next_key = 0 /\ key_fifo = <<>> /\ Succ(MaxKey) = 0
    BY <1>1 DEF Input!Init, Succ
  <2>2. QED
    BY <1>1, <2>1 DEF FifoOK, Keys
<1>3. /\ waiting = FALSE /\ key_intr = FALSE /\ shell_client = "ready" /\ key_notifier = "sent"
      /\ key_mailbox = <<"NOTIFIER_RX_GOOD">>
  BY DEF Input!Init
<1>4. KeyNotifierOK /\ KeyMailboxOK
  BY <1>3 DEF KeyNotifierOK, KeyMailboxOK
<1>5. QED
  BY <1>2, <1>4 DEF InputInv

\* The key that is read is the next, and the rest follow it.
LEMMA ReplyKeyFacts ==
  ASSUME Input!Uart2RxAssumption, FifoOK, key_fifo # <<>>, Input!ReplyKey, UNCHANGED next_key
  PROVE  FifoOK' /\ got' = Succ(got) /\ shell_client' = "ready"
<1> DEFINE n == Len(key_fifo)
<1>1. /\ shell_client' = "ready" /\ got' = Head(key_fifo) /\ key_fifo' = Tail(key_fifo)
      /\ key_fifo \in Seq(Keys) /\ got \in Keys
  BY DEF Input!ReplyKey, FifoOK
<1>2. /\ n \in Nat /\ n >= 1 /\ got' = key_fifo[1] /\ got' \in Keys
      /\ key_fifo' \in Seq(Keys) /\ Len(key_fifo') = n - 1
      /\ \A i \in 1 .. n - 1 : key_fifo'[i] = key_fifo[i + 1]
  BY <1>1
<1>3. got' = Succ(got)
  BY <1>2 DEF FifoOK
<1>4. ASSUME NEW i \in 1 .. n - 1
      PROVE  key_fifo'[i] = Succ(IF i = 1 THEN got' ELSE key_fifo'[i - 1])
  <2>1. i + 1 \in 1 .. n /\ i + 1 # 1 /\ (i + 1) - 1 = i
    BY <1>2
  <2>2. key_fifo[i + 1] = Succ(key_fifo[i])
    BY <2>1 DEF FifoOK
  <2>3. key_fifo[i] = IF i = 1 THEN got' ELSE key_fifo'[i - 1]
    BY <1>2
  <2>4. QED
    BY <1>2, <2>2, <2>3
<1>5. next_key = Succ(IF key_fifo' = <<>> THEN got' ELSE key_fifo'[Len(key_fifo')])
  <2>1. next_key = Succ(key_fifo[n])
    BY DEF FifoOK
  <2>2. key_fifo[n] = IF key_fifo' = <<>> THEN got' ELSE key_fifo'[Len(key_fifo')]
    BY <1>2
  <2>3. QED
    BY <2>1, <2>2
<1>6. QED
  BY <1>1, <1>2, <1>3, <1>4, <1>5 DEF FifoOK, Succ, Keys

LEMMA InputNextInv ==
  ASSUME Input!Uart2RxAssumption, InputInv, [Input!Next]_(Input!vars)
  PROVE  InputInv' /\ KeyStep
<1> DEFINE good == "NOTIFIER_RX_GOOD"
           get == "GET_CHAR"
<1>1. CASE Input!Press
  <2> DEFINE n == Len(key_fifo)
  <2>1. /\ key_fifo' = Append(key_fifo, next_key) /\ next_key' = Succ(next_key)
        /\ UNCHANGED <<waiting, key_mailbox, key_notifier, key_intr, shell_client, got>>
    BY <1>1 DEF Input!Press, Succ
  <2>2. /\ n \in Nat /\ key_fifo' \in Seq(Keys) /\ Len(key_fifo') = n + 1
        /\ key_fifo'[n + 1] = next_key /\ \A i \in 1 .. n : key_fifo'[i] = key_fifo[i]
        /\ key_fifo' # <<>> /\ next_key \in Keys
    BY <2>1 DEF InputInv, FifoOK
  <2>3. next_key' \in Keys
    BY <2>1, <2>2, SuccType DEF Input!Uart2RxAssumption
  <2>4. ASSUME NEW i \in 1 .. n + 1
        PROVE  key_fifo'[i] = Succ(IF i = 1 THEN got ELSE key_fifo'[i - 1])
    <3>1. CASE i \in 1 .. n
      <4>1. key_fifo[i] = Succ(IF i = 1 THEN got ELSE key_fifo[i - 1])
        BY <3>1 DEF InputInv, FifoOK
      <4>2. i # 1 => key_fifo'[i - 1] = key_fifo[i - 1]
        BY <2>2, <3>1
      <4>3. QED
        BY <2>2, <3>1, <4>1, <4>2
    <3>2. CASE i = n + 1
      <4>1. next_key = Succ(IF key_fifo = <<>> THEN got ELSE key_fifo[n])
        BY DEF InputInv, FifoOK
      <4>2. key_fifo = <<>> <=> n = 0
        BY DEF InputInv, FifoOK
      <4>3. (IF key_fifo = <<>> THEN got ELSE key_fifo[n]) = IF i = 1 THEN got ELSE key_fifo'[i - 1]
        BY <2>2, <3>2, <4>2
      <4>4. QED
        BY <2>2, <3>2, <4>1, <4>3
    <3>3. QED
      BY <2>2, <3>1, <3>2
  <2>5. FifoOK'
    BY <2>1, <2>2, <2>3, <2>4 DEF InputInv, FifoOK, Succ, Keys
  <2>6. KeyNotifierOK' /\ KeyMailboxOK' /\ KeyStep
    BY <2>1, <2>2 DEF InputInv, KeyNotifierOK, KeyMailboxOK, KeyStep
  <2>7. QED
    BY <2>5, <2>6 DEF InputInv
<1>2. CASE Input!ReceiveInterrupt
  <2>1. /\ key_intr /\ key_fifo # <<>> /\ key_intr' = FALSE /\ key_notifier' = "woken"
        /\ UNCHANGED <<waiting, key_mailbox, key_fifo, next_key, shell_client, got>>
    BY <1>2 DEF Input!ReceiveInterrupt
  <2>2. key_notifier = "awaiting" /\ waiting
    BY <2>1 DEF InputInv, KeyNotifierOK
  <2>3. FifoOK'
    BY <2>1 DEF InputInv, FifoOK, Succ, Keys
  <2>4. KeyNotifierOK' /\ KeyMailboxOK' /\ KeyStep
    BY <2>1, <2>2 DEF InputInv, KeyNotifierOK, KeyMailboxOK, KeyStep
  <2>5. QED
    BY <2>3, <2>4 DEF InputInv
<1>3. CASE Input!NotifierAwaits
  <2>1. /\ key_notifier = "released" /\ key_notifier' = "awaiting" /\ key_intr' = TRUE
        /\ UNCHANGED <<waiting, key_mailbox, key_fifo, next_key, shell_client, got>>
    BY <1>3 DEF Input!NotifierAwaits
  <2>2. FifoOK'
    BY <2>1 DEF InputInv, FifoOK, Succ, Keys
  <2>3. KeyNotifierOK' /\ KeyMailboxOK' /\ KeyStep
    BY <2>1 DEF InputInv, KeyNotifierOK, KeyMailboxOK, KeyStep
  <2>4. QED
    BY <2>2, <2>3 DEF InputInv
<1>4. CASE UNCHANGED Input!vars
  <2>1. UNCHANGED <<waiting, key_mailbox, key_notifier, key_intr, key_fifo, next_key, shell_client, got>>
    BY <1>4 DEF Input!vars
  <2>2. FifoOK'
    BY <2>1 DEF InputInv, FifoOK, Succ, Keys
  <2>3. KeyNotifierOK' /\ KeyMailboxOK' /\ KeyStep
    BY <2>1 DEF InputInv, KeyNotifierOK, KeyMailboxOK, KeyStep
  <2>4. QED
    BY <2>2, <2>3 DEF InputInv
<1>5. CASE Input!NotifierSends
  <2>1. /\ key_notifier = "woken" /\ key_notifier' = "sent"
        /\ key_mailbox' = Append(key_mailbox, good)
        /\ UNCHANGED <<waiting, key_intr, key_fifo, next_key, shell_client, got>>
    BY <1>5 DEF Input!NotifierSends
  <2>2. waiting /\ shell_client = "received" /\ key_mailbox = <<>> /\ key_fifo # <<>>
    BY <2>1 DEF InputInv, KeyNotifierOK, KeyMailboxOK
  <2>3. key_mailbox' = <<good>>
    BY <2>1, <2>2
  <2>4. FifoOK'
    BY <2>1 DEF InputInv, FifoOK, Succ, Keys
  <2>5. KeyNotifierOK' /\ KeyMailboxOK' /\ KeyStep
    BY <2>1, <2>2, <2>3 DEF InputInv, KeyNotifierOK, KeyMailboxOK, KeyStep
  <2>6. QED
    BY <2>4, <2>5 DEF InputInv
<1>6. CASE Input!Getc
  <2>1. /\ shell_client = "ready" /\ shell_client' = "sent"
        /\ key_mailbox' = Append(key_mailbox, get)
        /\ UNCHANGED <<waiting, key_notifier, key_intr, key_fifo, next_key, got>>
    BY <1>6 DEF Input!Getc
  <2>2. key_mailbox' = (IF key_notifier = "sent" THEN <<good>> ELSE <<>>) \o <<get>>
    BY <2>1 DEF InputInv, KeyNotifierOK, KeyMailboxOK
  <2>3. FifoOK'
    BY <2>1 DEF InputInv, FifoOK, Succ, Keys
  <2>4. KeyNotifierOK' /\ KeyMailboxOK' /\ KeyStep
    BY <2>1, <2>2 DEF InputInv, KeyNotifierOK, KeyMailboxOK, KeyStep
  <2>5. QED
    BY <2>3, <2>4 DEF InputInv
<1>7. CASE Input!RxGood
  <2>1. /\ key_mailbox # <<>> /\ Head(key_mailbox) = good /\ key_mailbox' = Tail(key_mailbox)
        /\ key_notifier' = "held" /\ waiting' = FALSE /\ UNCHANGED <<key_intr, next_key>>
        /\ IF waiting THEN Input!ReplyKey ELSE UNCHANGED <<shell_client, got, key_fifo>>
    BY <1>7 DEF Input!RxGood, Input!Received
  <2>2. /\ key_notifier = "sent" /\ key_intr = FALSE
        /\ key_mailbox' = IF shell_client = "sent" THEN <<get>> ELSE <<>>
    BY <2>1 DEF InputInv, KeyNotifierOK, KeyMailboxOK
  <2>3. CASE waiting
    <3>1. key_fifo # <<>> /\ shell_client = "received"
      BY <2>2, <2>3 DEF InputInv, KeyNotifierOK, KeyMailboxOK
    <3>2. FifoOK' /\ got' = Succ(got) /\ shell_client' = "ready"
      BY <2>1, <2>3, <3>1, ReplyKeyFacts DEF InputInv
    <3>3. KeyNotifierOK' /\ KeyMailboxOK' /\ KeyStep
      BY <2>1, <2>2, <3>1, <3>2 DEF KeyNotifierOK, KeyMailboxOK, KeyStep
    <3>4. QED
      BY <3>2, <3>3 DEF InputInv
  <2>4. CASE ~waiting
    <3>1. FifoOK'
      BY <2>1, <2>4 DEF InputInv, FifoOK, Succ, Keys
    <3>2. KeyNotifierOK' /\ KeyMailboxOK' /\ KeyStep
      BY <2>1, <2>2, <2>4 DEF InputInv, KeyNotifierOK, KeyMailboxOK, KeyStep
    <3>3. QED
      BY <3>1, <3>2 DEF InputInv
  <2>5. QED
    BY <2>3, <2>4
<1>8. CASE Input!GetChar
  <2>1. /\ key_mailbox # <<>> /\ Head(key_mailbox) = get /\ key_mailbox' = Tail(key_mailbox)
        /\ UNCHANGED <<key_intr, next_key>>
        /\ IF key_fifo # <<>> THEN Input!ReplyKey /\ UNCHANGED <<waiting, key_notifier>>
           ELSE /\ waiting' = TRUE /\ shell_client' = "received"
                /\ key_notifier' = IF key_notifier = "held" THEN "released" ELSE key_notifier
                /\ UNCHANGED <<got, key_fifo>>
    BY <1>8 DEF Input!GetChar, Input!Received
  <2>2. /\ shell_client = "sent" /\ key_notifier # "sent" /\ key_mailbox' = <<>>
    BY <2>1 DEF InputInv, KeyNotifierOK, KeyMailboxOK
  <2>3. waiting = FALSE /\ key_notifier = "held" /\ key_intr = FALSE
    BY <2>2 DEF InputInv, KeyNotifierOK, KeyMailboxOK
  <2>4. CASE key_fifo # <<>>
    <3>1. FifoOK' /\ got' = Succ(got) /\ shell_client' = "ready"
      BY <2>1, <2>4, ReplyKeyFacts DEF InputInv
    <3>2. KeyNotifierOK' /\ KeyMailboxOK' /\ KeyStep
      BY <2>1, <2>2, <2>3, <2>4, <3>1 DEF KeyNotifierOK, KeyMailboxOK, KeyStep
    <3>3. QED
      BY <3>1, <3>2 DEF InputInv
  <2>5. CASE key_fifo = <<>>
    <3>1. FifoOK'
      BY <2>1, <2>5 DEF InputInv, FifoOK, Succ, Keys
    <3>2. KeyNotifierOK' /\ KeyMailboxOK' /\ KeyStep
      BY <2>1, <2>2, <2>3, <2>5 DEF InputInv, KeyNotifierOK, KeyMailboxOK, KeyStep
    <3>3. QED
      BY <3>1, <3>2 DEF InputInv
  <2>6. QED
    BY <2>4, <2>5
<1>9. QED
  BY <1>1, <1>2, <1>3, <1>4, <1>5, <1>6, <1>7, <1>8 DEF Input!Next, Input!Serve

\* The shell gets the keys in the order in which they were pressed, each once, although
\* uart_com2_rx_server reads the receive FIFO on the notifier's word.
THEOREM KeysRead == ASSUME Input!Uart2RxAssumption PROVE LinesSpec => KeysInOrder
<1>1. LinesInit => InputInv
  BY InputInitInv DEF LinesInit
<1>2. InputInv /\ [LinesNext]_lines => InputInv'
  BY InputNextInv, LinesSteps
<1>3. InputInv /\ [LinesNext]_lines =>
        [shell_client # "ready" /\ shell_client' = "ready" => got' = (got + 1) % (MaxKey + 1)]_(Input!vars)
  BY InputNextInv, LinesSteps DEF KeyStep, Succ
<1>4. QED
  BY <1>1, <1>2, <1>3, PTL DEF LinesSpec, KeysInOrder, Input!KeysInOrder
=============================================================================
