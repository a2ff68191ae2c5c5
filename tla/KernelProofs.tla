---------------------------- MODULE KernelProofs ----------------------------
(***************************************************************************)
(* Proofs, for every number of descriptors and every user program, of the  *)
(* safety properties of Kernel.                                            *)
(***************************************************************************)
EXTENDS Kernel, FiniteSetTheorems, FunctionTheorems, TLAPS

\* Idle is running or ready as long as kmain loops; when the loop has ended on
\* its own, its guard was false and idle is still in the queue.
IdlePlace ==
  /\ mode = "running" => Idle \in ready \/ cur = Idle
  /\ mode = "returned" /\ cur = NoTask => ~LoopGuard /\ Idle \in ready

IInv ==
  /\ TypeOK /\ OnePlace /\ QueueHasSpace /\ InterruptCount
  /\ NobodyStranded /\ NoMissedSender /\ IdlePlace /\ mode # "NobodyHome"

\* The caller is readied and nothing else changes but r0 and the mode: Yield and
\* the like, and every system call that ends in an error.
BackToReady(t) ==
  /\ mode = "running" /\ cur = t /\ cur' = NoTask
  /\ AddToReady({t}, 1)
  /\ mode' \in {"running", "KernelSwi"}
  /\ ret' \in [Tids -> Int]
  /\ UNCHANGED <<state, want_send, tcbVars, eventVars>>

-----------------------------------------------------------------------------
LEMMA TidsFacts == /\ IsFiniteSet(Tids) /\ Cardinality(Tids) = MAX_NUM_TASKS
                   /\ Idle \in Tids /\ InitTask \in Tids /\ NoTask \notin Tids
                   /\ \A S \in SUBSET Tids : /\ IsFiniteSet(S)
                                             /\ Cardinality(S) \in Nat
                                             /\ Cardinality(S) <= MAX_NUM_TASKS
<1>1. 0 \in Int /\ MAX_NUM_TASKS - 1 \in Int
  BY KernelAssumption
<1>2. IsFiniteSet(Tids) /\ Cardinality(Tids) = MAX_NUM_TASKS
  BY <1>1, FS_Interval, KernelAssumption DEF Tids
<1>3. Idle \in Tids /\ InitTask \in Tids /\ NoTask \notin Tids
  BY KernelAssumption DEF Tids, Idle, InitTask, NoTask
<1>4. ASSUME NEW S \in SUBSET Tids
      PROVE  IsFiniteSet(S) /\ Cardinality(S) \in Nat
             /\ Cardinality(S) <= MAX_NUM_TASKS
  <2>1. IsFiniteSet(S) /\ Cardinality(S) <= Cardinality(Tids)
    BY <1>2, FS_Subset
  <2>2. QED
    BY <1>2, <2>1, FS_CardinalityType
<1>5. QED
  BY <1>2, <1>3, <1>4

LEMMA EventsFacts == /\ IsFiniteSet(Events)
                     /\ \A S \in SUBSET Events : /\ IsFiniteSet(S)
                                                 /\ Cardinality(S) \in Nat
<1>1. IsFiniteSet({})
  BY FS_EmptySet
<1>2. IsFiniteSet({} \cup {"TIMER_TICK"})
  BY <1>1, FS_AddElement
<1>3. IsFiniteSet(({} \cup {"TIMER_TICK"}) \cup {"UART1_RX_INTR"})
  BY <1>2, FS_AddElement
<1>4. IsFiniteSet((({} \cup {"TIMER_TICK"}) \cup {"UART1_RX_INTR"})
                  \cup {"UART1_TX_INTR"})
  BY <1>3, FS_AddElement
<1>5. IsFiniteSet(((({} \cup {"TIMER_TICK"}) \cup {"UART1_RX_INTR"})
                  \cup {"UART1_TX_INTR"}) \cup {"UART2_TX_HALF_EMPTY"})
  BY <1>4, FS_AddElement
<1>6. IsFiniteSet((((({} \cup {"TIMER_TICK"}) \cup {"UART1_RX_INTR"})
                  \cup {"UART1_TX_INTR"}) \cup {"UART2_TX_HALF_EMPTY"})
                  \cup {"UART2_RX_INCOMING"})
  BY <1>5, FS_AddElement
<1>7. Events = (((({} \cup {"TIMER_TICK"}) \cup {"UART1_RX_INTR"})
                \cup {"UART1_TX_INTR"}) \cup {"UART2_TX_HALF_EMPTY"})
                \cup {"UART2_RX_INCOMING"}
  BY DEF Events
<1>8. IsFiniteSet(Events)
  BY <1>6, <1>7
<1>9. QED
  BY <1>8, FS_Subset, FS_CardinalityType

\* Adding an absent task to a set of tasks, and removing a present one.
LEMMA AddOne ==
  ASSUME NEW S \in SUBSET Tids, NEW t \in Tids, t \notin S
  PROVE  Cardinality(S \cup {t}) = Cardinality(S) + 1
BY TidsFacts, FS_AddElement

LEMMA DropOne ==
  ASSUME NEW S \in SUBSET Tids, NEW t \in S
  PROVE  Cardinality(S \ {t}) = Cardinality(S) - 1
BY TidsFacts, FS_RemoveElement

-----------------------------------------------------------------------------
LEMMA InitIInv == Init => IInv
<1> SUFFICES ASSUME Init PROVE IInv
  OBVIOUS
<1> USE TidsFacts, KernelAssumption
<1>1. TypeOK
  BY DEF Init, TypeOK, Modes, TaskStates, Tids, Events, NoTask, Idle, InitTask, NoRet
<1>2. Parked = {} /\ \A r \in Tids : Queued(r) = {}
  BY DEF Init, Parked, Queued
<1>3. OnePlace
  BY <1>2 DEF Init, OnePlace, ReadyPlace, SendPlace, SendersDistinct, NotTwice,
              FreeUnused, Tids, Idle, InitTask, NoTask
<1>4. QueueHasSpace
  <2>1. Cardinality({Idle}) = 1
    BY FS_Singleton
  <2>2. Cardinality({Idle} \cup {InitTask}) = 2
    BY <2>1, AddOne DEF Idle, InitTask
  <2>3. ready = {Idle} \cup {InitTask}
    BY DEF Init
  <2>4. QED
    BY <2>2, <2>3 DEF Init, QueueHasSpace
<1>5. InterruptCount
  BY FS_EmptySet DEF Init, InterruptCount
<1>6. NobodyStranded
  BY DEF Init, NobodyStranded, Events
<1>7. NoMissedSender /\ IdlePlace /\ mode # "NobodyHome"
  BY DEF Init, NoMissedSender, IdlePlace, NoTask
<1>8. QED
  BY <1>1, <1>3, <1>4, <1>5, <1>6, <1>7 DEF IInv

LEMMA DispatchIInv == ASSUME IInv, NEW t \in Tids, Dispatch(t) PROVE IInv'
<1> USE TidsFacts
<1>1. TypeOK'
  BY DEF IInv, TypeOK, Dispatch, NoReturn, NoRet, tcbVars, eventVars
<1>2. Parked' = Parked /\ \A r \in Tids : Queued(r)' = Queued(r)
  BY DEF Dispatch, Parked, Queued, eventVars
<1>3. OnePlace'
  BY <1>2 DEF IInv, OnePlace, ReadyPlace, SendPlace, SendersDistinct, NotTwice,
              FreeUnused, Dispatch, tcbVars, eventVars, NoTask, Tids
<1>4. QueueHasSpace'
  <2>1. ready \in SUBSET Tids /\ t \in ready
    BY DEF IInv, TypeOK, Dispatch
  <2>2. Cardinality(ready \ {t}) = Cardinality(ready) - 1
    BY <2>1, DropOne
  <2>3. Cardinality(ready) \in Nat
    BY <2>1
  <2>4. QED
    BY <2>2, <2>3, KernelAssumption DEF IInv, QueueHasSpace, Dispatch
<1>5. InterruptCount' /\ NobodyStranded' /\ NoMissedSender' /\ (mode # "NobodyHome")'
  BY DEF IInv, InterruptCount, NobodyStranded, NoMissedSender, Dispatch, eventVars
<1>6. IdlePlace'
  BY DEF IInv, IdlePlace, Dispatch
<1>7. QED
  BY <1>1, <1>3, <1>4, <1>5, <1>6 DEF IInv

LEMMA BackToReadyIInv == ASSUME IInv, NEW t \in Tids, BackToReady(t) PROVE IInv'
<1> USE TidsFacts
<1>1. TypeOK'
  BY DEF IInv, TypeOK, BackToReady, AddToReady, Modes, NoTask, tcbVars, eventVars
<1>2. Parked' = Parked /\ \A r \in Tids : Queued(r)' = Queued(r)
  BY DEF BackToReady, Parked, Queued, eventVars
<1>3. OnePlace'
  <2>1. t \notin ready /\ t \notin Parked /\ NoTask \notin Parked
    BY DEF IInv, OnePlace, NotTwice, BackToReady, Parked
  <2>2. NoTask \notin ready
    BY DEF IInv, TypeOK
  <2>3. QED
    BY <1>2, <2>1, <2>2 DEF IInv, OnePlace, ReadyPlace, SendPlace, SendersDistinct,
       NotTwice, FreeUnused, BackToReady, AddToReady, tcbVars, eventVars
<1>4. QueueHasSpace'
  <2>1. ready \in SUBSET Tids /\ t \notin ready
    BY DEF IInv, TypeOK, OnePlace, NotTwice, BackToReady
  <2>2. Cardinality(ready \cup {t}) = Cardinality(ready) + 1
    BY <2>1, AddOne
  <2>3. Cardinality(ready \cup {t}) <= MAX_NUM_TASKS
    BY <2>1
  <2>4. QED
    BY <2>2, <2>3 DEF IInv, QueueHasSpace, BackToReady, AddToReady
<1>5. InterruptCount' /\ NobodyStranded' /\ NoMissedSender' /\ (mode # "NobodyHome")'
  BY DEF IInv, InterruptCount, NobodyStranded, NoMissedSender, BackToReady, eventVars
<1>6. IdlePlace'
  BY DEF IInv, IdlePlace, BackToReady, AddToReady
<1>7. QED
  BY <1>1, <1>3, <1>4, <1>5, <1>6 DEF IInv

\* The machine stops with everything else unchanged.
LEMMA StopIInv ==
  ASSUME IInv, NEW m \in {"WildTcb", "WildEvent", "DoubleAwait"}, Stop(m)
  PROVE  IInv'
<1>1. mode' = m /\ m \in Modes /\ m # "NobodyHome"
  BY DEF Stop, Modes
<1>2. Parked' = Parked /\ \A r \in Tids : Queued(r)' = Queued(r)
  BY DEF Stop, Parked, Queued, eventVars
<1>3. TypeOK' /\ QueueHasSpace' /\ InterruptCount' /\ NobodyStranded' /\ NoMissedSender'
  BY <1>1 DEF IInv, TypeOK, QueueHasSpace, InterruptCount, NobodyStranded,
              NoMissedSender, Stop, tcbVars, eventVars
<1>4. OnePlace'
  BY <1>2 DEF IInv, OnePlace, ReadyPlace, SendPlace, SendersDistinct, NotTwice,
              FreeUnused, Stop, tcbVars, eventVars
<1>5. QED
  BY <1>1, <1>3, <1>4 DEF IInv, IdlePlace

\* The loop ends, on its guard or on Shutdown.
LEMMA ReturnIInv ==
  ASSUME IInv, Return \/ \E t \in Tids : Shutdown(t)
  PROVE  IInv'
<1>1. /\ mode = "running" /\ mode' = "returned" /\ NoReturn
      /\ UNCHANGED <<cur, state, ready, count, want_send, tcbVars, eventVars>>
      /\ cur = NoTask => ~LoopGuard
  BY TidsFacts DEF Return, Shutdown, Calls
<1>2. Parked' = Parked /\ \A r \in Tids : Queued(r)' = Queued(r)
  BY <1>1 DEF Parked, Queued, eventVars
<1>3. TypeOK' /\ QueueHasSpace' /\ InterruptCount' /\ NobodyStranded' /\ NoMissedSender'
  BY <1>1 DEF IInv, TypeOK, QueueHasSpace, InterruptCount, NobodyStranded, Modes,
              NoMissedSender, NoReturn, NoRet, tcbVars, eventVars
<1>4. OnePlace'
  BY <1>1, <1>2 DEF IInv, OnePlace, ReadyPlace, SendPlace, SendersDistinct, NotTwice,
              FreeUnused, tcbVars, eventVars
<1>5. IdlePlace'
  BY <1>1 DEF IInv, IdlePlace, LoopGuard, NoTask, Idle, eventVars
<1>6. QED
  BY <1>1, <1>3, <1>4, <1>5 DEF IInv

LEMMA CreateIInv ==
  ASSUME IInv, NEW t \in Tids, NEW p \in Priorities, Create(t, p)
  PROVE  IInv'
<1> USE TidsFacts
<1>1. /\ free_tcb \in Tids /\ state[free_tcb] = "ZOMBIE" /\ free_tcb # t
      /\ state[t] = "READY"
  BY KernelAssumption
     DEF IInv, TypeOK, OnePlace, FreeUnused, ReadyPlace, Create, Calls, Tids
<1>2. t \notin ready /\ t \notin Parked /\ free_tcb \notin ready /\ free_tcb \notin Parked
  BY <1>1 DEF IInv, OnePlace, NotTwice, ReadyPlace, Create, Calls
<1>3. Parked' = Parked /\ \A r \in Tids : Queued(r)' = Queued(r)
  BY DEF Create, Parked, Queued, eventVars
<1>y. \A u \in Tids : state'[u] = IF u = free_tcb THEN "READY" ELSE state[u]
  BY DEF Create, IInv, TypeOK
<1>4. TypeOK'
  <2>1. ret' \in [Tids -> Int]
    BY <1>1 DEF Create, SetReturn, NoRet, Tids
  <2>7. /\ mode' = "running" /\ cur' = NoTask /\ ready' = ready \cup {free_tcb, t}
        /\ count' = count + 2 /\ free_tcb' = free_tcb + 1 /\ free_tcb < MAX_NUM_TASKS
    BY DEF Create, AddToReady, LoopAgain
  <2>8. ready \in SUBSET Tids /\ count \in Int /\ free_tcb \in 2 .. MAX_NUM_TASKS
    BY DEF IInv, TypeOK
  <2>2. free_tcb' \in 2 .. MAX_NUM_TASKS /\ p \in Int
    BY <2>7, <2>8, KernelAssumption
  <2>3. /\ mode' \in Modes /\ cur' \in Tids \cup {NoTask} /\ ready' \in SUBSET Tids
        /\ count' \in Int
    BY <1>1, <2>7, <2>8 DEF Modes
  <2>4. state' \in [Tids -> TaskStates] /\ priority' \in [Tids -> Int]
    BY <1>1, <2>2 DEF IInv, TypeOK, Create, TaskStates
  <2>5. parentTid' \in [Tids -> Tids \cup {NoTask}]
    BY <1>1 DEF IInv, TypeOK, Create
  <2>6. QED
    BY <2>1, <2>2, <2>3, <2>4, <2>5 DEF IInv, TypeOK, Create, eventVars
<1>5. OnePlace'
  <2>1. NoTask \notin Parked /\ NoTask \notin ready
    BY DEF Parked, IInv, TypeOK
  <2>2. ready' = ready \cup {free_tcb, t} /\ cur' = NoTask /\ cur = t
    BY DEF Create, Calls, AddToReady, LoopAgain
  <2>7. ReadyPlace'
    BY <1>1, <1>3, <1>y, <2>2 DEF IInv, OnePlace, ReadyPlace
  <2>8. NotTwice'
    BY <1>1, <1>2, <1>3, <2>1, <2>2 DEF IInv, OnePlace, NotTwice, Create, eventVars
  <2>3. SendPlace' /\ SendersDistinct'
    BY <1>1, <1>3, <1>y DEF IInv, OnePlace, SendPlace, SendersDistinct, Create
  <2>4. FreeUnused'
    BY <1>1 DEF IInv, OnePlace, FreeUnused, Create, TypeOK, Tids
  <2>5. QED
    BY <2>7, <2>8, <2>3, <2>4 DEF OnePlace
<1>6. QueueHasSpace'
  <2>1. ready \in SUBSET Tids /\ ready \cup {t} \in SUBSET Tids
    BY DEF IInv, TypeOK
  <2>2. Cardinality(ready \cup {t}) = Cardinality(ready) + 1
    BY <1>2, <2>1, AddOne
  <2>3. Cardinality((ready \cup {t}) \cup {free_tcb}) = Cardinality(ready) + 2
    BY <1>1, <1>2, <2>1, <2>2, AddOne
  <2>4. ready' = (ready \cup {t}) \cup {free_tcb} /\ ready' \in SUBSET Tids
    BY <1>1, <2>1 DEF Create, AddToReady
  <2>5. QED
    BY <2>3, <2>4 DEF IInv, QueueHasSpace, Create, AddToReady
<1>7. InterruptCount' /\ NobodyStranded'
  BY DEF IInv, InterruptCount, NobodyStranded, Create, eventVars
<1>8. NoMissedSender' /\ IdlePlace' /\ (mode # "NobodyHome")'
  BY <1>1 DEF IInv, NoMissedSender, IdlePlace, Create, Calls, AddToReady, LoopAgain,
              TypeOK
<1>9. QED
  BY <1>4, <1>5, <1>6, <1>7, <1>8 DEF IInv

LEMMA ExitIInv == ASSUME IInv, NEW t \in Tids, Exit(t) PROVE IInv'
<1> USE TidsFacts
<1>1. state[t] = "READY" /\ t \notin ready /\ t \notin Parked
  BY DEF IInv, OnePlace, ReadyPlace, NotTwice, Exit, Calls
<1>2. Parked' = Parked /\ \A r \in Tids : Queued(r)' = Queued(r)
  BY DEF Exit, Parked, Queued, eventVars
<1>3. TypeOK'
  BY DEF IInv, TypeOK, Exit, NoReturn, NoRet, LoopAgain, Modes, TaskStates, NoTask,
         tcbVars, eventVars
<1>4. OnePlace'
  <2>1. NoTask \notin Parked /\ NoTask \notin ready
    BY DEF Parked, IInv, TypeOK
  <2>2. ReadyPlace' /\ NotTwice'
    BY <1>1, <1>2, <2>1
       DEF IInv, OnePlace, ReadyPlace, NotTwice, Exit, Calls, LoopAgain, TypeOK, eventVars
  <2>3. SendPlace' /\ SendersDistinct' /\ FreeUnused'
    BY <1>1, <1>2
       DEF IInv, OnePlace, SendPlace, SendersDistinct, FreeUnused, Exit, TypeOK, tcbVars
  <2>4. QED
    BY <2>2, <2>3 DEF OnePlace
<1>5. QueueHasSpace' /\ InterruptCount' /\ NobodyStranded'
  BY DEF IInv, QueueHasSpace, InterruptCount, NobodyStranded, Exit, eventVars
<1>6. NoMissedSender' /\ IdlePlace' /\ (mode # "NobodyHome")'
  BY DEF IInv, NoMissedSender, IdlePlace, Exit, Calls, LoopAgain, TypeOK
<1>7. QED
  BY <1>3, <1>4, <1>5, <1>6 DEF IInv
-----------------------------------------------------------------------------
(* Message passing *)

\* What every action of the running task t starts from.
LEMMA CallerFacts ==
  ASSUME IInv, NEW t \in Tids, Calls(t)
  PROVE  /\ cur = t /\ mode = "running" /\ t # Idle /\ state[t] = "READY"
         /\ t \notin ready /\ t \notin Parked /\ NoTask \notin Parked
         /\ NoTask \notin ready /\ ready \in SUBSET Tids /\ Idle \in ready
BY TidsFacts DEF IInv, TypeOK, OnePlace, ReadyPlace, NotTwice, Calls, Parked, IdlePlace

\* A step that leaves the event table alone keeps what is said of it.
LEMMA EventsUnchanged ==
  ASSUME IInv, UNCHANGED eventVars
  PROVE  InterruptCount' /\ NobodyStranded' /\ Parked' = Parked
BY DEF IInv, InterruptCount, NobodyStranded, Parked, eventVars

\* The count when one absent task is added.
LEMMA AddCount ==
  ASSUME IInv, NEW t \in Tids, t \notin ready, AddToReady({t}, 1)
  PROVE  QueueHasSpace'
<1>1. ready \in SUBSET Tids /\ ready \cup {t} \in SUBSET Tids
  BY DEF IInv, TypeOK
<1>2. Cardinality(ready \cup {t}) = Cardinality(ready) + 1
  BY <1>1, AddOne
<1>3. Cardinality(ready \cup {t}) <= MAX_NUM_TASKS
  BY <1>1, TidsFacts
<1>4. QED
  BY <1>2, <1>3 DEF IInv, QueueHasSpace, AddToReady

LEMMA AppendFacts ==
  ASSUME NEW S, NEW s \in Seq(S), NEW x \in S
  PROVE  /\ Append(s, x) \in Seq(S) /\ Len(s) \in Nat
         /\ DOMAIN s = 1 .. Len(s) /\ DOMAIN Append(s, x) = 1 .. Len(s) + 1
         /\ Append(s, x)[Len(s) + 1] = x
         /\ \A i \in DOMAIN s : Append(s, x)[i] = s[i]
OBVIOUS

LEMMA TailFacts ==
  ASSUME NEW S, NEW s \in Seq(S), s # <<>>
  PROVE  /\ Tail(s) \in Seq(S) /\ Len(s) \in Nat /\ Len(s) > 0 /\ Head(s) \in S
         /\ DOMAIN s = 1 .. Len(s) /\ DOMAIN Tail(s) = 1 .. Len(s) - 1
         /\ Head(s) = s[1] /\ \A i \in DOMAIN Tail(s) : Tail(s)[i] = s[i + 1]
OBVIOUS

LEMMA SendToReceiverIInv ==
  ASSUME IInv, NEW t \in Tids, NEW target \in SendTids, SendToReceiver(t, target)
  PROVE  IInv'
<1>1. Calls(t) /\ target \in Tids /\ state[target] = "RECEIVE" /\ mode' = "running"
      /\ cur' = NoTask /\ ready' = ready \cup {target} /\ count' = count + 1
      /\ want_send' = want_send /\ UNCHANGED tcbVars /\ UNCHANGED eventVars
  BY DEF SendToReceiver, HandleSend, AddToReady, LoopAgain
<1>2. /\ cur = t /\ state[t] = "READY" /\ t \notin ready /\ t \notin Parked
      /\ NoTask \notin Parked /\ NoTask \notin ready /\ ready \in SUBSET Tids
      /\ Idle \in ready
  BY <1>1, CallerFacts
<1>3. target # t /\ target \notin ready /\ target \notin Parked
  BY <1>1, <1>2 DEF IInv, OnePlace, ReadyPlace
<1>4. Parked' = Parked /\ InterruptCount' /\ NobodyStranded'
  BY <1>1, EventsUnchanged
<1>5. /\ \A u \in Tids : state'[u] = IF u = t THEN "REPLY"
                               ELSE IF u = target THEN "READY" ELSE state[u]
      /\ state' \in [Tids -> TaskStates]
  <2>1. state' = [state EXCEPT ![t] = "REPLY", ![target] = "READY"]
    BY DEF SendToReceiver, HandleSend
  <2>2. state \in [Tids -> TaskStates]
    BY DEF IInv, TypeOK
  <2>3. QED
    BY <1>1, <1>3, <2>1, <2>2 DEF TaskStates
<1>6. TypeOK'
  <2>1. ret' \in [Tids -> Int]
    BY DEF SendToReceiver, HandleSend, SetReturn, NoRet, Tids
  <2>2. QED
    BY <1>1, <1>2, <1>5, <2>1 DEF IInv, TypeOK, Modes, tcbVars, eventVars
<1>7. OnePlace'
  <2>1. ReadyPlace'
    BY <1>1, <1>2, <1>3, <1>4, <1>5, TidsFacts DEF IInv, OnePlace, ReadyPlace
  <2>2. NotTwice'
    BY <1>1, <1>2, <1>3, <1>4, TidsFacts DEF IInv, OnePlace, NotTwice, eventVars
  <2>3. SendPlace' /\ SendersDistinct'
    BY <1>1, <1>2, <1>5 DEF IInv, OnePlace, SendPlace, SendersDistinct, Queued
  <2>4. FreeUnused'
    BY <1>1, <1>2, <1>5 DEF IInv, OnePlace, FreeUnused, tcbVars
  <2>5. QED
    BY <2>1, <2>2, <2>3, <2>4 DEF OnePlace
<1>8. QueueHasSpace'
  BY <1>1, <1>3, AddCount DEF AddToReady
<1>9. NoMissedSender' /\ IdlePlace' /\ (mode # "NobodyHome")'
  BY <1>1, <1>2, <1>5 DEF IInv, NoMissedSender, IdlePlace
<1>10. QED
  BY <1>4, <1>6, <1>7, <1>8, <1>9 DEF IInv

LEMMA SendQueuedIInv ==
  ASSUME IInv, NEW t \in Tids, NEW target \in SendTids, SendQueued(t, target)
  PROVE  IInv'
<1>1. Calls(t) /\ target \in Tids /\ state[target] \notin {"ZOMBIE", "RECEIVE"}
      /\ mode' = "running" /\ cur' = NoTask /\ ready' = ready /\ count' = count
      /\ state' = [state EXCEPT ![t] = "SEND"]
      /\ want_send' = [want_send EXCEPT ![target] = Append(@, t)]
      /\ UNCHANGED tcbVars /\ UNCHANGED eventVars
  BY DEF SendQueued, LoopAgain
<1>2. /\ cur = t /\ state[t] = "READY" /\ t \notin ready /\ t \notin Parked
      /\ NoTask \notin Parked /\ NoTask \notin ready /\ ready \in SUBSET Tids
      /\ Idle \in ready
  BY <1>1, CallerFacts
<1>4. Parked' = Parked /\ InterruptCount' /\ NobodyStranded'
  BY <1>1, EventsUnchanged
<1>5. \A u \in Tids : state'[u] = IF u = t THEN "SEND" ELSE state[u]
  BY <1>1 DEF IInv, TypeOK
<1>w. /\ want_send[target] \in Seq(Tids)
      /\ \A r \in Tids : want_send'[r] = IF r = target THEN Append(want_send[target], t)
                                                       ELSE want_send[r]
  BY <1>1 DEF IInv, TypeOK
<1>d. /\ DOMAIN want_send'[target] = 1 .. Len(want_send[target]) + 1
      /\ DOMAIN want_send[target] = 1 .. Len(want_send[target])
      /\ Len(want_send[target]) \in Nat
      /\ want_send'[target][Len(want_send[target]) + 1] = t
      /\ \A i \in DOMAIN want_send[target] : want_send'[target][i] = want_send[target][i]
  <2>1. want_send'[target] = Append(want_send[target], t)
    BY <1>1, <1>w
  <2>2. /\ DOMAIN Append(want_send[target], t) = 1 .. Len(want_send[target]) + 1
        /\ DOMAIN want_send[target] = 1 .. Len(want_send[target])
        /\ Len(want_send[target]) \in Nat
        /\ Append(want_send[target], t)[Len(want_send[target]) + 1] = t
        /\ \A i \in DOMAIN want_send[target] :
             Append(want_send[target], t)[i] = want_send[target][i]
    BY <1>1, <1>w, AppendFacts
  <2>3. QED
    BY <2>1, <2>2, Zenon
<1>6. TypeOK'
  <2>1. ret' \in [Tids -> Int]
    BY DEF SendQueued, NoReturn, NoRet
  <2>2. state' \in [Tids -> TaskStates]
    BY <1>1 DEF IInv, TypeOK, TaskStates
  <2>3. Append(want_send[target], t) \in Seq(Tids)
    BY <1>w
  <2>4. want_send' \in [Tids -> Seq(Tids)]
    BY <1>1, <2>3 DEF IInv, TypeOK
  <2>5. QED
    BY <1>1, <1>2, <2>1, <2>2, <2>4 DEF IInv, TypeOK, Modes, tcbVars, eventVars
<1>7. OnePlace'
  <2>1. ReadyPlace'
    BY <1>1, <1>2, <1>4, <1>5, TidsFacts DEF IInv, OnePlace, ReadyPlace
  <2>2. NotTwice'
    BY <1>1, <1>2, <1>4, TidsFacts DEF IInv, OnePlace, NotTwice, eventVars
  <2>q. \A r \in Tids : Queued(r)' = IF r = target THEN Queued(r) \cup {t} ELSE Queued(r)
    BY <1>1, <1>w, <1>d DEF Queued
  <2>n. \A r \in Tids : t \notin Queued(r)
    BY <1>2 DEF IInv, OnePlace, SendPlace
  <2>3. SendPlace'
    BY <1>1, <1>5, <2>q, <2>n DEF IInv, OnePlace, SendPlace
  <2>4. SendersDistinct'
    <3> SUFFICES ASSUME NEW r \in Tids, NEW s \in Tids,
                        NEW i \in DOMAIN want_send'[r], NEW j \in DOMAIN want_send'[s],
                        want_send'[r][i] = want_send'[s][j]
                 PROVE  r = s /\ i = j
      BY DEF SendersDistinct
    <3>1. \A q \in Tids : \A k \in DOMAIN want_send[q] : want_send[q][k] # t
      BY <2>n DEF Queued
    <3>2. CASE i \in DOMAIN want_send[r] /\ j \in DOMAIN want_send[s]
      BY <3>2, <1>w, <1>d DEF IInv, OnePlace, SendersDistinct
    <3>3. CASE i \notin DOMAIN want_send[r]
      <4>1. r = target /\ i = Len(want_send[target]) + 1 /\ want_send'[r][i] = t
        BY <3>3, <1>w, <1>d
      <4>2. j \notin DOMAIN want_send[s]
        BY <4>1, <3>1, <1>w, <1>d
      <4>3. s = target /\ j = Len(want_send[target]) + 1
        BY <4>2, <1>w, <1>d
      <4>4. QED
        BY <4>1, <4>3
    <3>4. CASE j \notin DOMAIN want_send[s]
      <4>1. s = target /\ j = Len(want_send[target]) + 1 /\ want_send'[s][j] = t
        BY <3>4, <1>w, <1>d
      <4>2. i \notin DOMAIN want_send[r]
        BY <4>1, <3>1, <1>w, <1>d
      <4>3. r = target /\ i = Len(want_send[target]) + 1
        BY <4>2, <1>w, <1>d
      <4>4. QED
        BY <4>1, <4>3
    <3>5. QED
      BY <3>2, <3>3, <3>4
  <2>5. FreeUnused'
    BY <1>1, <1>2, <1>5 DEF IInv, OnePlace, FreeUnused, tcbVars
  <2>6. QED
    BY <2>1, <2>2, <2>3, <2>4, <2>5 DEF OnePlace
<1>8. QueueHasSpace'
  BY <1>1 DEF IInv, QueueHasSpace
<1>9. NoMissedSender' /\ IdlePlace' /\ (mode # "NobodyHome")'
  BY <1>1, <1>2, <1>5, <1>w DEF IInv, NoMissedSender, IdlePlace
<1>10. QED
  BY <1>4, <1>6, <1>7, <1>8, <1>9 DEF IInv
LEMMA ReceiveQueuedIInv ==
  ASSUME IInv, NEW t \in Tids, ReceiveQueued(t)
  PROVE  IInv'
<1> DEFINE q == want_send[t]
           h == Head(q)
<1>1. Calls(t) /\ q # <<>> /\ mode' = "running" /\ cur' = NoTask
      /\ ready' = ready \cup {t} /\ count' = count + 1
      /\ want_send' = [want_send EXCEPT ![t] = Tail(q)]
      /\ UNCHANGED tcbVars /\ UNCHANGED eventVars
  BY DEF ReceiveQueued, HandleSend, AddToReady, LoopAgain
<1>2. /\ cur = t /\ state[t] = "READY" /\ t \notin ready /\ t \notin Parked
      /\ NoTask \notin Parked /\ NoTask \notin ready /\ ready \in SUBSET Tids
      /\ Idle \in ready
  BY <1>1, CallerFacts
<1>3. q \in Seq(Tids)
  BY DEF IInv, TypeOK
<1>4. Parked' = Parked /\ InterruptCount' /\ NobodyStranded'
  BY <1>1, EventsUnchanged
<1>5. /\ Tail(q) \in Seq(Tids) /\ Len(q) \in Nat /\ Len(q) > 0 /\ h \in Tids
      /\ DOMAIN q = 1 .. Len(q) /\ DOMAIN Tail(q) = 1 .. Len(q) - 1
      /\ h = q[1] /\ \A i \in DOMAIN Tail(q) : Tail(q)[i] = q[i + 1]
  BY <1>1, <1>3, TailFacts
<1>6. \A r \in Tids : want_send'[r] = IF r = t THEN Tail(q) ELSE want_send[r]
  BY <1>1 DEF IInv, TypeOK
<1>7. h \in Queued(t) /\ state[h] = "SEND" /\ h # t /\ h \notin ready /\ h \notin Parked
  <2>1. h \in Queued(t)
    BY <1>5 DEF Queued
  <2>2. state[h] = "SEND"
    BY <1>5, <2>1 DEF IInv, OnePlace, SendPlace
  <2>3. QED
    BY <1>2, <1>5, <2>1, <2>2 DEF IInv, OnePlace, ReadyPlace
<1>8. /\ \A u \in Tids : state'[u] = IF u = h THEN "REPLY" ELSE state[u]
      /\ state' \in [Tids -> TaskStates]
  <2>1. state' = [state EXCEPT ![h] = "REPLY", ![t] = "READY"]
    BY DEF ReceiveQueued, HandleSend
  <2>2. state \in [Tids -> TaskStates]
    BY DEF IInv, TypeOK
  <2>3. QED
    BY <1>2, <1>5, <1>7, <2>1, <2>2 DEF TaskStates
<1> HIDE DEF q, h
<1>9. TypeOK'
  <2>1. ret' \in [Tids -> Int]
    BY <1>5 DEF ReceiveQueued, HandleSend, SetReturn, NoRet, Tids, q, h
  <2>2. want_send' \in [Tids -> Seq(Tids)]
    BY <1>1, <1>5 DEF IInv, TypeOK
  <2>3. QED
    BY <1>1, <1>2, <1>8, <2>1, <2>2 DEF IInv, TypeOK, Modes, tcbVars, eventVars
<1>10. OnePlace'
  <2>1. ReadyPlace'
    BY <1>1, <1>2, <1>4, <1>7, <1>8, TidsFacts DEF IInv, OnePlace, ReadyPlace
  <2>2. NotTwice'
    BY <1>1, <1>2, <1>4, TidsFacts DEF IInv, OnePlace, NotTwice, eventVars
  <2>3. \A r \in Tids : \A i \in DOMAIN want_send'[r] :
           \E k \in DOMAIN want_send[r] :
             /\ want_send[r][k] = want_send'[r][i]
             /\ k = IF r = t THEN i + 1 ELSE i
    <3> SUFFICES ASSUME NEW r \in Tids, NEW i \in DOMAIN want_send'[r]
                 PROVE  \E k \in DOMAIN want_send[r] :
                          /\ want_send[r][k] = want_send'[r][i]
                          /\ k = IF r = t THEN i + 1 ELSE i
      OBVIOUS
    <3>1. CASE r # t
      BY <3>1, <1>6
    <3>2. CASE r = t
      <4>1. i \in 1 .. Len(q) - 1 /\ want_send'[r][i] = q[i + 1]
        BY <3>2, <1>5, <1>6
      <4>2. i + 1 \in DOMAIN q
        BY <4>1, <1>5
      <4>3. QED
        BY <3>2, <4>1, <4>2 DEF q
    <3>3. QED
      BY <3>1, <3>2
  <2>4. SendersDistinct'
    <3> SUFFICES ASSUME NEW r \in Tids, NEW s \in Tids,
                        NEW i \in DOMAIN want_send'[r], NEW j \in DOMAIN want_send'[s],
                        want_send'[r][i] = want_send'[s][j]
                 PROVE  r = s /\ i = j
      BY DEF SendersDistinct
    <3>1. PICK k \in DOMAIN want_send[r] : /\ want_send[r][k] = want_send'[r][i]
                                           /\ k = IF r = t THEN i + 1 ELSE i
      BY <2>3
    <3>2. PICK l \in DOMAIN want_send[s] : /\ want_send[s][l] = want_send'[s][j]
                                           /\ l = IF s = t THEN j + 1 ELSE j
      BY <2>3
    <3>3. r = s /\ k = l
      BY <3>1, <3>2 DEF IInv, OnePlace, SendersDistinct
    <3>4. CASE r = t
      <4>1. i \in Int /\ j \in Int
        <5>1. want_send'[t] = Tail(q)
          BY <1>6
        <5>2. i \in DOMAIN Tail(q) /\ j \in DOMAIN Tail(q)
          BY <5>1, <3>3, <3>4, Zenon
        <5>3. QED
          BY <5>2, <1>5
      <4>2. QED
        BY <3>1, <3>2, <3>3, <3>4, <4>1
    <3>5. CASE r # t
      BY <3>1, <3>2, <3>3, <3>5
    <3>6. QED
      BY <3>4, <3>5
  <2>5. \A u \in Tids : u # h => \A r \in Tids : u \in Queued(r)' <=> u \in Queued(r)
    <3> SUFFICES ASSUME NEW u \in Tids, u # h, NEW r \in Tids
                 PROVE  u \in Queued(r)' <=> u \in Queued(r)
      OBVIOUS
    <3>1. u \in Queued(r)' => u \in Queued(r)
      BY <2>3 DEF Queued
    <3>2. ASSUME u \in Queued(r) PROVE u \in Queued(r)'
      <4>1. PICK k \in DOMAIN want_send[r] : want_send[r][k] = u
        BY <3>2 DEF Queued
      <4>2. CASE r # t
        BY <4>1, <4>2, <1>6 DEF Queued
      <4>3. CASE r = t
        <5>1. k \in 1 .. Len(q) /\ q[k] = u /\ k # 1
          BY <4>1, <4>3, <1>5 DEF q
        <5>2. k - 1 \in DOMAIN Tail(q) /\ Tail(q)[k - 1] = u
          BY <5>1, <1>5
        <5>3. QED
          BY <4>3, <5>2, <1>6 DEF Queued
      <4>4. QED
        BY <4>2, <4>3
    <3>3. QED
      BY <3>1, <3>2
  <2>6. \A r \in Tids : h \notin Queued(r)'
    <3> SUFFICES ASSUME NEW r \in Tids, h \in Queued(r)' PROVE FALSE
      OBVIOUS
    <3>1. PICK i \in DOMAIN want_send'[r] : want_send'[r][i] = h
      BY DEF Queued
    <3>2. PICK k \in DOMAIN want_send[r] : /\ want_send[r][k] = want_send'[r][i]
                                           /\ k = IF r = t THEN i + 1 ELSE i
      BY <2>3
    <3>3. 1 \in DOMAIN want_send[t] /\ want_send[t][1] = h
      BY <1>5 DEF q
    <3>4. r = t /\ k = 1
      BY <3>1, <3>2, <3>3 DEF IInv, OnePlace, SendersDistinct
    <3>5. i \in 1 .. Len(q) - 1
      BY <3>4, <1>5, <1>6
    <3>6. QED
      BY <3>2, <3>4, <3>5, <1>5
  <2>7. SendPlace'
    BY <1>5, <1>7, <1>8, <2>5, <2>6 DEF IInv, OnePlace, SendPlace
  <2>8. FreeUnused'
    BY <1>1, <1>5, <1>7, <1>8 DEF IInv, OnePlace, FreeUnused, tcbVars
  <2>9. QED
    BY <2>1, <2>2, <2>4, <2>7, <2>8 DEF OnePlace
<1>11. QueueHasSpace'
  BY <1>1, <1>2, AddCount DEF AddToReady
<1>12. NoMissedSender' /\ IdlePlace' /\ (mode # "NobodyHome")'
  BY <1>1, <1>2, <1>6, <1>8 DEF IInv, NoMissedSender, IdlePlace
<1>13. QED
  BY <1>4, <1>9, <1>10, <1>11, <1>12 DEF IInv

LEMMA ReceiveBlocksIInv ==
  ASSUME IInv, NEW t \in Tids, ReceiveBlocks(t)
  PROVE  IInv'
<1>1. Calls(t) /\ want_send[t] = <<>> /\ mode' = "running" /\ cur' = NoTask
      /\ ready' = ready /\ count' = count /\ want_send' = want_send
      /\ UNCHANGED tcbVars /\ UNCHANGED eventVars
  BY DEF ReceiveBlocks, LoopAgain
<1>2. /\ cur = t /\ state[t] = "READY" /\ t \notin ready /\ t \notin Parked
      /\ NoTask \notin Parked /\ NoTask \notin ready /\ ready \in SUBSET Tids
      /\ Idle \in ready
  BY <1>1, CallerFacts
<1>3. /\ \A u \in Tids : state'[u] = IF u = t THEN "RECEIVE" ELSE state[u]
      /\ state' \in [Tids -> TaskStates]
  BY DEF ReceiveBlocks, IInv, TypeOK, TaskStates
<1>4. Parked' = Parked /\ InterruptCount' /\ NobodyStranded'
  BY <1>1, EventsUnchanged
<1>5. TypeOK'
  <2>1. ret' \in [Tids -> Int]
    BY DEF ReceiveBlocks, NoReturn, NoRet
  <2>2. QED
    BY <1>1, <1>2, <1>3, <2>1 DEF IInv, TypeOK, Modes, tcbVars, eventVars
<1>6. OnePlace'
  <2>1. ReadyPlace'
    BY <1>1, <1>2, <1>3, <1>4, TidsFacts DEF IInv, OnePlace, ReadyPlace
  <2>2. NotTwice'
    BY <1>1, <1>2, <1>4, TidsFacts DEF IInv, OnePlace, NotTwice, eventVars
  <2>3. SendPlace' /\ SendersDistinct'
    BY <1>1, <1>2, <1>3 DEF IInv, OnePlace, SendPlace, SendersDistinct, Queued
  <2>4. FreeUnused'
    BY <1>1, <1>2, <1>3 DEF IInv, OnePlace, FreeUnused, tcbVars
  <2>5. QED
    BY <2>1, <2>2, <2>3, <2>4 DEF OnePlace
<1>7. QueueHasSpace' /\ NoMissedSender' /\ IdlePlace' /\ (mode # "NobodyHome")'
  BY <1>1, <1>2, <1>3 DEF IInv, QueueHasSpace, NoMissedSender, IdlePlace
<1>8. QED
  BY <1>4, <1>5, <1>6, <1>7 DEF IInv

LEMMA ReplyDeliveredIInv ==
  ASSUME IInv, NEW t \in Tids, NEW target \in ReplyTids, ReplyDelivered(t, target)
  PROVE  IInv'
<1>1. Calls(t) /\ target \in Tids /\ state[target] = "REPLY" /\ mode' = "running"
      /\ cur' = NoTask /\ ready' = ready \cup {target, t} /\ count' = count + 2
      /\ want_send' = want_send /\ UNCHANGED tcbVars /\ UNCHANGED eventVars
  BY DEF ReplyDelivered, AddToReady, LoopAgain
<1>2. /\ cur = t /\ state[t] = "READY" /\ t \notin ready /\ t \notin Parked
      /\ NoTask \notin Parked /\ NoTask \notin ready /\ ready \in SUBSET Tids
      /\ Idle \in ready
  BY <1>1, CallerFacts
<1>3. target # t /\ target \notin ready /\ target \notin Parked
  BY <1>1, <1>2 DEF IInv, OnePlace, ReadyPlace
<1>4. Parked' = Parked /\ InterruptCount' /\ NobodyStranded'
  BY <1>1, EventsUnchanged
<1>5. /\ \A u \in Tids : state'[u] = IF u = target THEN "READY" ELSE state[u]
      /\ state' \in [Tids -> TaskStates]
  BY <1>1 DEF ReplyDelivered, IInv, TypeOK, TaskStates
<1>6. TypeOK'
  <2>1. ret' \in [Tids -> Int]
    BY DEF ReplyDelivered, SetReturn, NoRet
  <2>2. count' \in Int /\ ready' \in SUBSET Tids
    BY <1>1, <1>2 DEF IInv, TypeOK
  <2>3. QED
    BY <1>1, <1>2, <1>5, <2>1, <2>2 DEF IInv, TypeOK, Modes, tcbVars, eventVars
<1>7. OnePlace'
  <2>1. ReadyPlace'
    BY <1>1, <1>2, <1>3, <1>4, <1>5, TidsFacts DEF IInv, OnePlace, ReadyPlace
  <2>2. NotTwice'
    BY <1>1, <1>2, <1>3, <1>4, TidsFacts DEF IInv, OnePlace, NotTwice, eventVars
  <2>3. SendPlace' /\ SendersDistinct'
    BY <1>1, <1>2, <1>5 DEF IInv, OnePlace, SendPlace, SendersDistinct, Queued
  <2>4. FreeUnused'
    BY <1>1, <1>2, <1>5 DEF IInv, OnePlace, FreeUnused, tcbVars
  <2>5. QED
    BY <2>1, <2>2, <2>3, <2>4 DEF OnePlace
<1>8. QueueHasSpace'
  <2>1. ready \cup {t} \in SUBSET Tids /\ target \notin ready \cup {t}
    BY <1>2, <1>3
  <2>2. Cardinality(ready \cup {t}) = Cardinality(ready) + 1
    BY <1>2, AddOne
  <2>3. Cardinality((ready \cup {t}) \cup {target}) = Cardinality(ready \cup {t}) + 1
    BY <1>1, <2>1, AddOne
  <2>4. ready' = (ready \cup {t}) \cup {target} /\ ready' \in SUBSET Tids
    BY <1>1, <2>1
  <2>5. Cardinality(ready) \in Nat /\ Cardinality(ready') <= MAX_NUM_TASKS
    BY <1>2, <2>4, TidsFacts
  <2>6. QED
    BY <1>1, <2>2, <2>3, <2>4, <2>5 DEF IInv, QueueHasSpace
<1>9. NoMissedSender' /\ IdlePlace' /\ (mode # "NobodyHome")'
  BY <1>1, <1>2, <1>5 DEF IInv, NoMissedSender, IdlePlace
<1>10. QED
  BY <1>4, <1>6, <1>7, <1>8, <1>9 DEF IInv
-----------------------------------------------------------------------------
(* Events *)

LEMMA AwaitEventIInv ==
  ASSUME IInv, NEW t \in Tids, NEW e \in Events, AwaitEvent(t, e)
  PROVE  IInv'
<1>1. Calls(t) /\ event_mapping[e] = NoTask /\ mode' = "running" /\ cur' = NoTask
      /\ ready' = ready /\ count' = count /\ state' = state /\ want_send' = want_send
      /\ interrupt_tasks' = interrupt_tasks + 1 /\ UNCHANGED tcbVars
      /\ intr' = intr \cup EnabledBy(e)
      /\ uart1_tx_flag' = IF e = "UART1_TX_INTR" THEN {} ELSE uart1_tx_flag
  BY DEF AwaitEvent, LoopAgain
<1>2. /\ cur = t /\ state[t] = "READY" /\ t \notin ready /\ t \notin Parked
      /\ NoTask \notin Parked /\ NoTask \notin ready /\ ready \in SUBSET Tids
      /\ Idle \in ready
  BY <1>1, CallerFacts
<1>3. /\ \A f \in Events : event_mapping'[f] = IF f = e THEN t ELSE event_mapping[f]
      /\ event_mapping' \in [Events -> Tids \cup {NoTask}]
  BY DEF AwaitEvent, IInv, TypeOK
<1>4. Parked' = Parked \cup {t}
  BY <1>1, <1>3, TidsFacts DEF Parked
<1>5. TypeOK'
  <2>1. ret' \in [Tids -> Int]
    BY DEF AwaitEvent, NoReturn, NoRet
  <2>2. EnabledBy(e) \subseteq Interrupts
    BY DEF EnabledBy, Interrupts, Events
  <2>3. QED
    BY <1>1, <1>2, <1>3, <2>1, <2>2 DEF IInv, TypeOK, Modes, tcbVars
<1>6. OnePlace'
  <2>1. ReadyPlace'
    BY <1>1, <1>2, <1>4, TidsFacts DEF IInv, OnePlace, ReadyPlace
  <2>2. \A f \in Events : event_mapping[f] # t
    BY <1>2, TidsFacts DEF Parked
  <2>3. NotTwice'
    BY <1>1, <1>2, <1>3, <1>4, <2>2, TidsFacts DEF IInv, OnePlace, NotTwice
  <2>4. SendPlace' /\ SendersDistinct' /\ FreeUnused'
    BY <1>1 DEF IInv, OnePlace, SendPlace, SendersDistinct, FreeUnused, Queued, tcbVars
  <2>5. QED
    BY <2>1, <2>3, <2>4 DEF OnePlace
<1>7. InterruptCount'
  <2> DEFINE B == {f \in Events : event_mapping[f] # NoTask}
  <2>1. {f \in Events : event_mapping'[f] # NoTask} = B \cup {e}
    BY <1>3, TidsFacts
  <2>2. e \notin B /\ IsFiniteSet(B)
    BY <1>1, EventsFacts
  <2>3. Cardinality(B \cup {e}) = Cardinality(B) + 1
    BY <2>2, FS_AddElement
  <2>4. interrupt_tasks = Cardinality(B)
    BY DEF IInv, InterruptCount
  <2>5. QED
    BY <1>1, <2>1, <2>3, <2>4 DEF InterruptCount
<1>8. NobodyStranded'
  <2>1. t # NoTask
    BY TidsFacts
  <2>2. CASE e = "TIMER_TICK"
    BY <1>1, <1>3, <2>2 DEF IInv, NobodyStranded, EnabledBy, Events
  <2>3. CASE e = "UART1_RX_INTR"
    BY <1>1, <1>3, <2>1, <2>3 DEF IInv, NobodyStranded, EnabledBy, Events
  <2>4. CASE e = "UART1_TX_INTR"
    BY <1>1, <1>3, <2>1, <2>4 DEF IInv, NobodyStranded, EnabledBy, Events
  <2>5. CASE e = "UART2_TX_HALF_EMPTY"
    BY <1>1, <1>3, <2>1, <2>5 DEF IInv, NobodyStranded, EnabledBy, Events
  <2>6. CASE e = "UART2_RX_INCOMING"
    BY <1>1, <1>3, <2>1, <2>6 DEF IInv, NobodyStranded, EnabledBy, Events
  <2>7. QED
    BY <2>2, <2>3, <2>4, <2>5, <2>6 DEF Events
<1>9. QueueHasSpace' /\ NoMissedSender' /\ IdlePlace' /\ (mode # "NobodyHome")'
  BY <1>1, <1>2 DEF IInv, QueueHasSpace, NoMissedSender, IdlePlace
<1>10. QED
  BY <1>5, <1>6, <1>7, <1>8, <1>9 DEF IInv

\* Every wake_up of the interrupt handler whose result is asserted finds a task.
LEMMA SomebodyHome ==
  ASSUME IInv, NEW uart1 \in SUBSET (intr \cap Uart1Interrupts),
         NEW uart2 \in SUBSET (intr \cap Uart2Interrupts), NEW cts \in BOOLEAN,
         NEW e \in MustWake(uart1, uart2, cts)
  PROVE  event_mapping[e] # NoTask
<1>1. CASE e = "UART2_RX_INCOMING" /\ Rx2(uart2)
  BY <1>1 DEF IInv, NobodyStranded, Rx2
<1>2. CASE e = "UART2_TX_HALF_EMPTY" /\ "UART2TXINTR" \in uart2
  BY <1>2 DEF IInv, NobodyStranded
<1>3. CASE e = "UART1_RX_INTR" /\ "UART1RXINTR" \in uart1
  BY <1>3 DEF IInv, NobodyStranded
<1>4. CASE e = "UART1_TX_INTR" /\ Tx1(uart1, cts)
  <2>1. "TX" \in uart1_tx_flag \/ "UART1TXINTR" \in uart1
    BY <1>4 DEF Tx1, Flag, Seen
  <2>2. QED
    BY <1>4, <2>1 DEF IInv, NobodyStranded
<1>5. QED
  BY <1>1, <1>2, <1>3, <1>4 DEF MustWake

LEMMA InterruptIInv == ASSUME IInv, Interrupt PROVE IInv'
<1>1. PICK tick \in BOOLEAN, cts \in BOOLEAN,
           uart1 \in SUBSET (intr \cap Uart1Interrupts),
           uart2 \in SUBSET (intr \cap Uart2Interrupts) : IRQ(tick, uart1, uart2, cts)
  BY DEF Interrupt
<1> DEFINE woken == Woken(tick, uart1, uart2, cts)
           tasks == {event_mapping[e] : e \in woken}
           must  == MustWake(uart1, uart2, cts)
<1>2. /\ mode = "running" /\ cur # NoTask /\ cur' = NoTask
      /\ event_mapping' = [e \in Events |-> IF e \in woken THEN NoTask
                                           ELSE event_mapping[e]]
      /\ interrupt_tasks' = interrupt_tasks - Cardinality(woken)
      /\ intr' = intr \ DisabledBy(uart1, uart2, cts)
      /\ uart1_tx_flag' = IF Tx1(uart1, cts) THEN {} ELSE Flag(uart1, cts)
      /\ ready' = ready \cup (tasks \cup {cur})
      /\ count' = count + (Cardinality(woken) + 1)
      /\ mode' = IF must \subseteq woken THEN "running" ELSE "NobodyHome"
      /\ UNCHANGED <<state, want_send, tcbVars>>
  BY <1>1 DEF IRQ, AddToReady
<1>3. ret' \in [Tids -> Int]
  BY <1>1 DEF IRQ, SetReturn, NoRet
<1>4. must \subseteq woken
  BY SomebodyHome DEF Woken, MustWake
<1>5. /\ woken \subseteq Events /\ IsFiniteSet(woken) /\ Cardinality(woken) \in Nat
      /\ \A e \in woken : event_mapping[e] # NoTask /\ event_mapping[e] \in Tids
  <2>1. woken \subseteq Events /\ \A e \in woken : event_mapping[e] # NoTask
    BY DEF Woken
  <2>2. QED
    BY <2>1, EventsFacts DEF IInv, TypeOK
<1>6. cur \in Tids /\ ready \in SUBSET Tids /\ count \in Int /\ interrupt_tasks \in Int
      /\ cur \notin ready /\ cur \notin Parked /\ ready \cap Parked = {}
      /\ NoTask \notin ready
  BY <1>2, TidsFacts DEF IInv, TypeOK, OnePlace, NotTwice
<1>7. tasks \subseteq Parked /\ tasks \subseteq Tids
  BY <1>5 DEF Parked
<1>8. \A e, f \in Events : event_mapping[e] = event_mapping[f] /\ e # f
                             => event_mapping[e] = NoTask
  BY DEF IInv, OnePlace, NotTwice
<1>9. Parked' = Parked \ tasks
  BY <1>2, <1>5, <1>8, TidsFacts DEF Parked
<1>10. Cardinality(tasks) = Cardinality(woken) /\ IsFiniteSet(tasks)
  <2> DEFINE f == [e \in woken |-> event_mapping[e]]
  <2>1. f \in [woken -> tasks] /\ \A a, b \in woken : f[a] = f[b] => a = b
    BY <1>5, <1>8
  <2>2. \A x \in tasks : \E e \in woken : f[e] = x
    OBVIOUS
  <2>3. f \in Bijection(woken, tasks)
    BY <2>1, <2>2, Fun_IsBij
  <2>4. ExistsBijection(woken, tasks)
    BY <2>3 DEF ExistsBijection
  <2>5. QED
    BY <1>5, <2>4, FS_Bijection
<1> HIDE DEF woken, tasks, must
<1>11. TypeOK'
  <2>1. Flag(uart1, cts) \subseteq {"TX", "CTS"}
    BY DEF Flag, Seen, IInv, TypeOK
  <2>2. uart1_tx_flag' \in SUBSET {"TX", "CTS"} /\ intr' \in SUBSET Interrupts
    BY <1>2, <2>1 DEF IInv, TypeOK
  <2>3. event_mapping' \in [Events -> Tids \cup {NoTask}]
    BY <1>2 DEF IInv, TypeOK
  <2>4. count' \in Int /\ interrupt_tasks' \in Int /\ ready' \in SUBSET Tids
    BY <1>2, <1>5, <1>6, <1>7
  <2>5. QED
    BY <1>2, <1>3, <1>4, <2>2, <2>3, <2>4 DEF IInv, TypeOK, Modes, tcbVars
<1>12. OnePlace'
  <2>1. ReadyPlace'
    BY <1>2, <1>6, <1>7, <1>9, TidsFacts DEF IInv, OnePlace, ReadyPlace
  <2>2. NotTwice'
    <3>1. NoTask \notin Parked
      BY DEF Parked
    <3>2. cur' \notin ready' /\ cur' \notin Parked' /\ ready' \cap Parked' = {}
      BY <1>2, <1>6, <1>7, <1>9, <3>1, TidsFacts
    <3>3. \A e, f \in Events : event_mapping'[e] = event_mapping'[f] /\ e # f
                               => event_mapping'[e] = NoTask
      BY <1>2, <1>8
    <3>4. QED
      BY <3>2, <3>3 DEF NotTwice
  <2>3. SendPlace' /\ SendersDistinct' /\ FreeUnused'
    BY <1>2 DEF IInv, OnePlace, SendPlace, SendersDistinct, FreeUnused, Queued, tcbVars
  <2>4. QED
    BY <2>1, <2>2, <2>3 DEF OnePlace
<1>13. QueueHasSpace'
  <2>1. ready \cup {cur} \in SUBSET Tids /\ (ready \cup {cur}) \cap tasks = {}
    BY <1>6, <1>7
  <2>2. Cardinality(ready \cup {cur}) = Cardinality(ready) + 1
    BY <1>6, AddOne
  <2>3. IsFiniteSet(ready \cup {cur}) /\ Cardinality(ready) \in Nat
    BY <1>6, <2>1, TidsFacts
  <2>4. Cardinality((ready \cup {cur}) \cup tasks)
          = Cardinality(ready \cup {cur}) + Cardinality(tasks) - Cardinality({})
    BY <1>10, <2>1, <2>3, FS_Union
  <2>5. ready' = (ready \cup {cur}) \cup tasks
    BY <1>2
  <2>6. Cardinality(ready') = Cardinality(ready) + 1 + Cardinality(woken)
    BY <1>5, <1>10, <2>2, <2>3, <2>4, <2>5, FS_EmptySet
  <2>7. ready' \in SUBSET Tids
    BY <2>1, <2>5, <1>7
  <2>8. Cardinality(ready') <= MAX_NUM_TASKS
    BY <2>7, TidsFacts
  <2>9. count = Cardinality(ready)
    BY DEF IInv, QueueHasSpace
  <2>10. count' = Cardinality(ready')
    BY <1>2, <1>5, <2>3, <2>6, <2>9
  <2>11. QED
    BY <2>8, <2>10 DEF QueueHasSpace
<1>14. InterruptCount'
  <2> DEFINE B == {f \in Events : event_mapping[f] # NoTask}
  <2>1. {f \in Events : event_mapping'[f] # NoTask} = B \ woken
    BY <1>2
  <2>2. woken \subseteq B /\ IsFiniteSet(B) /\ Cardinality(B) \in Nat
    BY <1>5, EventsFacts
  <2>3. Cardinality(B \ woken) = Cardinality(B) - Cardinality(B \cap woken)
    BY <2>2, FS_Difference
  <2>4. B \cap woken = woken
    BY <2>2
  <2>5. interrupt_tasks = Cardinality(B)
    BY DEF IInv, InterruptCount
  <2>6. QED
    BY <1>2, <2>1, <2>3, <2>4, <2>5 DEF InterruptCount
<1>15. NobodyStranded'
  <2>1. \A e \in Events : event_mapping'[e] = IF e \in woken THEN NoTask
                                              ELSE event_mapping[e]
    BY <1>2
  <2>2. \A e \in Events \ {"TIMER_TICK"} : e \in woken <=> e \in must
    BY <1>4 DEF woken, must, Woken
  <2>3. \A i \in Interrupts : i \in intr' <=> i \in intr /\ i \notin DisabledBy(uart1, uart2, cts)
    BY <1>2
  <2>4. "UART1RXINTR" \in intr' <=> event_mapping'["UART1_RX_INTR"] # NoTask
    BY <2>1, <2>2, <2>3
       DEF IInv, NobodyStranded, must, MustWake, DisabledBy, Events, Interrupts
  <2>5. "UART2TXINTR" \in intr' <=> event_mapping'["UART2_TX_HALF_EMPTY"] # NoTask
    BY <2>1, <2>2, <2>3
       DEF IInv, NobodyStranded, must, MustWake, DisabledBy, Events, Interrupts
  <2>6. /\ "UART2RXINTR" \in intr' <=> event_mapping'["UART2_RX_INCOMING"] # NoTask
        /\ "UART2RTIEINTR" \in intr' <=> event_mapping'["UART2_RX_INCOMING"] # NoTask
    BY <2>1, <2>2, <2>3
       DEF IInv, NobodyStranded, must, MustWake, DisabledBy, Events, Interrupts
  <2>7. /\ "UART1TXINTR" \in intr' <=> "UART1TXINTR" \in intr /\ "TX" \notin Seen(uart1, cts)
        /\ "UART1CTSINTR" \in intr' <=> "UART1CTSINTR" \in intr /\ "CTS" \notin Seen(uart1, cts)
    BY <2>3 DEF DisabledBy, Interrupts
  <2>8. "UART1_TX_INTR" \in woken <=> Tx1(uart1, cts)
    BY <2>2 DEF must, MustWake, Events
  <2>9. /\ "TX" \in Seen(uart1, cts) => "UART1TXINTR" \in intr
        /\ "CTS" \in Seen(uart1, cts) => "UART1CTSINTR" \in intr
        /\ Seen(uart1, cts) \subseteq {"TX", "CTS"}
        /\ uart1 = {} => Seen(uart1, cts) = {}
    BY DEF Seen
  <2>10. IF event_mapping'["UART1_TX_INTR"] = NoTask
       THEN uart1_tx_flag' = {} /\ intr' \cap {"UART1TXINTR", "UART1CTSINTR"} = {}
       ELSE /\ "TX" \in uart1_tx_flag' <=> "UART1TXINTR" \notin intr'
            /\ "CTS" \in uart1_tx_flag' <=> "UART1CTSINTR" \notin intr'
            /\ uart1_tx_flag' # {"TX", "CTS"}
    <3>1. event_mapping'["UART1_TX_INTR"] = IF Tx1(uart1, cts) THEN NoTask
                                             ELSE event_mapping["UART1_TX_INTR"]
      BY <2>1, <2>8 DEF Events
    <3>2. CASE Tx1(uart1, cts)
      <4>1. /\ "TX" \in uart1_tx_flag \/ "TX" \in Seen(uart1, cts)
            /\ "CTS" \in uart1_tx_flag \/ "CTS" \in Seen(uart1, cts)
        BY <3>2 DEF Tx1, Flag
      <4>2. event_mapping["UART1_TX_INTR"] # NoTask
        BY <1>5, <2>8, <3>2
      <4>3. QED
        BY <1>2, <2>7, <3>1, <3>2, <4>1, <4>2 DEF IInv, NobodyStranded
    <3>3. CASE ~Tx1(uart1, cts)
      <4>1. uart1_tx_flag' = uart1_tx_flag \cup Seen(uart1, cts)
        BY <1>2, <3>3 DEF Flag
      <4>2. CASE event_mapping["UART1_TX_INTR"] = NoTask
        BY <2>7, <2>9, <3>1, <3>3, <4>1, <4>2 DEF IInv, NobodyStranded
      <4>3. CASE event_mapping["UART1_TX_INTR"] # NoTask
        <5>1. uart1_tx_flag' # {"TX", "CTS"}
          BY <2>9, <3>3, <4>1, <4>3 DEF Tx1, Flag, IInv, NobodyStranded
        <5>2. QED
          BY <2>7, <2>9, <3>1, <3>3, <4>1, <4>3, <5>1 DEF IInv, NobodyStranded
      <4>4. QED
        BY <4>2, <4>3
    <3>4. QED
      BY <3>2, <3>3
  <2>11. QED
    BY <2>4, <2>5, <2>6, <2>10 DEF NobodyStranded
<1>16. NoMissedSender' /\ IdlePlace' /\ (mode # "NobodyHome")'
  BY <1>2, <1>4 DEF IInv, NoMissedSender, IdlePlace
<1>17. QED
  BY <1>11, <1>12, <1>13, <1>14, <1>15, <1>16 DEF IInv
-----------------------------------------------------------------------------
(* The invariant and its consequences *)

LEMMA NextIInv == IInv /\ [Next]_vars => IInv'
<1> SUFFICES ASSUME IInv, [Next]_vars PROVE IInv'
  OBVIOUS
<1>1. CASE UNCHANGED vars
  <2>1. Parked' = Parked /\ \A r \in Tids : Queued(r)' = Queued(r)
    BY <1>1 DEF vars, Parked, Queued
  <2>2. TypeOK' /\ QueueHasSpace' /\ InterruptCount' /\ NobodyStranded' /\ NoMissedSender'
    BY <1>1 DEF IInv, vars, TypeOK, QueueHasSpace, InterruptCount, NobodyStranded,
                NoMissedSender
  <2>3. OnePlace' /\ IdlePlace' /\ (mode # "NobodyHome")'
    BY <1>1, <2>1 DEF IInv, vars, OnePlace, ReadyPlace, SendPlace, SendersDistinct,
                      NotTwice, FreeUnused, IdlePlace, LoopGuard
  <2>4. QED
    BY <2>2, <2>3 DEF IInv
<1>2. ASSUME NEW t \in Tids, CreateFails(t) \/ MyTid(t) \/ MyParentTid(t) \/ Yield(t)
                             \/ AwaitBreakIdle(t)
      PROVE  IInv'
  <2>1. ret' \in [Tids -> Int]
    BY <1>2 DEF CreateFails, MyTid, MyParentTid, Yield, AwaitBreakIdle, SetReturn,
                NoReturn, NoRet, ENOTASKDESCRIPTORS, IInv, TypeOK, Tids, NoTask
  <2>2. BackToReady(t)
    BY <1>2, <2>1 DEF CreateFails, MyTid, MyParentTid, Yield, AwaitBreakIdle,
                      BackToReady, Calls, LoopAgain
  <2>3. QED
    BY <2>2, BackToReadyIInv
<1>3. ASSUME NEW t \in Tids, NEW target \in Int,
             SendInvalid(t, target) \/ ReplyRefused(t, target)
      PROVE  IInv'
  <2>1. ret' \in [Tids -> Int]
    BY <1>3 DEF SendInvalid, ReplyRefused, SetReturn, NoRet, EINVALIDTID, ENOTREPLYWAIT
  <2>2. BackToReady(t)
    BY <1>3, <2>1 DEF SendInvalid, ReplyRefused, BackToReady, Calls, LoopAgain
  <2>3. QED
    BY <2>2, BackToReadyIInv
<1>4. ASSUME NEW t \in Tids, NEW target \in Int,
             SendWild(t, target) \/ ReplyWild(t, target)
      PROVE  IInv'
  BY <1>4, StopIInv DEF SendWild, ReplyWild
<1>5. ASSUME NEW t \in Tids, NEW e \in Events, AwaitTaken(t, e)
      PROVE  IInv'
  BY <1>5, StopIInv DEF AwaitTaken
<1>6. ASSUME NEW t \in Tids, AwaitWild(t)
      PROVE  IInv'
  BY <1>6, StopIInv DEF AwaitWild
<1>7. CASE Halted
  BY <1>1, <1>7 DEF Halted
<1>8. CASE Next
  BY <1>2, <1>3, <1>4, <1>5, <1>6, <1>7, <1>8, KernelAssumption, DispatchIInv, CreateIInv,
     ExitIInv, ReturnIInv, SendToReceiverIInv, SendQueuedIInv, ReceiveQueuedIInv,
     ReceiveBlocksIInv, ReplyDeliveredIInv, AwaitEventIInv, InterruptIInv
     DEF Next
<1>9. QED
  BY <1>1, <1>8

LEMMA SpecIInv == Spec => []IInv
BY InitIInv, NextIInv, PTL DEF Spec

\* Type correctness of the kernel state, for any number of descriptors.
THEOREM TypeCorrect == Spec => []TypeOK
<1>1. IInv => TypeOK
  BY DEF IInv
<1>2. QED
  BY SpecIInv, <1>1, PTL

\* No task is lost or in two places, whatever the user programs do: the lists of
\* main.c and task.c can share the next pointer of the TCB.
THEOREM TasksInOnePlace == Spec => []OnePlace
<1>1. IInv => OnePlace
  BY DEF IInv
<1>2. QED
  BY SpecIInv, <1>1, PTL

\* add_to_ready_queue's KASSERT never fires and count is the size of the queue.
THEOREM ReadyQueueHasSpace == Spec => []QueueHasSpace
<1>1. IInv => QueueHasSpace
  BY DEF IInv
<1>2. QED
  BY SpecIInv, <1>1, PTL

\* interrupt_tasks counts the parked tasks.
THEOREM InterruptTasksCounted == Spec => []InterruptCount
<1>1. IInv => InterruptCount
  BY DEF IInv
<1>2. QED
  BY SpecIInv, <1>1, PTL

\* A task parked on a UART event can still be woken, and an enabled interrupt
\* has a task to wake.
THEOREM NoStrandedNotifier == Spec => []NobodyStranded
<1>1. IInv => NobodyStranded
  BY DEF IInv
<1>2. QED
  BY SpecIInv, <1>1, PTL

\* "Nobody home" and the empty-queue assertion of pop_ready_queue never fire.
THEOREM KernelAssertionsHold == Spec => []KernelAssertsHold
<1>1. IInv => KernelAssertsHold
  BY DEF IInv, IdlePlace, KernelAssertsHold, NoTask, Idle
<1>2. QED
  BY SpecIInv, <1>1, PTL

\* A task blocked in Receive has no sender waiting in its list.
THEOREM ReceiverMissesNobody == Spec => []NoMissedSender
<1>1. IInv => NoMissedSender
  BY DEF IInv
<1>2. QED
  BY SpecIInv, <1>1, PTL

\* kmain leaves its loop exactly when no task but idle can ever run again.
THEOREM ReturnsClean == Spec => []CleanReturn
<1>1. ASSUME IInv, mode = "returned", cur = NoTask
      PROVE  /\ \A t \in Tids \ {Idle} : state[t] # "READY"
             /\ Parked = {}
  <2>1. ~LoopGuard /\ Idle \in ready /\ ready \in SUBSET Tids
    BY <1>1 DEF IInv, IdlePlace, TypeOK
  <2>2. Cardinality(ready \ {Idle}) = Cardinality(ready) - 1
    BY <2>1, DropOne
  <2>3. Cardinality(ready \ {Idle}) \in Nat /\ IsFiniteSet(ready \ {Idle})
    BY <2>1, TidsFacts
  <2>4. Cardinality(ready) <= 1
    BY <1>1, <2>1 DEF LoopGuard, IInv, QueueHasSpace, TypeOK
  <2>10. Cardinality(ready) \in Nat
    BY <2>1, TidsFacts
  <2>11. Cardinality(ready \ {Idle}) = 0
    BY <2>2, <2>3, <2>4, <2>10
  <2>5. ready \ {Idle} = {}
    BY <2>3, <2>11, FS_EmptySet
  <2>6. Cardinality({e \in Events : event_mapping[e] # NoTask}) = 0
    BY <1>1, <2>1 DEF LoopGuard, IInv, InterruptCount
  <2>7. {e \in Events : event_mapping[e] # NoTask} = {}
    BY <2>6, EventsFacts, FS_EmptySet
  <2>8. Parked = {}
    BY <2>7 DEF Parked
  <2>9. QED
    BY <1>1, <2>5, <2>8, TidsFacts DEF IInv, OnePlace, ReadyPlace
<1>2. ASSUME IInv, mode = "running", cur = NoTask, LoopGuard
      PROVE  SomeoneLeft
  <2>1. Idle \in ready /\ ready \in SUBSET Tids
    BY <1>2, TidsFacts DEF IInv, IdlePlace, TypeOK
  <2>2. CASE count > 1
    <3>1. Cardinality(ready \ {Idle}) = Cardinality(ready) - 1
      BY <2>1, DropOne
    <3>2. Cardinality(ready) \in Nat /\ Cardinality(ready) > 1
      BY <1>2, <2>1, <2>2, TidsFacts DEF IInv, QueueHasSpace
    <3>3. Cardinality(ready \ {Idle}) # 0
      BY <3>1, <3>2
    <3>4. ready \ {Idle} # {}
      BY <3>3, FS_EmptySet
    <3>5. PICK t \in ready : t # Idle
      BY <3>4
    <3>6. QED
      BY <1>2, <2>1, <3>5 DEF IInv, OnePlace, ReadyPlace, SomeoneLeft
  <2>3. CASE interrupt_tasks # 0
    <3>1. Cardinality({e \in Events : event_mapping[e] # NoTask}) # 0
      BY <1>2, <2>3 DEF IInv, InterruptCount
    <3>2. {e \in Events : event_mapping[e] # NoTask} # {}
      BY <3>1, FS_EmptySet
    <3>3. PICK e \in Events : event_mapping[e] # NoTask
      BY <3>2
    <3>4. event_mapping[e] \in Parked /\ event_mapping[e] \in Tids
      BY <1>2, <3>3 DEF Parked, IInv, TypeOK
    <3>5. event_mapping[e] # Idle
      BY <1>2, <2>1, <3>4 DEF IInv, OnePlace, NotTwice
    <3>6. QED
      BY <1>2, <3>4, <3>5 DEF IInv, OnePlace, ReadyPlace, SomeoneLeft
  <2>4. QED
    BY <1>2, <2>2, <2>3 DEF LoopGuard
<1>3. IInv => CleanReturn
  BY <1>1, <1>2 DEF CleanReturn, SomeoneLeft
<1>4. QED
  BY SpecIInv, <1>3, PTL
-----------------------------------------------------------------------------
\* RendezvousSteps for one task.
ReleasedRightly(t) ==
  CASE state[t] = "SEND" ->
         /\ state'[t] = "REPLY"
         /\ \E r \in Tids : cur = r /\ ret'[r] = t /\ Head(want_send[r]) = t
    [] state[t] = "RECEIVE" ->
         /\ state'[t] = "READY" /\ t \in ready'
         /\ ret'[t] = cur /\ state'[cur] = "REPLY"
    [] state[t] = "REPLY" ->
         /\ state'[t] = "READY" /\ {t, cur} \subseteq ready' /\ ret'[t] = 0
    [] state[t] = "ZOMBIE" -> t = free_tcb
    [] OTHER -> t = cur

LEMMA StateChange ==
  ASSUME IInv, Next, NEW u \in Tids, state'[u] # state[u]
  PROVE  ReleasedRightly(u)
<1>1. state \in [Tids -> TaskStates] /\ free_tcb \in Int
  BY DEF IInv, TypeOK
<1>2. ASSUME NEW t \in Tids, NEW p \in Priorities, Create(t, p)
      PROVE  ReleasedRightly(u)
  <2>1. free_tcb \in Tids /\ state[free_tcb] = "ZOMBIE"
    BY <1>2, KernelAssumption DEF IInv, TypeOK, OnePlace, FreeUnused, Create, Tids
  <2>2. u = free_tcb
    BY <1>1, <1>2, <2>1 DEF Create
  <2>3. QED
    BY <2>1, <2>2 DEF ReleasedRightly
<1>3. ASSUME NEW t \in Tids, Exit(t) PROVE ReleasedRightly(u)
  <2>1. cur = t /\ state[t] = "READY"
    BY <1>3, CallerFacts DEF Exit
  <2>2. u = t
    BY <1>1, <1>3 DEF Exit
  <2>3. QED
    BY <2>1, <2>2 DEF ReleasedRightly
<1>4. ASSUME NEW t \in Tids, NEW target \in SendTids, SendToReceiver(t, target)
      PROVE  ReleasedRightly(u)
  <2>1. cur = t /\ state[t] = "READY"
    BY <1>4, CallerFacts DEF SendToReceiver
  <2>2. target \in Tids /\ state[target] = "RECEIVE" /\ target # t
    BY <1>4, <2>1 DEF SendToReceiver
  <2>3. state' = [state EXCEPT ![t] = "REPLY", ![target] = "READY"]
    BY <1>4 DEF SendToReceiver, HandleSend
  <2>4. state'[t] = "REPLY" /\ state'[target] = "READY" /\ (u = t \/ u = target)
    BY <1>1, <2>2, <2>3
  <2>5. target \in ready' /\ ret'[target] = t
    BY <1>4, <2>2 DEF SendToReceiver, HandleSend, SetReturn, AddToReady
  <2>6. QED
    BY <2>1, <2>2, <2>4, <2>5 DEF ReleasedRightly
<1>5. ASSUME NEW t \in Tids, NEW target \in SendTids, SendQueued(t, target)
      PROVE  ReleasedRightly(u)
  <2>1. cur = t /\ state[t] = "READY"
    BY <1>5, CallerFacts DEF SendQueued
  <2>2. u = t
    BY <1>1, <1>5 DEF SendQueued
  <2>3. QED
    BY <2>1, <2>2 DEF ReleasedRightly
<1>6. ASSUME NEW t \in Tids, ReceiveQueued(t) PROVE ReleasedRightly(u)
  <2> DEFINE h == Head(want_send[t])
  <2>1. cur = t /\ state[t] = "READY"
    BY <1>6, CallerFacts DEF ReceiveQueued
  <2>2. h \in Tids /\ 1 \in DOMAIN want_send[t] /\ want_send[t][1] = h
    <3>1. want_send[t] \in Seq(Tids) /\ want_send[t] # <<>>
      BY <1>6 DEF IInv, TypeOK, ReceiveQueued
    <3>2. QED
      BY <3>1, TailFacts
  <2>3. state[h] = "SEND"
    BY <2>2 DEF IInv, OnePlace, SendPlace, Queued
  <2>4. state' = [state EXCEPT ![h] = "REPLY", ![t] = "READY"] /\ ret'[t] = h
    BY <1>6 DEF ReceiveQueued, HandleSend, SetReturn
  <2> HIDE DEF h
  <2>5. u = h /\ state'[h] = "REPLY"
    BY <1>1, <2>1, <2>2, <2>3, <2>4
  <2>6. Head(want_send[t]) = h
    BY DEF h
  <2>7. QED
    BY <2>1, <2>3, <2>4, <2>5, <2>6 DEF ReleasedRightly
<1>7. ASSUME NEW t \in Tids, ReceiveBlocks(t) PROVE ReleasedRightly(u)
  <2>1. cur = t /\ state[t] = "READY"
    BY <1>7, CallerFacts DEF ReceiveBlocks
  <2>2. u = t
    BY <1>1, <1>7 DEF ReceiveBlocks
  <2>3. QED
    BY <2>1, <2>2 DEF ReleasedRightly
<1>8. ASSUME NEW t \in Tids, NEW target \in ReplyTids, ReplyDelivered(t, target)
      PROVE  ReleasedRightly(u)
  <2>1. cur = t /\ target \in Tids /\ state[target] = "REPLY"
    BY <1>8 DEF ReplyDelivered, Calls
  <2>2. u = target /\ state'[target] = "READY"
    BY <1>1, <1>8, <2>1 DEF ReplyDelivered
  <2>3. {target, cur} \subseteq ready' /\ ret'[target] = 0
    BY <1>8, <2>1 DEF ReplyDelivered, SetReturn, AddToReady
  <2>4. QED
    BY <2>1, <2>2, <2>3 DEF ReleasedRightly
<1>9. ASSUME NEW t \in Tids,
             \/ Dispatch(t) \/ CreateFails(t) \/ MyTid(t) \/ MyParentTid(t) \/ Yield(t)
             \/ Shutdown(t) \/ AwaitWild(t) \/ AwaitBreakIdle(t)
      PROVE  FALSE
  BY <1>9 DEF Dispatch, CreateFails, MyTid, MyParentTid, Yield, Shutdown, AwaitWild, Stop,
              AwaitBreakIdle
<1>10. ASSUME NEW t \in Tids, NEW target \in Int,
              \/ SendInvalid(t, target) \/ SendWild(t, target)
              \/ ReplyRefused(t, target) \/ ReplyWild(t, target)
       PROVE  FALSE
  BY <1>10 DEF SendInvalid, SendWild, ReplyRefused, ReplyWild, Stop
<1>11. ASSUME NEW t \in Tids, NEW e \in Events, AwaitEvent(t, e) \/ AwaitTaken(t, e)
       PROVE  FALSE
  BY <1>11 DEF AwaitEvent, AwaitTaken, Stop
<1>12. ~(Return \/ Interrupt \/ Halted)
  <2>1. ~Return /\ ~Halted
    BY DEF Return, Halted, vars
  <2>2. ~Interrupt
    <3> SUFFICES ASSUME Interrupt PROVE state' = state
      OBVIOUS
    <3>1. PICK tick \in BOOLEAN, cts \in BOOLEAN,
               uart1 \in SUBSET (intr \cap Uart1Interrupts),
               uart2 \in SUBSET (intr \cap Uart2Interrupts) :
                 IRQ(tick, uart1, uart2, cts)
      BY DEF Interrupt
    <3>2. QED
      BY <3>1 DEF IRQ
  <2>3. QED
    BY <2>1, <2>2
<1>13. QED
  BY <1>2, <1>3, <1>4, <1>5, <1>6, <1>7, <1>8, <1>9, <1>10, <1>11, <1>12,
     KernelAssumption DEF Next

\* A blocked task is released only by its partner in the send-receive-reply
\* exchange, the oldest sender first, and a dead task by nothing.
THEOREM RendezvousHolds == Spec => RendezvousSteps
<1>1. IInv /\ [Next]_vars =>
        [\A t \in Tids : state'[t] # state[t] => ReleasedRightly(t)]_vars
  BY StateChange
<1>2. QED
  BY SpecIInv, <1>1, PTL DEF Spec, RendezvousSteps, ReleasedRightly
=============================================================================
