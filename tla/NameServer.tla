----------------------------- MODULE NameServer -----------------------------
(***************************************************************************)
(* The name server (src/user/nameserver.c) with its hash table             *)
(* (src/common/hashtable.c), and the names the servers register.  A name   *)
(* is the sequence of its character codes where it is hashed.              *)
(***************************************************************************)
EXTENDS Naturals, Sequences

CONSTANTS Tasks, NoTask

MAX_NAMES == 1000

Codes ==
  [clockserver      |-> <<99, 108, 111, 99, 107, 115, 101, 114, 118, 101, 114>>,
   uart2txserver    |-> <<117, 97, 114, 116, 50, 116, 120, 115, 101, 114, 118, 101, 114>>,
   uart1            |-> <<117, 97, 114, 116, 49>>,
   uart2rxserver    |-> <<117, 97, 114, 116, 50, 114, 120, 115, 101, 114, 118, 101, 114>>,
   trainctl         |-> <<116, 114, 97, 105, 110, 99, 116, 108>>,
   navigationserver |-> <<110, 97, 118, 105, 103, 97, 116, 105, 111, 110, 115, 101, 114, 118, 101, 114>>,
   dispatchserver   |-> <<100, 105, 115, 112, 97, 116, 99, 104, 115, 101, 114, 118, 101, 114>>]

Names == DOMAIN Codes

Hash == [hi : 0 .. 65535, lo : 0 .. 65535]

\* hash * 33 + c, an unsigned long of 32 bits, in halves of 16.
HashStep ==
  [h \in Hash, c \in 0 .. 255 |->
     LET lo == h.lo * 33 + c
         hi == h.hi * 33 + lo \div 65536
     IN  [hi |-> hi % 65536, lo |-> lo % 65536]]

hash_function(key, capacity) ==
  LET hash[i \in 0 .. Len(key)] ==
        IF i = 0 THEN [hi |-> 0, lo |-> 5381] ELSE HashStep[hash[i - 1], key[i]]
      h == hash[Len(key)]
  IN  ((h.hi % capacity) * (65536 % capacity) + h.lo) % capacity

Slot == [n \in Names |-> hash_function(Codes[n], MAX_NAMES)]

\* No two of the names share a slot of the table.
ASSUME SlotsDiffer == \A m, n \in Names : Slot[m] = Slot[n] => m = n

VARIABLES nameserver_tid,   \* whether the name server has set it
          arr,              \* the slots of the table that the names lead to
          known             \* history: the answers to WhoIs

nameserver == <<nameserver_tid, arr, known>>

NSInit ==
  /\ nameserver_tid = FALSE
  /\ arr = [s \in {Slot[n] : n \in Names} |-> NoTask]
  /\ known = {}

\* The name server starts.
Serve ==
  /\ nameserver_tid' = TRUE
  /\ UNCHANGED <<arr, known>>

\* RegisterAs: ht_insert takes the slot, whoever has it.  Without a name server it
\* returns -1, which no caller looks at.
RegisterAs(t, n) ==
  /\ arr' = IF nameserver_tid THEN [arr EXCEPT ![Slot[n]] = t] ELSE arr
  /\ UNCHANGED <<nameserver_tid, known>>

\* Seeded fault: ht_get does not look whether there is anything in the slot.
WhoIsUnchecked(t, n) ==
  /\ nameserver_tid
  /\ known' = known \cup {<<t, n, arr[Slot[n]]>>}
  /\ UNCHANGED <<nameserver_tid, arr>>

\* WhoIs by task t succeeds, or it returns -1 or -2 and WhoIsBlock calls it again.
WhoIs(t, n) ==
  /\ nameserver_tid /\ arr[Slot[n]] # NoTask
  /\ known' = known \cup {<<t, n, arr[Slot[n]]>>}
  /\ UNCHANGED <<nameserver_tid, arr>>

WhoIsFails(n) ==
  /\ ~nameserver_tid \/ arr[Slot[n]] = NoTask
  /\ UNCHANGED nameserver

\* The name server under any calls of any tasks (module Startup has those of the program).
NSNext ==
  \/ Serve
  \/ \E t \in Tasks, n \in Names : RegisterAs(t, n) \/ WhoIs(t, n) \/ WhoIsFails(n)

NSSpec == NSInit /\ [][NSNext]_nameserver

-----------------------------------------------------------------------------
\* Every WhoIs returns the task that has registered the name last: "On return without
\* error it is guaranteed that all WhoIs() calls by any task will return the task id of
\* the caller until the registration is overwritten" (README.md).
Registered == INSTANCE Directory WITH registry <- [n \in Names |-> arr[Slot[n]]]
ImplementsDirectory == Registered!Spec
=============================================================================
