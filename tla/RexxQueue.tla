------------------------------ MODULE RexxQueue ------------------------------
(* The queue manager of the rxapi server                                   *)
(* (rexxapi/server/QueueManager.cpp): named queues and session queues,     *)
(* their items, and the clients that wait for an item.  Every connection   *)
(* has a thread of the server to itself; the manager's lock makes every    *)
(* operation one step, except a pull, which takes the lock piecemeal       *)
(* because it may have to wait.                                            *)
EXTENDS Sequences, FiniteSets, Integers

CONSTANTS
    Names,         \* the names of named queues
    Sessions,      \* the session identifiers
    Processes,     \* the Rexx processes that use a session queue
    Clients,       \* the server threads that pull for a client
    DataQueues,    \* the memory that queues are created in
    Items,         \* the lines that are queued
    None,          \* no queue, no item
    MaxReferences  \* bound on the nesting of a session queue

Keys == Names \cup Sessions

(* DataQueue: the members that matter.  postedCount is zero or not.        *)
Queue == [items: Seq(Items), waiters: Nat, references: Nat, posted: BOOLEAN]

ASSUME QueueConstants ==
    /\ Names \cap Sessions = {}
    /\ None \notin Names \cup Sessions \cup DataQueues \cup Items
    /\ None \notin Queue \cup Seq(Items)
    /\ IsFiniteSet(Clients)
    /\ IsFiniteSet(Processes)
    /\ MaxReferences \in Nat

VARIABLES
    queues,        \* the queue of each name and session, None if missing
    heap,          \* each DataQueue object, None when its memory is free
    sessionQueue,  \* the session each process has open (client side)
    pc,            \* where each pull stands
    at,            \* the DataQueue pointer of each pull
    noWait,        \* whether it returns at once from an empty queue
    hand           \* the item it returned last

tableVars == <<queues, heap>>
pullVars == <<pc, at, noWait, hand>>
vars == <<queues, heap, sessionQueue, pc, at, noWait, hand>>

Places == {"idle", "located", "empty", "registered", "asleep", "woken",
           "pulled", "undefined"}

(* Between addWaiter() and removeWaiter().                                 *)
Registered(c) == pc[c] \in {"registered", "asleep", "woken", "pulled"}

(* A queue as its constructor leaves it.                                   *)
NewQueue == [items |-> <<>>, waiters |-> 0, references |-> 1, posted |-> FALSE]

Init ==
    /\ queues = [k \in Keys |-> None]
    /\ heap = [q \in DataQueues |-> None]
    /\ sessionQueue = [p \in Processes |-> None]
    /\ pc = [c \in Clients |-> "idle"]
    /\ at = [c \in Clients |-> None]
    /\ noWait = [c \in Clients |-> FALSE]
    /\ hand = [c \in Clients |-> None]
-----------------------------------------------------------------------------
(* Locating a queue.                                                       *)

(* The queue k names is q.  A missing session queue is created on the      *)
(* spot, in any free piece of memory.                                      *)
getQueue(k, q) ==
    /\ \/ queues[k] = q
       \/ k \in Sessions /\ queues[k] = None /\ heap[q] = None
    /\ queues' = [queues EXCEPT ![k] = q]

(* The object q, once it has been located.                                 *)
Located(q) == IF heap[q] = None THEN NewQueue ELSE heap[q]

FreshItems ==
    {i \in Items : /\ \A c \in Clients : hand[c] # i
                   /\ \A q \in DataQueues : heap[q] # None =>
                        \A n \in DOMAIN heap[q].items : heap[q].items[n] # i}

(* SysSemaphore::post is a broadcast: whoever is asleep wakes up.          *)
WakeAll(q) ==
    pc' = [c \in Clients |->
             IF at[c] = q /\ pc[c] = "asleep" THEN "woken" ELSE pc[c]]

(* How a mistaken post would look: one of the sleepers is passed over.     *)
WakeOneMutant(q) ==
    LET sleepers == {c \in Clients : at[c] = q /\ pc[c] = "asleep"}
    IN IF sleepers = {} THEN pc' = pc
       ELSE \E c \in sleepers : pc' = [pc EXCEPT ![c] = "woken"]

post(q) == WakeAll(q)

(* checkWaiters(): the semaphore is posted only when somebody waits.       *)
checkWaiters(q, item) ==
    /\ heap' = [heap EXCEPT ![q] =
                  [item EXCEPT !.posted = @ \/ item.waiters > 0]]
    /\ IF item.waiters > 0 THEN post(q) ELSE pc' = pc
-----------------------------------------------------------------------------
(* Operations under the manager's lock.                                    *)

addFifo(k, q, i) ==
    /\ getQueue(k, q)
    /\ checkWaiters(q, [Located(q) EXCEPT !.items = Append(@, i)])
    /\ UNCHANGED <<sessionQueue, at, noWait, hand>>

addLifo(k, q, i) ==
    /\ getQueue(k, q)
    /\ checkWaiters(q, [Located(q) EXCEPT !.items = <<i>> \o @])
    /\ UNCHANGED <<sessionQueue, at, noWait, hand>>

clear(k, q) ==
    /\ getQueue(k, q)
    /\ heap' = [heap EXCEPT ![q] = [Located(q) EXCEPT !.items = <<>>]]
    /\ UNCHANGED <<sessionQueue, pullVars>>

(* Asking for the length of a session queue creates it.                    *)
getSessionQueueCount(s, q) ==
    /\ getQueue(s, q)
    /\ heap' = [heap EXCEPT ![q] = Located(q)]
    /\ UNCHANGED <<sessionQueue, pullVars>>

(* openNamedQueue() and createNamedQueue() with a name that is not in use; *)
(* for a name in use the latter makes up one that is not.                  *)
createNamedQueue(k, q) ==
    /\ queues[k] = None
    /\ heap[q] = None
    /\ queues' = [queues EXCEPT ![k] = q]
    /\ heap' = [heap EXCEPT ![q] = NewQueue]
    /\ UNCHANGED <<sessionQueue, pullVars>>

(* The nesting is forgotten.                                               *)
CreateUncountedMutant(p, s, q) ==
    /\ sessionQueue[p] = None
    /\ getQueue(s, q)
    /\ heap' = [heap EXCEPT ![q] = Located(q)]
    /\ sessionQueue' = [sessionQueue EXCEPT ![p] = s]
    /\ UNCHANGED pullVars

(* A process opens the session queue of its own or of its parent's         *)
(* session: a new queue, or one more reference to the one there is.        *)
createSessionQueue(p, s, q) ==
    /\ sessionQueue[p] = None
    /\ getQueue(s, q)
    /\ heap[q] # None => heap[q].references < MaxReferences
    /\ heap' = [heap EXCEPT ![q] =
                  IF heap[q] = None THEN NewQueue
                  ELSE [heap[q] EXCEPT !.references = @ + 1]]
    /\ sessionQueue' = [sessionQueue EXCEPT ![p] = s]
    /\ UNCHANGED pullVars

(* Only a client that is asleep counts.                                    *)
HasSleepersMutant(q) ==
    \E c \in Clients : at[c] = q /\ pc[c] = "asleep"

hasWaiters(q) == heap[q].waiters > 0

(* Freed, but still in the table.                                          *)
DeleteListedMutant(k, q) == queues' = queues /\ heap' = [heap EXCEPT ![q] = None]

(* Out of the table and freed.                                             *)
Delete(k, q) ==
    /\ queues' = [queues EXCEPT ![k] = None]
    /\ heap' = [heap EXCEPT ![q] = None]

deleteNamedQueue(k, q) ==
    /\ queues[k] = q
    /\ ~hasWaiters(q)
    /\ Delete(k, q)
    /\ UNCHANGED <<sessionQueue, pullVars>>

(* A process closes its session queue when it ends.  A queue in use keeps  *)
(* the reference of the process that has gone.                             *)
deleteSessionQueue(p, s, q) ==
    /\ sessionQueue[p] = s
    /\ queues[s] = q            \* SessionKept: it is there
    /\ sessionQueue' = [sessionQueue EXCEPT ![p] = None]
    /\ \/ hasWaiters(q) /\ UNCHANGED tableVars
       \/ ~hasWaiters(q) /\ heap[q].references = 1 /\ Delete(s, q)
       \/ /\ ~hasWaiters(q) /\ heap[q].references > 1
          /\ heap' = [heap EXCEPT ![q].references = @ - 1]
          /\ UNCHANGED queues
    /\ UNCHANGED pullVars

(* A process is killed: nothing reaches the server.                        *)
killProcess(p) ==
    /\ sessionQueue[p] # None
    /\ sessionQueue' = [sessionQueue EXCEPT ![p] = None]
    /\ UNCHANGED <<tableVars, pullVars>>
-----------------------------------------------------------------------------
(* A pull: every step takes the lock, or the semaphore, for itself.        *)

Goto(c, place) == pc' = [pc EXCEPT ![c] = place]

(* The queue is located; from here on the client holds a bare pointer.     *)
pull(c, k, q, nowait) ==
    /\ pc[c] = "idle"
    /\ getQueue(k, q)
    /\ heap' = [heap EXCEPT ![q] = Located(q)]
    /\ Goto(c, "located")
    /\ at' = [at EXCEPT ![c] = q]
    /\ noWait' = [noWait EXCEPT ![c] = nowait]
    /\ hand' = [hand EXCEPT ![c] = None]
    /\ UNCHANGED sessionQueue

(* The semaphore is cleared, whatever happens next.                        *)
reset(q) == [heap[q] EXCEPT !.posted = FALSE]

(* The item is handed out and stays in the queue.                          *)
KeepFirstMutant(q) == reset(q)

(* The item's taker is uncounted although it may never have been counted.  *)
UncountFirstMutant(q) ==
    [reset(q) EXCEPT !.items = Tail(@), !.waiters = @ - 1]

(* getFirst() takes the item out of the queue.                             *)
getFirst(q) == [reset(q) EXCEPT !.items = Tail(@)]

(* pullData() with an item in the queue.                                   *)
pullItem(c) ==
    LET q == at[c]
    IN /\ pc[c] \in {"located", "woken"}
       /\ heap[q] # None
       /\ heap[q].items # <<>>
       /\ hand' = [hand EXCEPT ![c] = Head(heap[q].items)]
       /\ heap' = [heap EXCEPT ![q] = getFirst(q)]
       /\ IF pc[c] = "located"
          THEN Goto(c, "idle") /\ at' = [at EXCEPT ![c] = None]
          ELSE Goto(c, "pulled") /\ UNCHANGED at
       /\ UNCHANGED <<queues, sessionQueue, noWait>>

(* pullData() with nothing in the queue: QUEUE_EMPTY, the first wait, or   *)
(* the next turn of the waiting loop.                                      *)
pullNothing(c) ==
    LET q == at[c]
    IN /\ pc[c] \in {"located", "woken"}
       /\ heap[q] # None
       /\ heap[q].items = <<>>
       /\ heap' = [heap EXCEPT ![q] = reset(q)]
       /\ \/ /\ pc[c] = "located" /\ noWait[c]
             /\ Goto(c, "idle") /\ at' = [at EXCEPT ![c] = None]
          \/ /\ pc[c] = "located" /\ ~noWait[c]
             /\ Goto(c, "empty") /\ UNCHANGED at
          \/ /\ pc[c] = "woken"
             /\ Goto(c, "registered") /\ UNCHANGED at
       /\ UNCHANGED <<queues, sessionQueue, noWait, hand>>

addWaiter(c) ==
    /\ pc[c] = "empty"
    /\ heap[at[c]] # None
    /\ heap' = [heap EXCEPT ![at[c]].waiters = @ + 1]
    /\ Goto(c, "registered")
    /\ UNCHANGED <<queues, sessionQueue, at, noWait, hand>>

(* The queue was deleted under a client that is not counted yet.  What it  *)
(* does with the freed memory is undefined: it takes no further part.      *)
useDeleted(c) ==
    /\ pc[c] \in {"located", "empty"}
    /\ heap[at[c]] = None
    /\ Goto(c, "undefined")
    /\ UNCHANGED <<tableVars, sessionQueue, at, noWait, hand>>

(* SysSemaphore::wait: on to the item if there was a post, else to sleep.  *)
waitForData(c) ==
    /\ pc[c] = "registered"
    /\ Goto(c, IF heap[at[c]].posted THEN "woken" ELSE "asleep")
    /\ UNCHANGED <<tableVars, sessionQueue, at, noWait, hand>>

(* wait() does not look again when pthread_cond_wait() returns.            *)
wakeSpuriously(c) ==
    /\ pc[c] = "asleep"
    /\ Goto(c, "woken")
    /\ UNCHANGED <<tableVars, sessionQueue, at, noWait, hand>>

(* The client leaves without being uncounted.                              *)
LeaveCountedMutant(c) ==
    /\ pc[c] = "pulled"
    /\ Goto(c, "idle")
    /\ at' = [at EXCEPT ![c] = None]
    /\ UNCHANGED <<tableVars, sessionQueue, noWait, hand>>

removeWaiter(c) ==
    /\ pc[c] = "pulled"
    /\ heap' = [heap EXCEPT ![at[c]].waiters = @ - 1]
    /\ Goto(c, "idle")
    /\ at' = [at EXCEPT ![c] = None]
    /\ UNCHANGED <<queues, sessionQueue, noWait, hand>>
-----------------------------------------------------------------------------
Add(k, q) == \E i \in FreshItems : addFifo(k, q, i) \/ addLifo(k, q, i)

Named(k, q) == createNamedQueue(k, q) \/ deleteNamedQueue(k, q)

Session(s, q) ==
    \/ getSessionQueueCount(s, q)
    \/ \E p \in Processes :
          createSessionQueue(p, s, q) \/ deleteSessionQueue(p, s, q)

Pulling(c) ==
    \/ pullItem(c) \/ pullNothing(c) \/ addWaiter(c) \/ useDeleted(c)
    \/ waitForData(c) \/ wakeSpuriously(c) \/ removeWaiter(c)

Next ==
    \/ \E q \in DataQueues, k \in Keys :
          \/ Add(k, q)
          \/ clear(k, q)
          \/ \E c \in Clients, nowait \in BOOLEAN : pull(c, k, q, nowait)
    \/ \E q \in DataQueues, k \in Names : Named(k, q)
    \/ \E q \in DataQueues, s \in Sessions : Session(s, q)
    \/ \E p \in Processes : killProcess(p)
    \/ \E c \in Clients : Pulling(c)

Spec == Init /\ [][Next]_vars
-----------------------------------------------------------------------------
(* Properties.                                                             *)

(* Every variable has its type.  The counters are naturals: neither the    *)
(* waiters nor the references of a queue are ever taken below zero, where  *)
(* size_t would wrap.                                                      *)
TypeOK ==
    /\ queues \in [Keys -> DataQueues \cup {None}]
    /\ heap \in [DataQueues -> Queue \cup {None}]
    /\ sessionQueue \in [Processes -> Sessions \cup {None}]
    /\ pc \in [Clients -> Places]
    /\ at \in [Clients -> DataQueues \cup {None}]
    /\ noWait \in [Clients -> BOOLEAN]
    /\ hand \in [Clients -> Items \cup {None}]

RegisteredAt(q) == {c \in Clients : at[c] = q /\ Registered(c)}

(* The waiters of a queue are exactly the clients inside its waiting loop: *)
(* with one too few an item arrives and nobody is posted, with one too     *)
(* many the queue can never be deleted again.                              *)
WaitersExact ==
    \A q \in DataQueues :
        heap[q] # None => heap[q].waiters = Cardinality(RegisteredAt(q))

(* A client in the waiting loop never loses its queue: whatever others     *)
(* create and delete meanwhile, the object it points at is alive and is    *)
(* still what some name or session means, so an item can still reach it.   *)
WaiterKeepsQueue ==
    \A c \in Clients : Registered(c) =>
        /\ heap[at[c]] # None
        /\ \E k \in Keys : queues[k] = at[c]

(* An object is in the tables exactly once while it lives and not at all   *)
(* once it is freed: no queue is shared by two names, leaked, or found     *)
(* after its deletion.                                                     *)
QueuesInTable ==
    \A q \in DataQueues :
        Cardinality({k \in Keys : queues[k] = q}) = IF heap[q] = None THEN 0 ELSE 1

(* Nobody sleeps through a post: while a client is asleep its semaphore is *)
(* not posted, although pulls by others clear it unconditionally and       *)
(* several clients sleep on one semaphore.                                 *)
SleepersUnposted ==
    \A c \in Clients : pc[c] = "asleep" => ~heap[at[c]].posted

Users(s) == {p \in Processes : sessionQueue[p] = s}

(* A session queue lives as long as a process has it open, and carries at  *)
(* least one reference for each: the end of one process never takes away   *)
(* the queue, and the lines in it, of another that shares the session.     *)
SessionKept ==
    \A s \in Sessions : Users(s) # {} =>
        /\ queues[s] # None
        /\ heap[queues[s]].references >= Cardinality(Users(s))

(* The comment on checkWaiters() (QueueManager.hpp:134-135): processes     *)
(* that wait on the queue are woken up to get an item.  No client sleeps   *)
(* while its queue has an item that no other client is on its way to.      *)
NobodySleepsOnMail ==
    \A c \in Clients : pc[c] = "asleep" =>
        \/ heap[at[c]].items = <<>>
        \/ \E d \in Clients : at[d] = at[c] /\ pc[d] # "asleep"

Mailbox == INSTANCE RexxMailbox WITH
    mail <- [k \in Keys |->
               IF queues[k] = None THEN None ELSE heap[queues[k]].items]

(* The queue manager is a set of mailboxes: every item that is added is    *)
(* taken out once, by one client, from the front, and nothing but a pull,  *)
(* a clear or a deletion takes it away, however pulls interleave with the  *)
(* other operations.                                                       *)
ImplementsMailbox == Mailbox!MailboxSpec
=============================================================================
