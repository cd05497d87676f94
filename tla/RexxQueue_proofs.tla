--------------------------- MODULE RexxQueue_proofs ---------------------------
(* The waiter counts of the queue manager are exact and no queue is        *)
(* deleted under a client in its waiting loop, and nobody sleeps at a      *)
(* posted queue, for any number of clients, processes and queues.          *)
EXTENDS RexxQueue, FiniteSetTheorems, TLAPS

(* A client in a pull has a pointer ...                                    *)
Pointers == \A c \in Clients : pc[c] # "idle" => at[c] \in DataQueues

(* ... which is good while it is registered.                               *)
WaitersHold == \A c \in Clients : Registered(c) => heap[at[c]] # None

(* The tables list the living queues, each once.                           *)
TablesSound ==
    /\ \A k \in Keys : queues[k] # None => heap[queues[k]] # None
    /\ \A k, l \in Keys : queues[k] = queues[l] /\ queues[k] # None => k = l
    /\ \A q \in DataQueues : heap[q] # None => \E k \in Keys : queues[k] = q

Inv == TypeOK /\ Pointers /\ WaitersHold /\ TablesSound /\ WaitersExact

(* A step that brings no client into a waiting loop, nor out of one.       *)
SameWaiters ==
    \A c \in Clients :
        /\ Registered(c)' <=> Registered(c)
        /\ Registered(c) => at'[c] = at[c]

(* The clients registered at a queue are finitely many.                    *)
LEMMA RegisteredFinite ==
    ASSUME NEW q
    PROVE  /\ IsFiniteSet(RegisteredAt(q))
           /\ Cardinality(RegisteredAt(q)) \in Nat
           /\ Cardinality(RegisteredAt(q)) = 0 <=> RegisteredAt(q) = {}
<1>1. RegisteredAt(q) \subseteq Clients
  BY DEF RegisteredAt
<1>2. IsFiniteSet(RegisteredAt(q))
  BY <1>1, FS_Subset, QueueConstants
<1> QED  BY <1>2, FS_CardinalityType, FS_EmptySet

(* Such a step leaves the set of registered clients of every queue alone.  *)
LEMMA SameRegistered ==
    ASSUME SameWaiters, NEW q
    PROVE  RegisteredAt(q)' = RegisteredAt(q)
BY DEF SameWaiters, RegisteredAt, Registered

(* An operation that creates its queue, or changes it without touching the *)
(* count of waiters (add, clear, create, nest, the first step of a pull).  *)
LEMMA OperationKeeps ==
    ASSUME Inv, SameWaiters,
           NEW k \in Keys, NEW q \in DataQueues, NEW r \in Queue,
           \/ queues[k] = q
           \/ queues[k] = None /\ heap[q] = None,
           queues' = [queues EXCEPT ![k] = q],
           heap' = [heap EXCEPT ![q] = r],
           r.waiters = Located(q).waiters
    PROVE  WaitersHold' /\ TablesSound' /\ WaitersExact'
<1> USE QueueConstants DEF Inv
<1>1. queues \in [Keys -> DataQueues \cup {None}] /\ heap \in [DataQueues -> Queue \cup {None}]
  BY DEF TypeOK
<1>2. r # None /\ q # None
  OBVIOUS
<1>3. WaitersHold'
  BY <1>1, <1>2 DEF WaitersHold, SameWaiters, Pointers, Registered
<1>4. TablesSound'
  BY <1>1, <1>2 DEF TablesSound
<1>5. WaitersExact'
  <2> SUFFICES ASSUME NEW p \in DataQueues, heap'[p] # None
               PROVE  heap'[p].waiters = Cardinality(RegisteredAt(p)')
    BY DEF WaitersExact
  <2>1. RegisteredAt(p)' = RegisteredAt(p)
    BY SameRegistered
  <2>2. CASE heap[p] # None
    BY <1>1, <2>1, <2>2 DEF WaitersExact, Located
  <2>3. CASE heap[p] = None
    <3>1. p = q
      BY <1>1, <2>3
    <3>2. RegisteredAt(p) = {}
      BY <2>3 DEF WaitersHold, RegisteredAt
    <3>3. heap'[p].waiters = 0
      BY <1>1, <2>3, <3>1 DEF Located, NewQueue
    <3> QED  BY <2>1, <3>2, <3>3, FS_EmptySet
  <2> QED  BY <2>2, <2>3
<1> QED  BY <1>3, <1>4, <1>5

(* A queue that is changed in place (pullData, a reference given back).    *)
LEMMA QueueKeeps ==
    ASSUME Inv, SameWaiters, NEW q \in DataQueues, NEW r \in Queue,
           heap[q] # None, UNCHANGED queues,
           heap' = [heap EXCEPT ![q] = r],
           r.waiters = heap[q].waiters
    PROVE  WaitersHold' /\ TablesSound' /\ WaitersExact'
<1>1. PICK k \in Keys : queues[k] = q
  BY DEF Inv, TablesSound
<1>2. queues' = [queues EXCEPT ![k] = q]
  BY <1>1 DEF Inv, TypeOK
<1> QED  BY <1>1, <1>2, OperationKeeps DEF Located

(* A step that touches no queue.                                           *)
LEMMA NothingTouched ==
    ASSUME Inv, SameWaiters, UNCHANGED tableVars
    PROVE  WaitersHold' /\ TablesSound' /\ WaitersExact'
<1>1. queues' = queues /\ heap' = heap
  BY DEF tableVars
<1>2. \A q : RegisteredAt(q)' = RegisteredAt(q)
  BY SameRegistered
<1>3. WaitersHold'
  BY <1>1 DEF Inv, WaitersHold, SameWaiters
<1>4. TablesSound' /\ WaitersExact'
  BY <1>1, <1>2 DEF Inv, TablesSound, WaitersExact
<1> QED  BY <1>3, <1>4

(* A deletion: without waiters nobody is registered there.                 *)
LEMMA DeleteKeeps ==
    ASSUME Inv, NEW k \in Keys, NEW q \in DataQueues,
           queues[k] = q, ~hasWaiters(q), Delete(k, q), UNCHANGED pullVars
    PROVE  WaitersHold' /\ TablesSound' /\ WaitersExact'
<1> USE QueueConstants DEF Inv
<1>1. queues \in [Keys -> DataQueues \cup {None}] /\ heap \in [DataQueues -> Queue \cup {None}]
  BY DEF TypeOK
<1>2. heap[q] # None
  BY DEF TablesSound
<1>3. heap[q].waiters = Cardinality(RegisteredAt(q)) /\ heap[q].waiters = 0
  BY <1>2, RegisteredFinite DEF WaitersExact, hasWaiters
<1>4. RegisteredAt(q) = {}
  BY <1>3, RegisteredFinite
<1>5. pc' = pc /\ at' = at
  BY DEF pullVars
<1>6. WaitersHold'
  BY <1>1, <1>4, <1>5 DEF WaitersHold, RegisteredAt, Registered, Delete, Pointers
<1>7. TablesSound'
  BY <1>1 DEF TablesSound, Delete
<1>8. WaitersExact'
  BY <1>1, <1>5 DEF WaitersExact, RegisteredAt, Registered, Delete
<1> QED  BY <1>6, <1>7, <1>8

-----------------------------------------------------------------------------
(* The operations, one by one.                                             *)

LEMMA LocatedIsQueue ==
    ASSUME TypeOK, NEW q \in DataQueues
    PROVE  Located(q) \in Queue
BY DEF TypeOK, Located, NewQueue, Queue

(* addFifo and addLifo: the new items, and a post if anybody waits.        *)
LEMMA AddKeeps ==
    ASSUME Inv, NEW k \in Keys, NEW q \in DataQueues, NEW s \in Seq(Items),
           getQueue(k, q),
           checkWaiters(q, [Located(q) EXCEPT !.items = s]),
           UNCHANGED <<sessionQueue, at, noWait, hand>>
    PROVE  Inv'
<1> DEFINE item == [Located(q) EXCEPT !.items = s]
           r == [item EXCEPT !.posted = @ \/ item.waiters > 0]
<1>1. Located(q) \in Queue /\ item \in Queue /\ item.waiters = Located(q).waiters
  BY LocatedIsQueue DEF Inv, Queue
<1>2. r \in Queue /\ r.waiters = Located(q).waiters
  BY <1>1, Zenon DEF Queue
<1>3. heap' = [heap EXCEPT ![q] = r]
  BY DEF checkWaiters
<1>4. /\ pc' \in [Clients -> Places]
      /\ \A c \in Clients : pc'[c] # pc[c] => pc[c] = "asleep" /\ pc'[c] = "woken"
  BY DEF checkWaiters, post, WakeAll, Inv, TypeOK, Places
<1>5. SameWaiters
  BY <1>4 DEF SameWaiters, Registered
<1>6. WaitersHold' /\ TablesSound' /\ WaitersExact'
  BY <1>2, <1>3, <1>5, OperationKeeps DEF getQueue
<1>7. TypeOK'
  BY <1>2, <1>3, <1>4 DEF getQueue, Inv, TypeOK
<1>8. Pointers'
  BY <1>4 DEF Pointers, Inv
<1> QED  BY <1>6, <1>7, <1>8 DEF Inv

LEMMA AddStep ==
    ASSUME Inv, NEW k \in Keys, NEW q \in DataQueues, Add(k, q)
    PROVE  Inv'
<1>1. PICK i \in Items : addFifo(k, q, i) \/ addLifo(k, q, i)
  BY DEF Add, FreshItems
<1>2. Located(q) \in Queue
  BY LocatedIsQueue DEF Inv
<1> DEFINE s == Located(q).items
<1>3. s \in Seq(Items) /\ Append(s, i) \in Seq(Items) /\ <<i>> \o s \in Seq(Items)
  BY <1>2 DEF Queue
<1>4. CASE addFifo(k, q, i)
  <2>1. checkWaiters(q, [Located(q) EXCEPT !.items = Append(s, i)])
    BY <1>2, <1>4 DEF addFifo, Queue
  <2> QED  BY <1>3, <1>4, <2>1, AddKeeps DEF addFifo
<1>5. CASE addLifo(k, q, i)
  <2>1. checkWaiters(q, [Located(q) EXCEPT !.items = <<i>> \o s])
    BY <1>2, <1>5 DEF addLifo, Queue
  <2> QED  BY <1>3, <1>5, <2>1, AddKeeps DEF addLifo
<1> QED  BY <1>1, <1>4, <1>5

(* The operations that leave every pull where it is.                       *)
LEMMA TableStep ==
    ASSUME Inv, NEW k \in Keys, NEW q \in DataQueues, NEW r \in Queue,
           \/ queues[k] = q
           \/ queues[k] = None /\ heap[q] = None,
           queues' = [queues EXCEPT ![k] = q],
           heap' = [heap EXCEPT ![q] = r],
           r.waiters = Located(q).waiters,
           sessionQueue' \in [Processes -> Sessions \cup {None}],
           UNCHANGED pullVars
    PROVE  Inv'
<1>1. SameWaiters
  BY DEF SameWaiters, Registered, pullVars
<1>2. WaitersHold' /\ TablesSound' /\ WaitersExact'
  BY <1>1, OperationKeeps
<1>3. TypeOK' /\ Pointers'
  BY DEF Inv, TypeOK, Pointers, pullVars
<1> QED  BY <1>2, <1>3 DEF Inv

LEMMA ClearStep ==
    ASSUME Inv, NEW k \in Keys, NEW q \in DataQueues, clear(k, q)
    PROVE  Inv'
<1> DEFINE r == [Located(q) EXCEPT !.items = <<>>]
<1>0. Located(q) \in Queue
  BY LocatedIsQueue DEF Inv
<1>1. r \in Queue /\ r.waiters = Located(q).waiters
  <2>1. \A e \in Seq(Items) :
          LET m == [Located(q) EXCEPT !.items = e]
          IN  m \in Queue /\ m.waiters = Located(q).waiters
    BY <1>0 DEF Queue
  <2>2. <<>> \in Seq(Items)
    OBVIOUS
  <2> QED  BY <2>1, <2>2
<1>2. sessionQueue' \in [Processes -> Sessions \cup {None}]
  BY DEF clear, Inv, TypeOK
<1> QED  BY <1>1, <1>2, TableStep DEF clear, getQueue

LEMMA NamedStep ==
    ASSUME Inv, NEW k \in Names, NEW q \in DataQueues, Named(k, q)
    PROVE  Inv'
<1>1. k \in Keys
  BY DEF Keys
<1>2. sessionQueue' \in [Processes -> Sessions \cup {None}]
  BY DEF Named, createNamedQueue, deleteNamedQueue, Inv, TypeOK
<1>3. CASE createNamedQueue(k, q)
  <2>1. NewQueue \in Queue /\ NewQueue.waiters = Located(q).waiters
    BY <1>3 DEF createNamedQueue, Located, NewQueue, Queue
  <2> QED  BY <1>1, <1>2, <1>3, <2>1, TableStep DEF createNamedQueue
<1>4. CASE deleteNamedQueue(k, q)
  <2>1. WaitersHold' /\ TablesSound' /\ WaitersExact'
    BY <1>1, <1>4, DeleteKeeps DEF deleteNamedQueue
  <2>2. TypeOK' /\ Pointers'
    BY <1>2, <1>4 DEF deleteNamedQueue, Delete, pullVars, Inv, TypeOK, Pointers
  <2> QED  BY <2>1, <2>2 DEF Inv
<1> QED  BY <1>3, <1>4 DEF Named

LEMMA CreateSessionStep ==
    ASSUME Inv, NEW p \in Processes, NEW s \in Sessions, NEW q \in DataQueues,
           createSessionQueue(p, s, q)
    PROVE  Inv'
<1> DEFINE r == IF heap[q] = None THEN NewQueue
                ELSE [heap[q] EXCEPT !.references = @ + 1]
<1>1. s \in Keys
  BY DEF Keys
<1>2. r \in Queue /\ r.waiters = Located(q).waiters
  BY DEF Inv, TypeOK, Located, NewQueue, Queue
<1>3. sessionQueue' \in [Processes -> Sessions \cup {None}]
  BY DEF createSessionQueue, Inv, TypeOK
<1> QED  BY <1>1, <1>2, <1>3, TableStep DEF createSessionQueue, getQueue

LEMMA DeleteSessionStep ==
    ASSUME Inv, NEW p \in Processes, NEW s \in Sessions, NEW q \in DataQueues,
           deleteSessionQueue(p, s, q)
    PROVE  Inv'
<1>1. s \in Keys /\ queues[s] = q /\ UNCHANGED pullVars
  BY DEF Keys, deleteSessionQueue
<1>2. sessionQueue' \in [Processes -> Sessions \cup {None}]
  BY DEF deleteSessionQueue, Inv, TypeOK
<1>3. Pointers'
  BY <1>1 DEF pullVars, Inv, Pointers
<1>4. SameWaiters
  BY <1>1 DEF SameWaiters, Registered, pullVars
<1>5. CASE UNCHANGED tableVars
  <2>1. TypeOK'
    BY <1>1, <1>2, <1>5 DEF Inv, TypeOK, tableVars, pullVars
  <2> QED  BY <1>3, <1>4, <1>5, <2>1, NothingTouched DEF Inv
<1>6. CASE ~hasWaiters(q) /\ Delete(s, q)
  <2>1. TypeOK'
    BY <1>1, <1>2, <1>6 DEF Inv, TypeOK, Delete, pullVars
  <2> QED  BY <1>1, <1>3, <1>6, <2>1, DeleteKeeps DEF Inv
<1>7. CASE /\ heap[q].references > 1
           /\ heap' = [heap EXCEPT ![q].references = @ - 1]
           /\ UNCHANGED queues
  <2> DEFINE r == [heap[q] EXCEPT !.references = @ - 1]
  <2>1. heap[q] \in Queue
    BY <1>1, QueueConstants DEF Inv, TypeOK, TablesSound
  <2>2. r \in Queue /\ r.waiters = heap[q].waiters
    BY <1>7, <2>1 DEF Queue
  <2>3. heap' = [heap EXCEPT ![q] = r] /\ heap[q] # None
    BY <1>7, <2>1, QueueConstants
  <2>4. TypeOK'
    BY <1>1, <1>2, <1>7, <2>2, <2>3 DEF Inv, TypeOK, pullVars
  <2> QED  BY <1>3, <1>4, <1>7, <2>2, <2>3, <2>4, QueueKeeps DEF Inv
<1> QED  BY <1>5, <1>6, <1>7 DEF deleteSessionQueue

LEMMA SessionStep ==
    ASSUME Inv, NEW s \in Sessions, NEW q \in DataQueues, Session(s, q)
    PROVE  Inv'
<1>1. CASE getSessionQueueCount(s, q)
  <2>1. s \in Keys /\ Located(q) \in Queue
    BY LocatedIsQueue DEF Keys, Inv
  <2>2. sessionQueue' \in [Processes -> Sessions \cup {None}]
    BY <1>1 DEF getSessionQueueCount, Inv, TypeOK
  <2> QED  BY <1>1, <2>1, <2>2, TableStep DEF getSessionQueueCount, getQueue
<1> QED  BY <1>1, CreateSessionStep, DeleteSessionStep DEF Session

LEMMA KillStep ==
    ASSUME Inv, NEW p \in Processes, killProcess(p)
    PROVE  Inv'
<1>1. SameWaiters
  BY DEF killProcess, SameWaiters, Registered, pullVars
<1>2. TypeOK' /\ Pointers'
  BY DEF killProcess, pullVars, tableVars, Inv, TypeOK, Pointers
<1> QED  BY <1>1, <1>2, NothingTouched DEF Inv, killProcess
-----------------------------------------------------------------------------
(* The steps of a pull.                                                    *)

LEMMA PullStep ==
    ASSUME Inv, NEW c \in Clients, NEW k \in Keys, NEW q \in DataQueues,
           NEW nowait \in BOOLEAN, pull(c, k, q, nowait)
    PROVE  Inv'
<1>1. SameWaiters
  BY DEF pull, Goto, SameWaiters, Registered, Inv, TypeOK
<1>2. Located(q) \in Queue
  BY LocatedIsQueue DEF Inv
<1>3. WaitersHold' /\ TablesSound' /\ WaitersExact'
  BY <1>1, <1>2, OperationKeeps DEF pull, getQueue
<1>4. TypeOK' /\ Pointers'
  BY <1>2 DEF pull, getQueue, Goto, Inv, TypeOK, Pointers, Places
<1> QED  BY <1>3, <1>4 DEF Inv

LEMMA PullItemStep ==
    ASSUME Inv, NEW c \in Clients, pullItem(c)
    PROVE  Inv'
<1>0. PICK q \in DataQueues : at[c] = q
  BY DEF pullItem, Inv, Pointers
<1> DEFINE r == getFirst(q)
<1>1. heap[q] \in Queue /\ heap[q] # None /\ heap[q].items # <<>>
  BY <1>0 DEF pullItem, Inv, TypeOK, Pointers
<1>2. heap[q].items \in Seq(Items) /\ Head(heap[q].items) \in Items
      /\ Tail(heap[q].items) \in Seq(Items)
  BY <1>1 DEF Queue
<1>3. r \in Queue /\ r.waiters = heap[q].waiters
  BY <1>1, <1>2 DEF getFirst, reset, Queue
<1>4. SameWaiters
  BY DEF pullItem, Goto, SameWaiters, Registered, Inv, TypeOK
<1>5. WaitersHold' /\ TablesSound' /\ WaitersExact'
  BY <1>0, <1>1, <1>3, <1>4, QueueKeeps DEF pullItem
<1>6. TypeOK' /\ Pointers'
  BY <1>0, <1>1, <1>2, <1>3 DEF pullItem, Goto, Inv, TypeOK, Pointers, Places
<1> QED  BY <1>5, <1>6 DEF Inv

LEMMA PullNothingStep ==
    ASSUME Inv, NEW c \in Clients, pullNothing(c)
    PROVE  Inv'
<1>0. PICK q \in DataQueues : at[c] = q
  BY DEF pullNothing, Inv, Pointers
<1> DEFINE r == reset(q)
<1>1. heap[q] \in Queue /\ heap[q] # None
  BY <1>0 DEF pullNothing, Inv, TypeOK, Pointers
<1>2. r \in Queue /\ r.waiters = heap[q].waiters
  BY <1>1 DEF reset, Queue
<1>3. SameWaiters
  BY DEF pullNothing, Goto, SameWaiters, Registered, Inv, TypeOK
<1>4. WaitersHold' /\ TablesSound' /\ WaitersExact'
  BY <1>0, <1>1, <1>2, <1>3, QueueKeeps DEF pullNothing
<1>5. TypeOK' /\ Pointers'
  BY <1>0, <1>1, <1>2 DEF pullNothing, Goto, Inv, TypeOK, Pointers, Places
<1> QED  BY <1>4, <1>5 DEF Inv

(* Nobody enters or leaves a waiting loop, and no queue changes.           *)
LEMMA MoveStep ==
    ASSUME Inv, NEW c \in Clients, NEW place \in Places,
           pc[c] # "idle", Goto(c, place),
           pc[c] \in {"registered", "asleep", "woken", "pulled"} <=>
             place \in {"registered", "asleep", "woken", "pulled"},
           UNCHANGED <<tableVars, sessionQueue, at, noWait, hand>>
    PROVE  Inv'
<1>1. SameWaiters
  BY DEF Goto, SameWaiters, Registered, Inv, TypeOK
<1>2. TypeOK' /\ Pointers'
  BY DEF Goto, tableVars, Inv, TypeOK, Pointers
<1> QED  BY <1>1, <1>2, NothingTouched DEF Inv

(* A client enters the waiting loop of its queue and is counted there.     *)
LEMMA AddWaiterStep ==
    ASSUME Inv, NEW c \in Clients, addWaiter(c)
    PROVE  Inv'
<1> USE QueueConstants DEF Inv
<1>0. PICK q \in DataQueues : at[c] = q
  BY DEF addWaiter, Pointers
<1>1. heap[q] \in Queue /\ heap[q] # None
  BY <1>0 DEF addWaiter, TypeOK, Pointers
<1>2. /\ heap' = [heap EXCEPT ![q] = [heap[q] EXCEPT !.waiters = @ + 1]]
      /\ [heap[q] EXCEPT !.waiters = @ + 1] \in Queue
      /\ pc' = [pc EXCEPT ![c] = "registered"] /\ at' = at
      /\ pc[c] = "empty" /\ queues' = queues
  BY <1>0, <1>1 DEF addWaiter, Goto, Queue
<1>3. TypeOK' /\ Pointers'
  BY <1>0, <1>1, <1>2 DEF addWaiter, TypeOK, Pointers, Places
<1>4. WaitersHold'
  BY <1>0, <1>1, <1>2 DEF WaitersHold, Registered, TypeOK, Pointers
<1>5. TablesSound'
  BY <1>1, <1>2 DEF TablesSound, TypeOK
<1>6. WaitersExact'
  <2> SUFFICES ASSUME NEW p \in DataQueues, heap'[p] # None
               PROVE  heap'[p].waiters = Cardinality(RegisteredAt(p)')
    BY DEF WaitersExact
  <2>1. CASE p = q
    <3>1. RegisteredAt(q)' = RegisteredAt(q) \cup {c} /\ c \notin RegisteredAt(q)
      BY <1>0, <1>2 DEF RegisteredAt, Registered, TypeOK
    <3>2. Cardinality(RegisteredAt(q)') = Cardinality(RegisteredAt(q)) + 1
      BY <3>1, RegisteredFinite, FS_AddElement
    <3>3. heap[q].waiters = Cardinality(RegisteredAt(q))
      BY <1>1 DEF WaitersExact
    <3>4. heap'[q].waiters = heap[q].waiters + 1
      BY <1>1, <1>2 DEF TypeOK, Queue
    <3> QED  BY <2>1, <3>2, <3>3, <3>4
  <2>2. CASE p # q
    <3>1. RegisteredAt(p)' = RegisteredAt(p)
      BY <1>0, <1>2, <2>2 DEF RegisteredAt, Registered, TypeOK
    <3>2. heap'[p] = heap[p]
      BY <1>2, <2>2 DEF TypeOK
    <3> QED  BY <3>1, <3>2 DEF WaitersExact
  <2> QED  BY <2>1, <2>2
<1> QED  BY <1>3, <1>4, <1>5, <1>6

(* It leaves with its item and is uncounted.                               *)
LEMMA RemoveWaiterStep ==
    ASSUME Inv, NEW c \in Clients, removeWaiter(c)
    PROVE  Inv'
<1> USE QueueConstants DEF Inv
<1>0. PICK q \in DataQueues : at[c] = q
  BY DEF removeWaiter, Pointers
<1>1. heap[q] # None /\ heap[q] \in Queue
  BY <1>0 DEF removeWaiter, TypeOK, Pointers, WaitersHold, Registered
<1>2. heap[q].waiters = Cardinality(RegisteredAt(q)) /\ c \in RegisteredAt(q)
  BY <1>0, <1>1 DEF WaitersExact, RegisteredAt, Registered, removeWaiter
<1>3. heap[q].waiters \in Nat /\ heap[q].waiters > 0
  BY <1>1, <1>2, RegisteredFinite DEF Queue
<1>4. /\ heap' = [heap EXCEPT ![q] = [heap[q] EXCEPT !.waiters = @ - 1]]
      /\ [heap[q] EXCEPT !.waiters = @ - 1] \in Queue
      /\ pc' = [pc EXCEPT ![c] = "idle"]
      /\ at' = [at EXCEPT ![c] = None]
      /\ pc[c] = "pulled" /\ queues' = queues
  BY <1>0, <1>1, <1>3 DEF removeWaiter, Goto, Queue
<1>5. TypeOK' /\ Pointers'
  BY <1>1, <1>4 DEF removeWaiter, TypeOK, Pointers, Places
<1>6. WaitersHold'
  BY <1>0, <1>1, <1>4 DEF WaitersHold, Registered, TypeOK, Pointers
<1>7. TablesSound'
  BY <1>1, <1>4 DEF TablesSound, TypeOK
<1>8. WaitersExact'
  <2> SUFFICES ASSUME NEW p \in DataQueues, heap'[p] # None
               PROVE  heap'[p].waiters = Cardinality(RegisteredAt(p)')
    BY DEF WaitersExact
  <2>1. CASE p = q
    <3>1. RegisteredAt(q)' = RegisteredAt(q) \ {c}
      BY <1>0, <1>4 DEF RegisteredAt, Registered, TypeOK
    <3>2. Cardinality(RegisteredAt(q)') = Cardinality(RegisteredAt(q)) - 1
      BY <1>2, <3>1, RegisteredFinite, FS_RemoveElement
    <3>3. heap'[q].waiters = heap[q].waiters - 1
      BY <1>1, <1>4 DEF TypeOK, Queue
    <3> QED  BY <1>2, <2>1, <3>2, <3>3
  <2>2. CASE p # q
    <3>1. RegisteredAt(p)' = RegisteredAt(p)
      BY <1>0, <1>1, <1>4, <2>2 DEF RegisteredAt, Registered, TypeOK
    <3>2. heap'[p] = heap[p]
      BY <1>4, <2>2 DEF TypeOK
    <3> QED  BY <3>1, <3>2 DEF WaitersExact
  <2> QED  BY <2>1, <2>2
<1> QED  BY <1>5, <1>6, <1>7, <1>8

LEMMA PullingStep ==
    ASSUME Inv, NEW c \in Clients, Pulling(c)
    PROVE  Inv'
<1>1. CASE useDeleted(c)
  BY <1>1, MoveStep DEF useDeleted, Places
<1>2. CASE waitForData(c)
  BY <1>2, MoveStep DEF waitForData, Places
<1>3. CASE wakeSpuriously(c)
  BY <1>3, MoveStep DEF wakeSpuriously, Places
<1> QED
  BY <1>1, <1>2, <1>3, PullItemStep, PullNothingStep, AddWaiterStep,
     RemoveWaiterStep DEF Pulling
-----------------------------------------------------------------------------
LEMMA InvInit == Init => Inv
<1> SUFFICES ASSUME Init PROVE Inv
  OBVIOUS
<1> USE QueueConstants DEF Init
<1>1. TypeOK
  BY DEF TypeOK, Places
<1>2. Pointers /\ WaitersHold
  BY DEF Pointers, WaitersHold, Registered
<1>3. TablesSound /\ WaitersExact
  BY DEF TablesSound, WaitersExact
<1> QED  BY <1>1, <1>2, <1>3 DEF Inv

LEMMA InvNext == Inv /\ [Next]_vars => Inv'
<1> SUFFICES ASSUME Inv, [Next]_vars PROVE Inv'
  OBVIOUS
<1>1. CASE UNCHANGED vars
  BY <1>1 DEF vars, Inv, TypeOK, Pointers, WaitersHold, TablesSound,
              WaitersExact, RegisteredAt, Registered
<1>2. CASE Next
  BY <1>2, AddStep, ClearStep, PullStep, NamedStep, SessionStep, KillStep,
     PullingStep DEF Next
<1> QED  BY <1>1, <1>2

LEMMA InvHolds == Spec => []Inv
BY InvInit, InvNext, PTL DEF Spec

(* No counter of a queue is ever taken below zero, and everything has its  *)
(* type, for any clients, processes, names, lines and memory.              *)
THEOREM QueueTypeCorrect == Spec => []TypeOK
<1>1. Inv => TypeOK
  BY DEF Inv
<1> QED  BY <1>1, InvHolds, PTL

(* DataQueue::waiters counts exactly the clients in the waiting loop.      *)
THEOREM WaitersCounted == Spec => []WaitersExact
<1>1. Inv => WaitersExact
  BY DEF Inv
<1> QED  BY <1>1, InvHolds, PTL

(* hasWaiters() is all it takes: a client in the waiting loop of           *)
(* pullFromQueue() keeps its queue, alive and in the tables.               *)
THEOREM WaitersKeepTheirQueue == Spec => []WaiterKeepsQueue
<1>1. Inv => WaiterKeepsQueue
  <2> SUFFICES ASSUME Inv, NEW c \in Clients, Registered(c)
               PROVE  heap[at[c]] # None /\ \E k \in Keys : queues[k] = at[c]
    BY DEF WaiterKeepsQueue
  <2>1. at[c] \in DataQueues /\ heap[at[c]] # None
    BY DEF Inv, Pointers, WaitersHold, Registered
  <2> QED  BY <2>1 DEF Inv, TablesSound
<1> QED  BY <1>1, InvHolds, PTL

(* A queue is in the tables exactly once while it lives, and not at all    *)
(* once it is freed.                                                       *)
THEOREM QueuesAreListed == Spec => []QueuesInTable
<1>1. Inv => QueuesInTable
  <2> SUFFICES ASSUME Inv, NEW q \in DataQueues
               PROVE  Cardinality({k \in Keys : queues[k] = q})
                        = IF heap[q] = None THEN 0 ELSE 1
    BY DEF QueuesInTable
  <2>1. q # None
    BY QueueConstants
  <2>2. CASE heap[q] = None
    <3>1. {k \in Keys : queues[k] = q} = {}
      BY <2>1, <2>2 DEF Inv, TablesSound
    <3> QED  BY <2>2, <3>1, FS_EmptySet
  <2>3. CASE heap[q] # None
    <3>1. PICK l \in Keys : queues[l] = q
      BY <2>3 DEF Inv, TablesSound
    <3>2. {k \in Keys : queues[k] = q} = {l}
      BY <2>1, <3>1 DEF Inv, TablesSound
    <3> QED  BY <2>3, <3>2, FS_Singleton
  <2> QED  BY <2>2, <2>3
<1> QED  BY <1>1, InvHolds, PTL
-----------------------------------------------------------------------------
(* The references of a session queue.                                      *)

LEMMA UsersFinite ==
    ASSUME NEW s
    PROVE  /\ IsFiniteSet(Users(s))
           /\ Cardinality(Users(s)) \in Nat
           /\ Cardinality(Users(s)) = 0 <=> Users(s) = {}
<1>1. Users(s) \subseteq Processes
  BY DEF Users
<1>2. IsFiniteSet(Users(s))
  BY <1>1, FS_Subset, QueueConstants
<1> QED  BY <1>2, FS_CardinalityType, FS_EmptySet

(* Nobody comes and nobody's queue loses a reference.                      *)
LEMMA ReferencesStay ==
    ASSUME Inv, Inv', SessionKept,
           \A p \in Processes : sessionQueue'[p] \in {sessionQueue[p], None},
           \A s \in Sessions : queues[s] # None =>
              /\ queues'[s] = queues[s]
              /\ heap'[queues[s]].references >= heap[queues[s]].references
    PROVE  SessionKept'
<1> SUFFICES ASSUME NEW s \in Sessions, Users(s)' # {}
             PROVE  /\ queues'[s] # None
                    /\ heap'[queues'[s]].references >= Cardinality(Users(s)')
  BY DEF SessionKept
<1>1. Users(s)' \subseteq Users(s)
  BY QueueConstants DEF Users
<1>2. /\ Cardinality(Users(s)') \in Nat /\ Cardinality(Users(s)) \in Nat
      /\ Cardinality(Users(s)') <= Cardinality(Users(s))
  BY <1>1, UsersFinite, FS_Subset, FS_CardinalityType
<1>3. /\ queues[s] # None
      /\ heap[queues[s]].references >= Cardinality(Users(s))
  BY <1>1 DEF SessionKept
<1>4. queues'[s] = queues[s] /\ queues[s] \in DataQueues
  BY <1>3 DEF Inv, TypeOK, Keys
<1>5. heap[queues[s]] \in Queue /\ heap'[queues[s]] \in Queue
  BY <1>3, <1>4 DEF Inv, TypeOK, TablesSound, Keys
<1>6. heap[queues[s]].references \in Nat /\ heap'[queues[s]].references \in Nat
  BY <1>5 DEF Queue
<1> QED  BY <1>2, <1>3, <1>4, <1>6

(* An operation on one queue that keeps its references.                    *)
LEMMA QueueReferencesStay ==
    ASSUME Inv, Inv', SessionKept, NEW k \in Keys, NEW q \in DataQueues,
           NEW r \in Queue,
           \/ queues[k] = q
           \/ queues[k] = None,
           queues' = [queues EXCEPT ![k] = q],
           heap' = [heap EXCEPT ![q] = r],
           r.references = Located(q).references,
           sessionQueue' = sessionQueue
    PROVE  SessionKept'
<1> SUFFICES ASSUME NEW s \in Sessions, queues[s] # None
             PROVE  /\ queues'[s] = queues[s]
                    /\ heap'[queues[s]].references >= heap[queues[s]].references
  BY ReferencesStay
<1>1. s \in Keys /\ queues[s] \in DataQueues
  BY DEF Keys, Inv, TypeOK
<1>2. heap[queues[s]] \in Queue /\ heap[queues[s]] # None
  BY <1>1 DEF Inv, TypeOK, TablesSound
<1>3. heap[queues[s]].references \in Nat
  BY <1>2 DEF Queue
<1>4. queues'[s] = queues[s]
  BY <1>1 DEF Inv, TypeOK
<1>5. heap'[queues[s]].references = heap[queues[s]].references
  BY <1>1, <1>2 DEF Located, Inv, TypeOK
<1> QED  BY <1>3, <1>4, <1>5

LEMMA AddReferences ==
    ASSUME Inv, Inv', SessionKept, NEW k \in Keys, NEW q \in DataQueues, Add(k, q)
    PROVE  SessionKept'
<1>1. PICK i \in Items : addFifo(k, q, i) \/ addLifo(k, q, i)
  BY DEF Add, FreshItems
<1>2. Located(q) \in Queue
  BY LocatedIsQueue DEF Inv
<1>3. /\ getQueue(k, q) /\ sessionQueue' = sessionQueue
      /\ \E s \in Seq(Items) :
            checkWaiters(q, [Located(q) EXCEPT !.items = s])
  <2>1. /\ Append(Located(q).items, i) \in Seq(Items)
        /\ <<i>> \o Located(q).items \in Seq(Items)
    BY <1>2 DEF Queue
  <2>2. CASE addFifo(k, q, i)
    <3>1. checkWaiters(q, [Located(q) EXCEPT !.items = Append(Located(q).items, i)])
      BY <1>2, <2>2 DEF addFifo, Queue
    <3> QED  BY <2>1, <2>2, <3>1 DEF addFifo
  <2>3. CASE addLifo(k, q, i)
    <3>1. checkWaiters(q, [Located(q) EXCEPT !.items = <<i>> \o Located(q).items])
      BY <1>2, <2>3 DEF addLifo, Queue
    <3> QED  BY <2>1, <2>3, <3>1 DEF addLifo
  <2> QED  BY <1>1, <2>2, <2>3
<1>4. PICK s \in Seq(Items) : checkWaiters(q, [Located(q) EXCEPT !.items = s])
  BY <1>3
<1> DEFINE item == [Located(q) EXCEPT !.items = s]
           r == [item EXCEPT !.posted = @ \/ item.waiters > 0]
<1>5. item \in Queue /\ item.references = Located(q).references
  BY <1>2 DEF Queue
<1>6. r \in Queue /\ r.references = Located(q).references
  BY <1>5, Zenon DEF Queue
<1>7. heap' = [heap EXCEPT ![q] = r]
  BY <1>4 DEF checkWaiters
<1> QED  BY <1>3, <1>6, <1>7, QueueReferencesStay DEF getQueue

LEMMA CreateSessionReferences ==
    ASSUME Inv, Inv', SessionKept,
           NEW p \in Processes, NEW s \in Sessions, NEW q \in DataQueues,
           createSessionQueue(p, s, q)
    PROVE  SessionKept'
<1> USE QueueConstants DEF Inv
<1>1. /\ s \in Keys /\ Sessions \subseteq Keys /\ s # None
      /\ queues' = [queues EXCEPT ![s] = q]
      /\ heap' = [heap EXCEPT ![q] = IF heap[q] = None THEN NewQueue
                                     ELSE [heap[q] EXCEPT !.references = @ + 1]]
      /\ sessionQueue' = [sessionQueue EXCEPT ![p] = s]
  BY DEF Keys, createSessionQueue, getQueue
<1> SUFFICES ASSUME NEW t \in Sessions, Users(t)' # {}
             PROVE  /\ queues'[t] # None
                    /\ heap'[queues'[t]].references >= Cardinality(Users(t)')
  BY DEF SessionKept
<1>2. CASE t = s
  <2>1. Users(s)' = Users(s) \cup {p} /\ p \notin Users(s)
    BY <1>1 DEF Users, TypeOK, createSessionQueue
  <2>2. Cardinality(Users(s)') = Cardinality(Users(s)) + 1
    BY <2>1, UsersFinite, FS_AddElement
  <2>3. queues'[s] = q /\ q # None
    BY <1>1 DEF TypeOK
  <2>4. CASE heap[q] = None
    <3>1. queues[s] = None
      BY <1>1, <2>3, <2>4 DEF createSessionQueue, getQueue, TablesSound
    <3>2. Cardinality(Users(s)) = 0
      BY <3>1, UsersFinite DEF SessionKept
    <3>3. heap'[q].references = 1
      BY <1>1, <2>4 DEF NewQueue, TypeOK
    <3> QED  BY <1>2, <2>2, <2>3, <3>2, <3>3
  <2>5. CASE heap[q] # None
    <3>1. queues[s] = q /\ heap[q] \in Queue
      BY <2>5 DEF createSessionQueue, getQueue, TypeOK
    <3>2. heap[q].references \in Nat
      BY <3>1 DEF Queue
    <3>3. heap'[q].references = heap[q].references + 1
      BY <1>1, <2>5, <3>1 DEF TypeOK, Queue
    <3>4. heap[q].references >= Cardinality(Users(s))
      BY <3>1, <3>2, UsersFinite DEF SessionKept
    <3>5. Cardinality(Users(s)) \in Nat
      BY UsersFinite
    <3> QED  BY <1>2, <2>2, <2>3, <3>2, <3>3, <3>4, <3>5
  <2> QED  BY <2>4, <2>5
<1>3. CASE t # s
  <2>1. Users(t)' = Users(t)
    BY <1>1, <1>3 DEF Users, TypeOK, createSessionQueue
  <2>2. queues'[t] = queues[t] /\ queues[t] # None
    BY <1>1, <1>3, <2>1 DEF SessionKept, TypeOK
  <2>3. queues[t] # q
    BY <1>1, <1>3, <2>2 DEF createSessionQueue, getQueue, TablesSound
  <2>4. heap'[queues[t]] = heap[queues[t]]
    BY <1>1, <2>2, <2>3 DEF TypeOK
  <2> QED  BY <2>1, <2>2, <2>4 DEF SessionKept
<1> QED  BY <1>2, <1>3

LEMMA DeleteSessionReferences ==
    ASSUME Inv, Inv', SessionKept,
           NEW p \in Processes, NEW s \in Sessions, NEW q \in DataQueues,
           deleteSessionQueue(p, s, q)
    PROVE  SessionKept'
<1> USE QueueConstants DEF Inv
<1>1. /\ s \in Keys /\ Sessions \subseteq Keys /\ s # None
      /\ sessionQueue[p] = s /\ queues[s] = q /\ q # None
      /\ sessionQueue' = [sessionQueue EXCEPT ![p] = None]
  BY DEF Keys, deleteSessionQueue
<1>2. p \in Users(s) /\ Users(s)' = Users(s) \ {p}
  BY <1>1 DEF Users, TypeOK
<1>3. /\ Cardinality(Users(s)') = Cardinality(Users(s)) - 1
      /\ Cardinality(Users(s)) \in Nat
  BY <1>2, UsersFinite, FS_RemoveElement
<1>4. heap[q] \in Queue /\ heap[q] # None
  BY <1>1 DEF TypeOK, TablesSound
<1>5. heap[q].references \in Nat /\ heap[q].references >= Cardinality(Users(s))
  BY <1>1, <1>2, <1>4 DEF SessionKept, Queue
<1> SUFFICES ASSUME NEW t \in Sessions, Users(t)' # {}
             PROVE  /\ queues'[t] # None
                    /\ heap'[queues'[t]].references >= Cardinality(Users(t)')
  BY DEF SessionKept
<1>6. CASE t # s
  <2>1. Users(t)' = Users(t)
    BY <1>1, <1>6 DEF Users, TypeOK
  <2>2. queues[t] # None /\ queues[t] # q
    BY <1>1, <1>6, <2>1 DEF SessionKept, TablesSound
  <2>3. queues'[t] = queues[t] /\ heap'[queues[t]] = heap[queues[t]]
    BY <1>1, <1>6, <2>2 DEF deleteSessionQueue, Delete, tableVars, TypeOK
  <2> QED  BY <2>1, <2>2, <2>3 DEF SessionKept
<1>7. CASE t = s
  <2>1. CASE UNCHANGED tableVars
    BY <1>1, <1>3, <1>5, <1>7, <2>1 DEF tableVars
  <2>2. CASE heap[q].references = 1 /\ Delete(s, q)
    <3>1. Users(s)' = {}
      BY <1>3, <1>5, <2>2, UsersFinite, <1>2, FS_EmptySet, FS_CardinalityType,
         FS_RemoveElement
    <3> QED  BY <1>7, <3>1
  <2>3. CASE heap' = [heap EXCEPT ![q].references = @ - 1] /\ UNCHANGED queues
    <3>1. heap'[q].references = heap[q].references - 1
      BY <1>4, <2>3 DEF TypeOK, Queue
    <3> QED  BY <1>1, <1>3, <1>5, <1>7, <2>3, <3>1
  <2> QED  BY <1>1, <2>1, <2>2, <2>3 DEF deleteSessionQueue
<1> QED  BY <1>6, <1>7

(* The operations on a table entry that hold no surprise.                  *)
LEMMA NamedReferences ==
    ASSUME Inv, Inv', SessionKept, NEW k \in Names, NEW q \in DataQueues, Named(k, q)
    PROVE  SessionKept'
<1> USE QueueConstants DEF Inv
<1>1. k \in Keys /\ Sessions \subseteq Keys /\ k \notin Sessions /\ q # None
  BY DEF Keys
<1> SUFFICES ASSUME NEW s \in Sessions, queues[s] # None
             PROVE  /\ queues'[s] = queues[s]
                    /\ heap'[queues[s]].references >= heap[queues[s]].references
  <2>1. sessionQueue' = sessionQueue
    BY DEF Named, createNamedQueue, deleteNamedQueue
  <2> QED  BY <2>1, ReferencesStay
<1>2. queues[s] \in DataQueues /\ heap[queues[s]] \in Queue /\ heap[queues[s]] # None
  BY <1>1 DEF TypeOK, TablesSound
<1>3. heap[queues[s]].references \in Nat
  BY <1>2 DEF Queue
<1>4. queues[s] # q /\ s # k
  BY <1>1, <1>2 DEF Named, createNamedQueue, deleteNamedQueue, TablesSound
<1>5. queues'[s] = queues[s] /\ heap'[queues[s]] = heap[queues[s]]
  BY <1>1, <1>2, <1>4
     DEF Named, createNamedQueue, deleteNamedQueue, Delete, TypeOK
<1> QED  BY <1>3, <1>5

LEMMA PullingReferences ==
    ASSUME Inv, Inv', SessionKept, NEW c \in Clients, Pulling(c)
    PROVE  SessionKept'
<1>1. /\ queues' = queues /\ sessionQueue' = sessionQueue
      /\ \A q \in DataQueues : heap[q] # None =>
            heap'[q].references = heap[q].references
  <2>1. queues' = queues /\ sessionQueue' = sessionQueue
    BY DEF Pulling, pullItem, pullNothing, addWaiter, useDeleted, waitForData,
           wakeSpuriously, removeWaiter, tableVars
  <2>2. ASSUME NEW q \in DataQueues, heap[q] # None
        PROVE  heap'[q].references = heap[q].references
    <3>1. heap[q] \in Queue /\ heap \in [DataQueues -> Queue \cup {None}]
      BY <2>2 DEF Inv, TypeOK
    <3>2. CASE pullItem(c)
      BY <3>1, <3>2 DEF pullItem, getFirst, reset, Queue
    <3>3. CASE pullNothing(c)
      BY <3>1, <3>3 DEF pullNothing, reset, Queue
    <3>4. CASE addWaiter(c) \/ removeWaiter(c)
      BY <3>1, <3>4 DEF addWaiter, removeWaiter, Queue
    <3>5. CASE useDeleted(c) \/ waitForData(c) \/ wakeSpuriously(c)
      BY <3>5 DEF useDeleted, waitForData, wakeSpuriously, tableVars
    <3> QED  BY <3>2, <3>3, <3>4, <3>5 DEF Pulling
  <2> QED  BY <2>1, <2>2
<1> SUFFICES ASSUME NEW s \in Sessions, queues[s] # None
             PROVE  heap'[queues[s]].references >= heap[queues[s]].references
  BY <1>1, ReferencesStay
<1>2. queues[s] \in DataQueues /\ heap[queues[s]] \in Queue /\ heap[queues[s]] # None
  BY DEF Keys, Inv, TypeOK, TablesSound
<1>3. heap[queues[s]].references \in Nat
  BY <1>2 DEF Queue
<1> QED  BY <1>1, <1>2, <1>3

LEMMA SessionKeptNext ==
    ASSUME Inv, Inv', SessionKept, [Next]_vars
    PROVE  SessionKept'
<1>1. CASE UNCHANGED vars
  BY <1>1 DEF vars, SessionKept, Users
<1>2. ASSUME NEW q \in DataQueues, NEW k \in Keys, Add(k, q)
      PROVE  SessionKept'
  BY <1>2, AddReferences
<1>3. ASSUME NEW q \in DataQueues, NEW k \in Keys, clear(k, q)
      PROVE  SessionKept'
  <2> DEFINE r == [Located(q) EXCEPT !.items = <<>>]
  <2>1. Located(q) \in Queue /\ <<>> \in Seq(Items)
    BY LocatedIsQueue DEF Inv
  <2>2. \A e \in Seq(Items) :
          LET m == [Located(q) EXCEPT !.items = e]
          IN  m \in Queue /\ m.references = Located(q).references
    BY <2>1 DEF Queue
  <2>3. r \in Queue /\ r.references = Located(q).references
    BY <2>1, <2>2
  <2> QED  BY <1>3, <2>3, QueueReferencesStay DEF clear, getQueue
<1>4. ASSUME NEW q \in DataQueues, NEW k \in Keys, NEW c \in Clients,
             NEW nowait \in BOOLEAN, pull(c, k, q, nowait)
      PROVE  SessionKept'
  BY <1>4, LocatedIsQueue, QueueReferencesStay DEF pull, getQueue, Inv
<1>5. ASSUME NEW q \in DataQueues, NEW s \in Sessions, getSessionQueueCount(s, q)
      PROVE  SessionKept'
  <2>1. s \in Keys /\ Located(q) \in Queue
    BY LocatedIsQueue DEF Keys, Inv
  <2> QED
    BY <1>5, <2>1, QueueReferencesStay DEF getSessionQueueCount, getQueue
<1>6. ASSUME NEW p \in Processes, killProcess(p)
      PROVE  SessionKept'
  <2>1. /\ \A r \in Processes : sessionQueue'[r] \in {sessionQueue[r], None}
        /\ queues' = queues /\ heap' = heap
    BY <1>6 DEF killProcess, tableVars, Inv, TypeOK
  <2>2. ASSUME NEW s \in Sessions, queues[s] # None
        PROVE  heap[queues[s]].references \in Nat
    <3>1. heap[queues[s]] \in Queue
      BY <2>2 DEF Keys, Inv, TypeOK, TablesSound
    <3> QED  BY <3>1 DEF Queue
  <2> QED  BY <2>1, <2>2, ReferencesStay
<1> QED
  BY <1>1, <1>2, <1>3, <1>4, <1>5, <1>6, NamedReferences, PullingReferences,
     CreateSessionReferences, DeleteSessionReferences DEF Next, Session

(* A session queue lives as long as a process has it open and carries a    *)
(* reference for each: the end of one never takes the queue from another.  *)
THEOREM SessionsAreKept == Spec => []SessionKept
<1>1. Init => SessionKept
  BY QueueConstants DEF Init, SessionKept, Users
<1>2. Inv /\ Inv' /\ SessionKept /\ [Next]_vars => SessionKept'
  BY SessionKeptNext
<1> QED  BY <1>1, <1>2, InvHolds, PTL DEF Spec

-----------------------------------------------------------------------------
(* A client asleep at a queue is counted there, and its queue is alive.    *)
LEMMA SleeperCounted ==
    ASSUME Inv, NEW c \in Clients, pc[c] = "asleep"
    PROVE  /\ at[c] \in DataQueues
           /\ heap[at[c]] \in Queue
           /\ heap[at[c]].waiters > 0
           /\ Located(at[c]) = heap[at[c]]
<1> DEFINE q == at[c]
<1>1. Registered(c)
  BY DEF Registered
<1>2. q \in DataQueues /\ heap[q] # None
  BY <1>1 DEF Inv, Pointers, WaitersHold
<1>3. heap[q] \in Queue
  BY <1>2 DEF Inv, TypeOK
<1>4. c \in RegisteredAt(q)
  BY <1>1 DEF RegisteredAt
<1>5. heap[q].waiters = Cardinality(RegisteredAt(q))
  BY <1>2 DEF Inv, WaitersExact
<1>6. heap[q].waiters \in Nat /\ heap[q].waiters # 0
  BY <1>4, <1>5, RegisteredFinite
<1> QED  BY <1>2, <1>3, <1>6 DEF Located

(* A step that puts nobody to sleep and posts no queue somebody sleeps at. *)
LEMMA SleepersStay ==
    ASSUME SleepersUnposted,
           \A c \in Clients : pc'[c] = "asleep" =>
               /\ pc[c] = "asleep" /\ at'[c] = at[c]
               /\ heap'[at[c]].posted => heap[at[c]].posted
    PROVE  SleepersUnposted'
BY DEF SleepersUnposted

(* An item is added: the sleepers of the queue are awake by then.          *)
LEMMA CheckWaitersWakes ==
    ASSUME Inv, SleepersUnposted, NEW q \in DataQueues, NEW r,
           checkWaiters(q, r), r.waiters = Located(q).waiters,
           UNCHANGED at
    PROVE  SleepersUnposted'
<1> SUFFICES ASSUME NEW c \in Clients, pc'[c] = "asleep"
             PROVE  /\ pc[c] = "asleep" /\ at'[c] = at[c]
                    /\ heap'[at[c]].posted => heap[at[c]].posted
  BY SleepersStay
<1>1. pc[c] = "asleep"
  BY DEF checkWaiters, post, WakeAll, Inv, TypeOK
<1>2. at[c] # q
  <2> SUFFICES ASSUME at[c] = q PROVE FALSE
    OBVIOUS
  <2>1. r.waiters > 0
    BY <1>1, SleeperCounted
  <2> QED  BY <2>1 DEF checkWaiters, post, WakeAll, Inv, TypeOK
<1>3. heap'[at[c]] = heap[at[c]]
  BY <1>2 DEF checkWaiters, Inv, TypeOK
<1> QED  BY <1>1, <1>3

(* No step leaves a client asleep at a queue that was posted.              *)
LEMMA SleepersNext ==
    ASSUME Inv, SleepersUnposted, [Next]_vars
    PROVE  SleepersUnposted'
<1>1. CASE UNCHANGED vars
  BY <1>1, SleepersStay DEF vars
<1>2. ASSUME NEW q \in DataQueues, NEW k \in Keys, Add(k, q)
      PROVE  SleepersUnposted'
  <2>1. PICK i \in Items : addFifo(k, q, i) \/ addLifo(k, q, i)
    BY <1>2 DEF Add, FreshItems
  <2>2. Located(q) \in Queue
    BY LocatedIsQueue DEF Inv
  <2>3. \A s : [Located(q) EXCEPT !.items = s].waiters = Located(q).waiters
    BY <2>2 DEF Queue
  <2>4. CASE addFifo(k, q, i)
    BY <2>3, <2>4, CheckWaitersWakes DEF addFifo
  <2>5. CASE addLifo(k, q, i)
    BY <2>3, <2>5, CheckWaitersWakes DEF addLifo
  <2> QED  BY <2>1, <2>4, <2>5
<1>3. ASSUME NEW q \in DataQueues, NEW k \in Keys, clear(k, q)
      PROVE  SleepersUnposted'
  <2>1. Located(q) \in Queue
    BY LocatedIsQueue DEF Inv
  <2>2. [Located(q) EXCEPT !.items = <<>>].posted = Located(q).posted
    BY <2>1 DEF Queue
  <2>3. \A c \in Clients : pc[c] = "asleep" => at[c] \in DataQueues /\ Located(at[c]) = heap[at[c]]
    BY SleeperCounted
  <2>4. heap \in [DataQueues -> Queue \cup {None}]
    BY DEF Inv, TypeOK
  <2> QED  BY <1>3, <2>2, <2>3, <2>4, SleepersStay DEF clear, pullVars
<1>4. ASSUME NEW q \in DataQueues, NEW k \in Keys, NEW d \in Clients,
             NEW nowait \in BOOLEAN, pull(d, k, q, nowait)
      PROVE  SleepersUnposted'
  <2>1. \A c \in Clients : pc[c] = "asleep" => at[c] \in DataQueues /\ Located(at[c]) = heap[at[c]]
    BY SleeperCounted
  <2>2. /\ heap \in [DataQueues -> Queue \cup {None}]
        /\ pc \in [Clients -> Places] /\ at \in [Clients -> DataQueues \cup {None}]
    BY DEF Inv, TypeOK
  <2> QED  BY <1>4, <2>1, <2>2, SleepersStay DEF pull, Goto
<1>5. ASSUME NEW q \in DataQueues, NEW k \in Names, Named(k, q)
      PROVE  SleepersUnposted'
  <2>1. /\ heap \in [DataQueues -> Queue \cup {None}]
    BY DEF Inv, TypeOK
  <2>2. \A c \in Clients : pc[c] = "asleep" =>
            at[c] \in DataQueues /\ heap[at[c]] \in Queue /\ heap[at[c]].waiters > 0
    BY SleeperCounted
  <2>3. pc' = pc /\ at' = at
    BY <1>5 DEF Named, createNamedQueue, deleteNamedQueue, pullVars
  <2>4. \A c \in Clients : pc[c] = "asleep" => at[c] # q
    BY <1>5, <2>2, QueueConstants
       DEF Named, createNamedQueue, deleteNamedQueue, hasWaiters
  <2>5. \A p \in DataQueues \ {q} : heap'[p] = heap[p]
    BY <1>5, <2>1 DEF Named, createNamedQueue, deleteNamedQueue, Delete
  <2> QED  BY <2>2, <2>3, <2>4, <2>5, SleepersStay
<1>6. ASSUME NEW q \in DataQueues, NEW s \in Sessions, Session(s, q)
      PROVE  SleepersUnposted'
  <2>1. heap \in [DataQueues -> Queue \cup {None}]
    BY DEF Inv, TypeOK
  <2>2. ASSUME NEW c \in Clients, pc[c] = "asleep"
        PROVE  /\ at[c] \in DataQueues /\ heap[at[c]] \in Queue
               /\ heap[at[c]].waiters > 0 /\ Located(at[c]) = heap[at[c]]
    BY <2>2, SleeperCounted
  <2>3. pc' = pc /\ at' = at
    BY <1>6 DEF Session, getSessionQueueCount, createSessionQueue,
                deleteSessionQueue, pullVars
  <2>4. ASSUME NEW c \in Clients, pc[c] = "asleep"
        PROVE  heap'[at[c]].posted = heap[at[c]].posted
    <3>1. CASE getSessionQueueCount(s, q)
      BY <2>1, <2>2, <2>4, <3>1 DEF getSessionQueueCount
    <3>2. ASSUME NEW p \in Processes, createSessionQueue(p, s, q)
          PROVE  heap'[at[c]].posted = heap[at[c]].posted
      <4>1. heap[q] # None => [heap[q] EXCEPT !.references = @ + 1].posted = heap[q].posted
        BY <2>1 DEF Queue
      <4> QED  BY <2>1, <2>2, <2>4, <3>2, <4>1, QueueConstants DEF createSessionQueue
    <3>3. ASSUME NEW p \in Processes, deleteSessionQueue(p, s, q)
          PROVE  heap'[at[c]].posted = heap[at[c]].posted
      <4>1. CASE hasWaiters(q) /\ UNCHANGED tableVars
        BY <4>1 DEF tableVars
      <4>2. CASE ~hasWaiters(q)
        BY <2>1, <2>2, <2>4, <3>3, <4>2 DEF deleteSessionQueue, hasWaiters, Delete
      <4> QED  BY <3>3, <4>1, <4>2 DEF deleteSessionQueue
    <3> QED  BY <1>6, <3>1, <3>2, <3>3 DEF Session
  <2> QED  BY <2>3, <2>4, SleepersStay
<1>7. ASSUME NEW p \in Processes, killProcess(p)
      PROVE  SleepersUnposted'
  BY <1>7, SleepersStay DEF killProcess, tableVars, pullVars
<1>8. ASSUME NEW d \in Clients, Pulling(d)
      PROVE  SleepersUnposted'
  <2>1. /\ heap \in [DataQueues -> Queue \cup {None}]
        /\ pc \in [Clients -> Places] /\ at \in [Clients -> DataQueues \cup {None}]
    BY DEF Inv, TypeOK
  <2>2. pc[d] # "idle" => at[d] \in DataQueues
    BY DEF Inv, Pointers
  <2>3. \A c \in Clients : pc[c] = "asleep" => at[c] \in DataQueues /\ heap[at[c]] \in Queue
    BY SleeperCounted
  <2>4. ASSUME NEW r \in [items : Seq(Items), waiters : Nat, references : Nat, posted : BOOLEAN]
        PROVE  /\ [r EXCEPT !.posted = FALSE].posted = FALSE
               /\ [[r EXCEPT !.posted = FALSE] EXCEPT !.items = Tail(@)].posted = FALSE
               /\ [r EXCEPT !.waiters = @ + 1].posted = r.posted
               /\ [r EXCEPT !.waiters = @ - 1].posted = r.posted
    OBVIOUS
  <2>5. heap[at[d]] # None /\ pc[d] # "idle" => heap[at[d]] \in Queue
    BY <2>1, <2>2
  <2>6. CASE pullItem(d)
    BY <2>1, <2>2, <2>3, <2>4, <2>5, <2>6, SleepersStay
       DEF pullItem, getFirst, reset, Goto, Queue
  <2>7. CASE pullNothing(d)
    BY <2>1, <2>2, <2>3, <2>4, <2>5, <2>7, SleepersStay
       DEF pullNothing, reset, Goto, Queue
  <2>8. CASE addWaiter(d)
    BY <2>1, <2>2, <2>3, <2>4, <2>5, <2>8, SleepersStay DEF addWaiter, Goto, Queue
  <2>9. CASE useDeleted(d)
    BY <2>1, <2>9, SleepersStay DEF useDeleted, Goto, tableVars
  <2>10. CASE waitForData(d)
    BY <2>1, <2>10 DEF waitForData, Goto, tableVars, SleepersUnposted
  <2>11. CASE wakeSpuriously(d)
    BY <2>1, <2>11, SleepersStay DEF wakeSpuriously, Goto, tableVars
  <2>12. CASE removeWaiter(d)
    <3>1. heap[at[d]] # None
      BY <2>12 DEF removeWaiter, Inv, WaitersHold, Registered
    <3> QED  BY <2>1, <2>2, <2>3, <2>4, <2>5, <2>12, <3>1, SleepersStay
             DEF removeWaiter, Goto, Queue
  <2> QED  BY <1>8, <2>6, <2>7, <2>8, <2>9, <2>10, <2>11, <2>12 DEF Pulling
<1> QED  BY <1>1, <1>2, <1>3, <1>4, <1>5, <1>6, <1>7, <1>8 DEF Next

(* No client sleeps through a post: whoever clears the semaphore of a      *)
(* queue, or posts it, leaves nobody asleep on a posted one.               *)
THEOREM NobodySleepsThrough == Spec => []SleepersUnposted
<1>1. Init => SleepersUnposted
  BY DEF Init, SleepersUnposted
<1>2. Inv /\ SleepersUnposted /\ [Next]_vars => SleepersUnposted'
  BY SleepersNext
<1> QED  BY <1>1, <1>2, InvHolds, PTL DEF Spec
=============================================================================
