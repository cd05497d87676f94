---------------------- MODULE RexxQueueRefinement_proofs ----------------------
(* The queue manager implements the mailboxes of RexxMailbox, for any      *)
(* number of clients, processes and queues.  The mail of a name is what    *)
(* is in the object the tables give for it.                                *)
EXTENDS RexxQueue_proofs

Mail == [k \in Keys |->
           IF queues[k] = None THEN None ELSE heap[queues[k]].items]

(* The way in for a queue: it is there, or its name and memory are free.   *)
Reached(k, q) ==
    \/ queues[k] = q
    \/ queues[k] = None /\ heap[q] = None

LEMMA LocatedItems ==
    ASSUME Inv, NEW k \in Keys, NEW q \in DataQueues, Reached(k, q)
    PROVE  /\ Located(q) \in Queue
           /\ Located(q).items \in Seq(Items)
           /\ Located(q).items = IF Mail[k] = None THEN <<>> ELSE Mail[k]
           /\ queues[k] = None <=> Mail[k] = None
<1> USE QueueConstants DEF Inv
<1>1. Located(q) \in Queue
  BY LocatedIsQueue
<1>2. Located(q).items \in Seq(Items) /\ Located(q).items # None
  BY <1>1 DEF Queue
<1>3. CASE queues[k] = None
  <2>1. Mail[k] = None /\ q # None
    BY <1>3 DEF Mail
  <2>2. heap[q] = None
    BY <1>3, <2>1 DEF Reached
  <2> QED  BY <1>1, <1>2, <1>3, <2>1, <2>2 DEF Located, NewQueue
<1>4. CASE queues[k] # None
  <2>1. queues[k] = q /\ heap[q] # None
    BY <1>4 DEF Reached, TablesSound
  <2>2. Mail[k] = Located(q).items
    BY <2>1, <1>4 DEF Mail, Located
  <2> QED  BY <1>1, <1>2, <1>4, <2>2
<1> QED  BY <1>3, <1>4

(* A change to one queue changes the mail of one name.                     *)
LEMMA MailChanges ==
    ASSUME Inv, NEW k \in Keys, NEW q \in DataQueues, NEW r \in Queue,
           Reached(k, q),
           queues' = [queues EXCEPT ![k] = q],
           heap' = [heap EXCEPT ![q] = r]
    PROVE  Mail' = [Mail EXCEPT ![k] = r.items]
<1> USE QueueConstants DEF Inv
<1>1. q # None /\ queues \in [Keys -> DataQueues \cup {None}]
  BY DEF TypeOK
<1>2. ASSUME NEW l \in Keys
      PROVE  Mail'[l] = IF l = k THEN r.items ELSE Mail[l]
  <2>1. CASE l = k
    BY <1>1, <2>1 DEF Mail, TypeOK
  <2>2. CASE l # k
    <3>1. queues'[l] = queues[l] /\ queues[l] # q
      BY <1>1, <2>2 DEF Reached, TablesSound
    <3> QED  BY <1>1, <2>2, <3>1 DEF Mail, TypeOK
  <2> QED  BY <2>1, <2>2
<1> QED  BY <1>2 DEF Mail

(* Where no items move the mail stays.                                     *)
LEMMA MailStays ==
    ASSUME Inv, UNCHANGED queues,
           \A q \in DataQueues : heap[q] # None => heap'[q].items = heap[q].items
    PROVE  Mail' = Mail
<1>1. \A k \in Keys : queues[k] # None =>
         queues[k] \in DataQueues /\ heap[queues[k]] # None
  BY DEF Inv, TypeOK, TablesSound
<1> QED  BY <1>1 DEF Mail

(* A deletion closes the mailbox.                                          *)
LEMMA MailCloses ==
    ASSUME Inv, NEW k \in Keys, NEW q \in DataQueues, queues[k] = q, Delete(k, q)
    PROVE  Mail[k] # None /\ Mail' = [Mail EXCEPT ![k] = None]
<1> USE QueueConstants DEF Inv
<1>1. q # None /\ heap[q] # None
  BY DEF TablesSound
<1>2. Mail[k] # None
  BY <1>1, LocatedItems DEF Reached
<1>3. ASSUME NEW l \in Keys
      PROVE  Mail'[l] = IF l = k THEN None ELSE Mail[l]
  <2>1. CASE l = k
    BY <2>1 DEF Mail, Delete, TypeOK
  <2>2. CASE l # k
    <3>1. queues'[l] = queues[l] /\ queues[l] # q
      BY <1>1, <2>2 DEF TablesSound, Delete, TypeOK
    <3> QED  BY <2>2, <3>1 DEF Mail, Delete, TypeOK
  <2> QED  BY <2>1, <2>2
<1> QED  BY <1>2, <1>3 DEF Mail
-----------------------------------------------------------------------------
(* Every step is a step of the mailboxes or leaves them alone.             *)
MailboxStep == [Mailbox!MailboxNext]_<<Mail, hand>>

(* An operation that leaves the items of the queue it reaches as they are. *)
LEMMA OpenStep ==
    ASSUME Inv, NEW k \in Keys, NEW q \in DataQueues, NEW r \in Queue,
           Reached(k, q),
           queues' = [queues EXCEPT ![k] = q],
           heap' = [heap EXCEPT ![q] = r],
           r.items = Located(q).items, UNCHANGED hand
    PROVE  MailboxStep
<1>1. Mail' = [Mail EXCEPT ![k] = Located(q).items]
  BY MailChanges
<1>2. CASE Mail[k] = None
  <2>1. Located(q).items = <<>>
    BY <1>2, LocatedItems
  <2>2. Mailbox!Open(k)
    BY <1>1, <1>2, <2>1 DEF Mailbox!Open, Mail
  <2> QED  BY <2>2 DEF MailboxStep, Mailbox!MailboxNext, Mailbox!Keys, Keys
<1>3. CASE Mail[k] # None
  <2>1. Located(q).items = Mail[k]
    BY <1>3, LocatedItems
  <2>2. Mail' = Mail
    BY <1>1, <2>1 DEF Mail
  <2> QED  BY <2>2 DEF MailboxStep
<1> QED  BY <1>2, <1>3

(* getQueue() finds what the mailbox of that name holds.                   *)
LEMMA GetQueueFinds ==
    ASSUME Inv, NEW k \in Keys, NEW q \in DataQueues, getQueue(k, q)
    PROVE  /\ Reached(k, q)
           /\ Mailbox!Available(k)
           /\ Mailbox!Contents(k) = Located(q).items
<1>1. Reached(k, q) /\ (queues[k] # None \/ k \in Sessions)
  BY QueueConstants DEF getQueue, Reached
<1>2. Mailbox!Available(k)
  BY <1>1, LocatedItems DEF Mailbox!Available, Mail
<1>3. Mailbox!Contents(k) = Located(q).items
  BY <1>1, LocatedItems DEF Mailbox!Contents, Mail
<1> QED  BY <1>1, <1>2, <1>3

(* A line goes in at either end.                                           *)
LEMMA AddRefines ==
    ASSUME Inv, NEW k \in Keys, NEW q \in DataQueues, Add(k, q)
    PROVE  MailboxStep
<1>1. PICK i \in Items : addFifo(k, q, i) \/ addLifo(k, q, i)
  BY DEF Add, FreshItems
<1>2. Reached(k, q) /\ queues' = [queues EXCEPT ![k] = q] /\ UNCHANGED hand
  BY <1>1 DEF addFifo, addLifo, getQueue, Reached
<1>3. Located(q) \in Queue /\ Located(q).items \in Seq(Items)
  BY <1>2, LocatedItems
<1>4. PICK s \in {Append(Located(q).items, i), <<i>> \o Located(q).items} :
        checkWaiters(q, [Located(q) EXCEPT !.items = s])
  <2>1. CASE addFifo(k, q, i)
    <3>1. checkWaiters(q, [Located(q) EXCEPT !.items = Append(Located(q).items, i)])
      BY <1>3, <2>1 DEF addFifo, Queue
    <3> QED  BY <3>1
  <2>2. CASE addLifo(k, q, i)
    <3>1. checkWaiters(q, [Located(q) EXCEPT !.items = <<i>> \o Located(q).items])
      BY <1>3, <2>2 DEF addLifo, Queue
    <3> QED  BY <3>1
  <2> QED  BY <1>1, <2>1, <2>2
<1>5. s \in Seq(Items)
  <2>1. Append(Located(q).items, i) \in Seq(Items)
    BY <1>3
  <2>2. <<i>> \o Located(q).items \in Seq(Items)
    BY <1>3
  <2> QED  BY <2>1, <2>2, Zenon
<1> DEFINE item == [Located(q) EXCEPT !.items = s]
           r == [item EXCEPT !.posted = @ \/ item.waiters > 0]
<1>6. item \in Queue /\ item.items = s
  BY <1>3, <1>5 DEF Queue
<1>7. r \in Queue /\ r.items = s
  BY <1>6, Zenon DEF Queue
<1>8. heap' = [heap EXCEPT ![q] = r]
  BY <1>4 DEF checkWaiters
<1> HIDE DEF item, r
<1>9. Mail' = [Mail EXCEPT ![k] = s]
  <2>1. Mail' = [Mail EXCEPT ![k] = r.items]
    BY <1>2, <1>7, <1>8, MailChanges
  <2> QED  BY <1>7, <2>1
<1>10. Mailbox!Available(k) /\ Mailbox!Contents(k) = Located(q).items
  BY <1>1, GetQueueFinds DEF addFifo, addLifo
<1>11. Mailbox!Put(k, i)
  BY <1>2, <1>4, <1>9, <1>10 DEF Mailbox!Put, Mail
<1> QED  BY <1>11 DEF MailboxStep, Mailbox!MailboxNext, Mailbox!Keys, Keys

LEMMA ClearRefines ==
    ASSUME Inv, NEW k \in Keys, NEW q \in DataQueues, clear(k, q)
    PROVE  MailboxStep
<1> DEFINE r == [Located(q) EXCEPT !.items = <<>>]
<1>1. Reached(k, q) /\ queues' = [queues EXCEPT ![k] = q] /\ UNCHANGED hand
  BY DEF clear, getQueue, Reached, pullVars
<1>2. r \in Queue /\ r.items = <<>>
  <2>1. Located(q) \in Queue /\ <<>> \in Seq(Items)
    BY LocatedIsQueue DEF Inv
  <2>2. \A e \in Seq(Items) : LET m == [Located(q) EXCEPT !.items = e]
                              IN  m \in Queue /\ m.items = e
    BY <2>1 DEF Queue
  <2> QED  BY <2>1, <2>2
<1>3. Mail' = [Mail EXCEPT ![k] = <<>>]
  BY <1>1, <1>2, MailChanges DEF clear
<1>4. Mailbox!Available(k)
  BY GetQueueFinds DEF clear
<1>5. Mailbox!Clear(k)
  BY <1>1, <1>3, <1>4 DEF Mailbox!Clear, Mail
<1> QED  BY <1>5 DEF MailboxStep, Mailbox!MailboxNext, Mailbox!Keys, Keys

LEMMA NamedRefines ==
    ASSUME Inv, NEW k \in Names, NEW q \in DataQueues, Named(k, q)
    PROVE  MailboxStep
<1>1. k \in Keys
  BY DEF Keys
<1>2. CASE createNamedQueue(k, q)
  <2>1. NewQueue \in Queue /\ NewQueue.items = Located(q).items
    BY <1>2 DEF createNamedQueue, Located, NewQueue, Queue
  <2> QED
    BY <1>1, <1>2, <2>1, OpenStep DEF createNamedQueue, pullVars, Reached
<1>3. CASE deleteNamedQueue(k, q)
  <2>1. Mailbox!Close(k)
    BY <1>1, <1>3, MailCloses DEF deleteNamedQueue, pullVars, Mailbox!Close, Mail
  <2> QED  BY <1>1, <2>1 DEF MailboxStep, Mailbox!MailboxNext, Mailbox!Keys, Keys
<1> QED  BY <1>2, <1>3 DEF Named

LEMMA SessionRefines ==
    ASSUME Inv, NEW s \in Sessions, NEW q \in DataQueues, Session(s, q)
    PROVE  MailboxStep
<1>1. s \in Keys
  BY DEF Keys
<1>2. CASE getSessionQueueCount(s, q)
  <2>1. Located(q) \in Queue
    BY LocatedIsQueue DEF Inv
  <2> QED
    BY <1>1, <1>2, <2>1, OpenStep DEF getSessionQueueCount, getQueue, pullVars, Reached
<1>3. ASSUME NEW p \in Processes, createSessionQueue(p, s, q)
      PROVE  MailboxStep
  <2> DEFINE r == IF heap[q] = None THEN NewQueue
                  ELSE [heap[q] EXCEPT !.references = @ + 1]
  <2>1. r \in Queue /\ r.items = Located(q).items
    BY DEF Inv, TypeOK, Located, NewQueue, Queue
  <2> QED
    BY <1>1, <1>3, <2>1, OpenStep DEF createSessionQueue, getQueue, pullVars, Reached
<1>4. ASSUME NEW p \in Processes, deleteSessionQueue(p, s, q)
      PROVE  MailboxStep
  <2>1. queues[s] = q /\ hand' = hand
    BY <1>4 DEF deleteSessionQueue, pullVars
  <2>2. CASE Delete(s, q)
    <3>1. Mailbox!Close(s)
      BY <1>1, <2>1, <2>2, MailCloses DEF Mailbox!Close, Mail
    <3> QED  BY <1>1, <3>1 DEF MailboxStep, Mailbox!MailboxNext, Mailbox!Keys, Keys
  <2>3. CASE UNCHANGED queues /\ heap' \in {heap, [heap EXCEPT ![q].references = @ - 1]}
    <3>1. \A d \in DataQueues : heap[d] # None => heap'[d].items = heap[d].items
      BY <2>3 DEF Inv, TypeOK, Queue
    <3> QED  BY <2>1, <2>3, <3>1, MailStays DEF MailboxStep
  <2> QED  BY <1>4, <2>2, <2>3 DEF deleteSessionQueue, tableVars
<1> QED  BY <1>2, <1>3, <1>4 DEF Session

(* A pull turns to a mailbox when it locates its queue ...                 *)
LEMMA PullRefines ==
    ASSUME Inv, NEW c \in Clients, NEW k \in Keys, NEW q \in DataQueues,
           NEW nowait \in BOOLEAN, pull(c, k, q, nowait)
    PROVE  MailboxStep
<1>1. Reached(k, q) /\ queues' = [queues EXCEPT ![k] = q]
  BY DEF pull, getQueue, Reached
<1>2. Mail' = [Mail EXCEPT ![k] = Located(q).items]
  BY <1>1, LocatedItems, MailChanges DEF pull
<1>3. Mailbox!Available(k) /\ Mailbox!Contents(k) = Located(q).items
  BY GetQueueFinds DEF pull
<1>4. Mailbox!Turn(c, k)
  BY <1>2, <1>3 DEF Mailbox!Turn, pull, Mail
<1> QED  BY <1>4 DEF MailboxStep, Mailbox!MailboxNext, Mailbox!Keys, Keys

(* ... and takes from it when it gets an item.                             *)
LEMMA PullItemRefines ==
    ASSUME Inv, NEW c \in Clients, pullItem(c)
    PROVE  MailboxStep
<1>1. PICK q \in DataQueues : at[c] = q
  BY DEF pullItem, Inv, Pointers
<1>2. heap[q] \in Queue /\ heap[q] # None /\ heap[q].items # <<>>
  BY <1>1 DEF pullItem, Inv, TypeOK
<1>3. PICK k \in Keys : queues[k] = q
  BY <1>2 DEF Inv, TablesSound
<1> DEFINE r == getFirst(q)
<1>4. heap[q].items \in Seq(Items) /\ Tail(heap[q].items) \in Seq(Items)
  BY <1>2 DEF Queue
<1>5. r \in Queue /\ r.items = Tail(heap[q].items)
  BY <1>2, <1>4 DEF getFirst, reset, Queue
<1>6. queues' = [queues EXCEPT ![k] = q] /\ heap' = [heap EXCEPT ![q] = r]
  BY <1>1, <1>3 DEF pullItem, Inv, TypeOK
<1>7. Mail' = [Mail EXCEPT ![k] = r.items]
  BY <1>3, <1>5, <1>6, MailChanges DEF Reached
<1>8. Mail[k] = heap[q].items /\ Mail[k] # None
  BY <1>3, <1>4, QueueConstants DEF Mail
<1>9. Mailbox!Take(c, k)
  BY <1>1, <1>2, <1>5, <1>7, <1>8 DEF Mailbox!Take, Mailbox!Contents, pullItem, Mail
<1> QED  BY <1>9 DEF MailboxStep, Mailbox!MailboxNext, Mailbox!Keys, Keys

LEMMA PullingRefines ==
    ASSUME Inv, NEW c \in Clients, Pulling(c)
    PROVE  MailboxStep
<1>1. CASE pullItem(c)
  BY <1>1, PullItemRefines
<1>2. CASE ~pullItem(c)
  <2>1. queues' = queues /\ hand' = hand
    BY <1>2 DEF Pulling, pullNothing, addWaiter, useDeleted, waitForData,
                wakeSpuriously, removeWaiter, tableVars
  <2>2. ASSUME NEW q \in DataQueues, heap[q] # None
        PROVE  heap'[q].items = heap[q].items
    <3>1. heap[q] \in Queue /\ heap \in [DataQueues -> Queue \cup {None}]
      BY <2>2 DEF Inv, TypeOK
    <3>2. CASE pullNothing(c)
      BY <3>1, <3>2 DEF pullNothing, reset, Queue
    <3>3. CASE addWaiter(c) \/ removeWaiter(c)
      BY <3>1, <3>3 DEF addWaiter, removeWaiter, Queue
    <3>4. CASE useDeleted(c) \/ waitForData(c) \/ wakeSpuriously(c)
      BY <3>4 DEF useDeleted, waitForData, wakeSpuriously, tableVars
    <3> QED  BY <1>2, <3>2, <3>3, <3>4 DEF Pulling
  <2> QED  BY <2>1, <2>2, MailStays DEF MailboxStep
<1> QED  BY <1>1, <1>2

LEMMA StepRefines == Inv /\ [Next]_vars => MailboxStep
<1> SUFFICES ASSUME Inv, [Next]_vars PROVE MailboxStep
  OBVIOUS
<1>1. CASE UNCHANGED vars
  BY <1>1 DEF vars, Mail, MailboxStep
<1>2. ASSUME NEW p \in Processes, killProcess(p) PROVE MailboxStep
  BY <1>2 DEF killProcess, tableVars, pullVars, Mail, MailboxStep
<1> QED
  BY <1>1, <1>2, AddRefines, ClearRefines, NamedRefines, SessionRefines,
     PullRefines, PullingRefines DEF Next

(* Every line that is put into a queue is taken out once, from the front,  *)
(* by one client, and only clearing or deleting the queue takes it away.   *)
THEOREM QueueImplementsMailbox == Spec => ImplementsMailbox
<1>1. Init => Mailbox!MailboxInit
  BY DEF Init, Mailbox!MailboxInit, Mailbox!Keys, Keys
<1>2. Inv /\ [Next]_vars => [Mailbox!MailboxNext]_<<Mail, hand>>
  BY StepRefines DEF MailboxStep
<1> QED
  BY <1>1, <1>2, InvHolds, PTL DEF Spec, ImplementsMailbox, Mailbox!MailboxSpec, Mail
=============================================================================
