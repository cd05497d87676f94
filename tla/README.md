# A verification project for the concurrency of ooRexx

TLA+ models of the parts of Open Object Rexx in which several threads or
processes meet, with the configurations TLC checks them in and the theorems the
TLA+ proof system (TLAPS) checks. Paths are relative to the repository; `AM` is
`interpreter/concurrency/ActivityManager.cpp`, `AC` is
`interpreter/concurrency/Activity.cpp`, `II` is
`interpreter/runtime/InterpreterInstance.cpp`, `MC` is
`interpreter/classes/MessageClass.cpp`, `QM` is `rexxapi/server/QueueManager.cpp`.

## 1. The system

A process runs the interpreter in one or more **interpreter instances**, each
with one or more **activities**, an activity being a thread's execution state.
All of them share one heap, guarded by the *kernel lock*: Rexx code runs, and
objects are touched, only by the activity that has it. Programs get concurrency
from early `REPLY`, asynchronous messages (`start`) and native threads that
attach. What they synchronise on is the scope lock of an object, `GUARD` waits
for a variable to change, messages, semaphore objects, and, across processes,
the external data queues that the **rxapi** daemon keeps.

| component | state | operations | meets | hard behaviour | correct when |
|---|---|---|---|---|---|
| kernel access, `AM` | kernel lock, `currentActivity`, dispatch queue, three counters of waiters | request, API request, attach, create root, release, relinquish, detach, terminate | every thread | fast path beside a queue, 50 ms timer, nesting of activities on one thread | one runs at a time; nobody is lost, posted twice or starved; counters exact |
| activity, `AC` | semaphores, `waitingObject`, frame stack, thread life | wait and post of guard, reserve, dispatch; dead lock check | all of the below | posts that arrive early or late; chain of waits read while it changes | a wake-up reaches the wait it is meant for |
| object scopes, `VariableDictionary`, `RexxVariable`, `GuardInstruction`, `RexxActivation` | owner, count and queue of a scope; watchers of a variable | guarded call, `GUARD ON/OFF/WHEN`, assignment, `REPLY`, method end | activities | hand-off to the first waiter, test-then-wait, circular waits | lock exclusive and balanced; no update missed; no unnoticed circle |
| messages, `MC` | result, waiters, interested parties, the message a frame reports errors to | send, start, reply, wait, result, notify; completion by return or error | activities, frames | completion against late `notify` and `wait`; errors inside notifications | everyone told once; nobody sleeps on a complete message; only self-waits go unnoticed |
| interpreter instances, `II`, `Interpreter` | lists of activities (of the instance, of all), thread pool, root activity, termination semaphore | create, attach, call, detach, spawn, pool, terminate, halt | kernel access, native threads | termination against threads that still run | those at work finish first; one shutdown; access balanced; work not lost |
| native activations, API | guard state of native methods, protected objects | callbacks, `GuardOnWhenUpdated` | scopes, kernel access | watch armed before a wait that may lose it | as for scopes |
| queue manager of rxapi, `QM` | named and session queues, waiter and reference counts | create, nest, add, pull (with wait), clear, delete | server threads, one per connection | a pull takes its lock piecemeal | items delivered once and in order; no queue goes under its users; no lost wake-up |
| rest of rxapi | registrations, macros, connections | register, load, query, clean up | processes | death of a client | tables follow the living sessions |
| memory manager | segments, dead chains, marks | allocate, collect, uninit | everything, under kernel access | object reachable only through native code | nothing reachable is freed |
| semaphore classes, `SysSemaphore`, `SysMutex` | post count, nesting | post, wait, reset, request | kernel access given up meanwhile | spurious and timed returns | a wait returns for a reason |
| parser, instructions, expressions, numbers, strings, collections, packages, streams, extensions, utilities | - | - | - | sequential | language definition and unit tests |

`PROJECT.json` repeats this list with source files and with what is and is not
modelled, and names under "hazards" the places at which each hard behaviour
bites, with the property that covers it or the reason why none does yet.

## 2. Modules

| module | what it is |
|---|---|
| `KernelAccess` | abstract: ask, enter when nobody is in, leave or step aside; everyone who asks gets in |
| `KernelDispatch` | the kernel lock and the dispatch queue; implements `KernelAccess` |
| `MCKernelDispatch` | its instances |
| `KernelDispatch_proofs` | types and exclusive access, for any set of activities |
| `KernelCounting_proofs` | exact counters, a sound queue, dispatch in order, nobody forgotten or left to the timer |
| `KernelRefinement_proofs` | `KernelDispatch` implements `KernelAccess` |
| `ScopeLock` | abstract: each scope is a lock with a line; enter, line up, leave, hand over, pass on |
| `ObjectGuard`, `MCObjectGuard` | scope locks, `GUARD`, `REPLY`, dead lock check; implements `ScopeLock` |
| `ObjectGuard_proofs` | its safety, its dead lock check and that it implements `ScopeLock`, for any activities, scopes and depth of calls |
| `MessageCompletion`, `MCMessageCompletion` | message objects, their waiters and parties, and the frames that report errors to them |
| `MessageCompletion_proofs` | its safety, for any activities, messages, listeners and bounds |
| `InstanceShutdown` | abstract: come to work and go, close, share out, take apart when nobody is left at work |
| `InstanceLifecycle`, `MCInstanceLifecycle` | attach, calls, workers, the pool and `terminate` of one instance; implements `InstanceShutdown` |
| `InstanceLifecycle_proofs` | its safety and that it implements `InstanceShutdown`, for any threads and bounds |
| `RexxMailbox` | abstract: what an external queue promises |
| `RexxQueue`, `MCRexxQueue` | the queue manager of rxapi; implements `RexxMailbox` |
| `RexxQueue_proofs` | waiter counts, tables, references; no queue deleted under a waiter |
| `RexxQueueRefinement_proofs` | `RexxQueue` implements `RexxMailbox` |

Definitions called `...Mutant` are not part of any specification: each is a
plausible slip in the definition after it, kept to show that a property notices.

### KernelDispatch

One action per stretch of code between two points at which another thread can
come in: the kernel lock taken or let go, the dispatch lock (a `DispatchSection`,
one action from lock to unlock), a wait. `pc` is the place of an activity in
`requestAccess`, `requestApiAccess`, `attachThread`, `getRootActivity` and
`relinquish`; the three ways through `addWaitingActivity` and its relatives end in
`accessGranted`, `apiAccessGranted` and `attachGranted`. `permitted` stands for
an activity's posted run semaphore and its `dispatchPosted` flag, which the code
sets and resets together. `timedOut` is the local variable of
`addWaitingActivity`. `Host` is the activity under a nested one on the same
thread; a host that is in a wait for access can be nested on only where waits
dispatch window messages (the comment at AM:862 says Windows), and native hosts
everywhere. The counters are `size_t` of `SizeMax` + 1 values and wrap.

The abstraction: `yieldRequested` and the time slice only decide whether a yield
point relinquishes, so the model lets it do so or not; numeric settings and the
instance tables are left out. `terminate` is the path on which no activity was
attached for the purpose.

### ObjectGuard

What an activity does between two waits is one step, for it keeps kernel access;
a `GUARD` expression may send messages and therefore is two steps, reading the
variable (`evaluate`) and acting on it. A frame is the dictionary and the
`objectScope` of a `RexxActivation`. A variable's value is whether the guard
expression is true. A condition raised by `checkDeadLock` ends the call or the
`GUARD` instruction that asked. `release` is `VariableDictionary::release` with
the hand-off to the first in line; `reply` is `REPLY` with `transfer`, including a
nested lock, which is not transferred and is reserved again by `resume`.

`ScopeLock` is what this amounts to for the program: who is inside each scope,
how often, and who is in line. `Inside` reads the first off the frames of the
activities (and off a lock that was handed over and not noticed yet), not off
the owner and counter that the code keeps, so the refinement says that the two
agree at every step and that no step - a `REPLY` of a nested lock, a wait given
up and taken again, a refusal - does anything to the locks that a holder of a
plain lock could not do.

### MessageCompletion

The stack of an activity holds activations and, between them, the C++ calls of
`dispatch()` and `sendNotification()` that are under way, because an error cuts
those off. A `"frame"` is a Rexx activation with its `notifyObject`; a native
activation is the base of a started thread, with the message it dispatches, and
moves through `running`, `handling`, `catching` as `NativeActivation::run`,
`Activity::run` and `runThread` catch one error after the other. C++ code keeps
kernel access, so other activities have their turn only while the top of a stack
is Rexx code (`Busy`, `Turn`). `send` is `send()` with `dispatch()` up to the
method, `return` the rest of it with `sendNotification` up to its loop,
`notifyNext` one turn of the loop, which may run code; `setAllNotified` its end.
`RaiseFrom` unwinds to the top frame, as every exception does; `trapNotifies`,
`trapped`, `untrapped` are `RexxActivation::trap` and `raisePropagate`.
`checkDeadLock` is the recursion of AC:2000; when it never comes to an end the
activity is `"endless"`.

The abstraction: receivers are plain Rexx methods, and a notification target is a
message or a listener with a Rexx `messageComplete`. Results, arguments, halts,
forwarded messages and frames stopped in an interactive trace are left out. A post
of the reserve semaphore and the clearing of `waitingObject` that goes with it are
one (`reservePost`), and a `guardPost` that clears it for another reason is in
`ObjectGuard` only. `reused`, `failed` and `lost` are history: messages used more
than once, whose notification an error cut off, that were unwound without being
told. The properties about completion are stated for the others, and each of the
exceptions is something the code does.

### InstanceLifecycle

From the return of `createInstance` on. An activity has the name of its thread,
`pc` is the thread's place. Kernel access is the recursive mutex it is, with a
count, since `terminate` on a thread that was not attached takes it twice. The
resource lock is held for sections that wait for nothing, and each is part of
one action; `removeInactiveActivities` is such a section and runs without kernel
access, between any two steps of the others. Detaching and pooling share `Leave`
(leave the list; post `terminate` if only the root is left). A worker goes from
`start` through `in` and `ending` (inactive, still listed) to the pool, or to
`ended` or `refused`.

`InstanceShutdown` is what `terminate` amounts to. `Busy` is, before the check of
`terminating`, everybody at work on the instance's list (`AtWork`) and afterwards
`held`, those of them that have not left and the workers they spawned. `Stage` and
`Closers` are read off `terminating`, `rootActivity` and the place of the thread in
`terminate`. A thread of the application that calls in after the check is not at
work in this sense: `terminate` does not look for it, and the specification does
not promise to wait for it.

The abstraction: one instance; spawning is one step (the new thread cannot do
anything before `run()` posts it); no activity is suspended by another on the same
thread, which `KernelDispatch` has; an API call made inside a call is nested, up
to `MaxNest`. The contract of the API is kept: the thread that created the
instance does not detach, nobody detaches or terminates in the middle of a call,
nobody begins a call after `terminate` has finished. A thread may call
`terminate` at any other time, also a second one. `crashed` is a thread that has
dereferenced `rootActivity` after another `terminate` cleared it (II:531); nothing
is claimed of it. `held` is history: those at work when `terminate` looked, and
the workers those spawn.

### RexxQueue

A connection has a server thread of its own. `dispatch` holds the manager's lock
for every operation but a pull, so those are one action; a pull is `pull`
(locate), `pullItem`/`pullNothing` (`pullData`), `addWaiter`, `waitForData`,
`removeWaiter`, each of which takes the lock or the semaphore for itself. The
memory that queue objects live in is explicit (`heap`), because a pull goes on
with a bare pointer once it has located its queue: the memory may be freed, and
used for another queue, before the client is counted as a waiter. Using freed
memory is undefined behaviour; such a client goes to the place `"undefined"` and
nothing is claimed of it from then on. `hand` is what a client pulled last. The
client side appears as processes that open the session queue of their own or
their parent's session (`createSessionQueue` stands for create and nest, which do
the same in the server), close it, or are killed. A request that finds no named
queue or a full bound changes nothing and has no action.

## 3. Runs

| run | configuration | shows |
|---|---|---|
| `kernel_safety` | 2 Rexx activities, 1 attacher on the thread of one of them, 1 root on its own thread | type, exclusive access, exact counters, queue holds exactly waiters, nobody forgotten, a release leaves no one to the timer, dispatch in order |
| `kernel_liveness` | 2 Rexx activities, 1 attacher, fairness | the refinement of `KernelAccess` and that everyone who asks is served |
| `guard` | 3 activities, 2 scopes, one watched variable, depth 2, 4 frames in all | locks exclusive and balanced, waiters queued once, no update missed, circles only through a watch, hand-off in order, the refinement of `ScopeLock` |
| `queue` | 3 clients, 2 processes, 1 named and 1 session queue, 2 pieces of memory, 2 items | waiter counts, queues kept under waiters and processes, tables consistent, nobody sleeps through a post, the refinement of `RexxMailbox` |
| `messages` | 2 activities, a message and its copy, a listener, 2 parties, stacks of 4 | list of waiters exact, everyone told, nobody twice, a dispatched message completes, circles are self-waits only, a started message stays on its activity |
| `lifecycle` | 2 threads of the application, 2 workers, room for one in the pool (and one more), 2 spawns, nested calls | those at work finish first, one shutdown, access balanced, work kept, activities anchored, the refinement of `InstanceShutdown`, workers let `terminate` end |
| `relinquish_stall` | 2 activities | *violation*: relinquishing wakes nobody |
| `root_starves` | 1 activity, 1 root, fairness | *violation*: a thread that creates an instance may wait for ever |
| `nested_root_underflow` | 2 activities, 1 root nested on one | *violation*: a counter wraps below zero |
| `guard_circular_wait` | 2 activities | *violation*: an unnoticed circle of waits |
| `message_self_wait` | 2 activities, 1 message | *violation*: an activity waits for the message it runs |
| `queue_lost_wakeup` | 2 clients | *violation*: a client sleeps on a queue that has an item |

**Why these bounds.** Kernel: every pair of ways in (fast path, queue, API,
attach, root) meets in the safety run, with a third party to hold the lock and a
nesting; the queue reaches length three, so a removal from the middle, an entry
posted out of turn and a suspended head all occur. The counters' width is 8
values for at most 4 activities: a single wrap shows. Guard: a circle needs two
activities and two scopes, a third makes it pass through a bystander and gives a
queue of two behind an owner; depth 2 is what nested reservation, a lock that
`REPLY` cannot transfer and a call under a watch need. Queue: a wake-up lost
between two clients, a third that takes their item, one queue freed and its
memory used by the other. Messages: a circle of waits needs two activities, a message that
is told of itself or of its copy needs one entry in the list of parties and a
late one a second; a stack of 4 holds a method that is told of a message while
it runs one. `VIEW` of `MCMessageCompletion` forgets what was told of a message
that is used again, of which nothing is claimed. Instance: the thread that
terminates, one beside it, one worker that spawns another, a pool that has to
refuse. Symmetry is declared for sets whose members the
specification never tells apart, only in runs of safety properties. `MCObjectGuard` has a
`VIEW` that forgets a posted semaphore outside the places that look at it before
the code resets it.

`guard` does not check for deadlock, since an activity whose frame watches a
variable that nobody is left to set stops rightly; nor does `messages`, where
an activity may wait for a message nobody sends, nor `lifecycle`, which is over
after `terminate`.

**Fairness.** `FairSpec` of `KernelDispatch` assumes that a runnable thread runs
(weak fairness of its steps), that the 50 ms timer fires, that a running program
reaches a yield point (the loop looks every so many instructions,
`interpreter/execution/RexxActivation.cpp:614`), and that a mutex which is free again
and again is not refused to one thread for ever (strong fairness of `lockKernel`;
POSIX promises less, the platforms' schedulers give it). Nobody is obliged to
leave the kernel of its own accord or to ask again. In `kernel_liveness`, then,
being served is owed to yield points and counters alone. `FairSpec` of
`InstanceLifecycle` assumes that a thread of the application that has kernel
access gives it up or yields, but not that its calls ever end; that `terminate`
wakes when it was posted; and that workers get access in the end (which
`kernel_liveness` shows), return from their calls and come to the end of their
work. A worker whose program runs for ever does keep `terminate` waiting, and is
meant to.

## 4. Disagreements found

1. `releaseAccess()` in `addWaitingActivity` (AM:220) dispatches nobody, although
   its comments say it pokes the next one. Everyone waits for a timer.
2. `getRootActivity` (AM:925) waits uncounted, so no program yields to it.
3. A root activity nested on a waiting one leaves the counters one short for
   good (AM:956); the next grant to the host wraps a `size_t` to its maximum.
4. `guardPost` (AC:2069) erases what a blocked activity waits for, and the dead
   lock check misses the circle. The run `guard` shows that this is the only
   way: a circle always has a member that watches a variable.
5. `DataQueue::pull` (QM:237) counts itself too late: an item added in between
   posts nobody.
6. `MessageClass::wait` (MC:250) asks the activity that runs the message what it
   waits for, but not whether it is the caller: a method that waits for its own
   message is not told so, and the next one to wait for that message recurses
   without end in `checkDeadLock` with kernel access held. `OnlySelfWaits` shows
   that there is no other unnoticed circle.

Not runs, but met on the way: two `terminate` calls may race so that the second
dereferences the cleared `rootActivity` (II:531, the place `crashed`; the comment
at II:540 expects calls from two threads). The activity that `terminate`
attaches for its own thread is never returned, so it stays in the manager's list
for good. A worker that a full pool refuses is off that list before its thread
ends (AM:656), which `Anchored` has to except. A thread of the application that
has got kernel access and is not yet marked active is taken for idle by
`terminate` (AC:339).

## 5. Proofs

For every finite set of activities, every nesting of threads and every width of
`size_t` greater than the number of activities:

* `TypeCorrect` - `Spec => []TypeOK`. `TypeOK` is inductive.
* `AccessIsExclusive` - `Spec => []AccessExclusive`. `AccessExclusive` says who
  owns the lock at each place of `pc`, which makes it inductive with `TypeOK`.
* `WaitersAreCounted` - `NoNestedRoots => (Spec => []WaitingCountsExact)`.
  The inductive invariant adds `Nesting`: what is nested on what, that a host
  under a nested activity stands still, and which places imply
  `waitingForDispatch`. Each action adds or removes one member of the sets the
  counters stand for; finite cardinalities do the rest. `NoNestedRoots` (no
  root activity is created on the thread of another activity) is necessary:
  `nested_root_underflow` is the counterexample without it.
* `QueueIsSound` - `Spec => []QueueHoldsWaiters`, nested roots or not. `QueueSound`
  adds to the types and `Nesting` where an activity whose wait timed out may be
  (`TimedOutPlaces`): it posts itself and so stays in the queue after it was
  posted, until it has the kernel. `AppendIn`, `TailIn`, `RemoveIn` and
  `DispatchIn` say what each operation on the queue does to its members.
* `NobodyIsForgotten` - `NoNestedRoots => (Spec => []NobodyForgotten)`: inductive
  given `QueueSound`. The premise is needed because `returnRootActivity` drops the
  pointer to the host and posts nobody.
* `DispatchedInOrder` - `Spec => DispatchInOrder`: a property of each step from a
  state with `QueueSound`; the one who is passed over when a nested activity
  takes the head of the queue out is the host it suspends.
* `ReleaseWakesOthers` - `NoNestedRoots => (Spec => ReleaseWakesWaiters)`: a nested
  activity has pushed its host down, or is on its way in or out and moves by
  itself (`HostPushedDown`), so whoever waits in line after a `releaseAccess`
  leads, by `NobodyForgotten`, to somebody who goes on without the 50 ms timer.
* `DispatchImplementsAccess` - `Spec => ImplementsAccess`, with `currentActivity`
  as the holder and the activities on one of the ways in as those who want; the
  invariant adds that a current activity is at a place where it runs.

For every set of names, sessions, pieces of memory and items, and every finite
set of processes and clients (`QueueConstants`: names and sessions differ, and
nothing else is mistaken for `None`):

* `QueueTypeCorrect`, `WaitersCounted`, `WaitersKeepTheirQueue` and
  `QueuesAreListed` - the first four invariants of the run `queue`. They need each
  other: a queue may be deleted when its count is zero, which is safe only if the
  count is exact; the count is exact only if no queue is freed, and its memory
  used again, under a client that is counted in it; and a counted client keeps
  *its* queue only if the tables list every queue once. `Inv` is their conjunction
  in inductive form (a client in a pull has a pointer; the pointer of a registered
  one is good; the tables are one to one with the living objects). Steps come
  in four kinds - an operation that creates or changes one queue, a change in
  place, a deletion, a step that touches no queue - with a lemma for each; only
  `addWaiter` and `removeWaiter` change the set that is counted.
* `SessionsAreKept` - `SessionKept` is inductive given `Inv`: every step but
  opening and closing a session keeps or raises the references
  (`ReferencesStay`), and those two count along.
* `NobodySleepsThrough` - `SleepersUnposted` is inductive given `Inv`: a sleeping
  client is counted at the queue it sleeps at, so whoever adds an item finds the
  count above zero and wakes everyone (`CheckWaitersWakes`); every other step
  leaves the sleepers and their semaphores alone (`SleepersStay`).
* `QueueImplementsMailbox` - `Spec => ImplementsMailbox`. A change to one queue
  object changes the mail of one name (`MailChanges`, which rests on the tables),
  and a pull takes from the mailbox it turned to: between the two steps the
  queue may have been renamed by deletion and creation, and the item then comes
  from the mailbox that is there.

For any finite set of activities, any scopes and any bounds on calls
(`GuardAssumption`):

* `GuardTypeCorrect`, `ScopesExclusive`, `WaitersInLine`, `AssignmentsSeen` - the
  first four invariants of the run `guard`. `IInv` says of every activity what its
  place implies for its top activation (`Placed`: what it waits for is not
  reserved, who watches a variable is among its dependents), and of every scope
  that only the owner has reservations or a lock handed to it and not yet
  noticed, counted together (`LockOK`), and that its queue lists those blocked
  there (`QueueOK`). The owner of a lock is never blocked for it, so the first in line is
  somebody else, and a free lock has no queue. A lemma states each way a lock can
  change - taken, awaited, received, moved by `REPLY`, given up once, freed, handed
  on - in terms of those notions; `ReserveLocks`, `GivenBack`, `WaitOver` and
  `ReplyLocks` apply them to the operations. Nothing is assumed of
  what `checkDeadLock` answers.
* `ServedInOrder` - `HandedInOrder` follows from `IInv` step by step: a free lock
  has no queue, so `reserve` cannot overtake anybody.
* `LocksImplementLines` - `Spec => ImplementsLock`. By `LockOK` the activations that
  may run guarded are as many as the counter says, all of the owner's
  (`InsideIs`), so a step of the owner and counter is a step of `Inside`:
  `ReserveRefines` makes it an `Enter`, a `LineUp` or, if the check for circular
  waits refuses, a stutter; `ReleaseRefines` a `Leave` or a `HandOver`;
  `ReplyRefines` a `Pass`, or one of those when the lock is nested. `QueueOK` gives
  the guards that somebody in line does nothing else.
* `CirclesInvolveGuard` - `Spec => []CircularWaitInvolvesGuard`: what
  `checkDeadLock` is for. `NoCircle` says it of sets: activities all of which wait
  for locks that others of them have include one that watches a variable.
  `WaitsShown` says which waits `checkDeadLock` can see: all but those whose
  `waitingObject` an assignment to a watched variable has reset. Steps that block
  nobody keep both (`CalmKeeps`): a lock changes hands only to an activity that is
  not blocked. When `a` blocks (`WaitCloses`), a set that closes with `a` in it
  would hold the whole chain of owners the check followed; the chain visits more
  places than there are activities, so it comes back to itself without `a`, and
  what it comes back to was such a set before.

For any threads, workers and bounds of an interpreter instance
(`InstanceAssumption`):

* `TypesHold`, `FinishFirst`, `ShutdownOnce`, `AccessPaired`, `WorkNotLost`,
  `StaysAnchored` - every invariant of the run `lifecycle`. None is inductive by
  itself; `IInv` adds how deep in calls a thread is at each place (`DepthInv`),
  how often attached (`AttachInv`), what follows from being past the check of
  `terminating` (`TerminatingInv`), who is on the instance's list (`ListInv`), and
  the heart, `HeldInv`: those `terminate` has to wait for are on the list or seen
  at `ending`, and once it was posted, or found nobody else on the list, only
  the latter. A worker at `ending` has kernel access, which `terminate` must take
  before it begins (`AccessBalanced`): hence `ThreadsFinishFirst`. There is a
  lemma for every part, with one step for each action.
* `ShutdownImplemented` - `Spec => ImplementsShutdown`. Four steps of `terminate`
  move the stage (`Turning`), and by `OneShutdown` they are the steps of the one
  thread that closes the instance (`OneCloser`, `TurnRefines`); no other step takes
  a thread into `terminate` or out of it (`OnlyTerminateTurns`). Until the instance
  is closed a step lets one thread come to work or go (`WorkComesAndGoes`); after
  that the threads `terminate` has to wait for shrink, or grow by a worker that one
  of them spawns (`HeldOnlyShared`). `ThreadsFinishFirst` gives the guard of
  `TakeApart`.

For any finite set of activities, any messages, copies and listeners, and any
bounds that leave room for a method above its dispatch (`MessageAssumption`):

* `MessageTypeCorrect`, `SleepersAreKnown`, `StartedStays` - two invariants and the
  step property of the run `messages`. `Inv` is the types, `SleepersKnown` and
  `StacksOK`: what each entry of a stack may be, that a stack has a base and every
  message on it exists, and that a loop over parties stays within them. A step
  either keeps a message's record or lets it grow (`Grows`): a party is added or
  told, a completion appears, a start is recorded once. That a posted waiter is
  no longer listed, and a listed one not posted, is what makes it inductive.
* `EveryoneIsTold` - `ToldInv`: a loop under way belongs to a complete message, and
  the parties it has passed, and those behind its end, were told or came late
  (`LoopTold`); a message used once is marked as notified only when this
  holds for all its parties. Between steps a party that was told stays so
  (`RecordKeeps`).
* `NobodyIsToldTwice` - `OnceInv`, of messages used once that no party failed at.
  All their entries are on the stack of one activity (`EntryOnce`): a call of
  `dispatch()` and, next below it, the frame that remembers the message, or the
  base of a thread; then at most one loop, alone but for that base
  (`Together`, `LoopAbove`). Before the completion nobody was told; during the
  loop nobody from its next party on (`UntoldFrom`). So nobody begins a second
  loop: a return takes the dispatch and the frame's memory of it along, an error
  that comes later finds neither, and the base of a complete message has its loop
  right above it, for an error that cuts the loop off is the failure the property
  excepts. That a notified message has no loop left comes from `ToldInv`: such a
  loop would still have somebody to tell. Steps that leave a message alone keep
  this whatever stack they change (`OnceMild`, `OnceMoves`).
* `DispatchesComplete` - `FlowInv`: a method runs right above the dispatch that
  called it, the frame below knows the message, and the base of a thread runs a
  message that was started. So a return pops a dispatch with its method, and a
  condition that unwinds one meets a frame that reports it.
* `OnlySelfWaitsSlip` - `CalmInv`: in every set of activities that is closed under
  "waits for a message whose activity is", some member waits for its own;
  only sleeping activities have a `waitingObject`; and while one recurses in
  `checkDeadLock`, holding kernel access, nobody else moves. A new wait that closes
  a set has been seen by the walk over `Owners`: the walk is a recursive function
  on numbers, a chain longer than the number of activities repeats
  (`FS_PigeonHole`), and the repetition is a closed set. Its one induction is over
  a set of numbers (`UpTo`), for which the library's well-founded theorem needs no
  operator.

**Only model-checked**: the liveness properties `EveryoneServed` and
`WorkersLetTerminate`, and what the violation runs refute (TLAPS does not prove
liveness under fairness, nor ENABLED). Every invariant and step property and every
refinement that a run finds to hold is a theorem; three of those about `KernelDispatch`
under `NoNestedRoots`, for the reasons given.

## 6. Not modelled, and why

Parser, instruction semantics, numbers, strings, collections, streams and
extensions are sequential under the kernel lock, and are the business of unit
tests. The memory manager's states are too large for a faithful small model.
Sockets end the model at the item in a client's hand. Platform: the Unix
primitives are the reference; Windows appears only in the nesting on a waiting
host. `PROCESS_CLEANUP` of rxapi is handled by the server but sent by no client.

## 7. Plan

1. `ObjectGuard` extended: native guard waits, guard expressions that call,
   activities sharing a thread.
2. `MessageCompletion` with halt and with native receivers, and an abstract
   specification of what a message promises those who wait for it, the one
   component without one; instances that share threads in `InstanceLifecycle`.
3. rxapi registrations with their per-session references, if they earn it.
