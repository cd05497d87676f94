----------------------------- MODULE ObjectGuard -----------------------------
(***************************************************************************)
(* Guarded methods: the scope lock of an object's variable dictionary      *)
(* (VariableDictionary::reserve, release, transfer), the GUARD instruction *)
(* with its wait for a variable to change (RexxActivation, RexxVariable),  *)
(* REPLY, and the detection of circular waits (Activity::checkDeadLock).   *)
(*                                                                         *)
(* An activity runs only while it has kernel access (KernelDispatch), and  *)
(* all of this code keeps it except where it blocks, so whatever an        *)
(* activity does between two waits is one step.  A GUARD expression may    *)
(* send messages, and so lets others run between the value it reads and    *)
(* the use of its result.                                                  *)
(*                                                                         *)
(* Each activity is the only one on its thread.  A condition raised by the *)
(* deadlock check ends the method call or the instruction that asked for   *)
(* the lock; whether the program traps it or unwinds further is left open  *)
(* (unwinding is a sequence of endMethod steps).                           *)
(***************************************************************************)
EXTENDS Integers, Sequences, FiniteSets, Functions

CONSTANTS Activities,   \* the activities, one per thread
          Dictionaries, \* VariableDictionary: one scope of one object
          Watchable,    \* the dictionaries with a variable some GUARD names
          MaxDepth,     \* bound: nested method calls of an activity,
          MaxFrames,    \*   and method calls of all activities together
          None          \* OREF_NULL

ASSUME GuardAssumption ==
    /\ None \notin Activities \cup Dictionaries
    /\ IsFiniteSet(Activities)
    /\ Watchable \subseteq Dictionaries
    /\ MaxDepth \in Nat \ {0}
    /\ MaxFrames \in Nat

VARIABLES
    reservingActivity,  \* VariableDictionary: the owner of the scope lock
    reserveCount,       \*   how often it has the lock
    waitingActivities,  \*   who waits for it, first come first
    value,              \* RexxVariable: the watched variable (true or false)
    dependents,         \*   the activities to inform of a change
    waitingObject,      \* Activity: what it waits for (for checkDeadLock)
    guardSem,           \*   the semaphores, posted or not
    reserveSem,
    frames,             \* its activations: the dictionary, and objectScope
    held,               \* RexxActivation::guardWait(): initial_state
    pc

dictionaryVars == <<reservingActivity, reserveCount, waitingActivities>>
variableVars == <<value, dependents>>
vars == <<dictionaryVars, variableVars, waitingObject, guardSem, reserveSem,
          frames, held, pc>>

Places == {"run",          \* runs Rexx code, or is idle with no activation
           "invoke",       \* waits in reserve(), for a guarded method,
           "guardOn",      \*   for GUARD ON,
           "whenOn",       \*   for GUARD ON WHEN before the first test,
           "rewait",       \*   for the lock that guardWait() gave up,
           "resume",       \*   for the lock a REPLY could not transfer
           "replied",      \* a REPLY activity whose transfer failed
           "evaluate",     \* evaluates a GUARD expression
           "passed",       \* the expression was true
           "failed",       \* the expression was false
           "guardWait"}    \* waits in Activity::guardWait()
Reserving == {"invoke", "guardOn", "whenOn", "rewait", "resume"}

Init ==
    /\ reservingActivity = [d \in Dictionaries |-> None]
    /\ reserveCount = [d \in Dictionaries |-> 0]
    /\ waitingActivities = [d \in Dictionaries |-> <<>>]
    /\ value = [d \in Watchable |-> FALSE]
    /\ dependents = [d \in Watchable |-> {}]
    /\ waitingObject = [a \in Activities |-> None]
    /\ guardSem = [a \in Activities |-> FALSE]
    /\ reserveSem = [a \in Activities |-> FALSE]
    /\ frames = [a \in Activities |-> <<>>]
    /\ held = [a \in Activities |-> FALSE]
    /\ pc = [a \in Activities |-> "run"]

-----------------------------------------------------------------------------
(* Variants named ...Mutant are not part of the model: each is a plausible *)
(* slip in a definition that follows it, kept to show that a property      *)
(* would notice.                                                           *)

At(a, place) == pc[a] = place
Goto(a, place) == pc' = [pc EXCEPT ![a] = place]
Depth(a) == Len(frames[a])
MayCall(a) ==
    /\ At(a, "run")
    /\ Depth(a) < MaxDepth
    /\ SumFunction([b \in Activities |-> Depth(b)]) < MaxFrames
Top(a) == frames[a][Depth(a)]
Frame(d, scope) == [dictionary |-> d, objectScope |-> scope]
Popped(s) == SubSeq(s, 1, Len(s) - 1)
WithScope(s, scope) ==
    [s EXCEPT ![Len(s)].objectScope = scope]

(* The activity that o waits for, as checkDeadLock() finds it.             *)
OwnerOfWait(o) ==
    IF o = None \/ waitingObject[o] = None
    THEN None ELSE reservingActivity[waitingObject[o]]

CheckOwnerMutant(owner, a) == owner = a

(* checkDeadLock(a), sent to the owner: follow the waits from there.       *)
checkDeadLock(owner, a) ==
    LET chain[n \in 0..Cardinality(Activities)] ==
            IF n = 0 THEN owner ELSE OwnerOfWait(chain[n - 1])
    IN  \E n \in 1..Cardinality(Activities) : chain[n] = a

(* What follows once a has the lock it asked for, by the place it waits.   *)
Proceed(a, why) ==
    CASE why \in {"invoke", "guardOn", "resume"} ->
             Goto(a, "run") /\ UNCHANGED guardSem
      [] why \in {"whenOn", "rewait"} ->
             Goto(a, "evaluate") /\ guardSem' = [guardSem EXCEPT ![a] = FALSE]

(* VariableDictionary::reserve() for the top activation of s, with the     *)
(* rest of the operation that asks for it.                                 *)
reserve(a, s, why) ==
    LET d == s[Len(s)].dictionary
        owner == reservingActivity[d]
    IN
    \/ /\ owner \in {None, a}
       /\ reservingActivity' = [reservingActivity EXCEPT ![d] = a]
       /\ reserveCount' = [reserveCount EXCEPT ![d] = IF owner = a THEN @ + 1 ELSE 1]
       /\ frames' = [frames EXCEPT ![a] = WithScope(s, "reserved")]
       /\ Proceed(a, why)
       /\ UNCHANGED <<waitingActivities, waitingObject, reserveSem>>
    \/ /\ owner \notin {None, a}
       /\ ~checkDeadLock(owner, a)
       /\ waitingActivities' = [waitingActivities EXCEPT ![d] = Append(@, a)]
       /\ reserveSem' = [reserveSem EXCEPT ![a] = FALSE]
       /\ waitingObject' = [waitingObject EXCEPT ![a] = d]
       /\ frames' = [frames EXCEPT ![a] = s]
       /\ Goto(a, why)
       /\ UNCHANGED <<reservingActivity, reserveCount, guardSem>>
    \/ /\ owner \notin {None, a}
       /\ checkDeadLock(owner, a)
       /\ frames' = [frames EXCEPT ![a] =
                        IF why \in {"invoke", "resume"} THEN Popped(s) ELSE s]
       /\ Goto(a, "run")
       /\ UNCHANGED <<dictionaryVars, waitingObject, reserveSem, guardSem>>

(* The last release leaves the lock to next, posts it, and leaves others   *)
(* in line.                                                                *)
ReleaseTo(d, next, others) ==
    /\ reserveCount' = [reserveCount EXCEPT ![d] =
                           IF @ = 1 /\ next # None THEN 1 ELSE @ - 1]
    /\ IF reserveCount[d] > 1
       THEN UNCHANGED <<reservingActivity, waitingActivities, waitingObject,
                        reserveSem>>
       ELSE /\ reservingActivity' = [reservingActivity EXCEPT ![d] = next]
            /\ waitingActivities' = [waitingActivities EXCEPT ![d] = others]
            /\ waitingObject' = [b \in Activities |->
                                   IF b = next THEN None ELSE waitingObject[b]]
            /\ reserveSem' = [b \in Activities |-> reserveSem[b] \/ b = next]

ReleaseKeepsMutant(d) ==
    LET q == waitingActivities[d]
    IN  ReleaseTo(d, IF q = <<>> THEN None ELSE Head(q), q)
ReleaseLastMutant(d) ==
    LET q == waitingActivities[d]
    IN  IF q = <<>> THEN ReleaseTo(d, None, q)
        ELSE ReleaseTo(d, q[Len(q)], Popped(q))

(* VariableDictionary::release(): removeFirst() is the new owner.          *)
release(d) ==
    LET q == waitingActivities[d]
    IN  IF q = <<>> THEN ReleaseTo(d, None, q)
        ELSE ReleaseTo(d, Head(q), Tail(q))

(* The lock of a dictionary that is not touched by a step.                 *)
KeepLocks == UNCHANGED <<dictionaryVars, waitingObject, reserveSem>>

-----------------------------------------------------------------------------
(* A guarded method reserves the scope first ...                           *)
invokeGuarded(a, d) ==
    /\ MayCall(a)
    /\ reserve(a, Append(frames[a], Frame(d, "released")), "invoke")
    /\ UNCHANGED <<variableVars, held>>

(* ... an unguarded one does not.                                          *)
invokeUnguarded(a, d) ==
    /\ MayCall(a)
    /\ frames' = [frames EXCEPT ![a] = Append(@, Frame(d, "released"))]
    /\ KeepLocks
    /\ UNCHANGED <<variableVars, guardSem, held, pc>>

(* termination() gives the scope back if the activation has it.            *)
endMethod(a) ==
    /\ At(a, "run")
    /\ Depth(a) > 0
    /\ IF Top(a).objectScope = "reserved" THEN release(Top(a).dictionary) ELSE KeepLocks
    /\ frames' = [frames EXCEPT ![a] = Popped(@)]
    /\ UNCHANGED <<variableVars, guardSem, held, pc>>

guardOn(a) ==
    /\ At(a, "run")
    /\ Depth(a) > 0
    /\ Top(a).objectScope = "released"
    /\ reserve(a, frames[a], "guardOn")
    /\ UNCHANGED <<variableVars, held>>

GuardOffUncheckedMutant(a) ==
    /\ At(a, "run")
    /\ Depth(a) > 0
    /\ release(Top(a).dictionary)
    /\ frames' = [frames EXCEPT ![a] = WithScope(@, "released")]
    /\ UNCHANGED <<variableVars, guardSem, held, pc>>

guardOff(a) ==
    /\ At(a, "run")
    /\ Depth(a) > 0
    /\ Top(a).objectScope = "reserved"
    /\ release(Top(a).dictionary)
    /\ frames' = [frames EXCEPT ![a] = WithScope(@, "released")]
    /\ UNCHANGED <<variableVars, guardSem, held, pc>>

OneSemaphoreMutant(a) ==
    /\ pc[a] \in Reserving
    /\ reserveSem[a] \/ guardSem[a]
    /\ frames' = [frames EXCEPT ![a] = WithScope(@, "reserved")]
    /\ Proceed(a, pc[a])
    /\ KeepLocks
    /\ UNCHANGED <<variableVars, held>>

(* The wait in reserve() is over: release() has already made a the owner.  *)
waitReserve(a) ==
    /\ pc[a] \in Reserving
    /\ reserveSem[a]
    /\ frames' = [frames EXCEPT ![a] = WithScope(@, "reserved")]
    /\ Proceed(a, pc[a])
    /\ KeepLocks
    /\ UNCHANGED <<variableVars, held>>

-----------------------------------------------------------------------------
(* GUARD ON WHEN: watch the variable, take the lock, clear the semaphore.  *)
guardOnWhen(a) ==
    /\ At(a, "run")
    /\ Depth(a) > 0
    /\ Top(a).dictionary \in Watchable
    /\ dependents' = [dependents EXCEPT ![Top(a).dictionary] = @ \cup {a}]
    /\ IF Top(a).objectScope = "released"
       THEN reserve(a, frames[a], "whenOn")
       ELSE Proceed(a, "whenOn") /\ KeepLocks /\ UNCHANGED frames
    /\ UNCHANGED <<value, held>>

(* GUARD OFF WHEN: the same without the lock.                              *)
guardOffWhen(a) ==
    /\ At(a, "run")
    /\ Depth(a) > 0
    /\ Top(a).dictionary \in Watchable
    /\ dependents' = [dependents EXCEPT ![Top(a).dictionary] = @ \cup {a}]
    /\ IF Top(a).objectScope = "reserved" THEN release(Top(a).dictionary) ELSE KeepLocks
    /\ frames' = [frames EXCEPT ![a] = WithScope(@, "released")]
    /\ Proceed(a, "whenOn")
    /\ UNCHANGED <<value, held>>

evaluate(a) ==
    /\ At(a, "evaluate")
    /\ Goto(a, IF value[Top(a).dictionary] THEN "passed" ELSE "failed")
    /\ KeepLocks
    /\ UNCHANGED <<variableVars, guardSem, frames, held>>

(* The expression was true: stop watching.                                 *)
clearGuard(a) ==
    /\ At(a, "passed")
    /\ dependents' = [dependents EXCEPT ![Top(a).dictionary] = @ \ {a}]
    /\ Goto(a, "run")
    /\ KeepLocks
    /\ UNCHANGED <<value, guardSem, frames, held>>

GuardWaitResetsMutant(a) ==
    /\ At(a, "failed")
    /\ held' = [held EXCEPT ![a] = Top(a).objectScope = "reserved"]
    /\ IF Top(a).objectScope = "reserved" THEN release(Top(a).dictionary) ELSE KeepLocks
    /\ frames' = [frames EXCEPT ![a] = WithScope(@, "released")]
    /\ guardSem' = [guardSem EXCEPT ![a] = FALSE]
    /\ Goto(a, "guardWait")
    /\ UNCHANGED variableVars

(* It was false: RexxActivation::guardWait() gives the scope up ...        *)
guardWait(a) ==
    /\ At(a, "failed")
    /\ held' = [held EXCEPT ![a] = Top(a).objectScope = "reserved"]
    /\ IF Top(a).objectScope = "reserved" THEN release(Top(a).dictionary) ELSE KeepLocks
    /\ frames' = [frames EXCEPT ![a] = WithScope(@, "released")]
    /\ Goto(a, "guardWait")
    /\ UNCHANGED <<variableVars, guardSem>>

(* ... and takes it again once the variable was set.                       *)
guardWake(a) ==
    /\ At(a, "guardWait")
    /\ guardSem[a]
    /\ IF held[a]
       THEN reserve(a, frames[a], "rewait")
       ELSE Proceed(a, "rewait") /\ KeepLocks /\ UNCHANGED frames
    /\ held' = [held EXCEPT ![a] = FALSE]
    /\ UNCHANGED variableVars

(* RexxVariable::set() and drop(): guardPost() to everyone who watches.    *)
notify(a, v) ==
    /\ At(a, "run")
    /\ Depth(a) > 0
    /\ Top(a).dictionary \in Watchable
    /\ LET d == Top(a).dictionary IN
       /\ value' = [value EXCEPT ![d] = v]
       /\ waitingObject' = [b \in Activities |->
                              IF b \in dependents[d] THEN None ELSE waitingObject[b]]
       /\ guardSem' = [b \in Activities |-> guardSem[b] \/ b \in dependents[d]]
    /\ UNCHANGED <<dictionaryVars, dependents, reserveSem, frames, held, pc>>

-----------------------------------------------------------------------------
ReplyNestedMutant(a, b) ==
    /\ At(a, "run") /\ Depth(a) > 0
    /\ b # a /\ At(b, "run") /\ Depth(b) = 0
    /\ frames' = [frames EXCEPT ![a] = Popped(@), ![b] = <<Top(a)>>]
    /\ IF Top(a).objectScope = "released"
       THEN UNCHANGED reservingActivity
       ELSE reservingActivity' = [reservingActivity EXCEPT ![Top(a).dictionary] = b]
    /\ UNCHANGED <<reserveCount, waitingActivities, waitingObject, reserveSem>>
    /\ UNCHANGED <<variableVars, guardSem, held, pc>>

(* REPLY: the activation goes on in a new activity b (one with no work),   *)
(* and takes its lock along if it is not nested.  (run() posts every       *)
(* semaphore of b; the ones here are reset before b looks at them.)        *)
reply(a, b) ==
    /\ At(a, "run") /\ Depth(a) > 0
    /\ b # a /\ At(b, "run") /\ Depth(b) = 0
    /\ frames' = [frames EXCEPT ![a] = Popped(@), ![b] = <<Top(a)>>]
    /\ LET d == Top(a).dictionary IN
       IF Top(a).objectScope = "released"
       THEN KeepLocks /\ UNCHANGED pc
       ELSE IF reserveCount[d] = 1
       THEN /\ reservingActivity' = [reservingActivity EXCEPT ![d] = b]
            /\ UNCHANGED <<reserveCount, waitingActivities, waitingObject,
                           reserveSem, pc>>
       ELSE release(d) /\ Goto(b, "replied")
    /\ UNCHANGED <<variableVars, guardSem, held>>

(* The activity of a REPLY starts to run and asks for the lock again.      *)
resume(b) ==
    /\ At(b, "replied")
    /\ reserve(b, frames[b], "resume")
    /\ UNCHANGED <<variableVars, held>>

-----------------------------------------------------------------------------
Call(a) == \E d \in Dictionaries : invokeGuarded(a, d) \/ invokeUnguarded(a, d)
Guard(a) == guardOn(a) \/ guardOff(a) \/ guardOnWhen(a) \/ guardOffWhen(a)
Assign(a) == \E v \in BOOLEAN : notify(a, v)
Reply(a) == \E b \in Activities : reply(a, b)

(* What an activity does of itself, once it has begun something.           *)
GoOn(a) == \/ endMethod(a) \/ waitReserve(a) \/ evaluate(a) \/ clearGuard(a)
           \/ guardWait(a) \/ guardWake(a) \/ resume(a)

Next == \E a \in Activities :
            Call(a) \/ Guard(a) \/ Assign(a) \/ Reply(a) \/ GoOn(a)

Spec == Init /\ [][Next]_vars

-----------------------------------------------------------------------------
(* The activations of a that have the scope lock of d.  An activity that   *)
(* has still to resume its REPLY has not got the lock of its activation.   *)
HasTransfer(a) == pc[a] \notin {"replied", "resume"}
Reservations(a, d) ==
    IF HasTransfer(a)
    THEN {i \in 1..Depth(a) : frames[a][i] = Frame(d, "reserved")} ELSE {}

(* a waits in reserve(), and the lock has not been handed to it yet.       *)
Blocked(a) == pc[a] \in Reserving /\ ~reserveSem[a]

(* Every variable has its type (VariableDictionary, RexxVariable, Activity *)
(* and RexxActivation members).                                            *)
TypeOK ==
    /\ reservingActivity \in [Dictionaries -> Activities \cup {None}]
    /\ reserveCount \in [Dictionaries -> Nat]
    /\ waitingActivities \in [Dictionaries -> Seq(Activities)]
    /\ value \in [Watchable -> BOOLEAN]
    /\ dependents \in [Watchable -> SUBSET Activities]
    /\ waitingObject \in [Activities -> Dictionaries \cup {None}]
    /\ guardSem \in [Activities -> BOOLEAN]
    /\ reserveSem \in [Activities -> BOOLEAN]
    /\ frames \in [Activities -> Seq([dictionary : Dictionaries,
                                      objectScope : {"reserved", "released"}])]
    /\ \A a \in Activities : Depth(a) <= MaxDepth
    /\ held \in [Activities -> BOOLEAN]
    /\ pc \in [Activities -> Places]

(* A scope is locked for one activity at a time, and as often as it has    *)
(* activations that reserved it, through calls, GUARD, waits, hand-offs    *)
(* and REPLY: no method runs guarded without the lock ("GUARD ON WHEN      *)
(* allows method to run concurrently"), and no lock is left behind.        *)
ScopeExclusive ==
    \A d \in Dictionaries :
        LET handed == {a \in Activities : /\ pc[a] \in Reserving /\ reserveSem[a]
                                          /\ Top(a).dictionary = d}
            owners == {a \in Activities : Reservations(a, d) # {}} \cup handed
        IN  /\ reservingActivity[d] = None => owners = {} /\ reserveCount[d] = 0
            /\ reservingActivity[d] # None =>
                 /\ owners = {reservingActivity[d]}
                 /\ reserveCount[d] =
                      Cardinality(Reservations(reservingActivity[d], d))
                        + Cardinality(handed)

(* An activity blocked in reserve() is in the queue of that dictionary,    *)
(* once, and nobody else is: no hand-off is lost or given to the wrong one.*)
WaitersQueued ==
    \A d \in Dictionaries :
        LET q == waitingActivities[d] IN
        /\ \A i, j \in 1..Len(q) : q[i] = q[j] => i = j
        /\ {q[i] : i \in 1..Len(q)}
             = {a \in Activities : Blocked(a) /\ Top(a).dictionary = d}

(* An activity does not sleep in a GUARD wait while its expression is true *)
(* and nobody has told it so, whenever the assignment came: before, in the *)
(* middle of, or after the evaluation that failed.                         *)
GuardNotMissed ==
    \A a \in Activities :
        pc[a] \in {"failed", "guardWait"} /\ value[Top(a).dictionary] => guardSem[a]

(* a waits for the lock that b has.                                        *)
WaitsFor(a, b) == Blocked(a) /\ reservingActivity[Top(a).dictionary] = b
WaitChain(a) ==
    LET chain[n \in 0..Cardinality(Activities)] ==
            IF n = 0 THEN {a}
            ELSE {c \in Activities : \E b \in chain[n - 1] : WaitsFor(b, c)}
    IN  UNION {chain[n] : n \in 1..Cardinality(Activities)}

(* reserve() never completes a circle of waits: it calls checkDeadLock(),  *)
(* "Check for a circular wait dead lock error" (Activity.cpp:1995).        *)
NoCircularWait == \A a \in Activities : a \notin WaitChain(a)

(* ... at least not among activities none of which watches a variable.     *)
CircularWaitInvolvesGuard ==
    \A a \in Activities :
        a \in WaitChain(a) =>
            \E b \in WaitChain(a), d \in Watchable : b \in dependents[d]

(* A lock for which somebody waits goes to the first in line, or stays, or *)
(* moves to the REPLY of its owner: nobody barges in.                      *)
HandedInOrder ==
    [][\A d \in Dictionaries :
         /\ waitingActivities[d] # <<>>
         /\ reservingActivity'[d] # reservingActivity[d]
         => \/ reservingActivity'[d] = Head(waitingActivities[d])
            \/ reply(reservingActivity[d], reservingActivity'[d])]_vars

(* How often a has the lock of d, counting one it was handed and has not   *)
(* woken up to.                                                            *)
Inside ==
    [d \in Dictionaries |-> [a \in Activities |->
        Cardinality(Reservations(a, d))
          + (IF pc[a] \in Reserving /\ reserveSem[a] /\ Top(a).dictionary = d
             THEN 1 ELSE 0)]]

SL == INSTANCE ScopeLock WITH inside <- Inside, line <- waitingActivities

(* Whatever calls, GUARD instructions, waits and REPLYs come together, the *)
(* activations that may run guarded come and go as the holders of plain    *)
(* locks with a line each, and a check for circular waits only ever        *)
(* refuses somebody a place in a line.                                     *)
ImplementsLock == SL!LockSpec
=============================================================================
