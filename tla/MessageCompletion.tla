------------------------- MODULE MessageCompletion -------------------------
(***************************************************************************)
(* Message objects (MessageClass): sent, started on an activity of their   *)
(* own, or started as a copy by reply; waited for; and the parties told    *)
(* when they complete.  What makes this hard is how a message learns that  *)
(* it failed: a frame remembers the message it dispatches last             *)
(* (setObjNotify) and passes SYNTAX conditions on to it; a message that    *)
(* was started learns of them from the dispatcher at the base of its       *)
(* thread.                                                                 *)
(*                                                                         *)
(* An activity runs with kernel access and gives it up only between the    *)
(* instructions of Rexx code, and when it waits (KernelDispatch).  So the  *)
(* others have their turn only while the top of its stack is Rexx code.    *)
(*                                                                         *)
(* The stack holds activations and, between them, the C++ calls of         *)
(* dispatch() and sendNotification() that are under way.  The receiver of  *)
(* every message is a plain Rexx method; a party is a message, or a        *)
(* listener whose messageComplete is a Rexx method.                        *)
(***************************************************************************)
EXTENDS Integers, Sequences, FiniteSets, SequencesExt

CONSTANTS Activities,   \* the activities, one per thread
          Messages,     \* the message objects, created
          Copies,       \*   or still to be created by copy()
          Listeners,    \* other notification targets
          MaxDepth,     \* bound: activations and calls of one activity,
          MaxParties,   \*   interested parties added to all messages
          None          \* OREF_NULL

ASSUME MessageAssumption ==
    /\ IsFiniteSet(Activities)
    /\ Messages \cap Copies = {}
    /\ None \notin Activities \cup Messages \cup Copies \cup Listeners
    /\ MaxDepth \in Nat /\ MaxDepth >= 3 /\ MaxParties \in Nat

AllMessages == Messages \cup Copies

VARIABLES
    message,        \* MessageClass data members, by message
    stack,          \* the activations and calls of an activity, top last
    mode,           \* an activity runs, raises SYNTAX, waits, or recurses
                    \*   in checkDeadLock()
    waitingObject,  \* Activity: the message it waits for
    reused,         \* history: the messages sent or started more than once,
    failed,         \*   with a notification that was cut off by a condition,
    lost            \*   that were unwound without being told

vars == <<message, stack, mode, waitingObject, reused, failed, lost>>
history == <<reused, failed, lost>>

(* The notifyObject of a frame is its msg.  A native frame is the          *)
(* dispatcher of a started message: not yet running, in dispatch(), in     *)
(* handleError(), and in the handleError() of Activity::run().             *)
Bases == {"starting", "running", "handling", "catching"}
Activations == {"frame"} \cup Bases
Calls == {"dispatch", "notifying", "reporting"}
Entry(kind, m) == [kind |-> kind, msg |-> m]
Loop(kind, m, n) == [kind |-> kind, msg |-> m, next |-> 1, count |-> n]

NewMessage ==
    [returned |-> FALSE, raised |-> FALSE, notified |-> FALSE,
     activated |-> FALSE, startActivity |-> None, parties |-> <<>>,
     waiters |-> {}]

(* One activity runs a program, the others are idle or not yet created.    *)
Init ==
    /\ message = [m \in AllMessages |-> NewMessage]
    /\ \E a \in Activities :
         stack = [b \in Activities |-> IF b = a THEN <<Entry("frame", None)>> ELSE <<>>]
    /\ mode = [a \in Activities |-> "run"]
    /\ waitingObject = [a \in Activities |-> None]
    /\ reused = {} /\ failed = {} /\ lost = {}

-----------------------------------------------------------------------------
Created == Messages \cup {m \in Copies : message[m].startActivity # None}
isComplete(m) == message[m].returned \/ message[m].raised

Kind(s) == IF s = <<>> THEN "idle" ELSE Last(s).kind
Top(a) == Last(stack[a])

(* The place of the topmost activation; the calls above it.                *)
TopFrame(s) ==
    LET places == {i \in DOMAIN s : s[i].kind \in Activations}
    IN  IF places = {} THEN 0 ELSE Max(places)
Unwound(s) == SubSeq(s, 1, TopFrame(s))
CallsAbove(s) == {s[i] : i \in TopFrame(s) + 1 .. Len(s)}

NotifyNobodyMutant(s, m) == s

(* setObjNotify() on the top stack frame: native ones ignore it.           *)
setObjNotify(s, m) ==
    LET f == TopFrame(s)
    IN  IF f # 0 /\ s[f].kind = "frame" THEN [s EXCEPT ![f].msg = m] ELSE s

(* a executes C++ code, which keeps kernel access; a thread that was just  *)
(* started has not asked for access yet.                                   *)
Busy(a) ==
    /\ mode[a] # "wait"
    /\ \/ mode[a] \in {"raise", "endless"}
       \/ Kind(stack[a]) \notin {"idle", "frame", "starting"}
Turn(a) == mode[a] = "run" /\ \A b \in Activities \ {a} : ~Busy(b)
InRexx(a) == Turn(a) /\ Kind(stack[a]) = "frame"
InCode(a, kinds) == mode[a] = "run" /\ Kind(stack[a]) \in kinds

(* SYNTAX is raised: the calls above the top frame will not go on.  The    *)
(* base of a thread knows of one message only.                             *)
RaiseFrom(a, s) ==
    LET cut(kinds) == {e.msg : e \in {e \in CallsAbove(s) : e.kind \in kinds}}
        base == Last(Unwound(s))
    IN  /\ stack' = [stack EXCEPT ![a] = Unwound(s)]
        /\ mode' = [mode EXCEPT ![a] = "raise"]
        /\ failed' = failed \cup cut({"notifying", "reporting"})
        /\ lost' = IF base.kind = "frame" THEN lost
                   ELSE lost \cup (cut({"dispatch"}) \ {base.msg})
        /\ UNCHANGED waitingObject

(* clearCompletion().                                                      *)
Cleared(r) ==
    [r EXCEPT !.returned = FALSE, !.raised = FALSE, !.notified = FALSE,
              !.parties = [i \in DOMAIN @ |-> [@[i] EXCEPT !.told = 0]]]
NoteReuse(m) ==
    reused' = IF message[m].startActivity = None THEN reused ELSE reused \cup {m}

ReuseAnythingMutant(m) == FALSE

(* checkReuse(): "Once start has been called, this can no longer be        *)
(* reused".                                                                *)
checkReuse(m) == message[m].activated

(* send() of m by a, whose stack is s: an error if m was started or its    *)
(* scope override is no good; else dispatch(), up to the method it runs.   *)
(* The messages were changed to msgs before.                               *)
MayInvoke(s, n) == Len(s) + n <= MaxDepth
send(a, s, msgs, m) ==
    \/ checkReuse(m) /\ RaiseFrom(a, s) /\ message' = msgs /\ UNCHANGED reused
    \/ /\ ~checkReuse(m)
       /\ message' = [msgs EXCEPT ![m] = Cleared(@)]
       /\ NoteReuse(m)
       /\ RaiseFrom(a, s)
    \/ /\ ~checkReuse(m)
       /\ MayInvoke(s, 2)
       /\ message' = [msgs EXCEPT ![m] = [Cleared(@) EXCEPT !.startActivity = a]]
       /\ NoteReuse(m)
       /\ stack' = [stack EXCEPT ![a] = setObjNotify(s, m)
                        \o <<Entry("dispatch", m), Entry("frame", None)>>]
       /\ UNCHANGED <<mode, waitingObject, failed, lost>>

(* messageComplete is sent to a party of m; a message is sent itself.      *)
Tell(a, s, msgs, m, i) ==
    LET p == msgs[m].parties[i].party
        noted == [msgs EXCEPT ![m].parties[i].told = Min({@ + 1, 2})]
    IN  IF p \in Listeners
        THEN /\ MayInvoke(s, 1)
             /\ message' = noted
             /\ stack' = [stack EXCEPT ![a] = Append(s, Entry("frame", None))]
             /\ UNCHANGED <<mode, waitingObject, history>>
        ELSE send(a, s, noted, p)

-----------------------------------------------------------------------------
(* The Rexx code of a sends m.                                             *)
sendMessage(a, m) == InRexx(a) /\ send(a, stack[a], message, m)

(* start() or reply() refused, or stopped by a scope override that is no   *)
(* good, when it has changed m to r.                                       *)
NotStarted(a, m, r) ==
    /\ InRexx(a)
    /\ RaiseFrom(a, stack[a])
    /\ IF checkReuse(m)
       THEN UNCHANGED <<message, reused>>
       ELSE message' = [message EXCEPT ![m] = r] /\ NoteReuse(m)

(* start(): pending, and given to a new activity or one from the pool.     *)
Pending(r) == [Cleared(r) EXCEPT !.activated = TRUE]
StartOn(b, m, msgs) ==
    /\ stack[b] = <<>>
    /\ message' = [msgs EXCEPT ![m].startActivity = b]
    /\ stack' = [stack EXCEPT ![b] = <<Entry("starting", m)>>]
    /\ UNCHANGED <<mode, waitingObject, failed, lost>>

start(a, m) ==
    \/ NotStarted(a, m, Pending(message[m]))
    \/ /\ InRexx(a) /\ ~checkReuse(m)
       /\ NoteReuse(m)
       /\ \E b \in Activities : StartOn(b, m, [message EXCEPT ![m] = Pending(@)])

(* reply(): the original loses its completion, a copy is started.          *)
reply(a, m) ==
    \/ NotStarted(a, m, Cleared(message[m]))
    \/ /\ InRexx(a) /\ ~checkReuse(m)
       /\ NoteReuse(m)
       /\ \E b \in Activities, n \in Copies \ Created :
            LET r == Cleared(message[m])
                copy == [NewMessage EXCEPT !.parties = r.parties]
            IN  StartOn(b, n, [message EXCEPT ![m] = r, ![n] = Pending(copy)])

(* The new thread gets to run: MessageDispatcher::run(), dispatch().       *)
runStarted(a) ==
    /\ Turn(a) /\ Kind(stack[a]) = "starting"
    /\ LET m == Top(a).msg IN
       /\ message' = [message EXCEPT ![m].startActivity = a]
       /\ stack' = [stack EXCEPT ![a] =
                       <<Entry("running", m), Entry("dispatch", m), Entry("frame", None)>>]
    /\ UNCHANGED <<mode, waitingObject, history>>

NotifyLaterMutant(a, m, p) ==
    /\ InRexx(a)
    /\ SumFunction([q \in AllMessages |-> Len(message[q].parties)]) < MaxParties
    /\ message' = [message EXCEPT ![m].parties =
                      Append(@, [party |-> p, told |-> 0,
                                 late |-> isComplete(m) /\ ~message[m].notified])]
    /\ UNCHANGED <<stack, mode, waitingObject, history>>

(* notify(): always added; told at once if all have been.                  *)
notify(a, m, p) ==
    /\ InRexx(a)
    /\ SumFunction([q \in AllMessages |-> Len(message[q].parties)]) < MaxParties
    /\ LET late == isComplete(m) /\ ~message[m].notified
           added == [message EXCEPT ![m].parties =
                       Append(@, [party |-> p, told |-> 0, late |-> late])]
       IN  IF message[m].notified
           THEN Tell(a, stack[a], added, m, Len(added[m].parties))
           ELSE message' = added /\ UNCHANGED <<stack, mode, waitingObject, history>>

-----------------------------------------------------------------------------
(* The activities met by startActivity->checkDeadLock(a), in order.        *)
NextOwner(o) ==
    IF o = None \/ waitingObject[o] = None
    THEN None ELSE message[waitingObject[o]].startActivity
Owners(m) ==
    LET owner[n \in 0..Cardinality(Activities)] ==
            IF n = 0 THEN message[m].startActivity ELSE NextOwner(owner[n - 1])
    IN  owner
CheckSelfMutant(m, a) == message[m].startActivity = a
checkDeadLock(m, a) == \E n \in 1..Cardinality(Activities) : Owners(m)[n] = a
(* More owners than activities: the recursion goes round for ever.         *)
Endless(m) == Owners(m)[Cardinality(Activities)] # None

(* wait() and result(), when the message is not complete.                  *)
wait(a, m) ==
    /\ InRexx(a)
    /\ ~isComplete(m)
    /\ \/ /\ checkDeadLock(m, a)
          /\ RaiseFrom(a, stack[a])
          /\ UNCHANGED <<message, reused>>
       \/ /\ ~checkDeadLock(m, a) /\ Endless(m)
          /\ mode' = [mode EXCEPT ![a] = "endless"]
          /\ UNCHANGED <<message, stack, waitingObject, history>>
       \/ /\ ~checkDeadLock(m, a) /\ ~Endless(m)
          /\ message' = [message EXCEPT ![m].waiters = @ \cup {a}]
          /\ waitingObject' = [waitingObject EXCEPT ![a] = m]
          /\ mode' = [mode EXCEPT ![a] = "wait"]
          /\ UNCHANGED <<stack, history>>

(* The semaphore was posted (reservePost() clears waitingObject with it)   *)
(* and access was granted.  result() may now raise the message's error,    *)
(* which is the next step of raise.                                        *)
wake(a) ==
    /\ mode[a] = "wait"
    /\ waitingObject[a] = None
    /\ \A b \in Activities \ {a} : ~Busy(b)
    /\ mode' = [mode EXCEPT ![a] = "run"]
    /\ UNCHANGED <<message, stack, waitingObject, history>>

-----------------------------------------------------------------------------
CountOneMoreMutant(a, s, kind, m, r) ==
    /\ waitingObject' = [b \in Activities |->
                           IF b \in r.waiters THEN None ELSE waitingObject[b]]
    /\ message' = [message EXCEPT ![m] = [r EXCEPT !.waiters = {}]]
    /\ stack' = [stack EXCEPT ![a] = Append(setObjNotify(s, None),
                                            Loop(kind, m, Len(r.parties) + 1))]
StillInterestedMutant(a, s, kind, m, r) ==
    /\ waitingObject' = [b \in Activities |->
                           IF b \in r.waiters THEN None ELSE waitingObject[b]]
    /\ message' = [message EXCEPT ![m] = [r EXCEPT !.waiters = {}]]
    /\ stack' = [stack EXCEPT ![a] = Append(s, Loop(kind, m, Len(r.parties)))]
KeepWaitersMutant(a, s, kind, m, r) ==
    /\ waitingObject' = [b \in Activities |->
                           IF b \in r.waiters THEN None ELSE waitingObject[b]]
    /\ message' = [message EXCEPT ![m] = r]
    /\ stack' = [stack EXCEPT ![a] = Append(setObjNotify(s, None),
                                            Loop(kind, m, Len(r.parties)))]

(* sendNotification() up to its loop, with the message changed to r: the   *)
(* frame forgets about errors, every waiter is posted.                     *)
sendNotification(a, s, kind, m, r) ==
    /\ waitingObject' = [b \in Activities |->
                           IF b \in r.waiters THEN None ELSE waitingObject[b]]
    /\ message' = [message EXCEPT ![m] = [r EXCEPT !.waiters = {}]]
    /\ stack' = [stack EXCEPT ![a] = Append(setObjNotify(s, None),
                                            Loop(kind, m, Len(r.parties)))]

(* A method returns: to dispatch(), which completes the message, or to the *)
(* code that told a listener; or the program ends.                         *)
return(a) ==
    /\ InRexx(a)
    /\ LET s == Front(stack[a]) IN
       IF Kind(s) = "dispatch"
       THEN LET m == Last(s).msg IN
            sendNotification(a, Front(s), "notifying", m,
                             [message[m] EXCEPT !.returned = TRUE])
       ELSE stack' = [stack EXCEPT ![a] = s] /\ UNCHANGED <<message, waitingObject>>
    /\ UNCHANGED <<mode, history>>

(* The loop of sendNotification(): the next party.                         *)
notifyNext(a) ==
    /\ InCode(a, {"notifying", "reporting"})
    /\ LET loop == Top(a) IN
       /\ loop.next <= loop.count
       /\ Tell(a, [stack[a] EXCEPT ![Len(stack[a])].next = @ + 1], message,
               loop.msg, loop.next)

(* The loop is done.  After dispatch() the sender goes on, or the thread   *)
(* ends; after error() the frame that reported goes on to look for a trap, *)
(* or the thread ends.                                                     *)
setAllNotified(a) ==
    /\ InCode(a, {"notifying", "reporting"})
    /\ Top(a).next > Top(a).count
    /\ message' = [message EXCEPT ![Top(a).msg].notified = TRUE]
    /\ LET s == Front(stack[a]) IN
       /\ stack' = [stack EXCEPT ![a] = IF Kind(s) \in Bases THEN <<>> ELSE s]
       /\ mode' = [mode EXCEPT ![a] = IF Top(a).kind = "reporting" /\ Kind(s) = "frame"
                                      THEN "raise" ELSE "run"]
    /\ UNCHANGED <<waitingObject, history>>

-----------------------------------------------------------------------------
(* A SYNTAX condition comes up in Rexx code.                               *)
raise(a) == InRexx(a) /\ RaiseFrom(a, stack[a]) /\ UNCHANGED <<message, reused>>

(* error() of m, which has failed.                                         *)
error(a, s, m) ==
    /\ sendNotification(a, s, "reporting", m, [message[m] EXCEPT !.raised = TRUE])
    /\ mode' = [mode EXCEPT ![a] = "run"]
    /\ UNCHANGED history

(* RexxActivation::trap(): the message is told whatever becomes of the     *)
(* condition ...                                                           *)
Raising(a) == mode[a] = "raise" /\ Kind(stack[a]) = "frame"
trapNotifies(a) == Raising(a) /\ Top(a).msg # None /\ error(a, stack[a], Top(a).msg)

(* ... and the frame goes on at its SIGNAL ON SYNTAX label ...             *)
trapped(a) ==
    /\ Raising(a) /\ Top(a).msg = None
    /\ mode' = [mode EXCEPT ![a] = "run"]
    /\ UNCHANGED <<message, stack, waitingObject, history>>

(* ... or is popped; below the last one, the program ends.                 *)
untrapped(a) ==
    /\ Raising(a) /\ Top(a).msg = None
    /\ IF TopFrame(Front(stack[a])) = 0
       THEN /\ stack' = [stack EXCEPT ![a] = <<>>]
            /\ mode' = [mode EXCEPT ![a] = "run"]
            /\ UNCHANGED <<waitingObject, failed, lost>>
       ELSE RaiseFrom(a, Front(stack[a]))
    /\ UNCHANGED <<message, reused>>

(* At the base of a thread: NativeActivation::run() has the dispatcher     *)
(* handle the error; if a party fails at that, so does Activity::run(),    *)
(* and if one fails again, runThread() ends the work.                      *)
handleError(a) ==
    /\ mode[a] = "raise"
    /\ LET k == Kind(stack[a])
           m == Top(a).msg IN
       \/ k = "running" /\ error(a, <<Entry("handling", m)>>, m)
       \/ k = "handling" /\ error(a, <<Entry("catching", m)>>, m)
       \/ /\ k = "catching"
          /\ stack' = [stack EXCEPT ![a] = <<>>]
          /\ mode' = [mode EXCEPT ![a] = "run"]
          /\ UNCHANGED <<message, waitingObject, history>>

(* Another condition (RAISE USER) that the calling frame traps: what was   *)
(* between is unwound, and no message is told.                             *)
signalUser(a) ==
    /\ InRexx(a)
    /\ Kind(Unwound(Front(stack[a]))) = "frame"
    /\ LET s == Front(stack[a]) IN
       /\ stack' = [stack EXCEPT ![a] = Unwound(s)]
       /\ failed' = failed \cup {e.msg : e \in {e \in CallsAbove(s) : e.kind # "dispatch"}}
       /\ lost' = lost \cup {e.msg : e \in {e \in CallsAbove(s) : e.kind = "dispatch"}}
    /\ UNCHANGED <<message, mode, waitingObject, reused>>

-----------------------------------------------------------------------------
Use(a) ==
    \E m \in Created :
        \/ sendMessage(a, m) \/ start(a, m) \/ reply(a, m) \/ wait(a, m)
        \/ \E p \in Created \cup Listeners : notify(a, m, p)
Complete(a) == return(a) \/ notifyNext(a) \/ setAllNotified(a)
Fail(a) == \/ raise(a) \/ trapNotifies(a) \/ trapped(a) \/ untrapped(a)
           \/ handleError(a) \/ signalUser(a)

Next == \E a \in Activities :
            Use(a) \/ runStarted(a) \/ wake(a) \/ Complete(a) \/ Fail(a)

Spec == Init /\ [][Next]_vars

-----------------------------------------------------------------------------
(* Every variable has its type (MessageClass, Activity, activations); a    *)
(* loop over the parties stays within them; a thread has one base.         *)
TypeOK ==
    /\ \A m \in AllMessages :
         LET r == message[m] IN
         /\ {r.returned, r.raised, r.notified, r.activated} \subseteq BOOLEAN
         /\ r.startActivity \in Activities \cup {None}
         /\ r.parties \in Seq([party : AllMessages \cup Listeners, told : 0..2,
                               late : BOOLEAN])
         /\ r.waiters \subseteq Activities
    /\ \A a \in Activities, i \in 1..MaxDepth : i <= Len(stack[a]) =>
         LET e == stack[a][i] IN
         /\ e.kind \in (IF i = 1 THEN Activations ELSE {"frame"} \cup Calls)
         /\ e.msg \in (IF e.kind = "frame" THEN AllMessages \cup {None} ELSE AllMessages)
         /\ e.kind \in {"notifying", "reporting"} =>
              e.next \in 1..(e.count + 1) /\ e.count <= Len(message[e.msg].parties)
    /\ \A a \in Activities : Len(stack[a]) <= MaxDepth
    /\ mode \in [Activities -> {"run", "raise", "wait", "endless"}]
    /\ waitingObject \in [Activities -> AllMessages \cup {None}]
    /\ reused \cup failed \cup lost \subseteq AllMessages

(* An activity sleeps only on a message that is not complete, and only one *)
(* that knows it and will wake it: however often a message is sent, fails, *)
(* or is completed by two activities at a time.                            *)
SleepersKnown ==
    \A m \in AllMessages :
        /\ message[m].waiters
             = {a \in Activities : mode[a] = "wait" /\ waitingObject[a] = m}
        /\ isComplete(m) => message[m].waiters = {}

(* notify(): "now if we've already notified everything, send the           *)
(* notification now"; sendNotification(): "indicate we've notified         *)
(* everybody".  True of a message object that is used once, except for the *)
(* parties that were added while others were being told.                   *)
EveryoneTold ==
    \A m \in AllMessages \ reused :
        message[m].notified =>
            /\ isComplete(m)
            /\ \A p \in ToSet(message[m].parties) : p.late \/ p.told > 0

(* A message object that is used once tells nobody twice, unless one of    *)
(* the parties fails.                                                      *)
ToldOnce ==
    \A m \in AllMessages \ (reused \cup failed) :
        \A p \in ToSet(message[m].parties) : p.told <= 1

(* m is in dispatch(), or about to be, or about to be told of its failure. *)
InProgress(m) ==
    \E a \in Activities :
        \/ \E e \in ToSet(stack[a]) : e.kind \in {"dispatch", "starting"} /\ e.msg = m
        \/ mode[a] = "raise" /\ Top(a).msg = m

(* A message that was dispatched completes, on return or by an error       *)
(* wherever it comes from.  The others were unwound by a condition that    *)
(* is not SYNTAX, or ran at the base of a thread as a party of the message *)
(* started there.                                                          *)
DispatchCompletes ==
    \A m \in AllMessages \ (reused \cup lost) :
        message[m].startActivity # None => isComplete(m) \/ InProgress(m)

(* wait(): "make sure we're not about to create a deadlock situation"      *)
(* (MessageClass.cpp:249): nobody waits for a message that can only        *)
(* complete after the wait has.                                            *)
Waits(a, b) == waitingObject[a] # None /\ message[waitingObject[a]].startActivity = b
InCircle(a) ==
    \/ Waits(a, a)
    \/ waitingObject[a] # None /\ \E n \in 1..Cardinality(Activities) :
          Owners(waitingObject[a])[n] = a
DeadlockNoticed == \A a \in Activities : ~InCircle(a)

(* The only circle it misses is an activity that waits for a message of    *)
(* its own, and its recursion ends unless it meets one.                    *)
OnlySelfWaits ==
    \A a \in Activities :
        InCircle(a) \/ mode[a] = "endless" =>
            \E b \in Activities : Waits(b, b)

(* A started message stays on the activity that start() gave it, which is  *)
(* what waiters check and halt() stops, and it does not start again.       *)
StartedForGood ==
    [][\A m \in AllMessages :
         message[m].activated /\ message[m].startActivity # None
         => /\ message'[m].startActivity = message[m].startActivity
            /\ isComplete(m) => isComplete(m)']_vars
=============================================================================
