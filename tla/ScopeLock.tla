----------------------------- MODULE ScopeLock -----------------------------
(***************************************************************************)
(* What guarded methods are promised: each scope of an object is a lock    *)
(* that one activity has at a time, as often as it entered it; whoever     *)
(* finds it taken stands in line and does nothing else; and the last to    *)
(* leave hands it to the first in line or, by REPLY, to an activity that   *)
(* goes on with its method.  This is the specification that                *)
(* VariableDictionary and RexxActivation are shown to implement            *)
(* (ObjectGuard), and it says nothing of owners, counters, semaphores,     *)
(* GUARD expressions or the check for circular waits.                      *)
(***************************************************************************)
EXTENDS Naturals, Sequences

CONSTANTS Activities,    \* the activities
          Dictionaries   \* the locks: one scope of one object

VARIABLES inside,        \* how often each activity has each lock
          line           \* who waits for it, first come first

lockVars == <<inside, line>>

LockInit ==
    /\ inside = [d \in Dictionaries |-> [a \in Activities |-> 0]]
    /\ line = [d \in Dictionaries |-> <<>>]

InLine(a) == \E d \in Dictionaries : \E i \in 1..Len(line[d]) : line[d][i] = a

(* Again by the activity that has it, or else only if nobody has it or     *)
(* waits for it.                                                           *)
Enter(a, d) ==
    /\ ~InLine(a)
    /\ \/ inside[d][a] > 0
       \/ line[d] = <<>> /\ \A b \in Activities : inside[d][b] = 0
    /\ inside' = [inside EXCEPT ![d][a] = @ + 1]
    /\ UNCHANGED line

LineUp(a, d) ==
    /\ ~InLine(a)
    /\ \E b \in Activities \ {a} : inside[d][b] > 0
    /\ line' = [line EXCEPT ![d] = Append(@, a)]
    /\ UNCHANGED inside

(* Not for the last time, or with nobody in line.                          *)
Leave(a, d) ==
    /\ ~InLine(a)
    /\ inside[d][a] > 0
    /\ inside[d][a] > 1 \/ line[d] = <<>>
    /\ inside' = [inside EXCEPT ![d][a] = @ - 1]
    /\ UNCHANGED line

(* For the last time: the first in line has the lock at once.              *)
HandOver(a, d) ==
    /\ ~InLine(a)
    /\ inside[d][a] = 1
    /\ line[d] # <<>>
    /\ inside' = [inside EXCEPT ![d][a] = 0, ![d][Head(line[d])] = 1]
    /\ line' = [line EXCEPT ![d] = Tail(@)]

(* REPLY: b, which has no lock, goes on in the place of a.                 *)
Pass(a, b, d) ==
    /\ ~InLine(a) /\ ~InLine(b)
    /\ inside[d][a] = 1
    /\ \A e \in Dictionaries : inside[e][b] = 0
    /\ inside' = [inside EXCEPT ![d][a] = 0, ![d][b] = 1]
    /\ UNCHANGED line

LockStep ==
    \E a \in Activities, d \in Dictionaries :
        \/ Enter(a, d) \/ LineUp(a, d) \/ Leave(a, d) \/ HandOver(a, d)
        \/ \E b \in Activities : Pass(a, b, d)

(* Every step changes something: asked first, so that TLC need not look    *)
(* for the action of a step that leaves the locks alone.                   *)
LockNext == lockVars' # lockVars /\ LockStep

LockSpec == LockInit /\ [][LockNext]_lockVars
=============================================================================
