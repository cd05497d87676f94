---------------------------- MODULE KernelAccess ----------------------------
(***************************************************************************)
(* What the interpreter promises every activity that wants to run Rexx     *)
(* code: kernel access is exclusive, and somebody who asks for it is let   *)
(* in.  This is the specification that ActivityManager and Activity are    *)
(* shown to implement (KernelDispatch), and it says nothing of queues,     *)
(* semaphores or counters.                                                 *)
(***************************************************************************)
CONSTANTS Activities,    \* the activities (one thread of execution each)
          NoActivity     \* OREF_NULL

VARIABLES holder,        \* the activity with kernel access, or NoActivity
          wanting        \* the activities that asked for it and still wait

accessVars == <<holder, wanting>>

AccessInit == holder = NoActivity /\ wanting = {}

(* Ask for access: a running activity has it already.                      *)
Ask(a) ==
    /\ a # holder
    /\ a \notin wanting
    /\ wanting' = wanting \cup {a}
    /\ UNCHANGED holder

Enter(a) ==
    /\ holder = NoActivity
    /\ a \in wanting
    /\ holder' = a
    /\ wanting' = wanting \ {a}

Leave(a) ==
    /\ holder = a
    /\ holder' = NoActivity
    /\ UNCHANGED wanting

(* Leave and stand in line again, in one step.                             *)
StepAside(a) ==
    /\ holder = a
    /\ holder' = NoActivity
    /\ wanting' = wanting \cup {a}

AccessNext ==
    \E a \in Activities : Ask(a) \/ Enter(a) \/ Leave(a) \/ StepAside(a)

AccessSpec == AccessInit /\ [][AccessNext]_accessVars

-----------------------------------------------------------------------------
(* Everyone who asks gets in.                                              *)
EveryoneServed == \A a \in Activities : (a \in wanting) ~> (holder = a)
=============================================================================
