-------------------------- MODULE InstanceShutdown --------------------------
(***************************************************************************)
(* What terminate() promises of an interpreter instance: while it is open, *)
(* threads come to work for it and go; one thread ends that, and from then *)
(* on nobody joins but on behalf of somebody at work; when the last one    *)
(* has gone, and not before, that same thread takes the instance apart.    *)
(* This is the specification InterpreterInstance is shown to implement     *)
(* (InstanceLifecycle); it says nothing of access, lists, counts or        *)
(* semaphores.  A thread of the application that calls in after the        *)
(* instance was closed is not at work in this sense, and not waited for.   *)
(***************************************************************************)
CONSTANT Threads

VARIABLES stage,    \* "open", "draining", "apart", "gone"
          busy,     \* those at work for the instance, who must be let finish
          closers   \* who is in terminate(), past the point of no return

gateVars == <<stage, busy, closers>>

GateInit == stage = "open" /\ busy = {} /\ closers = {}

Come(a) ==
    /\ stage = "open"
    /\ busy' = busy \cup {a}
    /\ UNCHANGED <<stage, closers>>

(* Work that is under way may be shared out, whatever the stage.           *)
Spawn(a, b) ==
    /\ a \in busy
    /\ busy' = busy \cup {b}
    /\ UNCHANGED <<stage, closers>>

Finish(a) ==
    /\ busy' = busy \ {a}
    /\ UNCHANGED <<stage, closers>>

(* Those at work stay the ones to be waited for.                           *)
Close(a) ==
    /\ stage = "open" /\ closers = {} /\ a \notin busy
    /\ stage' = "draining" /\ closers' = {a}
    /\ UNCHANGED busy

TakeApart(a) ==
    /\ stage = "draining" /\ closers = {a} /\ busy = {}
    /\ stage' = "apart"
    /\ UNCHANGED <<busy, closers>>

Gone(a) ==
    /\ stage = "apart" /\ closers = {a}
    /\ stage' = "gone"
    /\ UNCHANGED <<busy, closers>>

Return(a) ==
    /\ stage = "gone" /\ closers = {a}
    /\ closers' = {}
    /\ UNCHANGED <<stage, busy>>

GateNext ==
    \E a \in Threads :
        \/ Come(a) \/ Finish(a) \/ \E b \in Threads : Spawn(a, b)
        \/ Close(a) \/ TakeApart(a) \/ Gone(a) \/ Return(a)

GateSpec == GateInit /\ [][GateNext]_gateVars
=============================================================================
