---------------------------- MODULE MCObjectGuard ----------------------------
(* Instances of ObjectGuard for TLC.                                       *)
EXTENDS ObjectGuard, TLC

(* The activities are interchangeable.                                     *)
Interchangeable == Permutations(Activities)

(* A post that nobody waits for is forgotten: guardSet() or waitReserve()  *)
(* resets the semaphore before it is looked at again.                      *)
WithoutOldPosts ==
    <<dictionaryVars, variableVars, waitingObject, frames, held, pc,
      [a \in Activities |->
         guardSem[a] /\ pc[a] \in {"evaluate", "passed", "failed", "guardWait"}],
      [a \in Activities |-> reserveSem[a] /\ pc[a] \in Reserving]>>
=============================================================================
