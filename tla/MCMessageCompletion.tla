------------------------ MODULE MCMessageCompletion ------------------------
(* Instances of MessageCompletion for TLC.                                 *)
EXTENDS MessageCompletion, TLC

(* Activities, and messages that are all there from the start, are         *)
(* interchangeable.                                                        *)
Interchangeable == Permutations(Activities) \cup Permutations(Messages)

(* What was told of a message that is used again says nothing any more.    *)
WhileUsedOnce ==
    <<[m \in AllMessages |->
         IF m \in reused
         THEN [message[m] EXCEPT !.parties =
                 [i \in DOMAIN @ |-> [@[i] EXCEPT !.told = 0, !.late = FALSE]]]
         ELSE message[m]],
      stack, mode, waitingObject, reused, failed \ reused, lost \ reused>>
=============================================================================
