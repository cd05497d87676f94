------------------------ MODULE MCInstanceLifecycle ------------------------
(* The thread that created the instance, one more thread of the            *)
(* application and two workers, one of which calls back while it works.    *)
EXTENDS InstanceLifecycle, TLC

CONSTANTS r, t, w, v

OneCallsBack == [a \in {r, t, w, v} |-> IF a = w THEN 2 ELSE 1]
=============================================================================
