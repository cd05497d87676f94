-------------------------- MODULE MCKernelDispatch --------------------------
(* Instances of KernelDispatch for TLC.                                    *)
EXTENDS KernelDispatch, TLC

CONSTANTS r1, r2, x1, x2

(* x1 nests on the thread of r1, x2 has a thread of its own.               *)
NestedOnR1 == [b \in Nested |-> IF b = x1 THEN r1 ELSE NoActivity]
NoHost == [b \in Nested |-> NoActivity]
EverybodyYields == Activities
=============================================================================
