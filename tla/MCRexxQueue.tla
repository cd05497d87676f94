----------------------------- MODULE MCRexxQueue -----------------------------
(* Instances of RexxQueue for TLC.                                         *)
EXTENDS RexxQueue, TLC

(* Clients, processes, items and pieces of memory are interchangeable.     *)
Interchangeable ==
    Permutations(Clients) \cup Permutations(Processes) \cup
    Permutations(Items) \cup Permutations(DataQueues)
=============================================================================
