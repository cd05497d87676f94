----------------------- MODULE KernelCounting_proofs -----------------------
(***************************************************************************)
(* The counters of waiting activities are exact (WaitingCountsExact), for  *)
(* any number of activities, provided no root activity is created on top   *)
(* of an activity that waits for access.  The waiting activities are those *)
(* with the flag waitingForDispatch set that no nested activity has pushed *)
(* down; the invariant Nesting says what that flag and the nesting mean.   *)
(*                                                                         *)
(* From the same invariant: the dispatch queue holds each waiting activity *)
(* once and nobody else, loses nobody, and is served in order.             *)
(***************************************************************************)
EXTENDS KernelDispatch_proofs

InLine == {"dispatchWait", "selfPost", "kernelWait", "section"}
Entering == {"immediate", "lineUp", "kernelWait", "section"}

(* The flag is set exactly in addWaitingActivity() and                     *)
(* addWaitingApiActivity(), and only the former waits for dispatch.        *)
FlagMeansInLine ==
    \A a \in Activities :
        /\ a \in waitingForDispatch
              <=> (entry[a] \in {"request", "api"} /\ pc[a] \in InLine)
        /\ pc[a] \in {"dispatchWait", "selfPost"} => entry[a] = "request"

(* A nested activity points to its host only after handleNestedActivity(). *)
NestedPointsToHost ==
    \A b \in Nested :
        /\ nestedActivity[b] \in {NoActivity, Host[b]}
        /\ pc[b] \in {"detached", "attached", "nudge"}
              => nestedActivity[b] = NoActivity
        /\ entry[b] \in {"attach", "root"} /\ pc[b] \in Entering \cup InLine
              => nestedActivity[b] = NoActivity

(* A host stands still while the one nested activity on top of it exists.  *)
HostStandsStill ==
    /\ \A b \in Nested :
         pc[b] # "detached" /\ Host[b] # NoActivity
             => pc[Host[b]] \in {"native", "dispatchWait", "kernelWait"}
    /\ \A b, c \in Nested :
         pc[b] # "detached" /\ pc[c] # "detached" /\ Host[b] = Host[c]
             => Host[b] = NoActivity \/ b = c

Nesting == FlagMeansInLine /\ NestedPointsToHost /\ HostStandsStill

(* Nothing waits or nests at the start.                                    *)
LEMMA NestingInit == Init => Nesting
<1> SUFFICES ASSUME Init PROVE Nesting
  OBVIOUS
<1>1. \A b \in Nested : pc[b] = "detached" /\ nestedActivity[b] = NoActivity
  BY ActivitiesAssumption DEF Init, Activities
<1>2. FlagMeansInLine
  <2>1. \A a \in Activities : pc[a] \in {"native", "detached"}
    BY DEF Init
  <2>2. waitingForDispatch = {}
    BY DEF Init
  <2> QED  BY <2>1, <2>2 DEF FlagMeansInLine, InLine
<1>3. NestedPointsToHost
  BY <1>1 DEF NestedPointsToHost
<1>4. HostStandsStill
  BY <1>1 DEF HostStandsStill
<1> QED  BY <1>2, <1>3, <1>4 DEF Nesting

(* Every step of an activity (attach, nest, wait, detach) keeps the flags of *)
(* its host in place.                                                      *)
LEMMA NestingStep == TypeOK /\ Nesting /\ [Next]_vars => Nesting'
<1> SUFFICES ASSUME TypeOK, Nesting, [Next]_vars PROVE Nesting'
  OBVIOUS
<1> USE ActivitiesAssumption, HostAssumption
    DEF TypeOK, Nesting, FlagMeansInLine, NestedPointsToHost, HostStandsStill,
        Activities, Nested, InLine, Entering, At, Goto, OnTop, localVars
<1>1. CASE UNCHANGED vars
  BY <1>1 DEF vars
<1>2. ASSUME NEW a \in Activities, requestAccess(a) PROVE Nesting'
  BY <1>2 DEF requestAccess, Ask
<1>3. ASSUME NEW a \in Activities, requestApiAccess(a) PROVE Nesting'
  BY <1>3 DEF requestApiAccess, Ask
<1>4. ASSUME NEW a \in Activities, attachThread(a) PROVE Nesting'
  BY <1>4 DEF attachThread, Ask, HostIsNestable
<1>5. ASSUME NEW a \in Activities, getRootActivity(a) PROVE Nesting'
  BY <1>5 DEF getRootActivity, HostIsNestable
<1>6. ASSUME NEW a \in Activities, requestImmediate(a) PROVE Nesting'
  BY <1>6 DEF requestImmediate
<1>7. ASSUME NEW a \in Activities, addWaitingActivity(a) PROVE Nesting'
  BY <1>7 DEF addWaitingActivity
<1>8. ASSUME NEW a \in Activities, addWaitingApiActivity(a) PROVE Nesting'
  BY <1>8 DEF addWaitingApiActivity
<1>9. ASSUME NEW a \in Activities, addWaitingAttach(a) PROVE Nesting'
  BY <1>9 DEF addWaitingAttach
<1>10. ASSUME NEW a \in Activities, dispatched(a) PROVE Nesting'
  BY <1>10 DEF dispatched
<1>11. ASSUME NEW a \in Activities, dispatchTimeout(a) PROVE Nesting'
  BY <1>11 DEF dispatchTimeout
<1>12. ASSUME NEW a \in Activities, postSelf(a) PROVE Nesting'
  BY <1>12 DEF postSelf
<1>13. ASSUME NEW a \in Activities, lockKernel(a) PROVE Nesting'
  BY <1>13 DEF lockKernel
<1>14. ASSUME NEW a \in Activities, accessGranted(a) PROVE Nesting'
  BY <1>14 DEF accessGranted
<1>15. ASSUME NEW a \in Activities, apiAccessGranted(a) PROVE Nesting'
  BY <1>15 DEF apiAccessGranted
<1>16. ASSUME NEW a \in Activities, attachGranted(a) PROVE Nesting'
  BY <1>16 DEF attachGranted
<1>17. ASSUME NEW a \in Activities, handleNestedActivity(a) PROVE Nesting'
  BY <1>17 DEF handleNestedActivity
<1>18. ASSUME NEW a \in Activities, setupCurrentActivity(a) PROVE Nesting'
  BY <1>18 DEF setupCurrentActivity
<1>19. ASSUME NEW a \in Activities, releaseAccess(a) PROVE Nesting'
  BY <1>19 DEF releaseAccess
<1>20. ASSUME NEW a \in Activities, relinquish(a) PROVE Nesting'
  BY <1>20 DEF relinquish
<1>21. ASSUME NEW a \in Activities, yieldAccess(a) PROVE Nesting'
  BY <1>21 DEF yieldAccess
<1>22. ASSUME NEW a \in Activities, detachThread(a) PROVE Nesting'
  <2>1. FlagMeansInLine'
    BY <1>22 DEF detachThread
  <2>2. NestedPointsToHost'
    BY <1>22 DEF detachThread
  <2>3. \A b \in Activities : pc'[b] = IF b = a THEN "detached" ELSE pc[b]
    BY <1>22 DEF detachThread
  <2>4. \A b \in Nested : Host[b] # NoActivity => Host[b] \in Rexx
    BY HostAssumption
  <2>5. a \notin Rexx \/ pc[a] = "nudge"
    BY <1>22 DEF detachThread
  <2>6. HostStandsStill'
    BY <2>3, <2>4, <2>5
  <2> QED  BY <2>1, <2>2, <2>6
<1>23. ASSUME NEW a \in Activities, terminate(a) PROVE Nesting'
  BY <1>23 DEF terminate
<1>24. ASSUME NEW a \in Activities, returnRootActivity(a) PROVE Nesting'
  BY <1>24 DEF returnRootActivity
<1>25. ASSUME NEW a \in Activities, nudgeQueue(a) PROVE Nesting'
  <2>1. FlagMeansInLine'
    BY <1>25 DEF nudgeQueue
  <2>2. NestedPointsToHost'
    BY <1>25 DEF nudgeQueue
  <2>3. \A b \in Activities : pc'[b] = IF b = a THEN "detached" ELSE pc[b]
    BY <1>25 DEF nudgeQueue
  <2>4. \A b \in Nested : Host[b] # NoActivity => Host[b] \in Rexx
    BY HostAssumption
  <2>5. a \notin Rexx \/ pc[a] = "nudge"
    BY <1>25 DEF nudgeQueue
  <2>6. HostStandsStill'
    BY <2>3, <2>4, <2>5
  <2> QED  BY <2>1, <2>2, <2>6
<1> QED
  BY <1>1, <1>2, <1>3, <1>4, <1>5, <1>6, <1>7, <1>8, <1>9, <1>10,
     <1>11, <1>12, <1>13, <1>14, <1>15, <1>16, <1>17, <1>18, <1>19,
     <1>20, <1>21, <1>22, <1>23, <1>24, <1>25
  DEF Next, Step, Acquire, Shed, Finish

-----------------------------------------------------------------------------
(* No root activity is created on top of an activity that has a host.      *)
NoNestedRoots == \A b \in Roots : Host[b] = NoActivity

(* Counting a set of activities up and down by one member.                 *)
LEMMA CountUp ==
    ASSUME NEW S \in SUBSET Activities, NEW a \in Activities, a \notin S
    PROVE  Inc(Cardinality(S)) = Cardinality(S \cup {a})
<1>1. IsFiniteSet(S)
  BY FS_Subset, ActivitiesAssumption
<1>2. Cardinality(S) \in Nat /\ Cardinality(S) <= Cardinality(Activities)
  BY <1>1, FS_Subset, FS_CardinalityType, ActivitiesAssumption
<1>3. Cardinality(Activities) \in Nat
  BY FS_CardinalityType, ActivitiesAssumption
<1>4. Cardinality(S) # SizeMax
  BY <1>2, <1>3, SizeAssumption
<1>5. Cardinality(S \cup {a}) = Cardinality(S) + 1
  BY <1>1, FS_AddElement
<1> QED  BY <1>4, <1>5 DEF Inc

(* ... and down.                                                           *)
LEMMA CountDown ==
    ASSUME NEW S \in SUBSET Activities, NEW a \in S
    PROVE  Dec(Cardinality(S)) = Cardinality(S \ {a})
<1>1. IsFiniteSet(S)
  BY FS_Subset, ActivitiesAssumption
<1>2. Cardinality(S) # 0
  BY <1>1, FS_EmptySet
<1>3. Cardinality(S \ {a}) = Cardinality(S) - 1
  BY <1>1, FS_RemoveElement
<1> QED  BY <1>2, <1>3 DEF Dec

(* The three sets that are counted.                                        *)
LEMMA CountedSets ==
    TypeOK => /\ Waiters \in SUBSET Activities
              /\ ApiWaiters \in SUBSET Activities
              /\ AttachWaiters \in SUBSET Activities
BY DEF TypeOK, Waiters, ApiWaiters, AttachWaiters

(* A counter n that becomes m follows a set S that becomes T.              *)
Follows(n, m, S, T) ==
    \/ T = S /\ m = n
    \/ \E a \in Activities \ S : T = S \cup {a} /\ m = Inc(n)
    \/ \E a \in S : T = S \ {a} /\ m = Dec(n)

(* A counter that follows its set of activities through a step stays exact. *)
LEMMA FollowingCounts ==
    ASSUME NEW S \in SUBSET Activities, NEW T, NEW m,
           Follows(Cardinality(S), m, S, T)
    PROVE  m = Cardinality(T)
BY CountUp, CountDown DEF Follows

(* The three counters stay exact when each follows its own set of waiters. *)
LEMMA CountsFollow ==
    ASSUME TypeOK, WaitingCountsExact,
           Follows(waitingAccess, waitingAccess', Waiters, Waiters'),
           Follows(waitingApiAccess, waitingApiAccess', ApiWaiters, ApiWaiters'),
           Follows(waitingAttaches, waitingAttaches', AttachWaiters, AttachWaiters')
    PROVE  WaitingCountsExact'
BY CountedSets, FollowingCounts DEF WaitingCountsExact

(* A step that leaves the three sets and the three counters alone.         *)
SetsStay == /\ Waiters' = Waiters
            /\ ApiWaiters' = ApiWaiters
            /\ AttachWaiters' = AttachWaiters

(* A step that touches neither counters nor sets keeps the counts.         *)
LEMMA QuietStep ==
    ASSUME WaitingCountsExact, SetsStay, UNCHANGED counters
    PROVE  WaitingCountsExact'
BY DEF WaitingCountsExact, SetsStay, counters

(* No activity waits at the start and the counters are zero.               *)
LEMMA CountingInit == Init => WaitingCountsExact
<1> SUFFICES ASSUME Init PROVE WaitingCountsExact
  OBVIOUS
<1>1. \A a \in Activities : pc[a] \in {"native", "detached"}
  BY DEF Init
<1>2. Waiters = {} /\ ApiWaiters = {} /\ AttachWaiters = {}
  BY <1>1 DEF Init, Waiters, ApiWaiters, AttachWaiters
<1> QED  BY <1>2, FS_EmptySet DEF Init, WaitingCountsExact

(* Each action of the dispatcher counts the activity that starts or stops to *)
(* wait, and no other.                                                     *)
LEMMA CountingStep ==
    ASSUME NoNestedRoots, TypeOK, Nesting, WaitingCountsExact, [Next]_vars
    PROVE  WaitingCountsExact'
<1> USE ActivitiesAssumption, HostAssumption
    DEF TypeOK, Nesting, FlagMeansInLine, NestedPointsToHost, HostStandsStill,
        Activities, Nested, InLine, Entering, At, Goto, OnTop, localVars,
        counters, Waiters, ApiWaiters, AttachWaiters, Suspended
<1>1. CASE UNCHANGED vars
  <2>1. SetsStay /\ UNCHANGED counters
    BY <1>1 DEF vars, SetsStay
  <2> QED  BY <2>1, QuietStep
<1>2. ASSUME NEW a \in Activities, requestAccess(a) PROVE WaitingCountsExact'
  <2>1. SetsStay /\ UNCHANGED counters
    BY <1>2 DEF requestAccess, Ask, SetsStay
  <2> QED  BY <2>1, QuietStep
<1>3. ASSUME NEW a \in Activities, requestApiAccess(a) PROVE WaitingCountsExact'
  <2>1. SetsStay /\ UNCHANGED counters
    BY <1>3 DEF requestApiAccess, Ask, SetsStay
  <2> QED  BY <2>1, QuietStep
<1>4. ASSUME NEW a \in Activities, attachThread(a) PROVE WaitingCountsExact'
  <2>1. SetsStay /\ UNCHANGED counters
    BY <1>4 DEF attachThread, Ask, HostIsNestable, SetsStay
  <2> QED  BY <2>1, QuietStep
<1>5. ASSUME NEW a \in Activities, getRootActivity(a) PROVE WaitingCountsExact'
  <2>1. SetsStay /\ UNCHANGED counters
    BY <1>5 DEF getRootActivity, HostIsNestable, SetsStay
  <2> QED  BY <2>1, QuietStep
<1>6. ASSUME NEW a \in Activities, requestImmediate(a) PROVE WaitingCountsExact'
  <2>1. SetsStay /\ UNCHANGED counters
    BY <1>6 DEF requestImmediate, SetsStay
  <2> QED  BY <2>1, QuietStep
<1>7. ASSUME NEW a \in Activities, addWaitingActivity(a) PROVE WaitingCountsExact'
  <2>1. /\ a \notin Waiters
    BY <1>7 DEF addWaitingActivity
  <2>2. /\ Waiters' = Waiters \cup {a}
        /\ ApiWaiters' = ApiWaiters
        /\ AttachWaiters' = AttachWaiters
    BY <1>7 DEF addWaitingActivity
  <2>3. /\ waitingAccess' = Inc(waitingAccess)
        /\ UNCHANGED waitingApiAccess
        /\ UNCHANGED waitingAttaches
    BY <1>7 DEF addWaitingActivity
  <2> HIDE DEF TypeOK, Waiters, ApiWaiters, AttachWaiters, counters
  <2> QED  BY <2>1, <2>2, <2>3, CountsFollow DEF Follows
<1>8. ASSUME NEW a \in Activities, addWaitingApiActivity(a) PROVE WaitingCountsExact'
  <2>1. /\ a \notin Waiters
        /\ a \notin ApiWaiters
    BY <1>8 DEF addWaitingApiActivity
  <2>2. /\ Waiters' = Waiters \cup {a}
        /\ ApiWaiters' = ApiWaiters \cup {a}
        /\ AttachWaiters' = AttachWaiters
    BY <1>8 DEF addWaitingApiActivity
  <2>3. /\ waitingAccess' = Inc(waitingAccess)
        /\ waitingApiAccess' = Inc(waitingApiAccess)
        /\ UNCHANGED waitingAttaches
    BY <1>8 DEF addWaitingApiActivity
  <2> HIDE DEF TypeOK, Waiters, ApiWaiters, AttachWaiters, counters
  <2> QED  BY <2>1, <2>2, <2>3, CountsFollow DEF Follows
<1>9. ASSUME NEW a \in Activities, addWaitingAttach(a) PROVE WaitingCountsExact'
  <2>1. /\ a \notin AttachWaiters
    BY <1>9 DEF addWaitingAttach
  <2>2. /\ Waiters' = Waiters
        /\ ApiWaiters' = ApiWaiters
        /\ AttachWaiters' = AttachWaiters \cup {a}
    BY <1>9 DEF addWaitingAttach
  <2>3. /\ UNCHANGED waitingAccess
        /\ UNCHANGED waitingApiAccess
        /\ waitingAttaches' = Inc(waitingAttaches)
    BY <1>9 DEF addWaitingAttach
  <2> HIDE DEF TypeOK, Waiters, ApiWaiters, AttachWaiters, counters
  <2> QED  BY <2>1, <2>2, <2>3, CountsFollow DEF Follows
<1>10. ASSUME NEW a \in Activities, dispatched(a) PROVE WaitingCountsExact'
  <2>1. SetsStay /\ UNCHANGED counters
    BY <1>10 DEF dispatched, SetsStay
  <2> QED  BY <2>1, QuietStep
<1>11. ASSUME NEW a \in Activities, dispatchTimeout(a) PROVE WaitingCountsExact'
  <2>1. SetsStay /\ UNCHANGED counters
    BY <1>11 DEF dispatchTimeout, SetsStay
  <2> QED  BY <2>1, QuietStep
<1>12. ASSUME NEW a \in Activities, postSelf(a) PROVE WaitingCountsExact'
  <2>1. SetsStay /\ UNCHANGED counters
    BY <1>12 DEF postSelf, SetsStay
  <2> QED  BY <2>1, QuietStep
<1>13. ASSUME NEW a \in Activities, lockKernel(a) PROVE WaitingCountsExact'
  <2>1. SetsStay /\ UNCHANGED counters
    BY <1>13 DEF lockKernel, SetsStay
  <2> QED  BY <2>1, QuietStep
<1>14. ASSUME NEW a \in Activities, accessGranted(a) PROVE WaitingCountsExact'
  <2>1. /\ a \in Waiters
    BY <1>14 DEF accessGranted
  <2>2. /\ Waiters' = Waiters \ {a}
        /\ ApiWaiters' = ApiWaiters
        /\ AttachWaiters' = AttachWaiters
    BY <1>14 DEF accessGranted
  <2>3. /\ waitingAccess' = Dec(waitingAccess)
        /\ UNCHANGED waitingApiAccess
        /\ UNCHANGED waitingAttaches
    BY <1>14 DEF accessGranted
  <2> HIDE DEF TypeOK, Waiters, ApiWaiters, AttachWaiters, counters
  <2> QED  BY <2>1, <2>2, <2>3, CountsFollow DEF Follows
<1>15. ASSUME NEW a \in Activities, apiAccessGranted(a) PROVE WaitingCountsExact'
  <2>1. /\ a \in Waiters
        /\ a \in ApiWaiters
    BY <1>15 DEF apiAccessGranted
  <2>2. /\ Waiters' = Waiters \ {a}
        /\ ApiWaiters' = ApiWaiters \ {a}
        /\ AttachWaiters' = AttachWaiters
    BY <1>15 DEF apiAccessGranted
  <2>3. /\ waitingAccess' = Dec(waitingAccess)
        /\ waitingApiAccess' = Dec(waitingApiAccess)
        /\ UNCHANGED waitingAttaches
    BY <1>15 DEF apiAccessGranted
  <2> HIDE DEF TypeOK, Waiters, ApiWaiters, AttachWaiters, counters
  <2> QED  BY <2>1, <2>2, <2>3, CountsFollow DEF Follows
<1>16. ASSUME NEW a \in Activities, attachGranted(a) PROVE WaitingCountsExact'
  <2>1. /\ a \in AttachWaiters
    BY <1>16 DEF attachGranted
  <2>2. /\ Waiters' = Waiters
        /\ ApiWaiters' = ApiWaiters
        /\ AttachWaiters' = AttachWaiters \ {a}
    BY <1>16 DEF attachGranted
  <2>3. /\ UNCHANGED waitingAccess
        /\ UNCHANGED waitingApiAccess
        /\ waitingAttaches' = Dec(waitingAttaches)
    BY <1>16 DEF attachGranted
  <2> HIDE DEF TypeOK, Waiters, ApiWaiters, AttachWaiters, counters
  <2> QED  BY <2>1, <2>2, <2>3, CountsFollow DEF Follows
<1>17. ASSUME NEW a \in Activities, handleNestedActivity(a) PROVE WaitingCountsExact'
  <2>0. a \in Nested /\ nestedActivity[a] = NoActivity /\ pc[a] # "detached"
    BY <1>17 DEF handleNestedActivity
  <2>1. AttachWaiters' = AttachWaiters /\ waitingAttaches' = waitingAttaches
    BY <1>17 DEF handleNestedActivity
  <2>2. CASE Host[a] \notin waitingForDispatch
    <3>1. Waiters' = Waiters
      BY <1>17, <2>0, <2>2 DEF handleNestedActivity
    <3>2. ApiWaiters' = ApiWaiters
      BY <1>17, <3>1 DEF handleNestedActivity
    <3>3. UNCHANGED counters
      BY <1>17, <2>2 DEF handleNestedActivity
    <3> QED  BY <2>1, <3>1, <3>2, <3>3, QuietStep DEF SetsStay
  <2>3. CASE Host[a] \in waitingForDispatch
    <3> DEFINE h == Host[a]
    <3>1. h \in Activities /\ h # NoActivity
      BY <2>3
    <3>2. \A c \in Nested : nestedActivity[c] # h
      <4> SUFFICES ASSUME NEW c \in Nested, nestedActivity[c] = h PROVE FALSE
        OBVIOUS
      <4>1. Host[c] = Host[a] /\ pc[c] # "detached"
        BY <3>1
      <4>2. c = a
        BY <2>0, <3>1, <4>1
      <4> QED  BY <2>0, <3>1, <4>2
    <3>3. h \in Waiters
      BY <2>3, <3>2
    <3>4. \A c \in Nested :
             nestedActivity'[c] = IF c = a THEN h ELSE nestedActivity[c]
      BY <1>17 DEF handleNestedActivity
    <3>5. waitingForDispatch' = waitingForDispatch /\ entry' = entry
      BY <1>17 DEF handleNestedActivity
    <3>6. Waiters' = Waiters \ {h}
      BY <2>0, <3>4, <3>5
    <3>7. ApiWaiters' = IF entry[h] = "api" THEN ApiWaiters \ {h} ELSE ApiWaiters
      BY <3>5, <3>6
    <3>8. /\ waitingAccess' = Dec(waitingAccess)
          /\ waitingApiAccess' = IF entry[h] = "api"
                                 THEN Dec(waitingApiAccess) ELSE waitingApiAccess
      BY <1>17, <2>3 DEF handleNestedActivity, suspendDispatch
    <3>9. entry[h] = "api" => h \in ApiWaiters
      BY <3>3
    <3> HIDE DEF TypeOK, Waiters, ApiWaiters, AttachWaiters, counters
    <3> QED
      BY <2>1, <3>3, <3>6, <3>7, <3>8, <3>9, CountsFollow DEF Follows
  <2> QED  BY <2>2, <2>3
<1>18. ASSUME NEW a \in Activities, setupCurrentActivity(a) PROVE WaitingCountsExact'
  <2>1. SetsStay /\ UNCHANGED counters
    BY <1>18 DEF setupCurrentActivity, SetsStay
  <2> QED  BY <2>1, QuietStep
<1>19. ASSUME NEW a \in Activities, releaseAccess(a) PROVE WaitingCountsExact'
  <2>1. SetsStay /\ UNCHANGED counters
    BY <1>19 DEF releaseAccess, SetsStay
  <2> QED  BY <2>1, QuietStep
<1>20. ASSUME NEW a \in Activities, relinquish(a) PROVE WaitingCountsExact'
  <2>1. SetsStay /\ UNCHANGED counters
    BY <1>20 DEF relinquish, SetsStay
  <2> QED  BY <2>1, QuietStep
<1>21. ASSUME NEW a \in Activities, yieldAccess(a) PROVE WaitingCountsExact'
  <2>0. CASE ~hasWaiters
    <3>1. SetsStay /\ UNCHANGED counters
      BY <1>21, <2>0 DEF yieldAccess, SetsStay
    <3> QED  BY <3>1, QuietStep
  <2>c. CASE hasWaiters
    <3>1. /\ a \notin Waiters
      BY <1>21, <2>c DEF yieldAccess
    <3>2. /\ Waiters' = Waiters \cup {a}
          /\ ApiWaiters' = ApiWaiters
          /\ AttachWaiters' = AttachWaiters
      BY <1>21, <2>c DEF yieldAccess
    <3>3. /\ waitingAccess' = Inc(waitingAccess)
          /\ UNCHANGED waitingApiAccess
          /\ UNCHANGED waitingAttaches
      BY <1>21, <2>c DEF yieldAccess
    <3> HIDE DEF TypeOK, Waiters, ApiWaiters, AttachWaiters, counters
    <3> QED  BY <3>1, <3>2, <3>3, CountsFollow DEF Follows
  <2> QED  BY <2>0, <2>c
<1>22. ASSUME NEW a \in Activities, detachThread(a) PROVE WaitingCountsExact'
  <2> DEFINE h == nestedActivity[a]
  <2>0. a \in Nested /\ pc[a] = "native"
    BY <1>22 DEF detachThread
  <2>1. AttachWaiters' = AttachWaiters /\ waitingAttaches' = waitingAttaches
    BY <1>22 DEF detachThread
  <2>2. \A c \in Nested :
           nestedActivity'[c] = IF c = a THEN NoActivity ELSE nestedActivity[c]
    BY <1>22 DEF detachThread
  <2>3. waitingForDispatch' = waitingForDispatch /\ entry' = entry
    BY <1>22 DEF detachThread
  <2>4. CASE h \notin waitingForDispatch
    <3>1. Waiters' = Waiters
      BY <2>0, <2>2, <2>3, <2>4
    <3>2. ApiWaiters' = ApiWaiters
      BY <2>3, <3>1
    <3>3. UNCHANGED counters
      BY <1>22, <2>4 DEF detachThread
    <3> QED  BY <2>1, <3>1, <3>2, <3>3, QuietStep DEF SetsStay
  <2>5. CASE h \in waitingForDispatch
    <3>1. h \in Activities /\ h # NoActivity /\ h = Host[a]
      BY <2>0, <2>5
    <3>2. \A c \in Nested : nestedActivity[c] = h => c = a
      BY <2>0, <3>1
    <3>3. h \notin Waiters
      BY <2>0
    <3>4. Waiters' = Waiters \cup {h}
      BY <2>0, <2>2, <2>3, <2>5, <3>1, <3>2
    <3>5. ApiWaiters' = IF entry[h] = "api" THEN ApiWaiters \cup {h} ELSE ApiWaiters
      BY <2>3, <3>1, <3>4
    <3>6. /\ waitingAccess' = Inc(waitingAccess)
          /\ waitingApiAccess' = IF entry[h] = "api"
                                 THEN Inc(waitingApiAccess) ELSE waitingApiAccess
      BY <1>22, <2>5 DEF detachThread
    <3>7. h \notin ApiWaiters
      BY <3>3
    <3> HIDE DEF TypeOK, Waiters, ApiWaiters, AttachWaiters, counters
    <3> QED
      BY <2>1, <3>1, <3>3, <3>4, <3>5, <3>6, <3>7, CountsFollow DEF Follows
  <2> QED  BY <2>4, <2>5
<1>23. ASSUME NEW a \in Activities, terminate(a) PROVE WaitingCountsExact'
  <2>1. SetsStay /\ UNCHANGED counters
    BY <1>23 DEF terminate, SetsStay
  <2> QED  BY <2>1, QuietStep
<1>24. ASSUME NEW a \in Activities, returnRootActivity(a) PROVE WaitingCountsExact'
  <2>0. nestedActivity' = nestedActivity
    <3>1. a \in Roots => nestedActivity[a] = NoActivity
      BY DEF NoNestedRoots
    <3> QED  BY <1>24, <3>1 DEF returnRootActivity
  <2>1. SetsStay /\ UNCHANGED counters
    BY <1>24, <2>0 DEF returnRootActivity, SetsStay
  <2> QED  BY <2>1, QuietStep
<1>25. ASSUME NEW a \in Activities, nudgeQueue(a) PROVE WaitingCountsExact'
  <2>1. SetsStay /\ UNCHANGED counters
    BY <1>25 DEF nudgeQueue, SetsStay
  <2> QED  BY <2>1, QuietStep
<1> QED
  BY <1>1, <1>2, <1>3, <1>4, <1>5, <1>6, <1>7, <1>8, <1>9, <1>10,
     <1>11, <1>12, <1>13, <1>14, <1>15, <1>16, <1>17, <1>18, <1>19,
     <1>20, <1>21, <1>22, <1>23, <1>24, <1>25
  DEF Next, Step, Acquire, Shed, Finish

(* No counter of waiting activities ever wraps or drifts, however attaches *)
(* nest: hasWaiters() is zero exactly when nobody waits.                   *)
THEOREM WaitersAreCounted == NoNestedRoots => (Spec => []WaitingCountsExact)
<1> SUFFICES ASSUME NoNestedRoots PROVE Spec => []WaitingCountsExact
  OBVIOUS
<1> DEFINE Inv == TypeOK /\ Nesting /\ WaitingCountsExact
<1>1. Init => Inv
  BY TypeInit, NestingInit, CountingInit
<1>2. Inv /\ [Next]_vars => Inv'
  BY TypeStep, NestingStep, CountingStep
<1> QED  BY <1>1, <1>2, PTL DEF Spec
-----------------------------------------------------------------------------
(***************************************************************************)
(* The dispatch queue holds waiting activities only, each once, loses      *)
(* nobody and is served in order.  An entry that was posted is dropped     *)
(* from the queue at once, except that an activity whose wait timed out    *)
(* posts itself and leaves its entry until it has the kernel.              *)
(***************************************************************************)
InSeq(q, a) == \E i \in 1..Len(q) : q[i] = a
Distinct(q) == \A i, j \in 1..Len(q) : q[i] = q[j] => i = j

(* Whose wait timed out is on the way to the kernel lock.                  *)
TimedOutPlaces ==
    \A a \in Activities :
        /\ a \in timedOut => /\ entry[a] = "request"
                             /\ pc[a] \in {"selfPost", "kernelWait", "section"}
        /\ pc[a] = "selfPost" => a \in timedOut

Members ==
    \A a \in Activities :
        InSeq(queue, a) => /\ a \in Waiters
                           /\ pc[a] = "dispatchWait" \/ a \in timedOut
                           /\ a \in permitted => a \in timedOut

QueueSound == TypeOK /\ Nesting /\ TimedOutPlaces /\ Distinct(queue) /\ Members

LEMMA AppendIn ==
    ASSUME NEW S, NEW q \in Seq(S), NEW a \in S, ~InSeq(q, a), Distinct(q)
    PROVE  /\ Distinct(Append(q, a))
           /\ \A x : InSeq(Append(q, a), x) <=> InSeq(q, x) \/ x = a
<1> DEFINE t == Append(q, a)
<1>1. /\ Len(t) = Len(q) + 1 /\ Len(q) \in Nat
      /\ \A i \in 1..Len(q) : t[i] = q[i]
      /\ t[Len(q) + 1] = a
  BY AppendProperties, LenProperties
<1>2. /\ \A i \in 1..Len(q) + 1 : i \in 1..Len(q) \/ i = Len(q) + 1
      /\ 1..Len(q) \subseteq 1..Len(q) + 1 /\ Len(q) + 1 \in 1..Len(q) + 1
  BY <1>1
<1> HIDE DEF t
<1>3. Distinct(t)
  BY <1>1, <1>2 DEF Distinct, InSeq
<1>4. \A x : InSeq(t, x) <=> InSeq(q, x) \/ x = a
  BY <1>1, <1>2 DEF InSeq
<1> QED  BY <1>3, <1>4 DEF t

LEMMA TailIn ==
    ASSUME NEW S, NEW q \in Seq(S), q # <<>>, Distinct(q)
    PROVE  /\ Tail(q) \in Seq(S) /\ Distinct(Tail(q)) /\ Head(q) \in S
           /\ ~InSeq(Tail(q), Head(q)) /\ InSeq(q, Head(q))
           /\ Len(q) \in Nat /\ Len(q) > 0 /\ q[1] = Head(q)
           /\ Len(Tail(q)) = Len(q) - 1
           /\ \A i \in 1..Len(q) : i # 1 =>
                i - 1 \in 1..Len(Tail(q)) /\ Tail(q)[i - 1] = q[i]
           /\ \A x : InSeq(q, x) <=> InSeq(Tail(q), x) \/ x = Head(q)
<1>1. /\ Tail(q) \in Seq(S) /\ Head(q) \in S /\ Head(q) = q[1]
      /\ Len(Tail(q)) = Len(q) - 1
      /\ \A i \in 1..Len(Tail(q)) : Tail(q)[i] = q[i + 1]
  BY HeadTailProperties
<1>2. Len(q) \in Nat /\ Len(q) > 0
  BY EmptySeq, LenProperties
<1>3. /\ 1 \in 1..Len(q)
      /\ \A i \in 1..Len(Tail(q)) : i + 1 \in 1..Len(q) /\ i + 1 # 1 /\ i \in Int
      /\ \A i \in 1..Len(q) : i # 1 => i - 1 \in 1..Len(Tail(q)) /\ (i - 1) + 1 = i
  BY <1>1, <1>2
<1>4. \A i \in 1..Len(q) : i # 1 =>
        i - 1 \in 1..Len(Tail(q)) /\ Tail(q)[i - 1] = q[i]
  BY <1>1, <1>3
<1>5. Distinct(Tail(q))
  <2>1. \A i, j \in 1..Len(Tail(q)) : i + 1 = j + 1 => i = j
    BY <1>3
  <2> QED  BY <1>1, <1>3, <2>1 DEF Distinct
<1>6. ~InSeq(Tail(q), Head(q)) /\ InSeq(q, Head(q))
  BY <1>1, <1>3 DEF Distinct, InSeq
<1>7. \A x : InSeq(q, x) <=> InSeq(Tail(q), x) \/ x = Head(q)
  <2>1. ASSUME NEW x, InSeq(q, x) PROVE InSeq(Tail(q), x) \/ x = Head(q)
    BY <1>1, <1>4, <2>1 DEF InSeq
  <2>2. ASSUME NEW x, InSeq(Tail(q), x) PROVE InSeq(q, x)
    BY <1>1, <1>3, <2>2 DEF InSeq
  <2> QED  BY <1>6, <2>1, <2>2
<1> QED  BY <1>1, <1>2, <1>4, <1>5, <1>6, <1>7

(* remove() takes the one entry of an activity out of the queue.           *)
LEMMA RemoveIn ==
    ASSUME queue \in Seq(Activities), Distinct(queue), NEW a, remove(a)
    PROVE  /\ Distinct(queue)'
           /\ \A x : InSeq(queue, x)' <=> InSeq(queue, x) /\ x # a
<1>1. CASE queue' = queue /\ \A i \in 1..Len(queue) : queue[i] # a
  BY <1>1 DEF InSeq, Distinct
<1>2. ASSUME NEW k \in 1..Len(queue), queue[k] = a,
             queue' = SubSeq(queue, 1, k - 1) \o SubSeq(queue, k + 1, Len(queue))
      PROVE  /\ Distinct(queue)'
             /\ \A x : InSeq(queue, x)' <=> InSeq(queue, x) /\ x # a
  <2> DEFINE s == SubSeq(queue, 1, k - 1)
             t == SubSeq(queue, k + 1, Len(queue))
             n == Len(queue)
  <2>1. n \in Nat /\ k \in Nat /\ 1 <= k /\ k <= n
    BY LenProperties
  <2>2. /\ s \in Seq(Activities) /\ Len(s) = k - 1
        /\ \A i \in 1..k - 1 : s[i] = queue[i]
    <3>1. \A i \in 1..k - 1 : queue[i] \in Activities
      BY <2>1, ElementOfSeq
    <3>2. /\ s \in Seq(Activities)
          /\ Len(s) = IF 1 <= k - 1 THEN (k - 1) - 1 + 1 ELSE 0
          /\ \A i \in 1..(k - 1) - 1 + 1 : s[i] = queue[1 + i - 1]
      BY <2>1, <3>1, SubSeqProperties
    <3>3. (k - 1) - 1 + 1 = k - 1 /\ \A i \in 1..k - 1 : 1 + i - 1 = i
      BY <2>1
    <3> HIDE DEF s
    <3>4. Len(s) = k - 1
      BY <2>1, <3>2, <3>3
    <3> QED  BY <3>2, <3>3, <3>4
  <2>3. /\ t \in Seq(Activities) /\ Len(t) = n - k
        /\ \A i \in 1..n - k : t[i] = queue[k + i]
    <3>1. \A i \in k + 1..n : queue[i] \in Activities
      BY <2>1, ElementOfSeq
    <3>2. /\ t \in Seq(Activities)
          /\ Len(t) = IF k + 1 <= n THEN n - (k + 1) + 1 ELSE 0
          /\ \A i \in 1..n - (k + 1) + 1 : t[i] = queue[(k + 1) + i - 1]
      BY <2>1, <3>1, SubSeqProperties
    <3>3. n - (k + 1) + 1 = n - k /\ \A i \in 1..n - k : (k + 1) + i - 1 = k + i
      BY <2>1
    <3> HIDE DEF t, n
    <3>4. Len(t) = n - k
      BY <2>1, <3>2, <3>3
    <3> QED  BY <3>2, <3>3, <3>4
  <2> HIDE DEF s, t
  <2>4. /\ Len(queue') = n - 1
        /\ \A i \in 1..n - 1 : queue'[i] = IF i <= k - 1 THEN queue[i] ELSE queue[i + 1]
    <3>1. queue' = s \o t
      BY <1>2 DEF s, t
    <3>2. /\ Len(queue') = (k - 1) + (n - k)
          /\ \A i \in 1..(k - 1) + (n - k) :
               queue'[i] = IF i <= k - 1 THEN s[i] ELSE t[i - (k - 1)]
      <4>1. /\ Len(s \o t) = Len(s) + Len(t)
            /\ \A i \in 1..Len(s) + Len(t) :
                 (s \o t)[i] = IF i <= Len(s) THEN s[i] ELSE t[i - Len(s)]
        BY <2>2, <2>3, ConcatProperties
      <4> QED  BY <2>2, <2>3, <3>1, <4>1
    <3>3. (k - 1) + (n - k) = n - 1
      BY <2>1
    <3>4. ASSUME NEW i \in 1..n - 1
          PROVE  queue'[i] = IF i <= k - 1 THEN queue[i] ELSE queue[i + 1]
      <4>1. CASE i <= k - 1
        <5>1. i \in 1..k - 1
          BY <4>1, <2>1
        <5> QED  BY <2>2, <3>2, <3>3, <4>1, <5>1
      <4>2. CASE ~(i <= k - 1)
        <5>1. i - (k - 1) \in 1..n - k /\ k + (i - (k - 1)) = i + 1
          BY <2>1, <4>2
        <5> QED  BY <2>3, <3>2, <3>3, <4>2, <5>1
      <4> QED  BY <4>1, <4>2
    <3> QED  BY <3>2, <3>3, <3>4
  <2>5. \A i \in 1..n - 1 : /\ i <= k - 1 => i \in 1..n /\ i # k
                            /\ ~(i <= k - 1) => i + 1 \in 1..n /\ i + 1 # k
    BY <2>1
  <2>6. Distinct(queue)'
    <3>1. ASSUME NEW i \in 1..n - 1, NEW j \in 1..n - 1, queue'[i] = queue'[j]
          PROVE  i = j
      <4>1. CASE i <= k - 1 /\ j <= k - 1
        BY <2>4, <2>5, <3>1, <4>1 DEF Distinct
      <4>2. CASE i <= k - 1 /\ ~(j <= k - 1)
        <5>1. i = j + 1
          BY <2>4, <2>5, <3>1, <4>2 DEF Distinct
        <5> QED  BY <2>1, <4>2, <5>1
      <4>3. CASE ~(i <= k - 1) /\ j <= k - 1
        <5>1. i + 1 = j
          BY <2>4, <2>5, <3>1, <4>3 DEF Distinct
        <5> QED  BY <2>1, <4>3, <5>1
      <4>4. CASE ~(i <= k - 1) /\ ~(j <= k - 1)
        <5>1. i + 1 = j + 1
          BY <2>4, <2>5, <3>1, <4>4 DEF Distinct
        <5> QED  BY <5>1
      <4> QED  BY <4>1, <4>2, <4>3, <4>4
    <3> QED  BY <2>4, <3>1 DEF Distinct
  <2>7. ASSUME NEW x, InSeq(queue, x)' PROVE InSeq(queue, x) /\ x # a
    <3>1. PICK i \in 1..n - 1 : queue'[i] = x
      BY <2>4, <2>7 DEF InSeq
    <3>2. PICK j \in 1..n : j # k /\ queue[j] = x
      BY <2>4, <2>5, <3>1
    <3> QED  BY <1>2, <3>2 DEF InSeq, Distinct
  <2>8. ASSUME NEW x, InSeq(queue, x), x # a PROVE InSeq(queue, x)'
    <3>1. PICK j \in 1..n : queue[j] = x
      BY <2>8 DEF InSeq
    <3>2. j # k
      BY <1>2, <2>8, <3>1
    <3>3. CASE j < k
      <4>1. j \in 1..n - 1 /\ j <= k - 1
        BY <2>1, <3>3
      <4> QED  BY <2>4, <3>1, <4>1 DEF InSeq
    <3>4. CASE j > k
      <4>1. j - 1 \in 1..n - 1 /\ ~(j - 1 <= k - 1) /\ (j - 1) + 1 = j
        BY <2>1, <3>4
      <4> QED  BY <2>4, <3>1, <4>1 DEF InSeq
    <3> QED  BY <2>1, <3>2, <3>3, <3>4
  <2> QED  BY <2>6, <2>7, <2>8
<1> QED  BY <1>1, <1>2 DEF remove

(* dispatchNext() posts the first entry of q that was not posted, and      *)
(* drops it with those in front of it.                                     *)
LEMMA DispatchIn ==
    ASSUME NEW q \in Seq(Activities), Distinct(q), dispatchNext(q)
    PROVE  /\ Distinct(queue)'
           /\ permitted \subseteq permitted'
           /\ \A x : InSeq(queue, x)' =>
                InSeq(q, x) /\ (x \in permitted' => x \in permitted)
           /\ \A x : InSeq(q, x) => InSeq(queue, x)' \/ x \in permitted'
           /\ \A i \in 1..Len(q) : q[i] \in permitted' \ permitted =>
                \A j \in 1..(i - 1) : q[j] \in permitted
           /\ \A x \in permitted' \ permitted : InSeq(q, x)
<1>1. CASE (\A i \in 1..Len(q) : q[i] \in permitted) /\ queue' = <<>>
                /\ UNCHANGED permitted
  <2>1. Len(queue') = 0
    BY <1>1
  <2> QED  BY <1>1, <2>1 DEF InSeq, Distinct
<1>2. ASSUME NEW k \in 1..Len(q), q[k] \notin permitted,
             \A j \in 1..(k - 1) : q[j] \in permitted,
             queue' = SubSeq(q, k + 1, Len(q)),
             permitted' = permitted \cup {q[k]}
      PROVE  /\ Distinct(queue)'
             /\ permitted \subseteq permitted'
             /\ \A x : InSeq(queue, x)' =>
                  InSeq(q, x) /\ (x \in permitted' => x \in permitted)
             /\ \A x : InSeq(q, x) => InSeq(queue, x)' \/ x \in permitted'
             /\ \A i \in 1..Len(q) : q[i] \in permitted' \ permitted =>
                  \A j \in 1..(i - 1) : q[j] \in permitted
             /\ \A x \in permitted' \ permitted : InSeq(q, x)
  <2> DEFINE n == Len(q)
             t == SubSeq(q, k + 1, n)
  <2>1. n \in Nat /\ k \in Nat /\ 1 <= k /\ k <= n
    BY LenProperties
  <2>2. Len(t) = n - k /\ \A i \in 1..n - k : t[i] = q[k + i]
    <3>1. \A i \in k + 1..n : q[i] \in Activities
      BY <2>1, ElementOfSeq
    <3>2. /\ Len(t) = IF k + 1 <= n THEN n - (k + 1) + 1 ELSE 0
          /\ \A i \in 1..n - (k + 1) + 1 : t[i] = q[(k + 1) + i - 1]
      BY <2>1, <3>1, SubSeqProperties
    <3>3. n - (k + 1) + 1 = n - k /\ \A i \in 1..n - k : (k + 1) + i - 1 = k + i
      BY <2>1
    <3> HIDE DEF t, n
    <3>4. Len(t) = n - k
      BY <2>1, <3>2, <3>3
    <3> QED  BY <3>2, <3>3, <3>4
  <2>3. queue' = t
    BY <1>2
  <2> HIDE DEF t, n
  <2>4. Len(queue') = n - k /\ \A i \in 1..n - k : queue'[i] = q[k + i]
    BY <2>2, <2>3
  <2>5. \A i \in 1..n - k : k + i \in 1..n /\ k + i # k /\ i \in Int
    BY <2>1
  <2>6. Distinct(queue)'
    <3>1. \A i, j \in 1..n - k : k + i = k + j => i = j
      BY <2>1
    <3> QED  BY <2>4, <2>5, <3>1 DEF Distinct, n
  <2>7. ASSUME NEW x, InSeq(queue, x)'
        PROVE  InSeq(q, x) /\ (x \in permitted' => x \in permitted)
    <3>1. PICK i \in 1..n - k : x = q[k + i]
      BY <2>4, <2>7 DEF InSeq
    <3>2. x # q[k]
      BY <2>1, <2>5, <3>1 DEF Distinct, n
    <3> QED  BY <1>2, <2>5, <3>1, <3>2 DEF InSeq, n
  <2>8. ASSUME NEW x, InSeq(q, x) PROVE InSeq(queue, x)' \/ x \in permitted'
    <3>1. PICK j \in 1..n : q[j] = x
      BY <2>8 DEF InSeq, n
    <3>2. CASE j < k
      <4>1. j \in 1..(k - 1)
        BY <2>1, <3>2
      <4> QED  BY <1>2, <3>1, <4>1
    <3>3. CASE j = k
      BY <1>2, <3>1, <3>3
    <3>4. CASE j > k
      <4>1. j - k \in 1..n - k /\ k + (j - k) = j
        BY <2>1, <3>4
      <4> QED  BY <2>4, <3>1, <4>1 DEF InSeq
    <3> QED  BY <2>1, <3>2, <3>3, <3>4
  <2>9. ASSUME NEW i \in 1..Len(q), q[i] \in permitted' \ permitted
        PROVE  i = k
    BY <1>2, <2>9 DEF Distinct
  <2>10. \A x \in permitted' \ permitted : InSeq(q, x)
    BY <1>2 DEF InSeq
  <2> QED  BY <1>2, <2>6, <2>7, <2>8, <2>9, <2>10
<1> QED  BY <1>1, <1>2 DEF dispatchNext

-----------------------------------------------------------------------------
LEMMA TimedOutStep ==
    ASSUME TypeOK, Nesting, TimedOutPlaces, [Next]_vars
    PROVE  TimedOutPlaces'
<1> USE DEF TypeOK, TimedOutPlaces, At, Goto, localVars
<1>1. \A a \in Activities : pc[a] = "dispatchWait" => entry[a] = "request"
  BY DEF Nesting, FlagMeansInLine
<1>2. CASE UNCHANGED vars
  BY <1>2 DEF vars
<1>3. ASSUME NEW a \in Activities,
             \/ requestAccess(a) \/ requestApiAccess(a) \/ attachThread(a)
             \/ getRootActivity(a)
      PROVE  TimedOutPlaces'
  BY <1>3 DEF requestAccess, requestApiAccess, attachThread, getRootActivity, Ask
<1>4. ASSUME NEW a \in Activities,
             \/ requestImmediate(a) \/ addWaitingActivity(a) \/ addWaitingApiActivity(a)
             \/ addWaitingAttach(a) \/ dispatched(a) \/ postSelf(a) \/ lockKernel(a)
             \/ attachGranted(a)
      PROVE  TimedOutPlaces'
  BY <1>4 DEF requestImmediate, addWaitingActivity, addWaitingApiActivity,
              addWaitingAttach, dispatched, postSelf, lockKernel, attachGranted
<1>5. ASSUME NEW a \in Activities, dispatchTimeout(a) PROVE TimedOutPlaces'
  BY <1>1, <1>5 DEF dispatchTimeout
<1>6. ASSUME NEW a \in Activities, accessGranted(a) PROVE TimedOutPlaces'
  BY <1>6 DEF accessGranted
<1>7. ASSUME NEW a \in Activities, apiAccessGranted(a) PROVE TimedOutPlaces'
  BY <1>7 DEF apiAccessGranted
<1>8. ASSUME NEW a \in Activities, handleNestedActivity(a) \/ setupCurrentActivity(a)
      PROVE  TimedOutPlaces'
  BY <1>8 DEF handleNestedActivity, setupCurrentActivity
<1>9. ASSUME NEW a \in Activities, Shed(a) PROVE TimedOutPlaces'
  BY <1>9 DEF Shed, releaseAccess, relinquish, yieldAccess
<1>10. ASSUME NEW a \in Activities, Finish(a) PROVE TimedOutPlaces'
  BY <1>10 DEF Finish, detachThread, terminate, returnRootActivity, nudgeQueue
<1> QED  BY <1>2, <1>3, <1>4, <1>5, <1>6, <1>7, <1>8, <1>9, <1>10
         DEF Next, Step, Acquire

(* Who is not in the queue.                                                *)
LEMMA NotInQueue ==
    ASSUME QueueSound, NEW a \in Activities, pc[a] # "dispatchWait",
           \/ pc[a] \notin {"selfPost", "kernelWait", "section"}
           \/ entry[a] # "request" \/ a \notin timedOut
    PROVE  ~InSeq(queue, a)
BY DEF QueueSound, Members, TimedOutPlaces

(* A step that takes a out of the queue, or leaves it out.                 *)
LEMMA MembersWithout ==
    ASSUME Members, NEW a, ~InSeq(queue, a)',
           \A x \in Activities \ {a} :
               /\ InSeq(queue, x)' => /\ InSeq(queue, x)
                                      /\ x \in permitted' => x \in permitted
               /\ x \in Waiters => x \in Waiters'
               /\ pc'[x] = pc[x]
               /\ x \in timedOut => x \in timedOut'
    PROVE  Members'
BY DEF Members

(* A step that leaves a where it stands in the queue.                      *)
LEMMA MembersWith ==
    ASSUME Members, NEW a, queue' = queue, Waiters' = Waiters,
           pc'[a] = "dispatchWait" \/ a \in timedOut' \/ ~InSeq(queue, a),
           timedOut \subseteq timedOut',
           \A x \in permitted' : x \in permitted \cup timedOut',
           \A x \in Activities \ {a} : pc'[x] = pc[x]
    PROVE  Members'
<1>1. \A x : InSeq(queue, x)' <=> InSeq(queue, x)
  BY DEF InSeq
<1>2. ASSUME NEW x \in Activities, InSeq(queue, x)'
      PROVE  /\ x \in Waiters'
             /\ pc'[x] = "dispatchWait" \/ x \in timedOut'
             /\ x \in permitted' => x \in timedOut'
  BY <1>1, <1>2 DEF Members
<1> QED  BY <1>2 DEF Members

(* Who was pushed down by a nested activity stands in one of these places. *)
LEMMA SuspendedPlaces ==
    ASSUME TypeOK, Nesting, NEW a \in Suspended, a \in Activities
    PROVE  /\ pc[a] \in {"native", "dispatchWait", "kernelWait"} /\ a \in Rexx
           /\ \E b \in Nested : nestedActivity[b] = a /\ Host[b] = a
<1>1. PICK b \in Nested : nestedActivity[b] = a
  BY DEF Suspended
<1>2. a # NoActivity
  BY ActivitiesAssumption
<1>3. Host[b] = a /\ pc[b] # "detached"
  BY <1>1, <1>2 DEF Nesting, NestedPointsToHost
<1>4. pc[a] \in {"native", "dispatchWait", "kernelWait"}
  BY <1>2, <1>3 DEF Nesting, HostStandsStill
<1> QED  BY <1>1, <1>2, <1>3, <1>4, HostAssumption

(* A joins the queue.                                                      *)
LEMMA MembersPlus ==
    ASSUME QueueSound, NEW a \in Activities, pc[a] \in {"lineUp", "relinquish"},
           pc' = [pc EXCEPT ![a] = "dispatchWait"],
           queue' = Append(queue, a), permitted' = permitted \ {a},
           waitingForDispatch' = waitingForDispatch \cup {a},
           nestedActivity' = nestedActivity, timedOut' = timedOut
    PROVE  Distinct(queue)' /\ Members'
<1>1. ~InSeq(queue, a)
  BY NotInQueue
<1>2. /\ Distinct(queue)'
      /\ \A x : InSeq(queue, x)' <=> InSeq(queue, x) \/ x = a
  <2>1. queue \in Seq(Activities) /\ Distinct(queue)
    BY DEF QueueSound, TypeOK
  <2>2. /\ Distinct(Append(queue, a))
        /\ \A x : InSeq(Append(queue, a), x) <=> InSeq(queue, x) \/ x = a
    BY <1>1, <2>1, AppendIn
  <2>3. /\ Distinct(queue)' <=> Distinct(Append(queue, a))
        /\ \A x : InSeq(queue, x)' <=> InSeq(Append(queue, a), x)
    BY DEF Distinct, InSeq
  <2> QED  BY <2>2, <2>3
<1>3. a \notin Suspended /\ Suspended' = Suspended
  BY SuspendedPlaces DEF QueueSound, Suspended
<1>4. Waiters' = Waiters \cup {a}
  BY <1>3 DEF Waiters
<1>5. ASSUME NEW x \in Activities, InSeq(queue, x)'
      PROVE  /\ x \in Waiters'
             /\ pc'[x] = "dispatchWait" \/ x \in timedOut'
             /\ x \in permitted' => x \in timedOut'
  BY <1>2, <1>4, <1>5 DEF QueueSound, Members, TypeOK
<1> QED  BY <1>2, <1>5 DEF Members

(* dispatchNext() on the whole queue, for a that is not in it.             *)
LEMMA MembersDispatched ==
    ASSUME QueueSound, NEW a \in Activities, ~InSeq(queue, a), dispatchNext(queue),
           \A x \in Activities \ {a} : pc'[x] = pc[x] /\ (x \in Waiters => x \in Waiters'),
           timedOut' = timedOut
    PROVE  Distinct(queue)' /\ Members'
<1>1. /\ Distinct(queue)'
      /\ \A x : InSeq(queue, x)' =>
           InSeq(queue, x) /\ (x \in permitted' => x \in permitted)
  BY DispatchIn DEF QueueSound, TypeOK
<1> QED  BY <1>1, MembersWithout DEF QueueSound

LEMMA QueueStep ==
    ASSUME QueueSound, [Next]_vars
    PROVE  Distinct(queue)' /\ Members'
<1> USE DEF QueueSound, At, Goto, lockVars, counters, dispatchVars, localVars
<1>1. ASSUME queue' = queue
      PROVE  Distinct(queue)' /\ \A x : InSeq(queue, x)' <=> InSeq(queue, x)
  BY <1>1 DEF Distinct, InSeq
<1>2. ASSUME waitingForDispatch' = waitingForDispatch, nestedActivity' = nestedActivity
      PROVE  Waiters' = Waiters /\ Suspended' = Suspended
  BY <1>2 DEF Waiters, Suspended
<1>3. CASE UNCHANGED vars
  <2>1. Members'
    BY <1>1, <1>2, <1>3 DEF vars, Members
  <2> QED  BY <1>1, <1>3, <2>1 DEF vars
(* a moves, outside the queue.                                             *)
<1>4. ASSUME NEW a \in Activities, NEW p, pc' = [pc EXCEPT ![a] = p],
             queue' = queue, permitted' \subseteq permitted, Waiters \subseteq Waiters',
             timedOut' = timedOut, ~InSeq(queue, a)
      PROVE  Distinct(queue)' /\ Members'
  <2>1. \A x \in Activities \ {a} : pc'[x] = pc[x]
    BY <1>4 DEF TypeOK
  <2>2. ~InSeq(queue, a)'
    BY <1>1, <1>4
  <2>3. Members'
    BY <1>1, <1>4, <2>1, <2>2, MembersWithout
  <2> QED  BY <1>1, <1>4, <2>3
<1>5. ASSUME NEW a \in Activities,
             \/ requestAccess(a) \/ requestApiAccess(a) \/ attachThread(a)
             \/ getRootActivity(a)
      PROVE  Distinct(queue)' /\ Members'
  <2>1. /\ pc[a] \in {"native", "detached"} /\ \E p : pc' = [pc EXCEPT ![a] = p]
        /\ queue' = queue /\ permitted' = permitted /\ timedOut' = timedOut
        /\ waitingForDispatch' = waitingForDispatch /\ nestedActivity' = nestedActivity
    BY <1>5 DEF requestAccess, requestApiAccess, attachThread, getRootActivity, Ask
  <2> QED  BY <1>2, <1>4, <2>1, NotInQueue
<1>6. ASSUME NEW a \in Activities, requestImmediate(a) \/ addWaitingAttach(a)
      PROVE  Distinct(queue)' /\ Members'
  <2>1. /\ pc[a] \in {"immediate", "lineUp"} /\ \E p : pc' = [pc EXCEPT ![a] = p]
        /\ queue' = queue /\ permitted' = permitted /\ timedOut' = timedOut
        /\ waitingForDispatch' = waitingForDispatch /\ nestedActivity' = nestedActivity
    BY <1>6 DEF requestImmediate, addWaitingAttach
  <2> QED  BY <1>2, <1>4, <2>1, NotInQueue
<1>7. ASSUME NEW a \in Activities, addWaitingActivity(a)
      PROVE  Distinct(queue)' /\ Members'
  <2>1. CASE currentActivity # NoActivity
    BY <1>7, <2>1, MembersPlus DEF addWaitingActivity
  <2>2. CASE currentActivity = NoActivity
    <3>1. /\ pc[a] = "lineUp" /\ pc' = [pc EXCEPT ![a] = "kernelWait"]
          /\ queue' = queue /\ permitted' \subseteq permitted /\ timedOut' = timedOut
          /\ waitingForDispatch \subseteq waitingForDispatch'
          /\ nestedActivity' = nestedActivity
      BY <1>7, <2>2 DEF addWaitingActivity
    <3> QED  BY <1>4, <3>1, NotInQueue DEF Waiters, Suspended
  <2> QED  BY <2>1, <2>2
<1>8. ASSUME NEW a \in Activities, addWaitingApiActivity(a)
      PROVE  Distinct(queue)' /\ Members'
  <2>1. /\ pc[a] = "lineUp" /\ pc' = [pc EXCEPT ![a] = "kernelWait"]
        /\ queue' = queue /\ permitted' \subseteq permitted /\ timedOut' = timedOut
        /\ waitingForDispatch \subseteq waitingForDispatch'
        /\ nestedActivity' = nestedActivity
    BY <1>8 DEF addWaitingApiActivity
  <2> QED  BY <1>4, <2>1, NotInQueue DEF Waiters, Suspended
<1>9. ASSUME NEW a \in Activities, dispatched(a)
      PROVE  Distinct(queue)' /\ Members'
  <2>1. /\ pc[a] = "dispatchWait" /\ a \in permitted
        /\ pc' = [pc EXCEPT ![a] = "kernelWait"]
        /\ queue' = queue /\ permitted' = permitted /\ timedOut' = timedOut
        /\ waitingForDispatch' = waitingForDispatch /\ nestedActivity' = nestedActivity
    BY <1>9 DEF dispatched
  <2>2. ~InSeq(queue, a)
    BY <2>1 DEF Members, TimedOutPlaces
  <2> QED  BY <1>2, <1>4, <2>1, <2>2
(* a moves where it stands in the queue.                                   *)
<1>10. ASSUME NEW a \in Activities,
              dispatchTimeout(a) \/ postSelf(a) \/ lockKernel(a)
       PROVE  Distinct(queue)' /\ Members'
  <2>1. /\ queue' = queue /\ timedOut \subseteq timedOut'
        /\ permitted' \subseteq permitted \cup {a}
        /\ waitingForDispatch' = waitingForDispatch /\ nestedActivity' = nestedActivity
        /\ \A x \in Activities \ {a} : pc'[x] = pc[x]
    BY <1>10 DEF dispatchTimeout, postSelf, lockKernel, TypeOK
  <2>2. /\ a \in timedOut' \/ ~InSeq(queue, a)
        /\ \A x \in permitted' : x \in permitted \cup timedOut'
    <3>1. CASE dispatchTimeout(a)
      BY <3>1 DEF dispatchTimeout
    <3>2. CASE postSelf(a)
      BY <3>2 DEF postSelf, TimedOutPlaces
    <3>3. CASE lockKernel(a)
      <4>1. pc[a] = "kernelWait" /\ permitted' = permitted /\ timedOut' = timedOut
        BY <3>3 DEF lockKernel
      <4> QED  BY <4>1, NotInQueue
    <3> QED  BY <1>10, <3>1, <3>2, <3>3
  <2>3. Members'
    BY <1>2, <2>1, <2>2, MembersWith
  <2> QED  BY <1>1, <2>1, <2>3
<1>11. ASSUME NEW a \in Activities, accessGranted(a)
       PROVE  Distinct(queue)' /\ Members'
  <2>1. /\ pc[a] = "section" /\ entry[a] = "request"
        /\ pc' = [pc EXCEPT ![a] = "running"] /\ permitted' = permitted
        /\ waitingForDispatch' = waitingForDispatch \ {a}
        /\ timedOut' = timedOut \ {a} /\ nestedActivity' = nestedActivity
        /\ IF a \in timedOut THEN remove(a) ELSE queue' = queue
    BY <1>11 DEF accessGranted
  <2>2. /\ Distinct(queue)'
        /\ \A x : InSeq(queue, x)' <=> InSeq(queue, x) /\ x # a
    <3>1. CASE a \in timedOut
      BY <2>1, <3>1, RemoveIn DEF TypeOK
    <3>2. CASE a \notin timedOut
      <4>1. ~InSeq(queue, a)
        BY <2>1, <3>2, NotInQueue
      <4> QED  BY <1>1, <2>1, <3>2, <4>1
    <3> QED  BY <3>1, <3>2
  <2>3. \A x \in Activities \ {a} : /\ pc'[x] = pc[x]
                                    /\ x \in Waiters => x \in Waiters'
                                    /\ x \in timedOut => x \in timedOut'
    BY <2>1 DEF TypeOK, Waiters, Suspended
  <2> QED  BY <2>1, <2>2, <2>3, MembersWithout
<1>12. ASSUME NEW a \in Activities, apiAccessGranted(a)
       PROVE  Distinct(queue)' /\ Members'
  <2>1. /\ pc[a] = "section" /\ entry[a] = "api"
        /\ pc' = [pc EXCEPT ![a] = "running"] /\ dispatchNext(queue)
        /\ waitingForDispatch' = waitingForDispatch \ {a}
        /\ timedOut' = timedOut /\ nestedActivity' = nestedActivity
    BY <1>12 DEF apiAccessGranted
  <2>2. ~InSeq(queue, a)
    BY <2>1, NotInQueue
  <2>3. \A x \in Activities \ {a} : pc'[x] = pc[x] /\ (x \in Waiters => x \in Waiters')
    BY <2>1 DEF TypeOK, Waiters, Suspended
  <2> QED  BY <2>1, <2>2, <2>3, MembersDispatched
<1>13. ASSUME NEW a \in Activities,
              \/ attachGranted(a) \/ setupCurrentActivity(a) \/ relinquish(a) \/ terminate(a)
       PROVE  Distinct(queue)' /\ Members'
  <2>1. /\ pc[a] \in {"setup", "running"} \/ (pc[a] = "section" /\ entry[a] = "attach")
        /\ \E p : pc' = [pc EXCEPT ![a] = p]
        /\ queue' = queue /\ permitted' = permitted /\ timedOut' = timedOut
        /\ waitingForDispatch' = waitingForDispatch /\ nestedActivity' = nestedActivity
    BY <1>13 DEF attachGranted, setupCurrentActivity, relinquish, terminate
  <2> QED  BY <1>2, <1>4, <2>1, NotInQueue
<1>14. ASSUME NEW b \in Activities, handleNestedActivity(b)
       PROVE  Distinct(queue)' /\ Members'
  <2>1. PICK h : h = Host[b]
    OBVIOUS
  <2>2. /\ b \in Nested /\ pc[b] = "attached" /\ pc' = [pc EXCEPT ![b] = "setup"]
        /\ timedOut' = timedOut /\ waitingForDispatch' = waitingForDispatch
        /\ nestedActivity' = [nestedActivity EXCEPT ![b] = h]
    BY <1>14, <2>1 DEF handleNestedActivity
  <2>3. ~InSeq(queue, b)
    BY <2>2, NotInQueue
  <2>4. \A x \in Activities : x # h => (x \in Waiters => x \in Waiters')
    BY <2>2 DEF Waiters, Suspended, TypeOK
  <2>5. /\ Distinct(queue)' /\ ~InSeq(queue, h)'
        /\ \A x : InSeq(queue, x)' =>
             InSeq(queue, x) /\ (x \in permitted' => x \in permitted)
    <3>1. CASE h \notin waitingForDispatch
      <4>1. queue' = queue /\ permitted' = permitted
        BY <1>14, <2>1, <3>1 DEF handleNestedActivity
      <4>2. ~InSeq(queue, h)
        <5>1. \A i \in 1..Len(queue) : queue[i] \in Activities
          BY ElementOfSeq DEF TypeOK
        <5> QED  BY <3>1, <5>1 DEF Members, Waiters, InSeq
      <4> QED  BY <1>1, <4>1, <4>2
    <3>2. CASE h \in waitingForDispatch /\ queue # <<>> /\ Head(queue) = h
      <4>1. dispatchNext(Tail(queue))
        BY <1>14, <2>1, <3>2 DEF handleNestedActivity, suspendDispatch
      <4>2. /\ Tail(queue) \in Seq(Activities) /\ Distinct(Tail(queue))
            /\ ~InSeq(Tail(queue), h)
            /\ \A x : InSeq(queue, x) <=> InSeq(Tail(queue), x) \/ x = h
        BY <3>2, TailIn DEF TypeOK
      <4>3. /\ Distinct(queue)'
            /\ \A x : InSeq(queue, x)' =>
                 InSeq(Tail(queue), x) /\ (x \in permitted' => x \in permitted)
        BY <4>1, <4>2, DispatchIn
      <4> QED  BY <4>2, <4>3
    <3>3. CASE h \in waitingForDispatch /\ ~(queue # <<>> /\ Head(queue) = h)
      <4>1. remove(h) /\ permitted' = permitted
        BY <1>14, <2>1, <3>3 DEF handleNestedActivity, suspendDispatch
      <4> QED  BY <4>1, RemoveIn DEF TypeOK
    <3> QED  BY <3>1, <3>2, <3>3
  <2>6. ASSUME NEW x \in Activities, InSeq(queue, x)'
        PROVE  /\ x \in Waiters'
               /\ pc'[x] = "dispatchWait" \/ x \in timedOut'
               /\ x \in permitted' => x \in timedOut'
    <3>1. x # b /\ x # h /\ InSeq(queue, x)
      BY <2>3, <2>5, <2>6
    <3>2. pc'[x] = pc[x]
      BY <2>2, <3>1 DEF TypeOK
    <3> QED  BY <2>2, <2>4, <2>5, <2>6, <3>1, <3>2 DEF Members
  <2> QED  BY <2>5, <2>6 DEF Members
<1>15. ASSUME NEW a \in Activities, releaseAccess(a) \/ nudgeQueue(a)
       PROVE  Distinct(queue)' /\ Members'
  <2>1. /\ pc[a] \in {"running", "nudge"} /\ \E p : pc' = [pc EXCEPT ![a] = p]
        /\ dispatchNext(queue) /\ timedOut' = timedOut
        /\ waitingForDispatch' = waitingForDispatch /\ nestedActivity' = nestedActivity
    BY <1>15 DEF releaseAccess, nudgeQueue
  <2>2. ~InSeq(queue, a)
    BY <2>1, NotInQueue
  <2>3. \A x \in Activities \ {a} : pc'[x] = pc[x] /\ (x \in Waiters => x \in Waiters')
    BY <1>2, <2>1 DEF TypeOK
  <2> QED  BY <2>1, <2>2, <2>3, MembersDispatched
<1>16. ASSUME NEW a \in Activities, yieldAccess(a)
       PROVE  Distinct(queue)' /\ Members'
  <2>1. CASE hasWaiters
    BY <1>16, <2>1, MembersPlus DEF yieldAccess
  <2>2. CASE ~hasWaiters
    <3>1. /\ pc[a] = "relinquish" /\ pc' = [pc EXCEPT ![a] = "running"]
          /\ queue' = queue /\ permitted' = permitted /\ timedOut' = timedOut
          /\ waitingForDispatch' = waitingForDispatch /\ nestedActivity' = nestedActivity
      BY <1>16, <2>2 DEF yieldAccess
    <3> QED  BY <1>2, <1>4, <3>1, NotInQueue
  <2> QED  BY <2>1, <2>2
<1>17. ASSUME NEW b \in Activities, detachThread(b) \/ returnRootActivity(b)
       PROVE  Distinct(queue)' /\ Members'
  <2>1. /\ b \in Nested /\ pc[b] \in {"native", "closing"}
        /\ \E p : pc' = [pc EXCEPT ![b] = p]
        /\ queue' = queue /\ timedOut' = timedOut
        /\ waitingForDispatch' = waitingForDispatch
        /\ nestedActivity' = [nestedActivity EXCEPT ![b] = NoActivity]
        /\ permitted' \subseteq permitted \cup {nestedActivity[b]}
    BY <1>17 DEF detachThread, returnRootActivity, Nested
  <2>2. ~InSeq(queue, b)
    BY <2>1, NotInQueue
  <2>3. \A x \in Activities \ {b} : pc'[x] = pc[x]
    BY <2>1 DEF TypeOK
  <2>4. \A x \in Activities : x \in Waiters => x \in Waiters'
    BY <2>1, ActivitiesAssumption DEF Waiters, Suspended, TypeOK
  <2>5. \A x \in Activities : InSeq(queue, x) => x # nestedActivity[b]
    BY <2>1 DEF Members, Waiters, Suspended
  <2>6. Members'
    <3>1. \A x \in Activities \ {b} : InSeq(queue, x)' =>
            InSeq(queue, x) /\ (x \in permitted' => x \in permitted)
      BY <1>1, <2>1, <2>5
    <3>2. ~InSeq(queue, b)'
      BY <1>1, <2>1, <2>2
    <3> QED  BY <2>1, <2>3, <2>4, <3>1, <3>2, MembersWithout
  <2> QED  BY <1>1, <2>1, <2>6
<1> QED  BY <1>3, <1>5, <1>6, <1>7, <1>8, <1>9, <1>10, <1>11, <1>12, <1>13, <1>14,
            <1>15, <1>16, <1>17 DEF Next, Step, Acquire, Shed, Finish

LEMMA QueueInit == Init => QueueSound
<1> SUFFICES ASSUME Init PROVE QueueSound
  OBVIOUS
<1>1. Len(queue) = 0 /\ timedOut = {}
  BY DEF Init
<1>2. \A a \in Activities : pc[a] \in {"native", "detached"}
  BY DEF Init
<1>3. Distinct(queue) /\ Members
  BY <1>1 DEF Distinct, Members, InSeq
<1> QED  BY <1>1, <1>2, <1>3, TypeInit, NestingInit DEF QueueSound, TimedOutPlaces

LEMMA QueueSoundStep == QueueSound /\ [Next]_vars => QueueSound'
BY TypeStep, NestingStep, TimedOutStep, QueueStep DEF QueueSound

LEMMA QueueSoundHolds == Spec => []QueueSound
BY QueueInit, QueueSoundStep, PTL DEF Spec

(* QueueHoldsWaiters for any number of activities, roots nested on waiting *)
(* hosts included: whoever dispatchNext() posts is one that waits.         *)
THEOREM QueueIsSound == Spec => []QueueHoldsWaiters
<1>1. QueueSound => QueueHoldsWaiters
  <2> SUFFICES ASSUME QueueSound PROVE QueueHoldsWaiters
    OBVIOUS
  <2>1. \A i \in 1..Len(queue) : queue[i] \in Activities
    BY ElementOfSeq DEF QueueSound, TypeOK
  <2> QED  BY <2>1 DEF QueueSound, Distinct, Members, InSeq, QueueHoldsWaiters
<1> QED  BY <1>1, QueueSoundHolds, PTL

-----------------------------------------------------------------------------
(* A step that posts, suspends or leaves in the queue everyone it found    *)
(* posted, suspended or in the queue, but for the a that moves.            *)
LEMMA NobodyLost ==
    ASSUME TypeOK, NobodyForgotten, NEW a \in Activities, NEW p,
           pc' = [pc EXCEPT ![a] = p],
           p = "dispatchWait" => InSeq(queue, a)',
           \A x \in Activities \ {a} :
               /\ x \in permitted => x \in permitted'
               /\ x \in Suspended => x \in Suspended' \cup permitted'
               /\ InSeq(queue, x) => InSeq(queue, x)' \/ x \in Suspended' \cup permitted'
    PROVE  NobodyForgotten'
<1> SUFFICES ASSUME NEW x \in Activities, At(x, "dispatchWait")'
             PROVE  \/ x \in permitted' \/ x \in Suspended' \/ InSeq(queue, x)'
  BY DEF NobodyForgotten, InSeq
<1>1. CASE x = a
  BY <1>1 DEF At, TypeOK
<1>2. CASE x # a
  <2>1. At(x, "dispatchWait")
    BY <1>2 DEF At, TypeOK
  <2>2. x \in permitted \/ x \in Suspended \/ InSeq(queue, x)
    BY <2>1 DEF NobodyForgotten, InSeq
  <2> QED  BY <1>2, <2>2
<1> QED  BY <1>1, <1>2

(* dispatchNext() loses nobody.                                            *)
LEMMA DispatchLosesNobody ==
    ASSUME QueueSound, NobodyForgotten, NEW a \in Activities, NEW p,
           pc' = [pc EXCEPT ![a] = p], p # "dispatchWait",
           dispatchNext(queue), nestedActivity' = nestedActivity
    PROVE  NobodyForgotten'
<1>1. /\ permitted \subseteq permitted'
      /\ \A x : InSeq(queue, x) => InSeq(queue, x)' \/ x \in permitted'
  BY DispatchIn DEF QueueSound, TypeOK
<1>2. Suspended' = Suspended
  BY DEF Suspended
<1> QED  BY <1>1, <1>2, NobodyLost DEF QueueSound

LEMMA ForgottenStep ==
    ASSUME NoNestedRoots, QueueSound, NobodyForgotten, [Next]_vars
    PROVE  NobodyForgotten'
<1> USE DEF QueueSound, At, Goto, lockVars, counters, dispatchVars, localVars
<1>1. ASSUME queue' = queue
      PROVE  \A x : InSeq(queue, x)' <=> InSeq(queue, x)
  BY <1>1 DEF InSeq
<1>2. ASSUME nestedActivity' = nestedActivity
      PROVE  Suspended' = Suspended
  BY <1>2 DEF Suspended
<1>3. CASE UNCHANGED vars
  BY <1>2, <1>3 DEF vars, NobodyForgotten
(* a moves, and whoever else was posted, suspended or queued stays so.     *)
<1>4. ASSUME NEW a \in Activities, NEW p, pc' = [pc EXCEPT ![a] = p],
             p # "dispatchWait", queue' = queue, permitted \ {a} \subseteq permitted',
             nestedActivity' = nestedActivity
      PROVE  NobodyForgotten'
  BY <1>1, <1>2, <1>4, NobodyLost
<1>5. ASSUME NEW a \in Activities,
             \/ requestAccess(a) \/ requestApiAccess(a) \/ attachThread(a)
             \/ getRootActivity(a)
      PROVE  NobodyForgotten'
  <2>1. /\ \E p : pc' = [pc EXCEPT ![a] = p] /\ p # "dispatchWait"
        /\ queue' = queue /\ permitted' = permitted /\ nestedActivity' = nestedActivity
    BY <1>5 DEF requestAccess, requestApiAccess, attachThread, getRootActivity, Ask
  <2> QED  BY <1>4, <2>1
<1>6. ASSUME NEW a \in Activities,
             \/ requestImmediate(a) \/ addWaitingAttach(a) \/ addWaitingApiActivity(a)
             \/ dispatched(a) \/ dispatchTimeout(a) \/ postSelf(a) \/ lockKernel(a)
             \/ attachGranted(a) \/ setupCurrentActivity(a)
      PROVE  NobodyForgotten'
  <2>1. /\ \E p : pc' = [pc EXCEPT ![a] = p] /\ p # "dispatchWait"
        /\ queue' = queue /\ permitted \subseteq permitted'
        /\ nestedActivity' = nestedActivity
    BY <1>6 DEF requestImmediate, addWaitingAttach, addWaitingApiActivity, dispatched,
                dispatchTimeout, postSelf, lockKernel, attachGranted,
                setupCurrentActivity
  <2> QED  BY <1>4, <2>1
(* a joins the queue.                                                      *)
<1>7. ASSUME NEW a \in Activities, pc[a] \in {"lineUp", "relinquish"},
             pc' = [pc EXCEPT ![a] = "dispatchWait"],
             queue' = Append(queue, a), permitted' = permitted \ {a},
             nestedActivity' = nestedActivity
      PROVE  NobodyForgotten'
  <2>1. ~InSeq(queue, a)
    BY <1>7, NotInQueue
  <2>2. \A x : InSeq(Append(queue, a), x) <=> InSeq(queue, x) \/ x = a
    BY <2>1, AppendIn DEF TypeOK
  <2>3. \A x : InSeq(queue, x)' <=> InSeq(queue, x) \/ x = a
    BY <1>7, <2>2 DEF InSeq
  <2> QED  BY <1>2, <1>7, <2>3, NobodyLost
<1>8. ASSUME NEW a \in Activities, addWaitingActivity(a)
      PROVE  NobodyForgotten'
  <2>1. CASE currentActivity # NoActivity
    BY <1>7, <1>8, <2>1 DEF addWaitingActivity
  <2>2. CASE currentActivity = NoActivity
    BY <1>4, <1>8, <2>2 DEF addWaitingActivity
  <2> QED  BY <2>1, <2>2
<1>9. ASSUME NEW a \in Activities, yieldAccess(a)
      PROVE  NobodyForgotten'
  <2>1. CASE hasWaiters
    BY <1>7, <1>9, <2>1 DEF yieldAccess
  <2>2. CASE ~hasWaiters
    BY <1>4, <1>9, <2>2 DEF yieldAccess
  <2> QED  BY <2>1, <2>2
<1>10. ASSUME NEW a \in Activities, accessGranted(a)
       PROVE  NobodyForgotten'
  <2>1. /\ pc' = [pc EXCEPT ![a] = "running"]
        /\ permitted' = permitted /\ nestedActivity' = nestedActivity
        /\ IF a \in timedOut THEN remove(a) ELSE queue' = queue
    BY <1>10 DEF accessGranted
  <2>2. \A x : x # a => (InSeq(queue, x) => InSeq(queue, x)')
    <3>1. CASE a \in timedOut
      BY <2>1, <3>1, RemoveIn DEF TypeOK
    <3>2. CASE a \notin timedOut
      BY <1>1, <2>1, <3>2
    <3> QED  BY <3>1, <3>2
  <2> QED  BY <1>2, <2>1, <2>2, NobodyLost
<1>11. ASSUME NEW a \in Activities,
              apiAccessGranted(a) \/ releaseAccess(a) \/ nudgeQueue(a)
       PROVE  NobodyForgotten'
  <2>1. /\ \E p : pc' = [pc EXCEPT ![a] = p] /\ p # "dispatchWait"
        /\ dispatchNext(queue) /\ nestedActivity' = nestedActivity
    BY <1>11 DEF apiAccessGranted, releaseAccess, nudgeQueue
  <2> QED  BY <2>1, DispatchLosesNobody
<1>12. ASSUME NEW b \in Activities, handleNestedActivity(b)
       PROVE  NobodyForgotten'
  <2>1. PICK h : h = Host[b]
    OBVIOUS
  <2>2. /\ b \in Nested /\ pc[b] = "attached" /\ pc' = [pc EXCEPT ![b] = "setup"]
        /\ nestedActivity' = [nestedActivity EXCEPT ![b] = h]
    BY <1>12, <2>1 DEF handleNestedActivity
  <2>3. /\ permitted \subseteq permitted'
        /\ \A x : InSeq(queue, x) => InSeq(queue, x)' \/ x \in permitted' \/ x = h
    <3>1. CASE h \notin waitingForDispatch
      BY <1>1, <1>12, <2>1, <3>1 DEF handleNestedActivity
    <3>2. CASE h \in waitingForDispatch /\ queue # <<>> /\ Head(queue) = h
      <4>1. dispatchNext(Tail(queue))
        BY <1>12, <2>1, <3>2 DEF handleNestedActivity, suspendDispatch
      <4>2. /\ Tail(queue) \in Seq(Activities) /\ Distinct(Tail(queue))
            /\ \A x : InSeq(queue, x) <=> InSeq(Tail(queue), x) \/ x = h
        BY <3>2, TailIn DEF TypeOK
      <4>3. /\ permitted \subseteq permitted'
            /\ \A x : InSeq(Tail(queue), x) => InSeq(queue, x)' \/ x \in permitted'
        BY <4>1, <4>2, DispatchIn
      <4> QED  BY <4>2, <4>3
    <3>3. CASE h \in waitingForDispatch /\ ~(queue # <<>> /\ Head(queue) = h)
      <4>1. remove(h) /\ permitted' = permitted
        BY <1>12, <2>1, <3>3 DEF handleNestedActivity, suspendDispatch
      <4> QED  BY <4>1, RemoveIn DEF TypeOK
    <3> QED  BY <3>1, <3>2, <3>3
  <2>4. h \in Suspended'
    BY <2>2 DEF Suspended, TypeOK
  <2>5. \A x \in Activities : x \in Suspended => x \in Suspended'
    <3>1. nestedActivity[b] = NoActivity
      BY <2>2 DEF Nesting, NestedPointsToHost
    <3> QED  BY <2>2, <3>1, ActivitiesAssumption DEF Suspended, TypeOK
  <2> QED  BY <2>2, <2>3, <2>4, <2>5, NobodyLost
<1>13. ASSUME NEW a \in Activities, relinquish(a) \/ terminate(a)
       PROVE  NobodyForgotten'
  <2>1. /\ \E p : pc' = [pc EXCEPT ![a] = p] /\ p # "dispatchWait"
        /\ queue' = queue /\ permitted' = permitted /\ nestedActivity' = nestedActivity
    BY <1>13 DEF relinquish, terminate
  <2> QED  BY <1>4, <2>1
<1>14. ASSUME NEW b \in Activities, detachThread(b)
       PROVE  NobodyForgotten'
  <2>1. PICK h : h = nestedActivity[b]
    OBVIOUS
  <2>2. /\ b \in Nested /\ pc' = [pc EXCEPT ![b] = "detached"] /\ queue' = queue
        /\ nestedActivity' = [nestedActivity EXCEPT ![b] = NoActivity]
        /\ permitted \ {b} \subseteq permitted'
        /\ h \in waitingForDispatch => h \in permitted' \/ h = b
    BY <1>14, <2>1 DEF detachThread, Nested
  <2>3. ASSUME NEW x \in Activities \ {b}, At(x, "dispatchWait")
        PROVE  x \in permitted' \/ x \in Suspended' \/ InSeq(queue, x)'
    <3>1. x \in waitingForDispatch
      BY <2>3 DEF Nesting, FlagMeansInLine, InLine
    <3>2. CASE x = h
      BY <2>2, <2>3, <3>1, <3>2
    <3>3. CASE x # h
      <4>1. x \in Suspended => x \in Suspended'
        BY <2>1, <2>2, <3>3 DEF Suspended, TypeOK
      <4>2. x \in permitted \/ x \in Suspended \/ InSeq(queue, x)
        BY <2>3 DEF NobodyForgotten, InSeq
      <4> QED  BY <1>1, <2>2, <2>3, <4>1, <4>2
    <3> QED  BY <3>2, <3>3
  <2>4. \A x \in Activities : pc'[x] = IF x = b THEN "detached" ELSE pc[x]
    BY <2>2 DEF TypeOK
  <2> QED  BY <2>3, <2>4 DEF NobodyForgotten, InSeq
<1>15. ASSUME NEW b \in Activities, returnRootActivity(b)
       PROVE  NobodyForgotten'
  <2>1. nestedActivity[b] = NoActivity /\ b \in Nested
    <3>1. b \in Roots /\ Host[b] = NoActivity
      BY <1>15 DEF returnRootActivity, NoNestedRoots
    <3> QED  BY <3>1 DEF Nesting, NestedPointsToHost, Nested
  <2>2. nestedActivity' = nestedActivity
    BY <1>15, <2>1 DEF returnRootActivity, TypeOK
  <2> QED  BY <1>4, <1>15, <2>2 DEF returnRootActivity
<1> QED  BY <1>3, <1>5, <1>6, <1>8, <1>9, <1>10, <1>11, <1>12, <1>13, <1>14, <1>15
         DEF Next, Step, Acquire, Shed, Finish

(* NobodyForgotten for any number of activities: an activity that waits    *)
(* for dispatch has been posted, is queued for it, or is pushed down by a  *)
(* nested activity whose end posts it.  A root activity posts nobody, so   *)
(* none may be nested on a waiting host.                                   *)
THEOREM NobodyIsForgotten == NoNestedRoots => (Spec => []NobodyForgotten)
<1> SUFFICES ASSUME NoNestedRoots PROVE Spec => []NobodyForgotten
  OBVIOUS
<1>1. Init => NobodyForgotten
  BY DEF Init, NobodyForgotten, At
<1>2. QueueSound /\ NobodyForgotten /\ [Next]_vars => NobodyForgotten'
  BY ForgottenStep
<1> QED  BY <1>1, <1>2, QueueSoundHolds, PTL DEF Spec

-----------------------------------------------------------------------------
Ordered ==
    \A i \in 1..Len(queue) :
        queue[i] \in permitted' \ permitted =>
            \/ postSelf(queue[i])
            \/ \A j \in 1..(i - 1) : queue[j] \in permitted \cup Suspended'

LEMMA OrderStep ==
    ASSUME QueueSound, [Next]_vars
    PROVE  Ordered
<1> USE DEF QueueSound, At, Goto, lockVars, counters, dispatchVars, localVars
<1>1. ASSUME permitted' \subseteq permitted
      PROVE  Ordered
  BY <1>1 DEF Ordered
<1>2. CASE UNCHANGED vars
  BY <1>1, <1>2 DEF vars
<1>3. ASSUME dispatchNext(queue)
      PROVE  Ordered
  <2>1. \A i \in 1..Len(queue) : queue[i] \in permitted' \ permitted =>
          \A j \in 1..(i - 1) : queue[j] \in permitted
    BY <1>3, DispatchIn DEF TypeOK
  <2> QED  BY <2>1 DEF Ordered
<1>4. ASSUME NEW a \in Activities, postSelf(a)
      PROVE  Ordered
  <2>1. permitted' \ permitted \subseteq {a}
    BY <1>4 DEF postSelf
  <2> QED  BY <1>4, <2>1 DEF Ordered
<1>5. ASSUME NEW b \in Activities, handleNestedActivity(b)
      PROVE  Ordered
  <2>1. PICK h : h = Host[b]
    OBVIOUS
  <2>2. /\ b \in Nested /\ nestedActivity' = [nestedActivity EXCEPT ![b] = h]
    BY <1>5, <2>1 DEF handleNestedActivity
  <2>3. h \in Suspended'
    BY <2>2 DEF Suspended, TypeOK
  <2>4. CASE permitted' = permitted
    BY <1>1, <2>4
  <2>5. CASE h \in waitingForDispatch /\ queue # <<>> /\ Head(queue) = h
    <3>1. dispatchNext(Tail(queue))
      BY <1>5, <2>1, <2>5 DEF handleNestedActivity, suspendDispatch
    <3> DEFINE t == Tail(queue)
    <3>2. /\ t \in Seq(Activities) /\ Distinct(t) /\ queue[1] = h
          /\ ~InSeq(t, h)
          /\ Len(queue) \in Nat /\ Len(t) = Len(queue) - 1
          /\ \A i \in 1..Len(queue) : i # 1 => i - 1 \in 1..Len(t) /\ t[i - 1] = queue[i]
      BY <2>5, TailIn DEF TypeOK
    <3>3. /\ \A i \in 1..Len(t) : t[i] \in permitted' \ permitted =>
               \A j \in 1..(i - 1) : t[j] \in permitted
          /\ \A x \in permitted' \ permitted : InSeq(t, x)
      BY <3>1, <3>2, DispatchIn
    <3> HIDE DEF t
    <3>4. ASSUME NEW i \in 1..Len(queue), queue[i] \in permitted' \ permitted,
                 NEW j \in 1..(i - 1)
          PROVE  queue[j] \in permitted \cup Suspended'
      <4>1. i # 1
        BY <3>2, <3>3, <3>4
      <4>2. \A k \in 1..((i - 1) - 1) : t[k] \in permitted
        BY <3>2, <3>3, <3>4, <4>1
      <4>3. CASE j = 1
        BY <2>3, <3>2, <4>3
      <4>4. CASE j # 1
        <5>1. j \in 1..Len(queue) /\ j - 1 \in 1..((i - 1) - 1)
          BY <3>2, <3>4, <4>4
        <5> QED  BY <3>2, <4>2, <4>4, <5>1
      <4> QED  BY <4>3, <4>4
    <3> QED  BY <3>4 DEF Ordered
  <2> QED  BY <1>5, <2>1, <2>4, <2>5 DEF handleNestedActivity, suspendDispatch
<1>6. ASSUME NEW b \in Activities, detachThread(b)
      PROVE  Ordered
  <2>1. b \in Nested /\ permitted' \subseteq permitted \cup {nestedActivity[b]}
    BY <1>6 DEF detachThread, Nested
  <2>2. \A x \in Activities : InSeq(queue, x) => x # nestedActivity[b]
    BY <2>1 DEF Members, Waiters, Suspended
  <2>3. \A i \in 1..Len(queue) : queue[i] \in Activities
    BY ElementOfSeq DEF TypeOK
  <2> QED  BY <2>1, <2>2, <2>3 DEF Ordered, InSeq
<1>7. ASSUME NEW a \in Activities,
             \/ requestAccess(a) \/ requestApiAccess(a) \/ attachThread(a)
             \/ getRootActivity(a) \/ requestImmediate(a) \/ addWaitingActivity(a)
             \/ addWaitingApiActivity(a) \/ addWaitingAttach(a) \/ dispatched(a)
             \/ dispatchTimeout(a) \/ lockKernel(a) \/ accessGranted(a)
      PROVE  Ordered
  BY <1>1, <1>7 DEF requestAccess, requestApiAccess, attachThread, getRootActivity, Ask,
       requestImmediate, addWaitingActivity, addWaitingApiActivity, addWaitingAttach,
       dispatched, dispatchTimeout, lockKernel, accessGranted
<1>8. ASSUME NEW a \in Activities,
             \/ attachGranted(a) \/ setupCurrentActivity(a) \/ relinquish(a)
             \/ yieldAccess(a) \/ terminate(a) \/ returnRootActivity(a)
      PROVE  Ordered
  BY <1>1, <1>8 DEF attachGranted, setupCurrentActivity, relinquish, yieldAccess,
       terminate, returnRootActivity
<1>9. ASSUME NEW a \in Activities,
             apiAccessGranted(a) \/ releaseAccess(a) \/ nudgeQueue(a)
      PROVE  Ordered
  BY <1>3, <1>9 DEF apiAccessGranted, releaseAccess, nudgeQueue
<1> QED  BY <1>2, <1>4, <1>5, <1>6, <1>7, <1>8, <1>9
         DEF Next, Step, Acquire, Shed, Finish

(* DispatchInOrder for any number of activities and any nesting: a post of *)
(* the dispatcher never passes over one in front that still waits for it.  *)
THEOREM DispatchedInOrder == Spec => DispatchInOrder
<1>1. QueueSound /\ [Next]_vars => [Ordered]_vars
  BY OrderStep
<1>2. [Ordered]_vars <=> [\A i \in 1..Len(queue) :
         queue[i] \in permitted' \ permitted =>
             \/ postSelf(queue[i])
             \/ \A j \in 1..(i - 1) : queue[j] \in permitted \cup Suspended']_vars
  BY DEF Ordered
<1> QED  BY <1>1, <1>2, QueueSoundHolds, PTL DEF Spec, DispatchInOrder
-----------------------------------------------------------------------------
(* A nested activity that is inside the interpreter, or was, has pushed    *)
(* its host down; the others are on the way in or out and go on by         *)
(* themselves.                                                             *)
HostPushedDown ==
    \A b \in Nested :
        \/ nestedActivity[b] = Host[b]
        \/ pc[b] \in {"detached", "attached", "nudge"}
        \/ entry[b] = "attach" /\ pc[b] \in Entering
        \/ entry[b] = "root" /\ pc[b] = "kernelWait"

LEMMA PushedInit == Init => HostPushedDown
<1> SUFFICES ASSUME Init PROVE HostPushedDown
  OBVIOUS
<1>1. \A b \in Nested : b \in Activities /\ b \notin Rexx
  BY ActivitiesAssumption DEF Activities
<1> QED  BY <1>1 DEF Init, HostPushedDown

LEMMA PushedStep ==
    ASSUME TypeOK, Nesting, HostPushedDown, [Next]_vars
    PROVE  HostPushedDown'
<1> USE DEF TypeOK, HostPushedDown, At, Goto, localVars, Entering
<1>1. Nested \subseteq Activities
  BY DEF Activities
<1>2. CASE UNCHANGED vars
  BY <1>2 DEF vars
<1>3. ASSUME NEW a \in Activities,
             requestAccess(a) \/ requestApiAccess(a)
      PROVE  HostPushedDown'
  BY <1>1, <1>3 DEF requestAccess, requestApiAccess, Ask
<1>4. ASSUME NEW a \in Activities,
             attachThread(a) \/ getRootActivity(a)
      PROVE  HostPushedDown'
  BY <1>1, <1>4 DEF attachThread, getRootActivity, Ask
<1>5. ASSUME NEW a \in Activities,
             requestImmediate(a) \/ lockKernel(a) \/ attachGranted(a)
      PROVE  HostPushedDown'
  BY <1>1, <1>5 DEF requestImmediate, lockKernel, attachGranted
<1>6. ASSUME NEW a \in Activities,
             \/ addWaitingActivity(a) \/ addWaitingApiActivity(a)
             \/ addWaitingAttach(a)
      PROVE  HostPushedDown'
  BY <1>1, <1>6 DEF addWaitingActivity, addWaitingApiActivity, addWaitingAttach
<1>7. ASSUME NEW a \in Activities,
             dispatched(a) \/ dispatchTimeout(a) \/ postSelf(a)
      PROVE  HostPushedDown'
  BY <1>1, <1>7 DEF dispatched, dispatchTimeout, postSelf
<1>8. ASSUME NEW a \in Activities,
             accessGranted(a) \/ apiAccessGranted(a) \/ setupCurrentActivity(a)
      PROVE  HostPushedDown'
  BY <1>1, <1>8 DEF accessGranted, apiAccessGranted, setupCurrentActivity
<1>9. ASSUME NEW a \in Activities, handleNestedActivity(a)
      PROVE  HostPushedDown'
  BY <1>1, <1>9 DEF handleNestedActivity
<1>10. ASSUME NEW a \in Activities,
              releaseAccess(a) \/ relinquish(a) \/ yieldAccess(a) \/ terminate(a)
       PROVE  HostPushedDown'
  BY <1>1, <1>10 DEF releaseAccess, relinquish, yieldAccess, terminate
<1>11. ASSUME NEW a \in Activities,
              detachThread(a) \/ returnRootActivity(a) \/ nudgeQueue(a)
       PROVE  HostPushedDown'
  BY <1>1, <1>11 DEF detachThread, returnRootActivity, nudgeQueue
<1> QED  BY <1>2, <1>3, <1>4, <1>5, <1>6, <1>7, <1>8, <1>9, <1>10, <1>11
         DEF Next, Step, Acquire, Shed, Finish

(* When an activity that was posted is not pushed down, it is on top of    *)
(* its thread or has a nested one on top of it that is on its way.         *)
PostedMoves ==
    \A x \in permitted : pc[x] \in InLine /\ x \notin Suspended
                            => \E c \in Activities : Awake(c)

LEMMA PostedMovesHolds == TypeOK /\ HostPushedDown => PostedMoves
<1> SUFFICES ASSUME TypeOK, HostPushedDown, NEW x \in permitted,
                    pc[x] \in InLine, x \notin Suspended
             PROVE  \E c \in Activities : Awake(c)
  BY DEF PostedMoves
<1>1. CASE OnTop(x)
  BY <1>1 DEF TypeOK, Awake, InLine
<1>2. CASE ~OnTop(x)
  <2>1. PICK b \in Nested : Host[b] = x /\ pc[b] # "detached"
    BY <1>2 DEF OnTop, At
  <2>2. b \in Activities /\ nestedActivity[b] # Host[b]
    BY <2>1 DEF Suspended, Activities
  <2>3. pc[b] \notin {"native", "detached", "dispatchWait"}
    BY <2>1, <2>2 DEF HostPushedDown, Entering
  <2>4. OnTop(b)
    BY ActivitiesAssumption, HostAssumption DEF OnTop, Activities, Nested
  <2> QED  BY <2>2, <2>3, <2>4 DEF Awake
<1> QED  BY <1>1, <1>2

(* Whoever waits in line when an activity leaves was posted before, or the *)
(* one that dispatchNext() posts in his place waits in line too.           *)
LEMMA ReleaseWakes ==
    ASSUME QueueSound, NobodyForgotten', HostPushedDown', PostedMoves',
           NEW a \in Activities, releaseAccess(a)
    PROVE  WaitersWokenUp'
<1> SUFFICES ASSUME NEW w \in Activities, At(w, "dispatchWait")', OnTop(w)'
             PROVE  \E c \in Activities : Awake(c)'
  BY DEF WaitersWokenUp
<1>1. /\ dispatchNext(queue) /\ pc[a] = "running" /\ pc' = [pc EXCEPT ![a] = "native"]
      /\ Suspended' = Suspended
  BY DEF releaseAccess, At, Goto, localVars, Suspended
<1>2. /\ queue \in Seq(Activities) /\ pc \in [Activities -> Places]
      /\ permitted \subseteq permitted'
      /\ \A x : InSeq(queue, x)' => InSeq(queue, x) /\ (x \in permitted' => x \in permitted)
  BY <1>1, DispatchIn DEF QueueSound, TypeOK
<1>3. w # a /\ pc[w] = "dispatchWait" /\ pc'[w] = "dispatchWait"
  BY <1>1, <1>2 DEF At
<1>4. w \notin Suspended'
  <2> SUFFICES ASSUME w \in Suspended PROVE FALSE
    BY <1>1
  <2>1. \E b \in Nested : nestedActivity[b] = w /\ Host[b] = w /\ pc[b] # "detached"
    <3>1. PICK b \in Nested : nestedActivity[b] = w
      BY DEF Suspended
    <3> QED  BY <3>1, ActivitiesAssumption DEF QueueSound, Nesting, NestedPointsToHost
  <2>2. \A b \in Nested : pc[b] # "detached" => pc'[b] # "detached"
    BY <1>1, <1>2 DEF Activities
  <2> QED  BY <2>1, <2>2 DEF OnTop, At
<1>5. CASE w \in permitted'
  BY <1>3, <1>4, <1>5 DEF PostedMoves, InLine
<1>6. CASE w \notin permitted'
  <2>1. InSeq(queue, w)
    <3>1. InSeq(queue, w)'
      BY <1>3, <1>4, <1>6 DEF NobodyForgotten, At, InSeq
    <3> QED  BY <1>2, <3>1
  <2>2. PICK i \in 1..Len(queue) : queue[i] \in permitted'
    BY <1>1, <1>6, <2>1 DEF dispatchNext, InSeq
  <2> DEFINE x == queue[i]
  <2>3. x \in Activities /\ InSeq(queue, x)
    BY <1>2, <2>2, ElementOfSeq DEF InSeq
  <2>4. x \notin Suspended /\ pc[x] \in InLine
    BY <2>3 DEF QueueSound, Members, TimedOutPlaces, Waiters, InLine
  <2>5. x # a /\ pc'[x] \in InLine
    BY <1>1, <1>2, <2>3, <2>4 DEF InLine
  <2> QED  BY <1>1, <2>2, <2>4, <2>5 DEF PostedMoves
<1> QED  BY <1>5, <1>6

Woken == \A a \in Activities : releaseAccess(a) => WaitersWokenUp'

(* ReleaseWakesWaiters when no root activity is nested: whoever leaves the *)
(* kernel through releaseAccess() leaves an activity behind that goes on   *)
(* without the 50 ms timer, if anybody waits in line.                      *)
THEOREM ReleaseWakesOthers == NoNestedRoots => (Spec => ReleaseWakesWaiters)
<1> SUFFICES ASSUME NoNestedRoots PROVE Spec => ReleaseWakesWaiters
  OBVIOUS
<1> DEFINE Inv == QueueSound /\ NobodyForgotten /\ HostPushedDown /\ PostedMoves
<1>1. Init => NobodyForgotten /\ HostPushedDown
  <2>1. Init => NobodyForgotten
    BY DEF Init, NobodyForgotten, At
  <2> QED  BY <2>1, PushedInit
<1>2. QueueSound /\ HostPushedDown => PostedMoves
  BY PostedMovesHolds DEF QueueSound
<1>3. QueueSound /\ NobodyForgotten /\ HostPushedDown /\ [Next]_vars
        => NobodyForgotten' /\ HostPushedDown'
  BY ForgottenStep, PushedStep DEF QueueSound
<1>4. Inv /\ Inv' /\ [Next]_vars => [Woken]_vars
  <2> SUFFICES ASSUME Inv, Inv', NEW a \in Activities, releaseAccess(a)
               PROVE  WaitersWokenUp'
    BY DEF Woken
  <2> QED  BY ReleaseWakes
<1>5. [Woken]_vars <=> [\A a \in Activities : releaseAccess(a) => WaitersWokenUp']_vars
  BY DEF Woken
<1> QED  BY <1>1, <1>2, <1>3, <1>4, <1>5, QueueSoundHolds, PTL
         DEF Spec, ReleaseWakesWaiters
=============================================================================
