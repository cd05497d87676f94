-------------------------- MODULE ObjectGuard_proofs --------------------------
(***************************************************************************)
(* Scope locks are exclusive and balanced, their queues hold exactly those *)
(* who wait, are served in order, and no GUARD wait misses an assignment,  *)
(* for any activities, dictionaries and depth of calls, so that they       *)
(* implement ScopeLock; what checkDeadLock() answers plays no part in      *)
(* this.                                                                   *)
(*                                                                         *)
(* What it is for comes last: activities that wait for each other's locks  *)
(* in a circle exist only if one of them watches a variable.               *)
(***************************************************************************)
EXTENDS ObjectGuard, SequenceTheorems, FiniteSetTheorems, WellFoundedInduction, TLAPS

Frames == [dictionary : Dictionaries, objectScope : {"reserved", "released"}]

(* The places of an activity that watches the variable of its top frame.   *)
Watching == {"whenOn", "rewait", "evaluate", "passed", "failed", "guardWait"}

(* What the place of an activity says of its top frame.                    *)
Placed(a) ==
    /\ pc[a] # "run" => Depth(a) > 0
    /\ pc[a] \in (Reserving \ {"resume"}) \cup {"guardWait"} =>
         Top(a).objectScope = "released"
    /\ pc[a] \in {"replied", "resume"} =>
         Depth(a) = 1 /\ Top(a).objectScope = "reserved"
    /\ pc[a] \in Watching =>
         /\ Top(a).dictionary \in Watchable
         /\ a \in dependents[Top(a).dictionary]

(* a was handed the lock of d, and has still to wake up; waits for it.     *)
HandedTo(a, d) == pc[a] \in Reserving /\ reserveSem[a] /\ Top(a).dictionary = d
BlockedAt(a, d) == Blocked(a) /\ Top(a).dictionary = d

(* The lock of d and the activations that have it.                         *)
LockOK(d) ==
    /\ reservingActivity[d] = None =>
         reserveCount[d] = 0 /\ waitingActivities[d] = <<>>
    /\ reservingActivity[d] # None => reserveCount[d] > 0
    /\ \A a \in Activities : reservingActivity[d] # a =>
         Reservations(a, d) = {} /\ ~HandedTo(a, d)
    /\ \A a \in Activities : reservingActivity[d] = a =>
         /\ ~BlockedAt(a, d)
         /\ reserveCount[d] = Cardinality(Reservations(a, d))
                                + (IF HandedTo(a, d) THEN 1 ELSE 0)

(* Its queue.                                                              *)
QueueOK(d) ==
    LET q == waitingActivities[d] IN
    /\ \A i, j \in 1..Len(q) : q[i] = q[j] => i = j
    /\ \A a \in Activities : BlockedAt(a, d) <=> \E i \in 1..Len(q) : q[i] = a

IInv ==
    /\ TypeOK
    /\ \A a \in Activities : Placed(a)
    /\ \A d \in Dictionaries : LockOK(d) /\ QueueOK(d)
    /\ GuardNotMissed

-----------------------------------------------------------------------------
(* Stacks of frames.                                                       *)
Res(s, d) == {i \in 1..Len(s) : s[i] = Frame(d, "reserved")}

LEMMA ReservationsAre ==
    \A a, d : Reservations(a, d) = IF HasTransfer(a) THEN Res(frames[a], d) ELSE {}
BY DEF Reservations, Res, Depth

LEMMA ReservationsThen ==
    \A a, d : Reservations(a, d)' = IF HasTransfer(a)' THEN Res(frames'[a], d) ELSE {}
BY DEF Reservations, Res, Depth

LEMMA PushFrame ==
    ASSUME NEW s \in Seq(Frames), NEW d \in Dictionaries
    PROVE  LET t == Append(s, Frame(d, "released"))
           IN  /\ t \in Seq(Frames) /\ Len(t) = Len(s) + 1
               /\ t[Len(t)] = Frame(d, "released")
               /\ Popped(t) = s
               /\ \A e \in Dictionaries : Res(t, e) = Res(s, e)
<1> DEFINE f == Frame(d, "released")
           t == Append(s, f)
<1>1. f \in Frames
  BY DEF Frame, Frames
<1>2. /\ t \in Seq(Frames) /\ Len(t) = Len(s) + 1 /\ Len(s) \in Nat
      /\ \A i \in 1..Len(s) : t[i] = s[i]
      /\ t[Len(s) + 1] = f
  BY <1>1, AppendProperties, LenProperties
<1>3. \A e \in Dictionaries : f # Frame(e, "reserved")
  BY DEF Frame
<1>4. ASSUME NEW e \in Dictionaries PROVE Res(t, e) = Res(s, e)
  BY <1>2, <1>3 DEF Res
<1>5. Popped(t) = s
  <2>1. Popped(t) = SubSeq(t, 1, Len(s))
    BY <1>2 DEF Popped
  <2>2. /\ SubSeq(t, 1, Len(s)) \in Seq(Frames)
        /\ Len(SubSeq(t, 1, Len(s))) = Len(s)
        /\ \A i \in 1..Len(s) : SubSeq(t, 1, Len(s))[i] = s[i]
    <3>1. \A i \in 1..Len(s) : t[i] \in Frames
      BY <1>2, ElementOfSeq
    <3> HIDE DEF t
    <3>2. 1 \in Int /\ Len(s) \in Int
      BY <1>2
    <3>3. /\ SubSeq(t, 1, Len(s)) \in Seq(Frames)
          /\ Len(SubSeq(t, 1, Len(s))) = IF 1 <= Len(s) THEN Len(s) - 1 + 1 ELSE 0
          /\ \A i \in 1..Len(s) - 1 + 1 : SubSeq(t, 1, Len(s))[i] = t[1 + i - 1]
      BY <3>1, <3>2, SubSeqProperties
    <3> QED  BY <1>2, <3>3
  <2> HIDE DEF t
  <2> QED  BY <2>1, <2>2, SeqEqual
<1> QED  BY <1>2, <1>4, <1>5

LEMMA PopFrame ==
    ASSUME NEW s \in Seq(Frames), Len(s) > 0
    PROVE  /\ Popped(s) \in Seq(Frames) /\ Len(Popped(s)) = Len(s) - 1
           /\ \A e : Res(Popped(s), e) = Res(s, e) \ {Len(s)}
<1>1. Len(s) \in Nat /\ \A i \in 1..Len(s) : s[i] \in Frames
  BY LenProperties, ElementOfSeq
<1>2. 1 \in Int /\ Len(s) - 1 \in Int /\ \A i \in 1..Len(s) - 1 : s[i] \in Frames
  BY <1>1
<1>3. /\ SubSeq(s, 1, Len(s) - 1) \in Seq(Frames)
      /\ Len(SubSeq(s, 1, Len(s) - 1))
           = IF 1 <= Len(s) - 1 THEN (Len(s) - 1) - 1 + 1 ELSE 0
      /\ \A i \in 1..(Len(s) - 1) - 1 + 1 :
           SubSeq(s, 1, Len(s) - 1)[i] = s[1 + i - 1]
  BY <1>2, SubSeqProperties
<1>4. /\ Popped(s) \in Seq(Frames) /\ Len(Popped(s)) = Len(s) - 1
      /\ \A i \in 1..Len(s) - 1 : Popped(s)[i] = s[i]
  <2> DEFINE n == Len(s)
             u == SubSeq(s, 1, n - 1)
  <2>1. n \in Nat /\ n > 0
    BY <1>1
  <2>2. u \in Seq(Frames) /\ Len(u) = IF 1 <= n - 1 THEN (n - 1) - 1 + 1 ELSE 0
    BY <1>3
  <2>3. \A i \in 1..(n - 1) - 1 + 1 : u[i] = s[1 + i - 1]
    BY <1>3
  <2> HIDE DEF n, u
  <2>4. Len(u) = n - 1
    BY <2>1, <2>2
  <2>5. \A i \in 1..n - 1 : u[i] = s[i]
    <3>1. (n - 1) - 1 + 1 = n - 1 /\ \A i \in 1..n - 1 : 1 + i - 1 = i
      BY <2>1
    <3> QED  BY <2>3, <3>1
  <2> QED  BY <2>2, <2>4, <2>5 DEF Popped, n, u
<1> QED  BY <1>1, <1>4 DEF Res

LEMMA SetScope ==
    ASSUME NEW s \in Seq(Frames), Len(s) > 0, NEW x \in {"reserved", "released"}
    PROVE  LET t == WithScope(s, x)
               d == s[Len(s)].dictionary
           IN  /\ t \in Seq(Frames) /\ Len(t) = Len(s)
               /\ d \in Dictionaries
               /\ t[Len(t)].dictionary = d /\ t[Len(t)].objectScope = x
               /\ x = "reserved" =>
                    \A e : Res(t, e) = Res(s, e) \cup (IF e = d THEN {Len(s)} ELSE {})
               /\ x = "released" => \A e : Res(t, e) = Res(s, e) \ {Len(s)}
<1> DEFINE n == Len(s)
           f == [s[n] EXCEPT !.objectScope = x]
           t == [s EXCEPT ![n] = f]
<1>1. n \in Nat /\ n \in 1..n /\ s[n] \in Frames
  BY LenProperties, ElementOfSeq
<1>2. f \in Frames /\ f.dictionary = s[n].dictionary /\ f.objectScope = x
      /\ s[n].dictionary \in Dictionaries
  BY <1>1 DEF Frames
<1>3. /\ t \in Seq(Frames) /\ Len(t) = n
      /\ \A j \in 1..n : t[j] = IF j = n THEN f ELSE s[j]
  BY <1>1, <1>2, ExceptSeq
<1>4. WithScope(s, x) = t
  BY DEF WithScope
<1>5. ASSUME NEW e, x = "reserved"
      PROVE  Res(t, e) = Res(s, e) \cup (IF e = s[n].dictionary THEN {n} ELSE {})
  <2>1. f = Frame(s[n].dictionary, "reserved")
    BY <1>1, <1>2, <1>5 DEF Frame, Frames
  <2>2. f = Frame(e, "reserved") <=> e = s[n].dictionary
    BY <2>1 DEF Frame
  <2>3. s[n] = Frame(e, "reserved") => e = s[n].dictionary
    BY DEF Frame
  <2> HIDE DEF t, f, n
  <2> QED  BY <1>1, <1>3, <2>2, <2>3 DEF Res, n
<1>6. ASSUME NEW e, x = "released"
      PROVE  Res(t, e) = Res(s, e) \ {n}
  <2>1. f # Frame(e, "reserved")
    BY <1>2, <1>6 DEF Frame
  <2> HIDE DEF t, f, n
  <2> QED  BY <1>1, <1>3, <2>1 DEF Res, n
<1> HIDE DEF t, f
<1> QED  BY <1>1, <1>2, <1>3, <1>4, <1>5, <1>6

LEMMA ReservationsFinite ==
    ASSUME TypeOK, NEW a \in Activities, NEW d
    PROVE  /\ IsFiniteSet(Reservations(a, d))
           /\ Cardinality(Reservations(a, d)) \in Nat
           /\ Cardinality(Reservations(a, d)) = 0 <=> Reservations(a, d) = {}
<1>1. Depth(a) \in Nat
  BY LenProperties DEF TypeOK, Depth
<1>2. IsFiniteSet(1..Depth(a))
  BY <1>1, FS_Interval
<1>3. Reservations(a, d) \subseteq 1..Depth(a)
  BY DEF Reservations
<1>4. IsFiniteSet(Reservations(a, d))
  BY <1>2, <1>3, FS_Subset
<1> QED  BY <1>4, FS_CardinalityType, FS_EmptySet

-----------------------------------------------------------------------------
(* The activities that a step does not move, seen from the locks.          *)
Keeps(c) == pc'[c] = pc[c] /\ frames'[c] = frames[c]
Quiet(c) ==
    /\ {pc[c], pc'[c]} \cap Reserving = {}
    /\ \A d \in Dictionaries : Reservations(c, d)' = Reservations(c, d)
Same(c, d) ==
    /\ Reservations(c, d)' = Reservations(c, d)
    /\ HandedTo(c, d)' <=> HandedTo(c, d)
    /\ BlockedAt(c, d)' <=> BlockedAt(c, d)
LocksOK == \A d \in Dictionaries : LockOK(d) /\ QueueOK(d)

LEMMA KeepsSame ==
    ASSUME NEW c, reserveSem'[c] = reserveSem[c], Keeps(c) \/ Quiet(c),
           NEW d \in Dictionaries
    PROVE  Same(c, d)
<1>1. CASE Keeps(c)
  BY <1>1 DEF Keeps, Same, Reservations, HasTransfer, HandedTo, BlockedAt, Blocked,
              Top, Depth
<1>2. CASE Quiet(c)
  BY <1>2 DEF Quiet, Same, HandedTo, BlockedAt, Blocked
<1> QED  BY <1>1, <1>2

LEMMA OneMore ==
    ASSUME TypeOK, NEW a \in Activities, NEW d, NEW k, k \notin Reservations(a, d)
    PROVE  /\ Cardinality(Reservations(a, d)) \in Nat
           /\ \A S : S = Reservations(a, d) \cup {k} =>
                Cardinality(S) = Cardinality(Reservations(a, d)) + 1
<1>1. IsFiniteSet(Reservations(a, d)) /\ Cardinality(Reservations(a, d)) \in Nat
  BY ReservationsFinite
<1> QED  BY <1>1, FS_AddElement

LEMMA OwnerCount ==
    ASSUME NEW d, NEW a \in Activities, LockOK(d), reservingActivity[d] = a
    PROVE  reserveCount[d] = Cardinality(Reservations(a, d))
                               + (IF HandedTo(a, d) THEN 1 ELSE 0)
BY DEF LockOK

LEMMA Untouched ==
    ASSUME NEW d \in Dictionaries, LockOK(d), QueueOK(d),
           reservingActivity'[d] = reservingActivity[d],
           reserveCount'[d] = reserveCount[d],
           waitingActivities'[d] = waitingActivities[d],
           \A c \in Activities : Same(c, d)
    PROVE  LockOK(d)' /\ QueueOK(d)'
<1>1. LockOK(d)'
  BY DEF LockOK, Same
<1>2. QueueOK(d)'
  BY DEF QueueOK, Same
<1> QED  BY <1>1, <1>2

(* The owner, or the first to come, takes the lock with activation k.      *)
LEMMA Taken ==
    ASSUME TypeOK, NEW d \in Dictionaries, LockOK(d), QueueOK(d),
           NEW a \in Activities, NEW k,
           reservingActivity[d] \in {None, a}, reservingActivity'[d] = a,
           reserveCount'[d] = IF reservingActivity[d] = a THEN reserveCount[d] + 1
                              ELSE 1,
           waitingActivities'[d] = waitingActivities[d],
           \A c \in Activities \ {a} : Same(c, d),
           {pc[a], pc'[a]} \cap Reserving = {},
           k \notin Reservations(a, d),
           Reservations(a, d)' = Reservations(a, d) \cup {k}
    PROVE  LockOK(d)' /\ QueueOK(d)'
<1>1. ~HandedTo(a, d) /\ ~HandedTo(a, d)' /\ ~BlockedAt(a, d) /\ ~BlockedAt(a, d)'
  BY DEF HandedTo, BlockedAt, Blocked
<1>2. a # None /\ \A c \in Activities : c # None
  BY GuardAssumption
<1>3. reserveCount[d] \in Nat
  BY DEF TypeOK
<1>4. /\ Cardinality(Reservations(a, d)') = Cardinality(Reservations(a, d)) + 1
      /\ Cardinality(Reservations(a, d)) \in Nat
  BY OneMore
<1>5. reserveCount'[d] = Cardinality(Reservations(a, d)') /\ reserveCount'[d] > 0
  <2>1. CASE reservingActivity[d] = a
    <3>1. reserveCount[d] = Cardinality(Reservations(a, d)) + 0
      BY <1>1, <2>1, OwnerCount
    <3>2. reserveCount'[d] = reserveCount[d] + 1
      BY <2>1
    <3> QED  BY <1>4, <3>1, <3>2
  <2>2. CASE reservingActivity[d] = None
    <3>1. Reservations(a, d) = {}
      BY <1>2, <2>2 DEF LockOK
    <3>2. Cardinality(Reservations(a, d)) = 0
      BY <3>1, FS_EmptySet
    <3>3. reserveCount'[d] = 1
      BY <1>2, <2>2
    <3> QED  BY <1>4, <3>2, <3>3
  <2> QED  BY <2>1, <2>2
<1>6. \A c \in Activities \ {a} : Reservations(c, d)' = {} /\ ~HandedTo(c, d)'
  <2>1. \A c \in Activities \ {a} : reservingActivity[d] # c
    BY <1>2
  <2> QED  BY <2>1 DEF LockOK, Same
<1>7. LockOK(d)'
  <2>1. reserveCount'[d] = Cardinality(Reservations(a, d)') + 0
    BY <1>5, <1>4, ReservationsFinite
  <2> QED  BY <1>1, <1>2, <1>5, <1>6, <2>1 DEF LockOK
<1>8. QueueOK(d)'
  BY <1>1 DEF QueueOK, Same
<1> QED  BY <1>7, <1>8

(* The wait of the owner is over.                                          *)
LEMMA Received ==
    ASSUME TypeOK, NEW d \in Dictionaries, LockOK(d), QueueOK(d),
           NEW a \in Activities, NEW k,
           reservingActivity'[d] = reservingActivity[d],
           reserveCount'[d] = reserveCount[d],
           waitingActivities'[d] = waitingActivities[d],
           \A c \in Activities \ {a} : Same(c, d),
           HandedTo(a, d), pc'[a] \notin Reserving,
           k \notin Reservations(a, d),
           Reservations(a, d)' = Reservations(a, d) \cup {k}
    PROVE  LockOK(d)' /\ QueueOK(d)'
<1>1. ~HandedTo(a, d)' /\ ~BlockedAt(a, d) /\ ~BlockedAt(a, d)'
  BY DEF HandedTo, BlockedAt, Blocked
<1>2. reservingActivity[d] = a
  BY DEF LockOK
<1>3. /\ Cardinality(Reservations(a, d)') = Cardinality(Reservations(a, d)) + 1
      /\ Cardinality(Reservations(a, d)) \in Nat
  BY OneMore
<1>4. reserveCount'[d] = Cardinality(Reservations(a, d)') + 0
  BY <1>2, <1>3, OwnerCount
<1>5. LockOK(d)'
  BY <1>1, <1>2, <1>4 DEF LockOK, Same
<1>6. QueueOK(d)'
  BY <1>1 DEF QueueOK, Same
<1> QED  BY <1>5, <1>6

(* a joins the queue of a lock that somebody else has.                     *)
LEMMA Awaited ==
    ASSUME TypeOK, NEW d \in Dictionaries, LockOK(d), QueueOK(d),
           NEW a \in Activities,
           reservingActivity[d] \notin {None, a},
           reservingActivity'[d] = reservingActivity[d],
           reserveCount'[d] = reserveCount[d],
           waitingActivities'[d] = Append(waitingActivities[d], a),
           \A c \in Activities \ {a} : Same(c, d),
           pc[a] \notin Reserving, BlockedAt(a, d)',
           Reservations(a, d)' \subseteq Reservations(a, d)
    PROVE  LockOK(d)' /\ QueueOK(d)'
<1> DEFINE q == waitingActivities[d]
<1>1. ~HandedTo(a, d) /\ ~HandedTo(a, d)' /\ ~BlockedAt(a, d)
  BY DEF HandedTo, BlockedAt, Blocked
<1>2. Reservations(a, d)' = {}
  BY DEF LockOK
<1>3. LockOK(d)'
  BY <1>1, <1>2 DEF LockOK, Same
<1>4. q \in Seq(Activities) /\ Len(q) \in Nat
  BY LenProperties DEF TypeOK
<1>5. /\ Len(Append(q, a)) = Len(q) + 1
      /\ \A i \in 1..Len(q) : Append(q, a)[i] = q[i]
      /\ Append(q, a)[Len(q) + 1] = a
  BY <1>4, AppendProperties
<1>6. \A i \in 1..Len(q) : q[i] # a
  BY <1>1 DEF QueueOK
<1>7. waitingActivities'[d] = Append(q, a)
  OBVIOUS
<1>8. /\ \A i, j \in 1..Len(q) : q[i] = q[j] => i = j
      /\ \A c \in Activities : BlockedAt(c, d) <=> \E i \in 1..Len(q) : q[i] = c
  BY DEF QueueOK
<1> HIDE DEF q
<1>9. \A i, j \in 1..Len(q) + 1 : Append(q, a)[i] = Append(q, a)[j] => i = j
  <2>1. \A i \in 1..Len(q) + 1 : i = Len(q) + 1 \/ i \in 1..Len(q)
    BY <1>4
  <2> QED  BY <1>5, <1>6, <1>8, <2>1
<1>10. ASSUME NEW c \in Activities
       PROVE  BlockedAt(c, d)' <=> \E i \in 1..Len(q) + 1 : Append(q, a)[i] = c
  <2>1. Len(q) + 1 \in 1..Len(q) + 1 /\ 1..Len(q) \subseteq 1..Len(q) + 1
    BY <1>4
  <2>2. CASE c = a
    BY <1>5, <2>1, <2>2
  <2>3. CASE c # a
    <3>1. BlockedAt(c, d)' <=> BlockedAt(c, d)
      BY <2>3 DEF Same
    <3>2. \A i \in 1..Len(q) + 1 : i = Len(q) + 1 \/ i \in 1..Len(q)
      BY <1>4
    <3> QED  BY <1>5, <1>8, <2>1, <2>3, <3>1, <3>2
  <2> QED  BY <2>2, <2>3
<1>11. QueueOK(d)'
  BY <1>5, <1>7, <1>9, <1>10 DEF QueueOK
<1> QED  BY <1>3, <1>11

(* The last reservation of an owner is all it has.                         *)
LEMMA LastReservation ==
    ASSUME TypeOK, NEW d, LockOK(d), NEW a \in Activities,
           reservingActivity[d] = a, reserveCount[d] = 1, ~HandedTo(a, d),
           NEW k \in Reservations(a, d)
    PROVE  Reservations(a, d) \ {k} = {}
<1>1. IsFiniteSet(Reservations(a, d)) /\ Cardinality(Reservations(a, d)) \in Nat
  BY ReservationsFinite
<1>2. Cardinality(Reservations(a, d)) = 1
  <2>1. 1 = Cardinality(Reservations(a, d)) + 0
    BY OwnerCount
  <2> QED  BY <1>1, <2>1
<1>3. /\ IsFiniteSet(Reservations(a, d) \ {k})
      /\ Cardinality(Reservations(a, d) \ {k}) = 1 - 1
  BY <1>1, <1>2, FS_RemoveElement
<1> QED  BY <1>3, FS_EmptySet

(* The lock goes from a to the activity that is given its activation.      *)
LEMMA Moved ==
    ASSUME TypeOK, NEW d \in Dictionaries, LockOK(d), QueueOK(d),
           NEW a \in Activities, NEW b \in Activities, a # b,
           reservingActivity[d] = a, reserveCount[d] = 1,
           reservingActivity'[d] = b,
           reserveCount'[d] = reserveCount[d],
           waitingActivities'[d] = waitingActivities[d],
           \A c \in Activities \ {a, b} : Same(c, d),
           {pc[a], pc'[a], pc[b], pc'[b]} \cap Reserving = {},
           NEW k \in Reservations(a, d),
           Reservations(a, d)' = Reservations(a, d) \ {k},
           Reservations(b, d)' = {1}
    PROVE  LockOK(d)' /\ QueueOK(d)'
<1>1. \A c \in {a, b} : /\ ~HandedTo(c, d) /\ ~HandedTo(c, d)'
                        /\ ~BlockedAt(c, d) /\ ~BlockedAt(c, d)'
  BY DEF HandedTo, BlockedAt, Blocked
<1>2. b # None
  BY GuardAssumption
<1>4. Reservations(a, d)' = {}
  BY <1>1, LastReservation
<1>5. \A c \in Activities \ {b} : Reservations(c, d)' = {} /\ ~HandedTo(c, d)'
  BY <1>1, <1>4 DEF LockOK, Same
<1>6. Cardinality({1}) = 1
  BY FS_Singleton
<1>7. LockOK(d)'
  <2>1. reserveCount'[d] = Cardinality(Reservations(b, d)') + 0 /\ reserveCount'[d] > 0
    BY <1>6
  <2> QED  BY <1>1, <1>2, <1>5, <2>1 DEF LockOK
<1>8. QueueOK(d)'
  BY <1>1 DEF QueueOK, Same
<1> QED  BY <1>7, <1>8

(* The lock is given up once: it stays with a, or ...                      *)
LEMMA ReleasedOnce ==
    ASSUME TypeOK, NEW d \in Dictionaries, LockOK(d), QueueOK(d),
           NEW a \in Activities, NEW k \in Reservations(a, d),
           {pc[a], pc'[a]} \cap Reserving = {},
           Reservations(a, d)' = Reservations(a, d) \ {k},
           reserveCount[d] > 1,
           reserveCount'[d] = reserveCount[d] - 1,
           reservingActivity'[d] = reservingActivity[d],
           waitingActivities'[d] = waitingActivities[d],
           \A c \in Activities \ {a} : Same(c, d)
    PROVE  LockOK(d)' /\ QueueOK(d)'
<1>1. /\ ~HandedTo(a, d) /\ ~HandedTo(a, d)'
      /\ ~BlockedAt(a, d) /\ ~BlockedAt(a, d)'
  BY DEF HandedTo, BlockedAt, Blocked
<1>2. reservingActivity[d] = a /\ a # None
  BY GuardAssumption DEF LockOK
<1>3. reserveCount[d] = Cardinality(Reservations(a, d)) + 0
  BY <1>1, <1>2, OwnerCount
<1>4. Cardinality(Reservations(a, d)') = Cardinality(Reservations(a, d)) - 1
  <2>1. IsFiniteSet(Reservations(a, d))
    BY ReservationsFinite
  <2> QED  BY <2>1, FS_RemoveElement
<1>5. /\ reserveCount'[d] = Cardinality(Reservations(a, d)') + 0
      /\ reserveCount'[d] > 0
  <2>1. Cardinality(Reservations(a, d)) \in Nat
    BY ReservationsFinite
  <2> QED  BY <1>3, <1>4, <2>1
<1>6. LockOK(d)'
  BY <1>1, <1>2, <1>5 DEF LockOK, Same
<1>7. QueueOK(d)'
  BY <1>1 DEF QueueOK, Same
<1> QED  BY <1>6, <1>7

(* ... it is free, as nobody waits, or ...                                 *)
LEMMA ReleasedFree ==
    ASSUME TypeOK, NEW d \in Dictionaries, LockOK(d), QueueOK(d),
           NEW a \in Activities, NEW k \in Reservations(a, d),
           {pc[a], pc'[a]} \cap Reserving = {},
           Reservations(a, d)' = Reservations(a, d) \ {k},
           reserveCount[d] = 1, reserveCount'[d] = 0,
           waitingActivities[d] = <<>>, waitingActivities'[d] = <<>>,
           reservingActivity'[d] = None,
           \A c \in Activities \ {a} : Same(c, d)
    PROVE  LockOK(d)' /\ QueueOK(d)'
<1>1. /\ ~HandedTo(a, d) /\ ~HandedTo(a, d)'
      /\ ~BlockedAt(a, d) /\ ~BlockedAt(a, d)'
  BY DEF HandedTo, BlockedAt, Blocked
<1>2. reservingActivity[d] = a /\ a # None /\ \A c \in Activities : c # None
  BY GuardAssumption DEF LockOK
<1>3. Reservations(a, d)' = {}
  BY <1>1, <1>2, LastReservation
<1>4. \A c \in Activities : Reservations(c, d)' = {} /\ ~HandedTo(c, d)'
  BY <1>1, <1>2, <1>3 DEF LockOK, Same
<1>5. LockOK(d)'
  BY <1>2, <1>4 DEF LockOK
<1>6. QueueOK(d)'
  BY <1>1 DEF QueueOK, Same
<1> QED  BY <1>5, <1>6

(* ... it is handed to the first in line.                                  *)
LEMMA ReleasedTo ==
    ASSUME TypeOK, NEW d \in Dictionaries, LockOK(d), QueueOK(d),
           NEW a \in Activities, NEW k \in Reservations(a, d),
           {pc[a], pc'[a]} \cap Reserving = {},
           Reservations(a, d)' = Reservations(a, d) \ {k},
           reserveCount[d] = 1, reserveCount'[d] = 1,
           waitingActivities[d] # <<>>,
           waitingActivities'[d] = Tail(waitingActivities[d]),
           NEW b \in Activities, b = Head(waitingActivities[d]),
           reservingActivity'[d] = b,
           HandedTo(b, d)', ~BlockedAt(b, d)',
           Reservations(b, d)' = Reservations(b, d),
           \A c \in Activities \ {a, b} : Same(c, d)
    PROVE  LockOK(d)' /\ QueueOK(d)'
<1> DEFINE q == waitingActivities[d]
<1>1. /\ ~HandedTo(a, d) /\ ~HandedTo(a, d)'
      /\ ~BlockedAt(a, d) /\ ~BlockedAt(a, d)'
  BY DEF HandedTo, BlockedAt, Blocked
<1>2. reservingActivity[d] = a /\ b # None
  BY GuardAssumption DEF LockOK
<1>3. Reservations(a, d)' = {}
  BY <1>1, <1>2, LastReservation
<1>4. q \in Seq(Activities) /\ Len(q) \in Nat /\ Len(q) > 0
  BY EmptySeq, LenProperties DEF TypeOK
<1>5. /\ Head(q) = q[1] /\ Len(Tail(q)) = Len(q) - 1
      /\ \A i \in 1..Len(Tail(q)) : Tail(q)[i] = q[i + 1]
  BY <1>4, HeadTailProperties
<1>6. /\ \A i, j \in 1..Len(q) : q[i] = q[j] => i = j
      /\ \A c \in Activities : BlockedAt(c, d) <=> \E i \in 1..Len(q) : q[i] = c
  BY DEF QueueOK
<1>7. BlockedAt(b, d) /\ b # a
  <2>1. b = q[1] /\ 1 \in 1..Len(q)
    BY <1>4, <1>5
  <2>2. BlockedAt(b, d)
    BY <1>6, <2>1
  <2> QED  BY <1>1, <2>2
<1>8. Reservations(b, d)' = {} /\ Cardinality({}) = 0
  BY <1>2, <1>7, FS_EmptySet DEF LockOK
<1>9. \A c \in Activities \ {b} : Reservations(c, d)' = {} /\ ~HandedTo(c, d)'
  <2>1. \A c \in Activities \ {a, b} : Reservations(c, d)' = {} /\ ~HandedTo(c, d)'
    BY <1>2 DEF LockOK, Same
  <2> QED  BY <1>1, <1>3, <2>1
<1>10. LockOK(d)'
  <2>1. Cardinality(Reservations(b, d)') = 0
    BY <1>8
  <2>2. reserveCount'[d] = Cardinality(Reservations(b, d)')
                             + (IF HandedTo(b, d)' THEN 1 ELSE 0)
    <3>1. Cardinality(Reservations(b, d)') + 1 = 1
      BY <2>1
    <3> QED  BY <3>1
  <2> QED  BY <1>2, <1>9, <2>1, <2>2 DEF LockOK
<1>11. waitingActivities'[d] = Tail(q)
  OBVIOUS
<1> HIDE DEF q
<1>12. \A i, j \in 1..Len(Tail(q)) : Tail(q)[i] = Tail(q)[j] => i = j
  <2>1. \A i \in 1..Len(Tail(q)) : i + 1 \in 1..Len(q) /\ i \in Int
    BY <1>4, <1>5
  <2> QED  BY <1>5, <1>6, <2>1
<1>13. ASSUME NEW c \in Activities
       PROVE  BlockedAt(c, d)' <=> \E i \in 1..Len(Tail(q)) : Tail(q)[i] = c
  <2>1. \A i \in 1..Len(Tail(q)) : i + 1 \in 1..Len(q) /\ i + 1 # 1
    BY <1>4, <1>5
  <2>2. \A i \in 1..Len(q) : i # 1 => /\ i - 1 \in 1..Len(Tail(q))
                                      /\ (i - 1) + 1 = i
    BY <1>4, <1>5
  <2>3. 1 \in 1..Len(q) /\ b = q[1]
    BY <1>4, <1>5 DEF q
  <2>4. CASE c = b
    BY <1>5, <1>6, <2>1, <2>3, <2>4
  <2>5. CASE c # b
    <3>1. BlockedAt(c, d)' <=> BlockedAt(c, d)
      BY <1>1, <2>5 DEF Same
    <3>2. (\E i \in 1..Len(q) : q[i] = c) => \E i \in 1..Len(Tail(q)) : Tail(q)[i] = c
      <4> SUFFICES ASSUME NEW i \in 1..Len(q), q[i] = c
                   PROVE  Tail(q)[i - 1] = c /\ i - 1 \in 1..Len(Tail(q))
        OBVIOUS
      <4>1. i # 1
        BY <2>3, <2>5
      <4> QED  BY <1>5, <2>2, <4>1
    <3>3. (\E i \in 1..Len(Tail(q)) : Tail(q)[i] = c) => \E i \in 1..Len(q) : q[i] = c
      BY <1>5, <2>1
    <3> QED  BY <1>6, <3>1, <3>2, <3>3
  <2> QED  BY <2>4, <2>5
<1>14. QueueOK(d)'
  BY <1>11, <1>12, <1>13 DEF QueueOK
<1> QED  BY <1>10, <1>14

-----------------------------------------------------------------------------
(* reserve() is asked for the top of s, by an activity that has no lock of *)
(* that activation yet.                                                    *)
Asks(a, s, why) ==
    /\ s \in Seq(Frames) /\ Len(s) > 0 /\ Len(s) <= MaxDepth
    /\ why \in Reserving /\ pc[a] \notin Reserving
    /\ IF why = "resume"
       THEN /\ Len(s) = 1 /\ s[1].objectScope = "reserved"
            /\ \A e \in Dictionaries : Reservations(a, e) = {}
       ELSE /\ s[Len(s)].objectScope = "released"
            /\ \A e \in Dictionaries : Res(s, e) = Reservations(a, e)

(* What a does next, and with which activations.                           *)
LEMMA ReserveMoves ==
    ASSUME TypeOK, NEW a \in Activities, NEW s, NEW why, Asks(a, s, why),
           reserve(a, s, why)
    PROVE  /\ \A c \in Activities \ {a} :
                Keeps(c) /\ reserveSem'[c] = reserveSem[c] /\ guardSem'[c] = guardSem[c]
           /\ \/ /\ frames'[a] = WithScope(s, "reserved")
                 /\ pc'[a] = IF why \in {"whenOn", "rewait"} THEN "evaluate" ELSE "run"
              \/ /\ frames'[a] = s /\ pc'[a] = why
              \/ /\ frames'[a] = IF why \in {"invoke", "resume"} THEN Popped(s) ELSE s
                 /\ pc'[a] = "run"
BY DEF reserve, Proceed, Goto, TypeOK, Keeps, Asks, Reserving

LEMMA ReserveTypes ==
    ASSUME TypeOK, NEW a \in Activities, NEW s, NEW why, Asks(a, s, why),
           reserve(a, s, why)
    PROVE  /\ reservingActivity' \in [Dictionaries -> Activities \cup {None}]
           /\ reserveCount' \in [Dictionaries -> Nat]
           /\ waitingActivities' \in [Dictionaries -> Seq(Activities)]
           /\ waitingObject' \in [Activities -> Dictionaries \cup {None}]
           /\ guardSem' \in [Activities -> BOOLEAN]
           /\ reserveSem' \in [Activities -> BOOLEAN]
           /\ frames' \in [Activities -> Seq(Frames)]
           /\ \A c \in Activities : Len(frames'[c]) <= MaxDepth
           /\ pc' \in [Activities -> Places]
<1> DEFINE d == s[Len(s)].dictionary
<1>1. /\ s \in Seq(Frames) /\ Len(s) > 0 /\ Len(s) <= MaxDepth
      /\ Len(s) \in Nat /\ MaxDepth \in Nat
  BY LenProperties, GuardAssumption DEF Asks
<1>2. d \in Dictionaries
  BY <1>1, SetScope
<1>3. /\ WithScope(s, "reserved") \in Seq(Frames)
      /\ Len(WithScope(s, "reserved")) = Len(s)
  BY <1>1, SetScope
<1>4. Popped(s) \in Seq(Frames) /\ Len(Popped(s)) = Len(s) - 1
  BY <1>1, PopFrame
<1>5. frames \in [Activities -> Seq(Frames)] /\ \A c \in Activities : Len(frames[c]) <= MaxDepth
  BY DEF TypeOK, Frames, Depth
<1>6. \E t \in Seq(Frames) : Len(t) <= MaxDepth /\ frames' = [frames EXCEPT ![a] = t]
  <2>1. Len(Popped(s)) <= MaxDepth /\ Len(WithScope(s, "reserved")) <= MaxDepth
    BY <1>1, <1>3, <1>4
  <2>2. \/ frames' = [frames EXCEPT ![a] = WithScope(s, "reserved")]
        \/ frames' = [frames EXCEPT ![a] = s]
        \/ frames' = [frames EXCEPT ![a] = Popped(s)]
    BY DEF reserve
  <2> QED  BY <1>1, <1>3, <1>4, <2>1, <2>2
<1>7. /\ frames' \in [Activities -> Seq(Frames)]
      /\ \A c \in Activities : Len(frames'[c]) <= MaxDepth
  BY <1>5, <1>6
<1>8. /\ pc' \in [Activities -> Places]
      /\ guardSem' \in [Activities -> BOOLEAN]
      /\ reserveSem' \in [Activities -> BOOLEAN]
  <2>1. \E p \in Places : pc' = [pc EXCEPT ![a] = p]
    <3>1. why \in Reserving /\ Reserving \subseteq Places
          /\ "run" \in Places /\ "evaluate" \in Places
      BY DEF Asks, Reserving, Places
    <3> QED  BY <3>1 DEF reserve, Proceed, Goto, Reserving
  <2>2. guardSem' = guardSem \/ guardSem' = [guardSem EXCEPT ![a] = FALSE]
    BY DEF reserve, Proceed, Asks, Reserving
  <2>3. reserveSem' = reserveSem \/ reserveSem' = [reserveSem EXCEPT ![a] = FALSE]
    BY DEF reserve
  <2> QED  BY <2>1, <2>2, <2>3 DEF TypeOK
<1>9. /\ reservingActivity' \in [Dictionaries -> Activities \cup {None}]
      /\ reserveCount' \in [Dictionaries -> Nat]
      /\ waitingObject' \in [Activities -> Dictionaries \cup {None}]
  <2>1. \/ reservingActivity' = reservingActivity
        \/ reservingActivity' = [reservingActivity EXCEPT ![d] = a]
    BY DEF reserve, dictionaryVars
  <2>2. \/ reserveCount' = reserveCount
        \/ reserveCount' = [reserveCount EXCEPT ![d] = @ + 1]
        \/ reserveCount' = [reserveCount EXCEPT ![d] = 1]
    BY DEF reserve, dictionaryVars
  <2>3. \/ waitingObject' = waitingObject
        \/ waitingObject' = [waitingObject EXCEPT ![a] = d]
    BY DEF reserve
  <2> HIDE DEF d
  <2>4. reserveCount' \in [Dictionaries -> Nat]
    <3>1. reserveCount \in [Dictionaries -> Nat] /\ reserveCount[d] + 1 \in Nat
      BY <1>2 DEF TypeOK
    <3> QED  BY <2>2, <3>1
  <2> QED  BY <1>2, <2>1, <2>3, <2>4 DEF TypeOK
<1>10. waitingActivities' \in [Dictionaries -> Seq(Activities)]
  <2>1. Append(waitingActivities[d], a) \in Seq(Activities)
    BY <1>2, AppendProperties DEF TypeOK
  <2> QED  BY <2>1 DEF reserve, dictionaryVars, TypeOK
<1> QED  BY <1>7, <1>8, <1>9, <1>10

LEMMA ReserveLocks ==
    ASSUME TypeOK, LocksOK, NEW a \in Activities, NEW s, NEW why, Asks(a, s, why),
           reserve(a, s, why)
    PROVE  LocksOK'
<1> DEFINE d == s[Len(s)].dictionary
           n == Len(s)
<1>1. s \in Seq(Frames) /\ Len(s) > 0 /\ Len(s) \in Nat
  BY LenProperties DEF Asks
<1>2. s[n] \in Frames /\ d \in Dictionaries
  <2>1. n \in 1..Len(s)
    BY <1>1
  <2>2. s[n] \in Frames
    BY <1>1, <2>1, ElementOfSeq
  <2> QED  BY <2>2 DEF Frames
<1>3. \A c \in Activities \ {a}, e \in Dictionaries : Same(c, e)
  BY ReserveMoves, KeepsSame
<1>4. pc[a] \notin Reserving
  BY DEF Asks
<1>5. why # "resume" => \A e \in Dictionaries : n \notin Reservations(a, e)
  <2>1. why # "resume" => \A e \in Dictionaries : n \notin Res(s, e)
    BY DEF Asks, Res, Frame
  <2> QED  BY <2>1 DEF Asks
<1>6. ASSUME why = "resume", NEW e \in Dictionaries
      PROVE  Res(s, e) = IF e = d THEN {n} ELSE {}
  <2>1. n = 1 /\ s[1] = Frame(d, "reserved")
    <3>1. n = 1 /\ s[n].objectScope = "reserved" /\ s[n].dictionary = d
      BY <1>6 DEF Asks
    <3>2. \A f \in Frames : f = [dictionary |-> f.dictionary, objectScope |-> f.objectScope]
      BY DEF Frames
    <3> QED  BY <1>2, <3>1, <3>2 DEF Frame
  <2>2. Frame(d, "reserved") = Frame(e, "reserved") <=> e = d
    BY DEF Frame
  <2>3. 1..Len(s) = {1}
    BY <2>1
  <2>4. Res(s, e) = {i \in {1} : s[i] = Frame(e, "reserved")}
    BY <2>3 DEF Res
  <2> QED  BY <2>1, <2>2, <2>4
<1> HIDE DEF d, n
<1>7. CASE reservingActivity[d] \in {None, a}
  <2>1. /\ reservingActivity' = [reservingActivity EXCEPT ![d] = a]
        /\ reserveCount' = [reserveCount EXCEPT ![d] =
                              IF reservingActivity[d] = a THEN @ + 1 ELSE 1]
        /\ frames' = [frames EXCEPT ![a] = WithScope(s, "reserved")]
        /\ Proceed(a, why)
        /\ waitingActivities' = waitingActivities
    BY <1>7 DEF reserve, d
  <2>2. pc'[a] \in {"run", "evaluate"}
    BY <2>1 DEF Proceed, Goto, TypeOK, Asks, Reserving
  <2>3. pc'[a] \notin Reserving /\ HasTransfer(a)'
    BY <2>2 DEF Reserving, HasTransfer
  <2>4. frames'[a] = WithScope(s, "reserved")
    BY <2>1 DEF TypeOK
  <2>5. \A e \in Dictionaries :
          Reservations(a, e)' = Res(s, e) \cup (IF e = d THEN {n} ELSE {})
    BY <1>1, <2>3, <2>4, ReservationsThen, SetScope DEF d, n
  <2>6. ASSUME NEW e \in Dictionaries
        PROVE  /\ Reservations(a, e)' = Reservations(a, e) \cup (IF e = d THEN {n} ELSE {})
               /\ n \notin Reservations(a, e)
    <3>1. CASE why = "resume"
      BY <1>6, <2>5, <3>1 DEF Asks
    <3>2. CASE why # "resume"
      BY <1>5, <2>5, <3>2 DEF Asks
    <3> QED  BY <3>1, <3>2
  <2>7. LockOK(d)' /\ QueueOK(d)'
    <3>1. LockOK(d) /\ QueueOK(d)
      BY <1>2 DEF LocksOK, d
    <3>2. /\ reservingActivity'[d] = a
          /\ reserveCount'[d] = IF reservingActivity[d] = a THEN reserveCount[d] + 1 ELSE 1
          /\ waitingActivities'[d] = waitingActivities[d]
      BY <1>2, <2>1 DEF TypeOK, d
    <3>3. d \in Dictionaries
      BY <1>2 DEF d
    <3>4. Reservations(a, d)' = Reservations(a, d) \cup {n} /\ n \notin Reservations(a, d)
      BY <2>6, <3>3
    <3> QED  BY <1>3, <1>4, <1>7, <2>3, <3>1, <3>2, <3>3, <3>4, Taken
  <2>8. ASSUME NEW e \in Dictionaries, e # d
        PROVE  LockOK(e)' /\ QueueOK(e)'
    <3>1. Reservations(a, e)' = Reservations(a, e)
      BY <2>6, <2>8
    <3>2. Same(a, e)
      BY <1>4, <2>3, <3>1 DEF Same, HandedTo, BlockedAt, Blocked
    <3>3. /\ reservingActivity'[e] = reservingActivity[e]
          /\ reserveCount'[e] = reserveCount[e]
          /\ waitingActivities'[e] = waitingActivities[e]
      BY <2>1, <2>8 DEF TypeOK
    <3>4. LockOK(e) /\ QueueOK(e)
      BY DEF LocksOK
    <3> QED  BY <1>3, <3>2, <3>3, <3>4, Untouched
  <2> QED  BY <2>7, <2>8 DEF LocksOK
<1>8. CASE reservingActivity[d] \notin {None, a} /\ ~checkDeadLock(reservingActivity[d], a)
  <2>1. /\ reservingActivity' = reservingActivity /\ reserveCount' = reserveCount
        /\ waitingActivities' = [waitingActivities EXCEPT ![d] = Append(@, a)]
        /\ reserveSem' = [reserveSem EXCEPT ![a] = FALSE]
        /\ frames' = [frames EXCEPT ![a] = s]
        /\ Goto(a, why)
    BY <1>8 DEF reserve, d
  <2>2. pc'[a] = why /\ ~reserveSem'[a] /\ frames'[a] = s
    BY <2>1 DEF Goto, TypeOK
  <2>3. why \in Reserving /\ Top(a)' = s[n]
    BY <2>2 DEF Asks, Top, Depth, n
  <2>4. \A e \in Dictionaries : ~HandedTo(a, e)' /\ (BlockedAt(a, e)' <=> e = d)
    BY <2>2, <2>3 DEF HandedTo, BlockedAt, Blocked, d, n
  <2>5. \A e \in Dictionaries : Reservations(a, e)' = Reservations(a, e)
    <3>1. CASE why = "resume"
      BY <2>2, <3>1, ReservationsThen DEF HasTransfer, Asks
    <3>2. CASE why # "resume"
      <4>1. HasTransfer(a)'
        BY <2>2, <2>3, <3>2 DEF HasTransfer, Reserving
      <4> QED  BY <2>2, <3>2, <4>1, ReservationsThen DEF Asks
    <3> QED  BY <3>1, <3>2
  <2>6. LockOK(d)' /\ QueueOK(d)'
    <3>1. LockOK(d) /\ QueueOK(d) /\ d \in Dictionaries
      BY <1>2 DEF LocksOK, d
    <3>2. /\ reservingActivity'[d] = reservingActivity[d]
          /\ reserveCount'[d] = reserveCount[d]
          /\ waitingActivities'[d] = Append(waitingActivities[d], a)
      BY <2>1, <3>1 DEF TypeOK
    <3>3. BlockedAt(a, d)' /\ Reservations(a, d)' \subseteq Reservations(a, d)
      BY <2>4, <2>5, <3>1
    <3> QED  BY <1>3, <1>4, <1>8, <3>1, <3>2, <3>3, Awaited
  <2>7. ASSUME NEW e \in Dictionaries, e # d
        PROVE  LockOK(e)' /\ QueueOK(e)'
    <3>1. Same(a, e)
      BY <1>4, <2>4, <2>5, <2>7 DEF Same, HandedTo, BlockedAt, Blocked
    <3>2. /\ reservingActivity'[e] = reservingActivity[e]
          /\ reserveCount'[e] = reserveCount[e]
          /\ waitingActivities'[e] = waitingActivities[e]
      BY <2>1, <2>7 DEF TypeOK
    <3>3. LockOK(e) /\ QueueOK(e)
      BY DEF LocksOK
    <3> QED  BY <1>3, <3>1, <3>2, <3>3, Untouched
  <2> QED  BY <2>6, <2>7 DEF LocksOK
<1>9. CASE reservingActivity[d] \notin {None, a} /\ checkDeadLock(reservingActivity[d], a)
  <2>1. /\ dictionaryVars' = dictionaryVars
        /\ frames' = [frames EXCEPT ![a] =
                         IF why \in {"invoke", "resume"} THEN Popped(s) ELSE s]
        /\ Goto(a, "run")
    BY <1>9 DEF reserve, d
  <2>2. /\ pc'[a] = "run"
        /\ frames'[a] = IF why \in {"invoke", "resume"} THEN Popped(s) ELSE s
    BY <2>1 DEF Goto, TypeOK
  <2>3. pc'[a] \notin Reserving /\ HasTransfer(a)'
    BY <2>2 DEF HasTransfer, Reserving
  <2>4. \A e \in Dictionaries : Res(Popped(s), e) = Res(s, e) \ {n}
    BY <1>1, PopFrame DEF n
  <2>5. \A e \in Dictionaries : Reservations(a, e)' = Reservations(a, e)
    <3>1. CASE why = "resume"
      <4>1. \A e \in Dictionaries : Res(Popped(s), e) = {}
        BY <1>6, <2>4, <3>1
      <4> QED  BY <2>2, <2>3, <3>1, <4>1, ReservationsThen DEF Asks
    <3>2. CASE why # "resume"
      <4>1. \A e \in Dictionaries : Res(s, e) = Reservations(a, e) /\ n \notin Res(s, e)
        BY <1>5, <3>2 DEF Asks
      <4> QED  BY <2>2, <2>3, <2>4, <4>1, ReservationsThen
    <3> QED  BY <3>1, <3>2
  <2>6. \A c \in Activities, e \in Dictionaries : Same(c, e)
    BY <1>3, <1>4, <2>3, <2>5 DEF Same, HandedTo, BlockedAt, Blocked
  <2> QED  BY <2>1, <2>6, Untouched DEF LocksOK, dictionaryVars
<1> QED  BY <1>7, <1>8, <1>9

-----------------------------------------------------------------------------
(* release(): the lock is a's, and goes to the first in line.              *)
LEMMA Owned ==
    ASSUME TypeOK, LocksOK, NEW a \in Activities, Depth(a) > 0, HasTransfer(a),
           Top(a).objectScope = "reserved"
    PROVE  /\ Top(a).dictionary \in Dictionaries
           /\ reservingActivity[Top(a).dictionary] = a
           /\ reserveCount[Top(a).dictionary] > 0
           /\ \A e \in Dictionaries :
                Depth(a) \in Reservations(a, e) <=> e = Top(a).dictionary
<1> DEFINE s == frames[a]
           d == Top(a).dictionary
<1>1. s \in Seq(Frames) /\ Depth(a) \in 1..Len(s) /\ Depth(a) = Len(s)
  <2>1. s \in Seq(Frames)
    BY DEF TypeOK, Frames
  <2>2. Len(s) \in Nat
    BY <2>1, LenProperties
  <2> QED  BY <2>1, <2>2 DEF Depth
<1>2. Top(a) \in Frames
  BY <1>1, ElementOfSeq DEF Top
<1>3. d \in Dictionaries /\ Top(a) = Frame(d, "reserved")
  BY <1>2 DEF Frames, Frame
<1>4. \A e \in Dictionaries : Depth(a) \in Reservations(a, e) <=> e = d
  BY <1>1, <1>3 DEF Reservations, Frame, Top
<1>5. LockOK(d) /\ Reservations(a, d) # {}
  BY <1>3, <1>4 DEF LocksOK
<1>6. reservingActivity[d] = a /\ reserveCount[d] > 0
  BY <1>5, GuardAssumption DEF LockOK
<1> QED  BY <1>3, <1>4, <1>6

LEMMA ReleaseShape ==
    ASSUME TypeOK, NEW d \in Dictionaries, release(d)
    PROVE  \/ waitingActivities[d] = <<>> /\ ReleaseTo(d, None, <<>>)
           \/ /\ waitingActivities[d] # <<>>
              /\ Head(waitingActivities[d]) \in Activities
              /\ Tail(waitingActivities[d]) \in Seq(Activities)
              /\ waitingActivities[d][1] = Head(waitingActivities[d])
              /\ 1 \in 1..Len(waitingActivities[d])
              /\ ReleaseTo(d, Head(waitingActivities[d]), Tail(waitingActivities[d]))
<1>1. waitingActivities[d] \in Seq(Activities)
  BY DEF TypeOK
<1>2. CASE waitingActivities[d] = <<>>
  BY <1>2 DEF release
<1>3. CASE waitingActivities[d] # <<>>
  <2>1. /\ Head(waitingActivities[d]) \in Activities
        /\ Tail(waitingActivities[d]) \in Seq(Activities)
        /\ waitingActivities[d][1] = Head(waitingActivities[d])
    BY <1>1, <1>3, HeadTailProperties
  <2>2. Len(waitingActivities[d]) \in Nat /\ Len(waitingActivities[d]) # 0
    BY <1>1, <1>3, EmptySeq, LenProperties
  <2> QED  BY <1>3, <2>1, <2>2 DEF release
<1> QED  BY <1>2, <1>3

LEMMA ReleaseTypes ==
    ASSUME TypeOK, NEW d \in Dictionaries, reserveCount[d] > 0, release(d)
    PROVE  /\ reservingActivity' \in [Dictionaries -> Activities \cup {None}]
           /\ reserveCount' \in [Dictionaries -> Nat]
           /\ waitingActivities' \in [Dictionaries -> Seq(Activities)]
           /\ waitingObject' \in [Activities -> Dictionaries \cup {None}]
           /\ reserveSem' \in [Activities -> BOOLEAN]
<1>1. PICK next \in Activities \cup {None}, others \in Seq(Activities) :
        ReleaseTo(d, next, others)
  <2>1. <<>> \in Seq(Activities)
    BY EmptySeq
  <2> QED  BY <2>1, ReleaseShape
<1>2. reserveCount' \in [Dictionaries -> Nat]
  <2>1. /\ reserveCount \in [Dictionaries -> Nat]
        /\ reserveCount[d] - 1 \in Nat /\ 1 \in Nat
    BY DEF TypeOK
  <2>2. \/ reserveCount' = [reserveCount EXCEPT ![d] = 1]
        \/ reserveCount' = [reserveCount EXCEPT ![d] = reserveCount[d] - 1]
    BY <1>1 DEF ReleaseTo
  <2> QED  BY <2>1, <2>2
<1>3. /\ reservingActivity' \in [Dictionaries -> Activities \cup {None}]
      /\ waitingActivities' \in [Dictionaries -> Seq(Activities)]
  BY <1>1 DEF ReleaseTo, TypeOK
<1>4. /\ waitingObject' \in [Activities -> Dictionaries \cup {None}]
      /\ reserveSem' \in [Activities -> BOOLEAN]
  BY <1>1 DEF ReleaseTo, TypeOK
<1> QED  BY <1>2, <1>3, <1>4

LEMMA ReleaseLocks ==
    ASSUME TypeOK, LocksOK, NEW a \in Activities, Depth(a) > 0, HasTransfer(a),
           Top(a).objectScope = "reserved", release(Top(a).dictionary),
           {pc[a], pc'[a]} \cap Reserving = {},
           \A e \in Dictionaries :
               Reservations(a, e)' = Reservations(a, e) \ {Depth(a)},
           \A c \in Activities \ {a} : Keeps(c) \/ Quiet(c)
    PROVE  LocksOK'
<1>1. PICK d : d = Top(a).dictionary
  OBVIOUS
<1>2. PICK k : k = Depth(a)
  OBVIOUS
<1> DEFINE q == waitingActivities[d]
<1>3. /\ d \in Dictionaries /\ reservingActivity[d] = a /\ reserveCount[d] > 0
      /\ LockOK(d) /\ QueueOK(d) /\ k \in Reservations(a, d)
      /\ reserveCount[d] \in Nat
  BY <1>1, <1>2, Owned DEF LocksOK, TypeOK
<1>4. Reservations(a, d)' = Reservations(a, d) \ {k}
  BY <1>3, <1>2
<1>5. ASSUME NEW e \in Dictionaries, e # d PROVE Same(a, e)
  <2>1. k \notin Reservations(a, e)
    BY <1>5, <1>1, <1>2, Owned
  <2> QED  BY <1>2, <2>1 DEF Same, HandedTo, BlockedAt, Blocked
<1>6. release(d)
  BY <1>1
<1> HIDE DEF q
<1>7. CASE reserveCount[d] > 1
  <2>1. /\ reserveCount' = [reserveCount EXCEPT ![d] = @ - 1]
        /\ reservingActivity' = reservingActivity
        /\ waitingActivities' = waitingActivities
        /\ reserveSem' = reserveSem
    BY <1>3, <1>6, <1>7, ReleaseShape DEF ReleaseTo
  <2>2. \A c \in Activities \ {a}, e \in Dictionaries : Same(c, e)
    BY <2>1, KeepsSame
  <2>3. /\ reserveCount'[d] = reserveCount[d] - 1
        /\ \A e \in Dictionaries : e # d => reserveCount'[e] = reserveCount[e]
    BY <1>3, <2>1 DEF TypeOK
  <2>4. LockOK(d)' /\ QueueOK(d)'
    BY <1>3, <1>4, <1>7, <2>1, <2>2, <2>3, ReleasedOnce
  <2>5. ASSUME NEW e \in Dictionaries, e # d PROVE LockOK(e)' /\ QueueOK(e)'
    BY <1>5, <2>1, <2>2, <2>3, <2>5, Untouched DEF LocksOK
  <2> QED  BY <2>4, <2>5 DEF LocksOK
<1>8. CASE reserveCount[d] = 1 /\ q = <<>>
  <2>1. ReleaseTo(d, None, <<>>)
    BY <1>3, <1>6, <1>8, ReleaseShape DEF q
  <2>2. /\ reserveCount' = [reserveCount EXCEPT ![d] = 0]
        /\ reservingActivity' = [reservingActivity EXCEPT ![d] = None]
        /\ waitingActivities' = [waitingActivities EXCEPT ![d] = <<>>]
        /\ reserveSem' = [b \in Activities |-> reserveSem[b] \/ b = None]
    BY <1>8, <2>1 DEF ReleaseTo
  <2>3. \A c \in Activities : reserveSem'[c] = reserveSem[c]
    BY <2>2, GuardAssumption DEF TypeOK
  <2>4. \A c \in Activities \ {a}, e \in Dictionaries : Same(c, e)
    BY <2>3, KeepsSame
  <2>5. /\ reserveCount'[d] = 0 /\ reservingActivity'[d] = None
        /\ waitingActivities'[d] = <<>> /\ waitingActivities[d] = <<>>
        /\ \A e \in Dictionaries : e # d =>
             /\ reserveCount'[e] = reserveCount[e]
             /\ reservingActivity'[e] = reservingActivity[e]
             /\ waitingActivities'[e] = waitingActivities[e]
    BY <1>3, <1>8, <2>2 DEF TypeOK, q
  <2>6. LockOK(d)' /\ QueueOK(d)'
    BY <1>3, <1>4, <1>8, <2>4, <2>5, ReleasedFree
  <2>7. ASSUME NEW e \in Dictionaries, e # d PROVE LockOK(e)' /\ QueueOK(e)'
    BY <1>5, <2>4, <2>5, <2>7, Untouched DEF LocksOK
  <2> QED  BY <2>6, <2>7 DEF LocksOK
<1>9. CASE reserveCount[d] = 1 /\ q # <<>>
  <2>1. PICK b : b = Head(q)
    OBVIOUS
  <2>2. /\ b \in Activities /\ q[1] = b /\ 1 \in 1..Len(q)
        /\ ReleaseTo(d, b, Tail(q)) /\ b # None
    BY <1>3, <1>6, <1>9, ReleaseShape, <2>1, GuardAssumption DEF q
  <2>3. BlockedAt(b, d) /\ b # a
    <3>1. BlockedAt(b, d)
      BY <1>3, <2>2 DEF QueueOK, q
    <3> QED  BY <3>1 DEF BlockedAt, Blocked
  <2>4. /\ reserveCount' = [reserveCount EXCEPT ![d] = 1]
        /\ reservingActivity' = [reservingActivity EXCEPT ![d] = b]
        /\ waitingActivities' = [waitingActivities EXCEPT ![d] = Tail(q)]
        /\ reserveSem' = [c \in Activities |-> reserveSem[c] \/ c = b]
    BY <1>9, <2>2 DEF ReleaseTo
  <2>5. Keeps(b)
    BY <2>2, <2>3 DEF BlockedAt, Blocked, Quiet
  <2>6. /\ \A e \in Dictionaries : Reservations(b, e)' = Reservations(b, e)
        /\ HandedTo(b, d)' /\ ~BlockedAt(b, d)'
        /\ \A e \in Dictionaries : e # d => Same(b, e)
    <3>1. reserveSem'[b]
      BY <2>2, <2>4
    <3>2. pc'[b] = pc[b] /\ frames'[b] = frames[b]
      BY <2>5 DEF Keeps
    <3>3. \A e \in Dictionaries : Reservations(b, e)' = Reservations(b, e)
      BY <3>2 DEF Reservations, HasTransfer, Depth
    <3>4. Top(b)' = Top(b)
      BY <3>2 DEF Top, Depth
    <3>5. /\ Top(b).dictionary = d /\ pc[b] \in Reserving
      BY <2>3 DEF BlockedAt, Blocked
    <3> QED  BY <3>1, <3>2, <3>3, <3>4, <3>5 DEF Same, HandedTo, BlockedAt, Blocked
  <2>7. \A c \in Activities \ {a, b}, e \in Dictionaries : Same(c, e)
    <3>1. \A c \in Activities \ {b} : reserveSem'[c] = reserveSem[c]
      BY <2>4 DEF TypeOK
    <3> QED  BY <3>1, KeepsSame
  <2>8. /\ reserveCount'[d] = 1 /\ reservingActivity'[d] = b
        /\ waitingActivities'[d] = Tail(q)
        /\ \A e \in Dictionaries : e # d =>
             /\ reserveCount'[e] = reserveCount[e]
             /\ reservingActivity'[e] = reservingActivity[e]
             /\ waitingActivities'[e] = waitingActivities[e]
    BY <1>3, <2>4 DEF TypeOK
  <2>9. LockOK(d)' /\ QueueOK(d)'
    <3>1. waitingActivities[d] # <<>> /\ b = Head(waitingActivities[d])
          /\ waitingActivities'[d] = Tail(waitingActivities[d])
      BY <1>9, <2>8, <2>1 DEF q
    <3>2. Reservations(b, d)' = Reservations(b, d)
      BY <1>3, <2>6
    <3>3. \A c \in Activities \ {a, b} : Same(c, d)
      BY <1>3, <2>7
    <3> QED  BY <1>3, <1>4, <1>9, <2>2, <2>6, <2>8, <3>1, <3>2, <3>3, ReleasedTo
  <2>10. ASSUME NEW e \in Dictionaries, e # d PROVE LockOK(e)' /\ QueueOK(e)'
    <3>1. \A c \in Activities : Same(c, e)
      BY <1>5, <2>6, <2>7, <2>10
    <3> QED  BY <2>8, <2>10, <3>1, Untouched DEF LocksOK
  <2> QED  BY <2>9, <2>10 DEF LocksOK
<1> QED  BY <1>3, <1>7, <1>8, <1>9

-----------------------------------------------------------------------------
(* What the steps are made of.                                             *)
LockTypes ==
    /\ reservingActivity \in [Dictionaries -> Activities \cup {None}]
    /\ reserveCount \in [Dictionaries -> Nat]
    /\ waitingActivities \in [Dictionaries -> Seq(Activities)]
    /\ waitingObject \in [Activities -> Dictionaries \cup {None}]
    /\ reserveSem \in [Activities -> BOOLEAN]
StackTypes ==
    /\ frames \in [Activities -> Seq(Frames)]
    /\ \A a \in Activities : Len(frames[a]) <= MaxDepth
OtherTypes ==
    /\ value \in [Watchable -> BOOLEAN]
    /\ dependents \in [Watchable -> SUBSET Activities]
    /\ guardSem \in [Activities -> BOOLEAN]
    /\ held \in [Activities -> BOOLEAN]
    /\ pc \in [Activities -> Places]

LEMMA TypeParts ==
    /\ TypeOK <=> LockTypes /\ StackTypes /\ OtherTypes
    /\ TypeOK' <=> LockTypes' /\ StackTypes' /\ OtherTypes'
BY DEF TypeOK, LockTypes, StackTypes, OtherTypes, Frames, Depth

LEMMA TopOf ==
    ASSUME TypeOK, NEW a \in Activities, Depth(a) > 0
    PROVE  /\ frames[a] \in Seq(Frames)
           /\ Depth(a) = Len(frames[a]) /\ Depth(a) \in Nat /\ Depth(a) <= MaxDepth
           /\ Top(a) = frames[a][Len(frames[a])] /\ Top(a) \in Frames
           /\ Top(a).dictionary \in Dictionaries
           /\ Top(a).objectScope \in {"reserved", "released"}
           /\ Popped(frames[a]) \in Seq(Frames)
           /\ Len(Popped(frames[a])) = Len(frames[a]) - 1
           /\ \A x \in {"reserved", "released"} :
                /\ WithScope(frames[a], x) \in Seq(Frames)
                /\ Len(WithScope(frames[a], x)) = Len(frames[a])
                /\ WithScope(frames[a], x)[Len(frames[a])].dictionary = Top(a).dictionary
                /\ WithScope(frames[a], x)[Len(frames[a])].objectScope = x
<1>1. frames[a] \in Seq(Frames) /\ Len(frames[a]) <= MaxDepth
  BY TypeParts DEF StackTypes
<1>2. Len(frames[a]) \in Nat /\ Depth(a) = Len(frames[a])
  BY <1>1, LenProperties DEF Depth
<1>3. Depth(a) \in 1..Len(frames[a])
  BY <1>2
<1>4. Top(a) = frames[a][Len(frames[a])] /\ Top(a) \in Frames
  BY <1>1, <1>2, <1>3, ElementOfSeq DEF Top
<1>5. Top(a).dictionary \in Dictionaries /\ Top(a).objectScope \in {"reserved", "released"}
  BY <1>4 DEF Frames
<1>6. Popped(frames[a]) \in Seq(Frames) /\ Len(Popped(frames[a])) = Len(frames[a]) - 1
  BY <1>1, <1>2, PopFrame
<1>7. ASSUME NEW x \in {"reserved", "released"}
      PROVE  /\ WithScope(frames[a], x) \in Seq(Frames)
             /\ Len(WithScope(frames[a], x)) = Len(frames[a])
             /\ WithScope(frames[a], x)[Len(frames[a])].dictionary = Top(a).dictionary
             /\ WithScope(frames[a], x)[Len(frames[a])].objectScope = x
  BY <1>1, <1>2, <1>4, SetScope
<1> QED  BY <1>1, <1>2, <1>4, <1>5, <1>6, <1>7

LEMMA StackChanged ==
    ASSUME TypeOK, NEW a \in Activities, NEW t \in Seq(Frames), Len(t) <= MaxDepth,
           frames' = [frames EXCEPT ![a] = t]
    PROVE  StackTypes'
BY TypeParts DEF StackTypes

LEMMA AsksTop ==
    ASSUME TypeOK, NEW a \in Activities, Placed(a), Depth(a) > 0,
           NEW why \in Reserving, pc[a] \notin Reserving,
           IF why = "resume" THEN pc[a] = "replied"
           ELSE pc[a] # "replied" /\ Top(a).objectScope = "released"
    PROVE  Asks(a, frames[a], why)
<1>1. CASE why = "resume"
  <2>1. Depth(a) = 1 /\ Top(a).objectScope = "reserved"
    BY <1>1 DEF Placed
  <2>2. \A e \in Dictionaries : Reservations(a, e) = {}
    BY <1>1 DEF Reservations, HasTransfer
  <2> QED  BY <1>1, <2>1, <2>2, TopOf DEF Asks
<1>2. CASE why # "resume"
  <2>1. HasTransfer(a)
    BY <1>2 DEF HasTransfer, Reserving
  <2> QED  BY <1>2, <2>1, TopOf, ReservationsAre DEF Asks
<1> QED  BY <1>1, <1>2

LEMMA AsksNew ==
    ASSUME TypeOK, NEW a \in Activities, MayCall(a), NEW d \in Dictionaries
    PROVE  Asks(a, Append(frames[a], Frame(d, "released")), "invoke")
<1> DEFINE s == Append(frames[a], Frame(d, "released"))
<1>1. /\ frames[a] \in Seq(Frames) /\ Len(frames[a]) \in Nat /\ Len(frames[a]) < MaxDepth
      /\ MaxDepth \in Nat
  BY TypeParts, LenProperties, GuardAssumption DEF StackTypes, MayCall, Depth
<1>2. /\ s \in Seq(Frames) /\ Len(s) = Len(frames[a]) + 1
      /\ s[Len(s)] = Frame(d, "released")
      /\ \A e \in Dictionaries : Res(s, e) = Res(frames[a], e)
  BY <1>1, PushFrame
<1>3. pc[a] = "run" /\ HasTransfer(a)
  BY DEF MayCall, At, HasTransfer
<1>4. \A e \in Dictionaries : Res(s, e) = Reservations(a, e)
  BY <1>2, <1>3, ReservationsAre
<1>5. s[Len(s)].objectScope = "released"
  BY <1>2 DEF Frame
<1> HIDE DEF s
<1>6. Len(s) > 0 /\ Len(s) <= MaxDepth
  BY <1>1, <1>2
<1>7. Asks(a, s, "invoke")
  BY <1>2, <1>3, <1>4, <1>5, <1>6 DEF Asks, Reserving
<1> QED  BY <1>7 DEF s

(* A step that does not touch the locks.                                   *)
LEMMA LocksKept ==
    ASSUME LocksOK, KeepLocks, \A c \in Activities : Keeps(c) \/ Quiet(c)
    PROVE  LocksOK'
<1>1. /\ reservingActivity' = reservingActivity /\ reserveCount' = reserveCount
      /\ waitingActivities' = waitingActivities /\ reserveSem' = reserveSem
  BY DEF KeepLocks, dictionaryVars
<1>2. \A c \in Activities, e \in Dictionaries : Same(c, e)
  BY <1>1, KeepsSame
<1> QED  BY <1>1, <1>2, Untouched DEF LocksOK

LEMMA QuietPlace ==
    ASSUME NEW a, frames'[a] = frames[a],
           {pc[a], pc'[a]} \cap (Reserving \cup {"replied"}) = {}
    PROVE  Quiet(a)
BY DEF Quiet, Reserving, Reservations, HasTransfer, Depth

(* The top activation gives the lock back if it has it.                    *)
LEMMA GivenBack ==
    ASSUME TypeOK, LocksOK, NEW a \in Activities, Depth(a) > 0,
           {pc[a], pc'[a]} \cap (Reserving \cup {"replied"}) = {},
           frames'[a] \in {Popped(frames[a]), WithScope(frames[a], "released")},
           IF Top(a).objectScope = "reserved" THEN release(Top(a).dictionary)
           ELSE KeepLocks,
           \A c \in Activities \ {a} : Keeps(c) \/ Quiet(c)
    PROVE  LocksOK'
<1>1. {pc[a], pc'[a]} \cap Reserving = {} /\ HasTransfer(a) /\ HasTransfer(a)'
  BY DEF HasTransfer, Reserving
<1>2. \A e \in Dictionaries : Reservations(a, e)' = Reservations(a, e) \ {Depth(a)}
  <2>1. \A e \in Dictionaries : Res(frames'[a], e) = Res(frames[a], e) \ {Len(frames[a])}
    <3>1. frames[a] \in Seq(Frames) /\ Len(frames[a]) > 0
      BY TopOf
    <3>2. \A e \in Dictionaries :
            Res(Popped(frames[a]), e) = Res(frames[a], e) \ {Len(frames[a])}
      BY <3>1, PopFrame
    <3>3. \A e \in Dictionaries :
            Res(WithScope(frames[a], "released"), e)
              = Res(frames[a], e) \ {Len(frames[a])}
      BY <3>1, SetScope
    <3> QED  BY <3>2, <3>3
  <2> QED  BY <1>1, <2>1, TopOf, ReservationsAre, ReservationsThen
<1>3. CASE Top(a).objectScope = "reserved"
  BY <1>1, <1>2, <1>3, ReleaseLocks
<1>4. CASE Top(a).objectScope # "reserved"
  <2>1. \A e \in Dictionaries : Depth(a) \notin Reservations(a, e)
    BY <1>4 DEF Reservations, Top, Frame
  <2>2. Quiet(a)
    BY <1>1, <1>2, <2>1 DEF Quiet
  <2> QED  BY <1>4, <2>2, LocksKept
<1> QED  BY <1>3, <1>4

LEMMA WaitOver ==
    ASSUME TypeOK, LocksOK, NEW a \in Activities, Placed(a), waitReserve(a)
    PROVE  LocksOK'
<1>1. /\ pc[a] \in Reserving /\ reserveSem[a] /\ KeepLocks
      /\ frames'[a] = WithScope(frames[a], "reserved")
      /\ pc'[a] \in {"run", "evaluate"}
      /\ \A c \in Activities \ {a} : Keeps(c)
  BY DEF waitReserve, Proceed, Goto, TypeOK, Keeps, Reserving
<1>2. /\ reservingActivity' = reservingActivity /\ reserveCount' = reserveCount
      /\ waitingActivities' = waitingActivities /\ reserveSem' = reserveSem
  BY <1>1 DEF KeepLocks, dictionaryVars
<1>3. Depth(a) > 0 /\ pc'[a] \notin Reserving /\ HasTransfer(a)'
  BY <1>1 DEF Placed, Reserving, HasTransfer
<1>4. PICK d \in Dictionaries : d = Top(a).dictionary
  BY <1>3, TopOf
<1>5. PICK k : k = Depth(a)
  OBVIOUS
<1>6. \A c \in Activities \ {a}, e \in Dictionaries : Same(c, e)
  BY <1>1, <1>2, KeepsSame
<1>7. HandedTo(a, d) /\ \A e \in Dictionaries : e # d => ~HandedTo(a, e)
  BY <1>1, <1>4 DEF HandedTo
<1>8. \A e \in Dictionaries :
        Reservations(a, e)' = Res(frames[a], e) \cup (IF e = d THEN {k} ELSE {})
  <2>1. /\ frames[a] \in Seq(Frames) /\ Len(frames[a]) > 0
        /\ k = Len(frames[a]) /\ d = frames[a][Len(frames[a])].dictionary
    BY <1>3, <1>4, <1>5, TopOf
  <2>2. \A e : Res(WithScope(frames[a], "reserved"), e)
                  = Res(frames[a], e) \cup (IF e = d THEN {k} ELSE {})
    BY <2>1, SetScope
  <2> QED  BY <1>1, <1>3, <2>2, ReservationsThen
<1>9. ASSUME NEW e \in Dictionaries
      PROVE  /\ Reservations(a, e)' = Reservations(a, e) \cup (IF e = d THEN {k} ELSE {})
             /\ k \notin Reservations(a, e)
  <2>1. CASE pc[a] = "resume"
    <3>1. Reservations(a, e) = {}
      BY <2>1 DEF Reservations, HasTransfer
    <3>2. k = 1 /\ Len(frames[a]) = 1 /\ frames[a][1].dictionary = d
      BY <1>3, <1>4, <1>5, <2>1, TopOf DEF Placed
    <3>3. Res(frames[a], e) \subseteq (IF e = d THEN {k} ELSE {})
      BY <3>2 DEF Res, Frame
    <3> QED  BY <1>8, <3>1, <3>3
  <2>2. CASE pc[a] # "resume"
    <3>1. HasTransfer(a) /\ Top(a).objectScope = "released"
      BY <1>1, <2>2 DEF HasTransfer, Reserving, Placed
    <3>2. k \notin Reservations(a, e)
      BY <1>5, <3>1 DEF Reservations, Top, Frame
    <3> QED  BY <1>8, <3>1, <3>2, ReservationsAre
  <2> QED  BY <2>1, <2>2
<1>10. LockOK(d)' /\ QueueOK(d)'
  <2>1. Reservations(a, d)' = Reservations(a, d) \cup {k} /\ k \notin Reservations(a, d)
    BY <1>9
  <2> QED  BY <1>2, <1>3, <1>6, <1>7, <2>1, Received DEF LocksOK
<1>11. ASSUME NEW e \in Dictionaries, e # d
       PROVE  LockOK(e)' /\ QueueOK(e)'
  <2>1. Reservations(a, e)' = Reservations(a, e)
    BY <1>9, <1>11
  <2>2. Same(a, e)
    BY <1>1, <1>3, <1>7, <1>11, <2>1 DEF Same, HandedTo, BlockedAt, Blocked
  <2> QED  BY <1>2, <1>6, <2>2, Untouched DEF LocksOK
<1> QED  BY <1>10, <1>11 DEF LocksOK

(* REPLY moves an activation, and its lock if it can.                      *)
LEMMA ReplyMoves ==
    ASSUME TypeOK, NEW a \in Activities, NEW b \in Activities, reply(a, b)
    PROVE  /\ a # b /\ pc[a] = "run" /\ pc[b] = "run" /\ Depth(a) > 0 /\ Depth(b) = 0
           /\ frames'[a] = Popped(frames[a]) /\ frames'[b] = <<Top(a)>>
           /\ <<Top(a)>> \in Seq(Frames) /\ Len(<<Top(a)>>) = 1
           /\ \A c \in Activities \ {a, b} : Keeps(c)
           /\ pc'[a] = "run"
           /\ pc'[b] = "run" \/ (pc'[b] = "replied" /\ Top(a).objectScope = "reserved")
<1>1. a # b /\ pc[a] = "run" /\ pc[b] = "run" /\ Depth(a) > 0 /\ Depth(b) = 0
  BY DEF reply, At
<1>2. frames' = [frames EXCEPT ![a] = Popped(@), ![b] = <<Top(a)>>]
  BY DEF reply
<1>3. /\ frames'[a] = Popped(frames[a]) /\ frames'[b] = <<Top(a)>>
      /\ \A c \in Activities \ {a, b} : frames'[c] = frames[c]
  BY <1>1, <1>2, TypeParts DEF StackTypes
<1>4. \/ pc' = pc
      \/ pc' = [pc EXCEPT ![b] = "replied"] /\ Top(a).objectScope # "released"
  BY DEF reply, Goto
<1>5. <<Top(a)>> \in Seq(Frames) /\ Len(<<Top(a)>>) = 1
  BY <1>1, TopOf
<1> QED  BY <1>1, <1>3, <1>4, <1>5, TopOf DEF Keeps, TypeOK

LEMMA ReplyLocks ==
    ASSUME TypeOK, LocksOK, NEW a \in Activities, NEW b \in Activities, reply(a, b)
    PROVE  LocksOK'
<1>1. /\ a # b /\ pc[a] = "run" /\ pc[b] = "run" /\ Depth(a) > 0 /\ Depth(b) = 0
      /\ frames'[a] = Popped(frames[a]) /\ frames'[b] = <<Top(a)>>
      /\ \A c \in Activities \ {a, b} : Keeps(c)
      /\ pc'[a] = "run"
  BY ReplyMoves
<1>2. {pc[a], pc'[a], pc[b]} \cap (Reserving \cup {"replied"}) = {}
  BY <1>1 DEF Reserving
<1>3. \A e \in Dictionaries : Reservations(b, e) = {}
  BY <1>1 DEF Reservations
<1>4. CASE Top(a).objectScope = "released"
  <2>1. KeepLocks /\ pc' = pc
    BY <1>4 DEF reply
  <2>2. \A e \in Dictionaries : Res(<<Top(a)>>, e) = {}
    BY <1>4 DEF Res, Frame
  <2>3. \A e \in Dictionaries : Reservations(b, e)' = {}
    BY <1>1, <2>2, ReservationsThen
  <2>4. Quiet(b)
    BY <1>2, <1>3, <2>1, <2>3 DEF Quiet
  <2> QED  BY <1>1, <1>2, <1>4, <2>1, <2>4, GivenBack
<1>5. CASE /\ Top(a).objectScope = "reserved"
           /\ reserveCount[Top(a).dictionary] # 1
  <2>1. release(Top(a).dictionary) /\ pc'[b] = "replied"
    BY <1>5 DEF reply, Goto, TypeOK
  <2>2. \A e \in Dictionaries : Reservations(b, e)' = {}
    BY <2>1 DEF Reservations, HasTransfer
  <2>3. Quiet(b)
    BY <1>2, <1>3, <2>1, <2>2 DEF Quiet, Reserving
  <2> QED  BY <1>1, <1>2, <1>5, <2>1, <2>3, GivenBack
<1>6. CASE /\ Top(a).objectScope = "reserved"
           /\ reserveCount[Top(a).dictionary] = 1
  <2>1. PICK d \in Dictionaries : d = Top(a).dictionary
    BY <1>1, TopOf
  <2>2. PICK k : k = Depth(a)
    OBVIOUS
  <2>3. /\ reservingActivity' = [reservingActivity EXCEPT ![d] = b]
        /\ reserveCount' = reserveCount /\ waitingActivities' = waitingActivities
        /\ reserveSem' = reserveSem /\ pc' = pc
    BY <1>6, <2>1 DEF reply
  <2>4. /\ HasTransfer(a) /\ HasTransfer(a)' /\ HasTransfer(b)'
        /\ {pc[a], pc'[a], pc[b], pc'[b]} \cap Reserving = {}
    BY <1>1, <2>3 DEF HasTransfer, Reserving
  <2>5. /\ reservingActivity[d] = a
        /\ \A e \in Dictionaries : k \in Reservations(a, e) <=> e = d
    BY <1>1, <1>6, <2>1, <2>2, <2>4, Owned
  <2>6. \A e \in Dictionaries : Reservations(a, e)' = Reservations(a, e) \ {k}
    <3>1. /\ frames[a] \in Seq(Frames) /\ Len(frames[a]) > 0 /\ k = Len(frames[a])
      BY <1>1, <2>2, TopOf
    <3>2. \A e \in Dictionaries : Res(Popped(frames[a]), e) = Res(frames[a], e) \ {k}
      BY <3>1, PopFrame
    <3> QED  BY <1>1, <2>4, <3>2, ReservationsAre, ReservationsThen
  <2>7. ASSUME NEW e \in Dictionaries
        PROVE  Reservations(b, e)' = IF e = d THEN {1} ELSE {}
    <3>1. Top(a) = Frame(d, "reserved")
      <4>1. Top(a) \in Frames
        BY <1>1, TopOf
      <4>2. \A f \in Frames : f = [dictionary |-> f.dictionary,
                                   objectScope |-> f.objectScope]
        BY DEF Frames
      <4> QED  BY <1>6, <2>1, <4>1, <4>2 DEF Frame
    <3>2. Top(a) = Frame(e, "reserved") <=> e = d
      BY <3>1 DEF Frame
    <3>3. Res(<<Top(a)>>, e) = {i \in {1} : <<Top(a)>>[i] = Frame(e, "reserved")}
      BY DEF Res
    <3>4. Res(<<Top(a)>>, e) = IF e = d THEN {1} ELSE {}
      BY <3>2, <3>3
    <3> QED  BY <1>1, <2>4, <3>4, ReservationsThen
  <2>8. \A c \in Activities \ {a, b}, e \in Dictionaries : Same(c, e)
    BY <1>1, <2>3, KeepsSame
  <2>9. LockOK(d)' /\ QueueOK(d)'
    <3>1. /\ reservingActivity'[d] = b /\ reserveCount[d] = 1
          /\ reserveCount'[d] = reserveCount[d]
          /\ waitingActivities'[d] = waitingActivities[d]
      BY <1>6, <2>1, <2>3 DEF TypeOK
    <3>2. /\ k \in Reservations(a, d)
          /\ Reservations(a, d)' = Reservations(a, d) \ {k}
          /\ Reservations(b, d)' = {1}
      BY <2>5, <2>6, <2>7
    <3> QED  BY <1>1, <2>4, <2>5, <2>8, <3>1, <3>2, Moved DEF LocksOK
  <2>10. ASSUME NEW e \in Dictionaries, e # d
         PROVE  LockOK(e)' /\ QueueOK(e)'
    <3>1. /\ Reservations(a, e)' = Reservations(a, e)
          /\ Reservations(b, e)' = Reservations(b, e)
      BY <1>3, <2>5, <2>6, <2>7, <2>10
    <3>2. Same(a, e) /\ Same(b, e)
      BY <2>4, <3>1 DEF Same, HandedTo, BlockedAt, Blocked
    <3>3. \A c \in Activities : Same(c, e)
      BY <2>8, <3>2
    <3>4. /\ reservingActivity'[e] = reservingActivity[e]
          /\ reserveCount'[e] = reserveCount[e]
          /\ waitingActivities'[e] = waitingActivities[e]
      BY <2>3, <2>10 DEF TypeOK
    <3> QED  BY <3>3, <3>4, Untouched DEF LocksOK
  <2> QED  BY <2>9, <2>10 DEF LocksOK
<1> QED  BY <1>1, <1>4, <1>5, <1>6, TopOf

-----------------------------------------------------------------------------
(* A step of a that is a call, a GUARD, an assignment, a REPLY or goes on. *)
LEMMA LocksNext ==
    ASSUME IInv, Next
    PROVE  LocksOK'
<1> USE DEF IInv
<1>1. LocksOK
  BY DEF LocksOK
<1>2. PICK a \in Activities :
        Call(a) \/ Guard(a) \/ Assign(a) \/ Reply(a) \/ GoOn(a)
  BY DEF Next
<1>3. Placed(a)
  OBVIOUS
<1>4. ASSUME NEW d \in Dictionaries, invokeGuarded(a, d)
      PROVE  LocksOK'
  <2>1. PICK s : s = Append(frames[a], Frame(d, "released"))
    OBVIOUS
  <2>2. Asks(a, s, "invoke") /\ reserve(a, s, "invoke")
    BY <1>4, <2>1, AsksNew DEF invokeGuarded
  <2> QED  BY <1>1, <2>2, ReserveLocks
<1>5. ASSUME NEW d \in Dictionaries, invokeUnguarded(a, d)
      PROVE  LocksOK'
  <2>1. /\ pc[a] = "run" /\ pc' = pc /\ KeepLocks
        /\ frames' = [frames EXCEPT ![a] = Append(@, Frame(d, "released"))]
    BY <1>5 DEF invokeUnguarded, MayCall, At
  <2>2. /\ \A c \in Activities \ {a} : Keeps(c)
        /\ frames[a] \in Seq(Frames)
        /\ frames'[a] = Append(frames[a], Frame(d, "released"))
    BY <2>1, TypeParts DEF StackTypes, Keeps
  <2>3. \A e \in Dictionaries : Res(frames'[a], e) = Res(frames[a], e)
    BY <2>2, PushFrame
  <2>4. Quiet(a)
    BY <2>1, <2>3, ReservationsAre, ReservationsThen DEF Quiet, HasTransfer, Reserving
  <2> QED  BY <1>1, <2>1, <2>2, <2>4, LocksKept
<1>6. ASSUME endMethod(a) PROVE LocksOK'
  <2>1. /\ pc[a] = "run" /\ pc' = pc /\ Depth(a) > 0
        /\ frames' = [frames EXCEPT ![a] = Popped(@)]
        /\ IF Top(a).objectScope = "reserved" THEN release(Top(a).dictionary)
           ELSE KeepLocks
    BY <1>6 DEF endMethod, At
  <2>2. \A c \in Activities \ {a} : Keeps(c)
    BY <2>1, TypeParts DEF StackTypes, Keeps
  <2>3. frames'[a] = Popped(frames[a])
    BY <2>1, TypeParts DEF StackTypes
  <2> QED  BY <1>1, <2>1, <2>2, <2>3, GivenBack DEF Reserving
<1>7. ASSUME guardOn(a) PROVE LocksOK'
  <2>1. Asks(a, frames[a], "guardOn") /\ reserve(a, frames[a], "guardOn")
    BY <1>7, AsksTop DEF guardOn, At, Reserving
  <2> QED  BY <1>1, <2>1, ReserveLocks
<1>8. ASSUME guardOff(a) PROVE LocksOK'
  <2>1. /\ pc[a] = "run" /\ pc' = pc /\ Depth(a) > 0
        /\ frames' = [frames EXCEPT ![a] = WithScope(@, "released")]
        /\ IF Top(a).objectScope = "reserved" THEN release(Top(a).dictionary)
           ELSE KeepLocks
    BY <1>8 DEF guardOff, At
  <2>2. \A c \in Activities \ {a} : Keeps(c)
    BY <2>1, TypeParts DEF StackTypes, Keeps
  <2>3. frames'[a] = WithScope(frames[a], "released")
    BY <2>1, TypeParts DEF StackTypes
  <2> QED  BY <1>1, <2>1, <2>2, <2>3, GivenBack DEF Reserving
<1>9. ASSUME guardOnWhen(a) PROVE LocksOK'
  <2>1. CASE Top(a).objectScope = "released"
    <3>1. Asks(a, frames[a], "whenOn") /\ reserve(a, frames[a], "whenOn")
      BY <1>9, <2>1, AsksTop DEF guardOnWhen, At, Reserving
    <3> QED  BY <1>1, <3>1, ReserveLocks
  <2>2. CASE Top(a).objectScope # "released"
    <3>1. /\ pc[a] = "run" /\ pc' = [pc EXCEPT ![a] = "evaluate"]
          /\ KeepLocks /\ frames' = frames
      BY <1>9, <2>2 DEF guardOnWhen, At, Proceed, Goto
    <3>2. Quiet(a) /\ \A c \in Activities \ {a} : Keeps(c)
      BY <3>1, QuietPlace DEF Keeps, Reserving, TypeOK
    <3> QED  BY <1>1, <3>1, <3>2, LocksKept
  <2> QED  BY <2>1, <2>2
<1>10. ASSUME guardOffWhen(a) PROVE LocksOK'
  <2>1. /\ pc[a] = "run" /\ pc' = [pc EXCEPT ![a] = "evaluate"] /\ Depth(a) > 0
        /\ frames' = [frames EXCEPT ![a] = WithScope(@, "released")]
        /\ IF Top(a).objectScope = "reserved" THEN release(Top(a).dictionary)
           ELSE KeepLocks
    BY <1>10 DEF guardOffWhen, At, Proceed, Goto
  <2>2. pc'[a] = "evaluate" /\ \A c \in Activities \ {a} : Keeps(c)
    BY <2>1, TypeParts DEF StackTypes, OtherTypes, Keeps
  <2>3. frames'[a] = WithScope(frames[a], "released")
    BY <2>1, TypeParts DEF StackTypes
  <2> QED  BY <1>1, <2>1, <2>2, <2>3, GivenBack DEF Reserving
<1>11. ASSUME NEW v \in BOOLEAN, notify(a, v) PROVE LocksOK'
  <2>1. /\ reservingActivity' = reservingActivity /\ reserveCount' = reserveCount
        /\ waitingActivities' = waitingActivities /\ reserveSem' = reserveSem
        /\ frames' = frames /\ pc' = pc
    BY <1>11 DEF notify, dictionaryVars
  <2>2. \A c \in Activities, e \in Dictionaries : Same(c, e)
    BY <2>1, KeepsSame DEF Keeps
  <2> QED  BY <1>1, <2>1, <2>2, Untouched DEF LocksOK
<1>12. ASSUME NEW b \in Activities, reply(a, b) PROVE LocksOK'
  BY <1>1, <1>12, ReplyLocks
<1>13. ASSUME waitReserve(a) PROVE LocksOK'
  BY <1>1, <1>13, WaitOver
<1>14. ASSUME evaluate(a) \/ clearGuard(a) PROVE LocksOK'
  <2>1. /\ KeepLocks /\ frames' = frames /\ pc[a] \in {"evaluate", "passed"}
        /\ \E p \in {"passed", "failed", "run"} : pc' = [pc EXCEPT ![a] = p]
    BY <1>14 DEF evaluate, clearGuard, At, Goto
  <2>2. Quiet(a) /\ \A c \in Activities \ {a} : Keeps(c)
    BY <2>1, QuietPlace DEF Keeps, Reserving, TypeOK
  <2> QED  BY <1>1, <2>1, <2>2, LocksKept
<1>15. ASSUME guardWait(a) PROVE LocksOK'
  <2>1. /\ pc[a] = "failed" /\ pc' = [pc EXCEPT ![a] = "guardWait"]
        /\ frames' = [frames EXCEPT ![a] = WithScope(@, "released")]
        /\ IF Top(a).objectScope = "reserved" THEN release(Top(a).dictionary)
           ELSE KeepLocks
    BY <1>15 DEF guardWait, At, Goto
  <2>2. pc'[a] = "guardWait" /\ Depth(a) > 0 /\ \A c \in Activities \ {a} : Keeps(c)
    BY <2>1, TypeParts DEF StackTypes, OtherTypes, Keeps, Placed
  <2>3. frames'[a] = WithScope(frames[a], "released")
    BY <2>1, TypeParts DEF StackTypes
  <2> QED  BY <1>1, <2>1, <2>2, <2>3, GivenBack DEF Reserving
<1>16. ASSUME guardWake(a) PROVE LocksOK'
  <2>1. CASE held[a]
    <3>1. Asks(a, frames[a], "rewait") /\ reserve(a, frames[a], "rewait")
      BY <1>16, <2>1, AsksTop DEF guardWake, At, Reserving, Placed
    <3> QED  BY <1>1, <3>1, ReserveLocks
  <2>2. CASE ~held[a]
    <3>1. /\ pc[a] = "guardWait" /\ pc' = [pc EXCEPT ![a] = "evaluate"]
          /\ KeepLocks /\ frames' = frames
      BY <1>16, <2>2 DEF guardWake, At, Proceed, Goto
    <3>2. Quiet(a) /\ \A c \in Activities \ {a} : Keeps(c)
      BY <3>1, QuietPlace DEF Keeps, Reserving, TypeOK
    <3> QED  BY <1>1, <3>1, <3>2, LocksKept
  <2> QED  BY <2>1, <2>2
<1>17. ASSUME resume(a) PROVE LocksOK'
  <2>1. Asks(a, frames[a], "resume") /\ reserve(a, frames[a], "resume")
    BY <1>17, AsksTop DEF resume, At, Reserving, Placed
  <2> QED  BY <1>1, <2>1, ReserveLocks
<1> QED  BY <1>2, <1>4, <1>5, <1>6, <1>7, <1>8, <1>9, <1>10, <1>11, <1>12, <1>13,
            <1>14, <1>15, <1>16, <1>17 DEF Call, Guard, Assign, Reply, GoOn

-----------------------------------------------------------------------------
(* Where a step leaves the activity that makes it, and the others.         *)
Watched(c) == \A d \in Watchable : c \in dependents[d] => c \in dependents'[d]

LEMMA KeepsPlaced ==
    ASSUME NEW c, Placed(c), Keeps(c), Watched(c)
    PROVE  Placed(c)'
BY DEF Placed, Keeps, Watched, Top, Depth

(* After reserve(): the top activation is the one it was asked for.        *)
LEMMA ReservePlaced ==
    ASSUME TypeOK, NEW a \in Activities, NEW s, NEW why, Asks(a, s, why),
           reserve(a, s, why),
           why \in {"whenOn", "rewait"} =>
               /\ s[Len(s)].dictionary \in Watchable
               /\ a \in dependents'[s[Len(s)].dictionary]
    PROVE  Placed(a)'
<1>1. s \in Seq(Frames) /\ Len(s) > 0 /\ Len(s) \in Nat /\ why \in Reserving
  BY LenProperties DEF Asks
<1>2. CASE /\ frames'[a] = WithScope(s, "reserved")
           /\ pc'[a] = IF why \in {"whenOn", "rewait"} THEN "evaluate" ELSE "run"
  <2>1. /\ Len(frames'[a]) = Len(s)
        /\ frames'[a][Len(s)].dictionary = s[Len(s)].dictionary
    BY <1>1, <1>2, SetScope
  <2>2. Depth(a)' > 0 /\ Top(a)'.dictionary = s[Len(s)].dictionary
    BY <1>1, <2>1 DEF Depth, Top
  <2> QED  BY <1>2, <2>2 DEF Placed, Reserving, Watching
<1>3. CASE frames'[a] = s /\ pc'[a] = why
  <2>1. Depth(a)' = Len(s) /\ Top(a)' = s[Len(s)]
    BY <1>3 DEF Depth, Top
  <2>2. CASE why = "resume"
    BY <1>1, <1>3, <2>1, <2>2 DEF Placed, Asks, Reserving, Watching
  <2>3. CASE why # "resume"
    <3>1. Top(a)'.objectScope = "released"
      BY <2>1, <2>3 DEF Asks
    <3>2. why \in {"invoke", "guardOn", "whenOn", "rewait"}
      BY <1>1, <2>3 DEF Reserving
    <3> QED  BY <1>1, <1>3, <2>1, <3>1, <3>2 DEF Placed, Watching
  <2> QED  BY <2>2, <2>3
<1>4. CASE pc'[a] = "run"
  BY <1>4 DEF Placed, Reserving, Watching
<1> QED  BY <1>2, <1>3, <1>4, ReserveMoves

LEMMA PlacedNext ==
    ASSUME IInv, Next
    PROVE  \A c \in Activities : Placed(c)'
<1> USE DEF IInv
<1>1. PICK a \in Activities :
        Call(a) \/ Guard(a) \/ Assign(a) \/ Reply(a) \/ GoOn(a)
  BY DEF Next
<1>2. Placed(a)
  OBVIOUS
<1>3. ASSUME Placed(a)', \A c \in Activities \ {a} : Keeps(c) /\ Watched(c)
      PROVE  \A c \in Activities : Placed(c)'
  BY <1>3, KeepsPlaced
<1>4. dependents' = dependents => \A c \in Activities : Watched(c)
  BY DEF Watched
<1>5. ASSUME pc'[a] = "run" PROVE Placed(a)'
  BY <1>5 DEF Placed, Reserving, Watching
<1>6. ASSUME NEW d \in Dictionaries, invokeGuarded(a, d)
      PROVE  \A c \in Activities : Placed(c)'
  <2>1. PICK s : s = Append(frames[a], Frame(d, "released"))
    OBVIOUS
  <2>2. /\ Asks(a, s, "invoke") /\ reserve(a, s, "invoke") /\ dependents' = dependents
    BY <1>6, <2>1, AsksNew DEF invokeGuarded, variableVars
  <2> QED  BY <1>3, <1>4, <2>2, ReserveMoves, ReservePlaced
<1>7. ASSUME NEW d \in Dictionaries, invokeUnguarded(a, d)
      PROVE  \A c \in Activities : Placed(c)'
  <2>1. /\ pc'[a] = "run" /\ dependents' = dependents
        /\ \A c \in Activities \ {a} : Keeps(c)
    BY <1>7, TypeParts DEF StackTypes, invokeUnguarded, MayCall, At, variableVars, Keeps
  <2> QED  BY <1>3, <1>4, <1>5, <2>1
<1>8. ASSUME endMethod(a) \/ guardOff(a) PROVE \A c \in Activities : Placed(c)'
  <2>1. /\ pc'[a] = "run" /\ dependents' = dependents
        /\ \A c \in Activities \ {a} : Keeps(c)
    BY <1>8, TypeParts DEF StackTypes, endMethod, guardOff, At, variableVars, Keeps
  <2> QED  BY <1>3, <1>4, <1>5, <2>1
<1>9. ASSUME guardOn(a) PROVE \A c \in Activities : Placed(c)'
  <2>1. /\ Asks(a, frames[a], "guardOn") /\ reserve(a, frames[a], "guardOn")
        /\ dependents' = dependents
    BY <1>9, AsksTop DEF guardOn, At, Reserving, variableVars
  <2> QED  BY <1>3, <1>4, <2>1, ReserveMoves, ReservePlaced
<1>10. ASSUME guardOnWhen(a) PROVE \A c \in Activities : Placed(c)'
  <2>1. /\ pc[a] = "run" /\ Depth(a) > 0 /\ Top(a).dictionary \in Watchable
        /\ dependents' = [dependents EXCEPT ![Top(a).dictionary] = @ \cup {a}]
    BY <1>10 DEF guardOnWhen, At
  <2>2. a \in dependents'[Top(a).dictionary] /\ \A c \in Activities : Watched(c)
    BY <2>1, TypeParts DEF OtherTypes, Watched
  <2>3. CASE Top(a).objectScope = "released"
    <3>1. Asks(a, frames[a], "whenOn") /\ reserve(a, frames[a], "whenOn")
      BY <1>10, <2>3, AsksTop DEF guardOnWhen, At, Reserving
    <3>2. frames[a][Len(frames[a])] = Top(a)
      BY <2>1, TopOf
    <3>3. Placed(a)'
      BY <2>1, <2>2, <3>1, <3>2, ReservePlaced
    <3> QED  BY <1>3, <2>2, <3>1, <3>3, ReserveMoves
  <2>4. CASE Top(a).objectScope # "released"
    <3>1. pc' = [pc EXCEPT ![a] = "evaluate"] /\ frames' = frames
      BY <1>10, <2>4 DEF guardOnWhen, Proceed, Goto
    <3>2. pc'[a] = "evaluate" /\ \A c \in Activities \ {a} : Keeps(c)
      BY <3>1, TypeParts DEF OtherTypes, Keeps
    <3>3. Top(a)' = Top(a) /\ Depth(a)' = Depth(a)
      BY <3>1 DEF Top, Depth
    <3>4. Placed(a)'
      BY <2>1, <2>2, <3>2, <3>3 DEF Placed, Reserving
    <3> QED  BY <1>3, <2>2, <3>2, <3>4
  <2> QED  BY <2>3, <2>4
<1>11. ASSUME guardOffWhen(a) PROVE \A c \in Activities : Placed(c)'
  <2>1. /\ Depth(a) > 0 /\ Top(a).dictionary \in Watchable
        /\ dependents' = [dependents EXCEPT ![Top(a).dictionary] = @ \cup {a}]
        /\ pc' = [pc EXCEPT ![a] = "evaluate"]
        /\ frames' = [frames EXCEPT ![a] = WithScope(@, "released")]
    BY <1>11 DEF guardOffWhen, Proceed, Goto
  <2>2. a \in dependents'[Top(a).dictionary] /\ \A c \in Activities : Watched(c)
    BY <2>1, TypeParts DEF OtherTypes, Watched
  <2>3. /\ pc'[a] = "evaluate" /\ frames'[a] = WithScope(frames[a], "released")
        /\ \A c \in Activities \ {a} : Keeps(c)
    BY <2>1, TypeParts DEF OtherTypes, StackTypes, Keeps
  <2>4. Depth(a)' > 0 /\ Top(a)'.dictionary = Top(a).dictionary
    BY <2>1, <2>3, TopOf DEF Top, Depth
  <2>5. Placed(a)'
    BY <2>1, <2>2, <2>3, <2>4 DEF Placed, Reserving
  <2> QED  BY <1>3, <2>2, <2>3, <2>5
<1>12. ASSUME NEW v \in BOOLEAN, notify(a, v) PROVE \A c \in Activities : Placed(c)'
  <2>1. pc'[a] = "run" /\ dependents' = dependents /\ \A c \in Activities : Keeps(c)
    BY <1>12 DEF notify, At, Keeps
  <2> QED  BY <1>3, <1>4, <1>5, <2>1
<1>13. ASSUME NEW b \in Activities, reply(a, b) PROVE \A c \in Activities : Placed(c)'
  <2>1. dependents' = dependents
    BY <1>13 DEF reply, variableVars
  <2>2. \A c \in Activities \ {b} : Placed(c)'
    BY <1>4, <1>5, <1>13, <2>1, ReplyMoves, KeepsPlaced
  <2>3. frames'[b] = <<Top(a)>>
    BY <1>13, ReplyMoves
  <2>4. Depth(b)' = 1 /\ Top(b)' = Top(a)
    BY <2>3 DEF Depth, Top
  <2>5. Placed(b)'
    BY <1>13, <2>4, ReplyMoves DEF Placed, Reserving, Watching
  <2> QED  BY <2>2, <2>5
<1>14. ASSUME waitReserve(a) PROVE \A c \in Activities : Placed(c)'
  <2>1. /\ pc[a] \in Reserving /\ dependents' = dependents /\ Depth(a) > 0
        /\ frames' = [frames EXCEPT ![a] = WithScope(@, "reserved")]
        /\ Proceed(a, pc[a])
    BY <1>14 DEF waitReserve, variableVars, Reserving, Placed
  <2>2. /\ frames'[a] = WithScope(frames[a], "reserved")
        /\ pc'[a] = IF pc[a] \in {"whenOn", "rewait"} THEN "evaluate" ELSE "run"
        /\ \A c \in Activities \ {a} : Keeps(c)
    BY <2>1, TypeParts DEF OtherTypes, StackTypes, Keeps, Proceed, Goto, Reserving
  <2>3. Depth(a)' > 0 /\ Top(a)'.dictionary = Top(a).dictionary
    BY <2>1, <2>2, TopOf DEF Top, Depth
  <2>4. Placed(a)'
    BY <2>1, <2>2, <2>3 DEF Placed, Reserving, Watching
  <2> QED  BY <1>3, <1>4, <2>1, <2>2, <2>4
<1>15. ASSUME evaluate(a) PROVE \A c \in Activities : Placed(c)'
  <2>1. /\ pc[a] = "evaluate" /\ pc'[a] \in {"passed", "failed"}
        /\ dependents' = dependents /\ frames' = frames
        /\ \A c \in Activities \ {a} : Keeps(c)
    BY <1>15, TypeParts DEF OtherTypes, evaluate, At, Goto, variableVars, Keeps
  <2>2. Top(a)' = Top(a) /\ Depth(a)' = Depth(a)
    BY <2>1 DEF Top, Depth
  <2>3. Placed(a)'
    BY <2>1, <2>2 DEF Placed, Reserving, Watching
  <2> QED  BY <1>3, <1>4, <2>1, <2>3
<1>16. ASSUME clearGuard(a) PROVE \A c \in Activities : Placed(c)'
  <2>1. /\ pc'[a] = "run" /\ \A c \in Activities \ {a} : Keeps(c)
        /\ dependents' = [dependents EXCEPT ![Top(a).dictionary] = @ \ {a}]
    BY <1>16, TypeParts DEF OtherTypes, clearGuard, Goto, Keeps
  <2>2. \A c \in Activities \ {a} : Watched(c)
    BY <2>1, TypeParts DEF OtherTypes, Watched
  <2> QED  BY <1>3, <1>5, <2>1, <2>2
<1>17. ASSUME guardWait(a) PROVE \A c \in Activities : Placed(c)'
  <2>1. /\ pc[a] = "failed" /\ pc'[a] = "guardWait" /\ dependents' = dependents
        /\ frames'[a] = WithScope(frames[a], "released") /\ Depth(a) > 0
        /\ \A c \in Activities \ {a} : Keeps(c)
    BY <1>17, TypeParts DEF OtherTypes, StackTypes, guardWait, At, Goto, Keeps,
                            variableVars, Placed
  <2>2. /\ Depth(a)' > 0 /\ Top(a)'.dictionary = Top(a).dictionary
        /\ Top(a)'.objectScope = "released"
    BY <2>1, TopOf DEF Top, Depth
  <2>3. Placed(a)'
    BY <2>1, <2>2 DEF Placed, Reserving, Watching
  <2> QED  BY <1>3, <1>4, <2>1, <2>3
<1>18. ASSUME guardWake(a) PROVE \A c \in Activities : Placed(c)'
  <2>1. /\ pc[a] = "guardWait" /\ dependents' = dependents /\ Depth(a) > 0
        /\ Top(a).dictionary \in Watchable /\ a \in dependents[Top(a).dictionary]
        /\ Top(a).objectScope = "released"
    BY <1>18 DEF guardWake, At, variableVars, Placed, Watching
  <2>2. CASE held[a]
    <3>1. Asks(a, frames[a], "rewait") /\ reserve(a, frames[a], "rewait")
      BY <1>18, <2>1, <2>2, AsksTop DEF guardWake, Reserving
    <3>2. frames[a][Len(frames[a])] = Top(a)
      BY <2>1, TopOf
    <3>3. Placed(a)'
      BY <2>1, <3>1, <3>2, ReservePlaced
    <3> QED  BY <1>3, <1>4, <2>1, <3>1, <3>3, ReserveMoves
  <2>3. CASE ~held[a]
    <3>1. /\ pc'[a] = "evaluate" /\ frames' = frames
          /\ \A c \in Activities \ {a} : Keeps(c)
      BY <1>18, <2>3, TypeParts DEF OtherTypes, guardWake, Proceed, Goto, Keeps
    <3>2. Top(a)' = Top(a) /\ Depth(a)' = Depth(a)
      BY <3>1 DEF Top, Depth
    <3>3. Placed(a)'
      BY <2>1, <3>1, <3>2 DEF Placed, Reserving, Watching
    <3> QED  BY <1>3, <1>4, <2>1, <3>1, <3>3
  <2> QED  BY <2>2, <2>3
<1>19. ASSUME resume(a) PROVE \A c \in Activities : Placed(c)'
  <2>1. /\ Asks(a, frames[a], "resume") /\ reserve(a, frames[a], "resume")
        /\ dependents' = dependents
    BY <1>19, AsksTop DEF resume, At, Reserving, variableVars, Placed
  <2> QED  BY <1>3, <1>4, <2>1, ReserveMoves, ReservePlaced
<1> QED  BY <1>1, <1>6, <1>7, <1>8, <1>9, <1>10, <1>11, <1>12, <1>13, <1>14, <1>15,
            <1>16, <1>17, <1>18, <1>19 DEF Call, Guard, Assign, Reply, GoOn

-----------------------------------------------------------------------------
LEMMA TypeNext ==
    ASSUME IInv, Next
    PROVE  TypeOK'
<1> USE DEF IInv
<1>1. LocksOK /\ LockTypes /\ StackTypes /\ OtherTypes
  BY TypeParts DEF LocksOK
<1>2. PICK a \in Activities :
        Call(a) \/ Guard(a) \/ Assign(a) \/ Reply(a) \/ GoOn(a)
  BY DEF Next
<1>3. Placed(a)
  OBVIOUS
<1>4. SUFFICES LockTypes' /\ StackTypes' /\ OtherTypes'
  BY TypeParts
<1>5. ASSUME KeepLocks PROVE LockTypes'
  BY <1>1, <1>5 DEF KeepLocks, dictionaryVars, LockTypes
<1>6. ASSUME frames' = frames PROVE StackTypes'
  BY <1>1, <1>6 DEF StackTypes
<1>7. ASSUME NEW s, NEW why, Asks(a, s, why), reserve(a, s, why)
      PROVE  /\ LockTypes' /\ StackTypes'
             /\ guardSem' \in [Activities -> BOOLEAN] /\ pc' \in [Activities -> Places]
  BY <1>7, ReserveTypes DEF LockTypes, StackTypes
<1>8. ASSUME Depth(a) > 0, HasTransfer(a),
             IF Top(a).objectScope = "reserved" THEN release(Top(a).dictionary)
             ELSE KeepLocks
      PROVE  LockTypes'
  <2>1. CASE Top(a).objectScope = "reserved"
    <3>1. PICK d \in Dictionaries : d = Top(a).dictionary
      BY <1>8, TopOf
    <3>2. reserveCount[d] > 0 /\ release(d)
      BY <1>1, <1>8, <2>1, <3>1, Owned
    <3> QED  BY <3>2, ReleaseTypes DEF LockTypes
  <2>2. CASE Top(a).objectScope # "reserved"
    BY <1>5, <1>8, <2>2
  <2> QED  BY <2>1, <2>2
<1>9. ASSUME Depth(a) > 0,
             \/ frames' = [frames EXCEPT ![a] = Popped(@)]
             \/ frames' = [frames EXCEPT ![a] = WithScope(@, "released")]
             \/ frames' = [frames EXCEPT ![a] = WithScope(@, "reserved")]
      PROVE  StackTypes'
  <2>1. \E t \in Seq(Frames) : Len(t) <= MaxDepth /\ frames' = [frames EXCEPT ![a] = t]
    <3>1. Len(frames[a]) - 1 <= MaxDepth /\ Len(frames[a]) <= MaxDepth
      BY <1>9, TopOf, GuardAssumption
    <3> QED  BY <1>9, <3>1, TopOf
  <2> QED  BY <2>1, StackChanged
<1>10. ASSUME NEW p \in Places, pc' = [pc EXCEPT ![a] = p]
       PROVE  pc' \in [Activities -> Places]
  BY <1>1, <1>10 DEF OtherTypes
<1>11. ASSUME Proceed(a, "whenOn") \/ Proceed(a, "rewait")
       PROVE  /\ pc' \in [Activities -> Places] /\ guardSem' \in [Activities -> BOOLEAN]
  BY <1>1, <1>11 DEF OtherTypes, Proceed, Goto, Places
<1>12. ASSUME NEW d \in Dictionaries, invokeGuarded(a, d)
       PROVE  LockTypes' /\ StackTypes' /\ OtherTypes'
  <2>1. PICK s : s = Append(frames[a], Frame(d, "released"))
    OBVIOUS
  <2>2. /\ Asks(a, s, "invoke") /\ reserve(a, s, "invoke")
        /\ value' = value /\ dependents' = dependents /\ held' = held
    BY <1>12, <2>1, AsksNew DEF invokeGuarded, variableVars
  <2> QED  BY <1>1, <1>7, <2>2 DEF OtherTypes
<1>13. ASSUME NEW d \in Dictionaries, invokeUnguarded(a, d)
       PROVE  LockTypes' /\ StackTypes' /\ OtherTypes'
  <2>1. PICK s : s = Append(frames[a], Frame(d, "released"))
    OBVIOUS
  <2>2. s \in Seq(Frames) /\ Len(s) <= MaxDepth
    BY <1>13, <2>1, AsksNew DEF invokeUnguarded, Asks
  <2>3. frames' = [frames EXCEPT ![a] = s]
    BY <1>13, <2>1 DEF invokeUnguarded
  <2>4. KeepLocks /\ OtherTypes'
    BY <1>1, <1>13 DEF invokeUnguarded, OtherTypes, variableVars
  <2> QED  BY <1>5, <2>2, <2>3, <2>4, StackChanged
<1>14. ASSUME endMethod(a) \/ guardOff(a)
       PROVE  LockTypes' /\ StackTypes' /\ OtherTypes'
  <2>1. /\ Depth(a) > 0 /\ HasTransfer(a)
        /\ IF Top(a).objectScope = "reserved" THEN release(Top(a).dictionary)
           ELSE KeepLocks
        /\ \/ frames' = [frames EXCEPT ![a] = Popped(@)]
           \/ frames' = [frames EXCEPT ![a] = WithScope(@, "released")]
    BY <1>14 DEF endMethod, guardOff, At, HasTransfer
  <2>2. OtherTypes'
    BY <1>1, <1>14 DEF endMethod, guardOff, OtherTypes, variableVars
  <2> QED  BY <1>8, <1>9, <2>1, <2>2
<1>15. ASSUME guardOn(a) PROVE LockTypes' /\ StackTypes' /\ OtherTypes'
  <2>1. /\ Asks(a, frames[a], "guardOn") /\ reserve(a, frames[a], "guardOn")
        /\ value' = value /\ dependents' = dependents /\ held' = held
    BY <1>15, AsksTop DEF guardOn, At, Reserving, variableVars
  <2> QED  BY <1>1, <1>7, <2>1 DEF OtherTypes
<1>16. ASSUME guardOnWhen(a) PROVE LockTypes' /\ StackTypes' /\ OtherTypes'
  <2>1. /\ Depth(a) > 0 /\ pc[a] = "run" /\ value' = value /\ held' = held
        /\ dependents' = [dependents EXCEPT ![Top(a).dictionary] = @ \cup {a}]
    BY <1>16 DEF guardOnWhen, At
  <2>2. dependents' \in [Watchable -> SUBSET Activities]
    BY <1>1, <2>1 DEF OtherTypes
  <2>3. CASE Top(a).objectScope = "released"
    <3>1. Asks(a, frames[a], "whenOn") /\ reserve(a, frames[a], "whenOn")
      BY <1>16, <2>3, AsksTop DEF guardOnWhen, At, Reserving
    <3> QED  BY <1>1, <1>7, <2>1, <2>2, <3>1 DEF OtherTypes
  <2>4. CASE Top(a).objectScope # "released"
    <3>1. Proceed(a, "whenOn") /\ KeepLocks /\ frames' = frames
      BY <1>16, <2>4 DEF guardOnWhen
    <3> QED  BY <1>1, <1>5, <1>6, <1>11, <2>1, <2>2, <3>1 DEF OtherTypes
  <2> QED  BY <2>3, <2>4
<1>17. ASSUME guardOffWhen(a) PROVE LockTypes' /\ StackTypes' /\ OtherTypes'
  <2>1. /\ Depth(a) > 0 /\ HasTransfer(a) /\ value' = value /\ held' = held
        /\ dependents' = [dependents EXCEPT ![Top(a).dictionary] = @ \cup {a}]
        /\ IF Top(a).objectScope = "reserved" THEN release(Top(a).dictionary)
           ELSE KeepLocks
        /\ frames' = [frames EXCEPT ![a] = WithScope(@, "released")]
        /\ Proceed(a, "whenOn")
    BY <1>17 DEF guardOffWhen, At, HasTransfer
  <2>2. OtherTypes'
    BY <1>1, <1>11, <2>1 DEF OtherTypes
  <2> QED  BY <1>8, <1>9, <2>1, <2>2
<1>18. ASSUME NEW v \in BOOLEAN, notify(a, v)
       PROVE  LockTypes' /\ StackTypes' /\ OtherTypes'
  <2>1. PICK d : d = Top(a).dictionary
    OBVIOUS
  <2>2. /\ frames' = frames /\ value' = [value EXCEPT ![d] = v]
        /\ waitingObject' = [b \in Activities |->
                               IF b \in dependents[d] THEN None ELSE waitingObject[b]]
        /\ guardSem' = [b \in Activities |-> guardSem[b] \/ b \in dependents[d]]
        /\ reservingActivity' = reservingActivity /\ reserveCount' = reserveCount
        /\ waitingActivities' = waitingActivities /\ reserveSem' = reserveSem
        /\ dependents' = dependents /\ held' = held /\ pc' = pc
    BY <1>18, <2>1 DEF notify, dictionaryVars
  <2>3. LockTypes'
    BY <1>1, <2>2 DEF LockTypes
  <2>4. OtherTypes'
    BY <1>1, <2>2 DEF OtherTypes
  <2> QED  BY <1>6, <2>2, <2>3, <2>4
<1>19. ASSUME NEW b \in Activities, reply(a, b)
       PROVE  LockTypes' /\ StackTypes' /\ OtherTypes'
  <2>1. /\ Depth(a) > 0 /\ HasTransfer(a) /\ value' = value /\ dependents' = dependents
        /\ guardSem' = guardSem /\ held' = held
        /\ frames' = [frames EXCEPT ![a] = Popped(@), ![b] = <<Top(a)>>]
    BY <1>19 DEF reply, At, HasTransfer, variableVars
  <2>2. StackTypes'
    <3>1. /\ Popped(frames[a]) \in Seq(Frames) /\ <<Top(a)>> \in Seq(Frames)
          /\ Len(Popped(frames[a])) <= MaxDepth /\ Len(<<Top(a)>>) <= MaxDepth
      BY <1>19, <2>1, TopOf, ReplyMoves, GuardAssumption
    <3> QED  BY <1>1, <2>1, <3>1 DEF StackTypes
  <2>3. pc' \in [Activities -> Places]
    BY <1>1, <1>19 DEF reply, Goto, OtherTypes, Places
  <2>4. LockTypes'
    <3>1. CASE \/ Top(a).objectScope = "released"
               \/ reserveCount[Top(a).dictionary] # 1
      BY <1>5, <1>8, <1>19, <2>1, <3>1, TopOf DEF reply
    <3>2. CASE /\ Top(a).objectScope # "released"
               /\ reserveCount[Top(a).dictionary] = 1
      <4>1. /\ reservingActivity' = [reservingActivity EXCEPT ![Top(a).dictionary] = b]
            /\ reserveCount' = reserveCount /\ waitingActivities' = waitingActivities
            /\ waitingObject' = waitingObject /\ reserveSem' = reserveSem
        BY <1>19, <3>2 DEF reply
      <4> QED  BY <1>1, <4>1 DEF LockTypes
    <3> QED  BY <3>1, <3>2
  <2> QED  BY <1>1, <2>1, <2>2, <2>3, <2>4 DEF OtherTypes
<1>20. ASSUME waitReserve(a) PROVE LockTypes' /\ StackTypes' /\ OtherTypes'
  <2>1. /\ pc[a] \in Reserving /\ Depth(a) > 0 /\ KeepLocks
        /\ value' = value /\ dependents' = dependents /\ held' = held
        /\ frames' = [frames EXCEPT ![a] = WithScope(@, "reserved")]
        /\ Proceed(a, pc[a])
    BY <1>3, <1>20 DEF waitReserve, variableVars, Placed, Reserving
  <2>2. pc' \in [Activities -> Places] /\ guardSem' \in [Activities -> BOOLEAN]
    BY <1>1, <2>1 DEF Proceed, Goto, Reserving, OtherTypes, Places
  <2> QED  BY <1>1, <1>5, <1>9, <2>1, <2>2 DEF OtherTypes
<1>21. ASSUME evaluate(a) PROVE LockTypes' /\ StackTypes' /\ OtherTypes'
  BY <1>1, <1>5, <1>6, <1>21 DEF evaluate, Goto, variableVars, OtherTypes, Places
<1>22. ASSUME clearGuard(a) PROVE LockTypes' /\ StackTypes' /\ OtherTypes'
  BY <1>1, <1>5, <1>6, <1>22 DEF clearGuard, Goto, OtherTypes, Places
<1>23. ASSUME guardWait(a) PROVE LockTypes' /\ StackTypes' /\ OtherTypes'
  <2>1. /\ Depth(a) > 0 /\ HasTransfer(a) /\ value' = value /\ dependents' = dependents
        /\ guardSem' = guardSem
        /\ IF Top(a).objectScope = "reserved" THEN release(Top(a).dictionary)
           ELSE KeepLocks
        /\ frames' = [frames EXCEPT ![a] = WithScope(@, "released")]
    BY <1>3, <1>23 DEF guardWait, At, HasTransfer, variableVars, Placed
  <2>2. held' \in [Activities -> BOOLEAN] /\ pc' \in [Activities -> Places]
    BY <1>1, <1>23 DEF guardWait, Goto, OtherTypes, Places
  <2> QED  BY <1>1, <1>8, <1>9, <2>1, <2>2 DEF OtherTypes
<1>24. ASSUME guardWake(a) PROVE LockTypes' /\ StackTypes' /\ OtherTypes'
  <2>1. /\ pc[a] = "guardWait" /\ value' = value /\ dependents' = dependents
        /\ held' = [held EXCEPT ![a] = FALSE]
    BY <1>24 DEF guardWake, At, variableVars
  <2>2. held' \in [Activities -> BOOLEAN]
    BY <1>1, <2>1 DEF OtherTypes
  <2>3. CASE held[a]
    <3>1. Asks(a, frames[a], "rewait") /\ reserve(a, frames[a], "rewait")
      BY <1>24, <2>1, <2>3, AsksTop DEF guardWake, Reserving, Placed
    <3> QED  BY <1>1, <1>7, <2>1, <2>2, <3>1 DEF OtherTypes
  <2>4. CASE ~held[a]
    <3>1. Proceed(a, "rewait") /\ KeepLocks /\ frames' = frames
      BY <1>24, <2>4 DEF guardWake
    <3> QED  BY <1>1, <1>5, <1>6, <1>11, <2>1, <2>2, <3>1 DEF OtherTypes
  <2> QED  BY <2>3, <2>4
<1>25. ASSUME resume(a) PROVE LockTypes' /\ StackTypes' /\ OtherTypes'
  <2>1. /\ Asks(a, frames[a], "resume") /\ reserve(a, frames[a], "resume")
        /\ value' = value /\ dependents' = dependents /\ held' = held
    BY <1>25, AsksTop DEF resume, At, Reserving, variableVars, Placed
  <2> QED  BY <1>1, <1>7, <2>1 DEF OtherTypes
<1> QED  BY <1>2, <1>12, <1>13, <1>14, <1>15, <1>16, <1>17, <1>18, <1>19, <1>20, <1>21,
            <1>22, <1>23, <1>24, <1>25 DEF Call, Guard, Assign, Reply, GoOn

-----------------------------------------------------------------------------
LEMMA GuardNext ==
    ASSUME IInv, Next
    PROVE  GuardNotMissed'
<1> USE DEF IInv
<1>1. PICK a \in Activities :
        Call(a) \/ Guard(a) \/ Assign(a) \/ Reply(a) \/ GoOn(a)
  BY DEF Next
<1>2. ASSUME NEW c \in Activities, Keeps(c), value' = value, guardSem'[c] = guardSem[c],
             pc'[c] \in {"failed", "guardWait"}, value'[Top(c)'.dictionary]
      PROVE  guardSem'[c]
  BY <1>2 DEF Keeps, GuardNotMissed, Top, Depth
<1>3. ASSUME pc'[a] \notin {"failed", "guardWait"}, value' = value,
             \A c \in Activities \ {a} : Keeps(c) /\ guardSem'[c] = guardSem[c]
      PROVE  GuardNotMissed'
  BY <1>2, <1>3 DEF GuardNotMissed
<1>4. ASSUME NEW s, NEW why, Asks(a, s, why), reserve(a, s, why), value' = value
      PROVE  GuardNotMissed'
  <2>1. why \notin {"failed", "guardWait"}
    BY <1>4 DEF Asks, Reserving
  <2> QED  BY <1>3, <1>4, <2>1, ReserveMoves
<1>5. ASSUME NEW d \in Dictionaries, invokeGuarded(a, d) PROVE GuardNotMissed'
  <2>1. PICK s : s = Append(frames[a], Frame(d, "released"))
    OBVIOUS
  <2>2. Asks(a, s, "invoke") /\ reserve(a, s, "invoke") /\ value' = value
    BY <1>5, <2>1, AsksNew DEF invokeGuarded, variableVars
  <2> QED  BY <1>4, <2>2
<1>6. ASSUME NEW d \in Dictionaries, invokeUnguarded(a, d) PROVE GuardNotMissed'
  BY <1>3, <1>6, TypeParts DEF invokeUnguarded, MayCall, At, variableVars, StackTypes, Keeps
<1>7. ASSUME endMethod(a) \/ guardOff(a) PROVE GuardNotMissed'
  BY <1>3, <1>7, TypeParts DEF endMethod, guardOff, At, variableVars, StackTypes, Keeps
<1>8. ASSUME guardOn(a) PROVE GuardNotMissed'
  <2>1. /\ Asks(a, frames[a], "guardOn") /\ reserve(a, frames[a], "guardOn")
        /\ value' = value
    BY <1>8, AsksTop DEF guardOn, At, Reserving, variableVars
  <2> QED  BY <1>4, <2>1
<1>9. ASSUME guardOnWhen(a) PROVE GuardNotMissed'
  <2>1. CASE Top(a).objectScope = "released"
    <3>1. /\ Asks(a, frames[a], "whenOn") /\ reserve(a, frames[a], "whenOn")
          /\ value' = value
      BY <1>9, <2>1, AsksTop DEF guardOnWhen, At, Reserving
    <3> QED  BY <1>4, <3>1
  <2>2. CASE Top(a).objectScope # "released"
    BY <1>3, <1>9, <2>2, TypeParts DEF guardOnWhen, Proceed, Goto, OtherTypes, Keeps
  <2> QED  BY <2>1, <2>2
<1>10. ASSUME guardOffWhen(a) PROVE GuardNotMissed'
  BY <1>3, <1>10, TypeParts DEF guardOffWhen, Proceed, Goto, OtherTypes, StackTypes, Keeps
<1>11. ASSUME NEW v \in BOOLEAN, notify(a, v) PROVE GuardNotMissed'
  <2>1. PICK d : d = Top(a).dictionary
    OBVIOUS
  <2>2. /\ frames' = frames /\ pc' = pc /\ d \in Watchable
        /\ value' = [value EXCEPT ![d] = v]
        /\ guardSem' = [b \in Activities |-> guardSem[b] \/ b \in dependents[d]]
    BY <1>11, <2>1 DEF notify
  <2> SUFFICES ASSUME NEW c \in Activities, pc'[c] \in {"failed", "guardWait"},
                      value'[Top(c)'.dictionary]
               PROVE  guardSem'[c]
    BY DEF GuardNotMissed
  <2>3. Top(c)' = Top(c) /\ pc[c] \in {"failed", "guardWait"}
    BY <2>2 DEF Top, Depth
  <2>4. Top(c).dictionary \in Watchable /\ c \in dependents[Top(c).dictionary]
    BY <2>3 DEF Placed, Watching
  <2>5. CASE Top(c).dictionary = d
    BY <2>2, <2>4, <2>5
  <2>6. CASE Top(c).dictionary # d
    <3>1. value[Top(c).dictionary]
      BY <2>2, <2>3, <2>4, <2>6, TypeParts DEF OtherTypes
    <3>2. guardSem[c]
      BY <2>3, <3>1 DEF GuardNotMissed
    <3> QED  BY <2>2, <3>2
  <2> QED  BY <2>5, <2>6
<1>12. ASSUME NEW b \in Activities, reply(a, b) PROVE GuardNotMissed'
  <2>1. value' = value /\ guardSem' = guardSem
    BY <1>12 DEF reply, variableVars
  <2>2. /\ \A c \in Activities \ {a, b} : Keeps(c)
        /\ pc'[a] = "run" /\ pc'[b] \in {"run", "replied"}
    BY <1>12, ReplyMoves
  <2> QED  BY <1>2, <2>1, <2>2 DEF GuardNotMissed
<1>13. ASSUME waitReserve(a) PROVE GuardNotMissed'
  BY <1>3, <1>13, TypeParts DEF waitReserve, Proceed, Goto, variableVars, Reserving,
                                OtherTypes, StackTypes, Keeps
<1>14. ASSUME evaluate(a) PROVE GuardNotMissed'
  <2>1. /\ value' = value /\ guardSem' = guardSem /\ frames' = frames
        /\ pc' = [pc EXCEPT ![a] = IF value[Top(a).dictionary] THEN "passed"
                                   ELSE "failed"]
    BY <1>14 DEF evaluate, Goto, variableVars
  <2>2. \A c \in Activities \ {a} : Keeps(c)
    BY <2>1, TypeParts DEF OtherTypes, Keeps
  <2>3. pc'[a] = IF value[Top(a).dictionary] THEN "passed" ELSE "failed"
    BY <2>1, TypeParts DEF OtherTypes
  <2>4. Top(a)' = Top(a)
    BY <2>1 DEF Top, Depth
  <2> QED  BY <1>2, <2>1, <2>2, <2>3, <2>4 DEF GuardNotMissed
<1>15. ASSUME clearGuard(a) PROVE GuardNotMissed'
  BY <1>3, <1>15, TypeParts DEF clearGuard, Goto, OtherTypes, Keeps
<1>16. ASSUME guardWait(a) PROVE GuardNotMissed'
  <2>1. /\ pc[a] = "failed" /\ value' = value /\ guardSem' = guardSem /\ Depth(a) > 0
        /\ frames'[a] = WithScope(frames[a], "released")
        /\ \A c \in Activities \ {a} : Keeps(c)
    BY <1>16, TypeParts DEF guardWait, At, Goto, variableVars, OtherTypes, StackTypes,
                            Keeps, Placed
  <2>2. Top(a)'.dictionary = Top(a).dictionary
    BY <2>1, TopOf DEF Top, Depth
  <2> QED  BY <1>2, <2>1, <2>2 DEF GuardNotMissed
<1>17. ASSUME guardWake(a) PROVE GuardNotMissed'
  <2>1. CASE held[a]
    <3>1. /\ Asks(a, frames[a], "rewait") /\ reserve(a, frames[a], "rewait")
          /\ value' = value
      BY <1>17, <2>1, AsksTop DEF guardWake, At, Reserving, Placed, variableVars
    <3> QED  BY <1>4, <3>1
  <2>2. CASE ~held[a]
    BY <1>3, <1>17, <2>2, TypeParts DEF guardWake, Proceed, Goto, variableVars,
                                        OtherTypes, Keeps
  <2> QED  BY <2>1, <2>2
<1>18. ASSUME resume(a) PROVE GuardNotMissed'
  <2>1. Asks(a, frames[a], "resume") /\ reserve(a, frames[a], "resume") /\ value' = value
    BY <1>18, AsksTop DEF resume, At, Reserving, variableVars, Placed
  <2> QED  BY <1>4, <2>1
<1> QED  BY <1>1, <1>5, <1>6, <1>7, <1>8, <1>9, <1>10, <1>11, <1>12, <1>13, <1>14,
            <1>15, <1>16, <1>17, <1>18 DEF Call, Guard, Assign, Reply, GoOn

-----------------------------------------------------------------------------
LEMMA InvInit == Init => IInv
<1> SUFFICES ASSUME Init PROVE IInv
  OBVIOUS
<1>1. \A a \in Activities : frames[a] = <<>> /\ pc[a] = "run" /\ Depth(a) = 0
  BY DEF Init, Depth
<1>2. TypeOK
  <2>1. /\ LockTypes /\ OtherTypes
    BY EmptySeq DEF Init, LockTypes, OtherTypes, Places
  <2>2. StackTypes
    BY <1>1, GuardAssumption, EmptySeq DEF Init, StackTypes, Depth
  <2> QED  BY <2>1, <2>2, TypeParts
<1>3. \A a \in Activities : Placed(a)
  BY <1>1 DEF Placed, Reserving, Watching
<1>4. \A a \in Activities, d \in Dictionaries :
        Reservations(a, d) = {} /\ ~HandedTo(a, d) /\ ~BlockedAt(a, d)
  BY <1>1 DEF Reservations, HandedTo, BlockedAt, Blocked, Reserving
<1>5. ASSUME NEW d \in Dictionaries PROVE LockOK(d) /\ QueueOK(d)
  <2>1. /\ reservingActivity[d] = None /\ reserveCount[d] = 0
        /\ waitingActivities[d] = <<>> /\ Len(waitingActivities[d]) = 0
    BY DEF Init
  <2> QED  BY <1>4, <2>1, GuardAssumption DEF LockOK, QueueOK
<1>6. GuardNotMissed
  BY <1>1 DEF GuardNotMissed
<1> QED  BY <1>2, <1>3, <1>5, <1>6 DEF IInv

LEMMA InvHolds == Spec => []IInv
<1>1. IInv /\ [Next]_vars => IInv'
  <2>1. ASSUME IInv, Next PROVE IInv'
    BY <2>1, TypeNext, PlacedNext, LocksNext, GuardNext DEF IInv, LocksOK
  <2>2. ASSUME IInv, UNCHANGED vars PROVE IInv'
    <3>1. /\ \A c \in Activities : Keeps(c) /\ Watched(c)
          /\ KeepLocks /\ value' = value /\ guardSem' = guardSem
      BY <2>2 DEF vars, dictionaryVars, variableVars, Keeps, Watched, KeepLocks
    <3>2. TypeOK'
      BY <2>2 DEF IInv, vars, dictionaryVars, variableVars, TypeOK, Depth
    <3>3. LocksOK'
      BY <2>2, <3>1, LocksKept DEF IInv, LocksOK
    <3>4. \A c \in Activities : Placed(c)'
      BY <2>2, <3>1, KeepsPlaced DEF IInv
    <3>5. GuardNotMissed'
      BY <2>2, <3>1 DEF IInv, GuardNotMissed, Keeps, Top, Depth
    <3> QED  BY <3>2, <3>3, <3>4, <3>5 DEF IInv, LocksOK
  <2> QED  BY <2>1, <2>2
<1> QED  BY <1>1, InvInit, PTL DEF Spec

(* Every variable keeps its type; no lock is released below zero.          *)
THEOREM GuardTypeCorrect == Spec => []TypeOK
<1>1. IInv => TypeOK
  BY DEF IInv
<1> QED  BY <1>1, InvHolds, PTL

(* A scope is locked for one activity, as often as it has activations that *)
(* reserved it.                                                            *)
THEOREM ScopesExclusive == Spec => []ScopeExclusive
<1>1. ASSUME IInv PROVE ScopeExclusive
  <2> SUFFICES
        ASSUME NEW d \in Dictionaries
        PROVE  LET handed == {a \in Activities : /\ pc[a] \in Reserving /\ reserveSem[a]
                                                 /\ Top(a).dictionary = d}
                   owners == {a \in Activities : Reservations(a, d) # {}} \cup handed
               IN  /\ reservingActivity[d] = None => owners = {} /\ reserveCount[d] = 0
                   /\ reservingActivity[d] # None =>
                        /\ owners = {reservingActivity[d]}
                        /\ reserveCount[d] =
                             Cardinality(Reservations(reservingActivity[d], d))
                               + Cardinality(handed)
    BY DEF ScopeExclusive
  <2> DEFINE handed == {a \in Activities : /\ pc[a] \in Reserving /\ reserveSem[a]
                                           /\ Top(a).dictionary = d}
             owners == {a \in Activities : Reservations(a, d) # {}} \cup handed
  <2>1. LockOK(d) /\ TypeOK
    BY <1>1 DEF IInv
  <2>2. handed = {a \in Activities : HandedTo(a, d)}
    BY DEF HandedTo
  <2>3. CASE reservingActivity[d] = None
    <3>1. owners = {}
      BY <2>1, <2>2, <2>3, GuardAssumption DEF LockOK
    <3> QED  BY <2>1, <2>3, <3>1 DEF LockOK
  <2>4. CASE reservingActivity[d] # None
    <3>1. PICK o \in Activities : o = reservingActivity[d]
      BY <2>1, <2>4 DEF TypeOK
    <3>2. handed \subseteq {o} /\ owners \subseteq {o}
      BY <2>1, <2>2, <3>1 DEF LockOK
    <3>3. reserveCount[d] = Cardinality(Reservations(o, d))
                              + (IF HandedTo(o, d) THEN 1 ELSE 0)
      BY <2>1, <3>1, OwnerCount
    <3>4. CASE HandedTo(o, d)
      <4>1. handed = {o} /\ owners = {o}
        BY <2>2, <3>2, <3>4
      <4>2. Cardinality({o}) = 1
        BY FS_Singleton
      <4>3. reserveCount[d] = Cardinality(Reservations(o, d)) + Cardinality(handed)
        <5>1. reserveCount[d] = Cardinality(Reservations(o, d)) + 1
          BY <3>3, <3>4
        <5> QED  BY <4>1, <4>2, <5>1
      <4> QED  BY <2>4, <3>1, <4>1, <4>3
    <3>5. CASE ~HandedTo(o, d)
      <4>1. handed = {} /\ Cardinality(handed) = 0
        BY <2>2, <3>2, <3>5, FS_EmptySet
      <4>2. reserveCount[d] = Cardinality(Reservations(o, d)) + 0
        BY <3>3, <3>5
      <4>3. reserveCount[d] > 0
        BY <2>1, <2>4 DEF LockOK
      <4>4. Reservations(o, d) # {}
        BY <4>2, <4>3, FS_EmptySet
      <4>5. owners = {o}
        BY <3>2, <4>4
      <4>6. reserveCount[d] = Cardinality(Reservations(o, d)) + Cardinality(handed)
        BY <4>1, <4>2
      <4> QED  BY <2>4, <3>1, <4>5, <4>6
    <3> QED  BY <3>4, <3>5
  <2> QED  BY <2>3, <2>4
<1> QED  BY <1>1, InvHolds, PTL

(* Whoever waits in reserve() is in line, once, and nobody else.           *)
THEOREM WaitersInLine == Spec => []WaitersQueued
<1>1. ASSUME IInv PROVE WaitersQueued
  <2>1. ASSUME NEW d \in Dictionaries
        PROVE  {waitingActivities[d][i] : i \in 1..Len(waitingActivities[d])}
                 = {a \in Activities : Blocked(a) /\ Top(a).dictionary = d}
    <3>1. \A i \in 1..Len(waitingActivities[d]) : waitingActivities[d][i] \in Activities
      BY <1>1, ElementOfSeq DEF IInv, TypeOK
    <3>2. \A a \in Activities :
            BlockedAt(a, d) <=> \E i \in 1..Len(waitingActivities[d]) :
                                    waitingActivities[d][i] = a
      BY <1>1 DEF IInv, QueueOK
    <3> QED  BY <3>1, <3>2 DEF BlockedAt
  <2> QED  BY <1>1, <2>1 DEF WaitersQueued, IInv, QueueOK
<1> QED  BY <1>1, InvHolds, PTL

(* No GUARD wait sleeps through the assignment that makes it true.         *)
THEOREM AssignmentsSeen == Spec => []GuardNotMissed
<1>1. IInv => GuardNotMissed
  BY DEF IInv
<1> QED  BY <1>1, InvHolds, PTL

(* A lock somebody waits for changes hands only as HandedInOrder says.     *)
NobodyBarges ==
    \A d \in Dictionaries :
         /\ waitingActivities[d] # <<>>
         /\ reservingActivity'[d] # reservingActivity[d]
         => \/ reservingActivity'[d] = Head(waitingActivities[d])
            \/ reply(reservingActivity[d], reservingActivity'[d])

LEMMA OrderNext ==
    ASSUME IInv, Next
    PROVE  NobodyBarges
<1> USE DEF IInv
<1>1. PICK a \in Activities :
        Call(a) \/ Guard(a) \/ Assign(a) \/ Reply(a) \/ GoOn(a)
  BY DEF Next
<1>2. ASSUME reservingActivity' = reservingActivity PROVE NobodyBarges
  BY <1>2 DEF NobodyBarges
<1>3. ASSUME KeepLocks PROVE NobodyBarges
  BY <1>2, <1>3 DEF KeepLocks, dictionaryVars
<1>4. ASSUME NEW s, NEW why, reserve(a, s, why) PROVE NobodyBarges
  <2>1. \/ reservingActivity' = reservingActivity
        \/ \E d : /\ reservingActivity[d] \in {None, a}
                  /\ reservingActivity' = [reservingActivity EXCEPT ![d] = a]
    BY <1>4 DEF reserve, dictionaryVars
  <2>2. ASSUME NEW d, reservingActivity[d] \in {None, a},
               reservingActivity' = [reservingActivity EXCEPT ![d] = a],
               NEW e \in Dictionaries, waitingActivities[e] # <<>>
        PROVE  reservingActivity'[e] = reservingActivity[e]
    <3>1. reservingActivity[e] # None
      BY <2>2 DEF LockOK
    <3> QED  BY <2>2, <3>1 DEF TypeOK
  <2> QED  BY <2>1, <2>2 DEF NobodyBarges
<1>5. ASSUME NEW d \in Dictionaries, release(d) PROVE NobodyBarges
  <2>1. /\ \A e \in Dictionaries : e # d => reservingActivity'[e] = reservingActivity[e]
        /\ waitingActivities[d] # <<>> =>
             reservingActivity'[d] \in {reservingActivity[d], Head(waitingActivities[d])}
    BY <1>5 DEF release, ReleaseTo, TypeOK
  <2> QED  BY <2>1 DEF NobodyBarges
<1>6. ASSUME Depth(a) > 0,
             IF Top(a).objectScope = "reserved" THEN release(Top(a).dictionary)
             ELSE KeepLocks
      PROVE  NobodyBarges
  BY <1>3, <1>5, <1>6, TopOf
<1>7. ASSUME NEW b \in Activities, reply(a, b) PROVE NobodyBarges
  <2>1. Depth(a) > 0 /\ HasTransfer(a)
    BY <1>7 DEF reply, At, HasTransfer
  <2>2. PICK d \in Dictionaries : d = Top(a).dictionary
    BY <2>1, TopOf
  <2>3. CASE Top(a).objectScope = "released"
    BY <1>3, <1>7, <2>3 DEF reply
  <2>4. CASE Top(a).objectScope # "released" /\ reserveCount[d] # 1
    BY <1>5, <1>7, <2>2, <2>4 DEF reply
  <2>5. CASE Top(a).objectScope # "released" /\ reserveCount[d] = 1
    <3>1. reservingActivity' = [reservingActivity EXCEPT ![d] = b]
      BY <1>7, <2>2, <2>5 DEF reply
    <3>2. reservingActivity[d] = a
      BY <2>1, <2>2, <2>5, TopOf, Owned DEF LocksOK
    <3>3. /\ reservingActivity'[d] = b
          /\ \A e \in Dictionaries : e # d => reservingActivity'[e] = reservingActivity[e]
      BY <3>1 DEF TypeOK
    <3>4. reply(reservingActivity[d], reservingActivity'[d])
      BY <1>7, <3>2, <3>3
    <3> QED  BY <3>3, <3>4 DEF NobodyBarges
  <2> QED  BY <2>3, <2>4, <2>5
<1>8. ASSUME Call(a) PROVE NobodyBarges
  BY <1>3, <1>4, <1>8 DEF Call, invokeGuarded, invokeUnguarded
<1>9. ASSUME Guard(a) PROVE NobodyBarges
  BY <1>3, <1>4, <1>6, <1>9 DEF Guard, guardOn, guardOff, guardOnWhen, guardOffWhen
<1>10. ASSUME Assign(a) PROVE NobodyBarges
  BY <1>2, <1>10 DEF Assign, notify, dictionaryVars
<1>11. ASSUME GoOn(a) PROVE NobodyBarges
  <2>1. pc[a] = "failed" => Depth(a) > 0
    BY DEF Placed
  <2> QED  BY <1>3, <1>4, <1>6, <1>11, <2>1 DEF GoOn, endMethod, waitReserve, evaluate,
              clearGuard, guardWait, guardWake, resume, At
<1> QED  BY <1>1, <1>7, <1>8, <1>9, <1>10, <1>11 DEF Reply

(* HandedInOrder for any number of activities and objects: no step of any  *)
(* execution hands a dictionary past one that waits for it in line.        *)
THEOREM ServedInOrder == Spec => HandedInOrder
<1>1. IInv /\ [Next]_vars => [NobodyBarges]_vars
  BY OrderNext
<1> QED  BY <1>1, InvHolds, PTL DEF Spec, HandedInOrder, NobodyBarges

-----------------------------------------------------------------------------
(***************************************************************************)
(* The scope locks implement ScopeLock: what the frames of an activity say *)
(* of its locks is what their owners and counters say, so every step of    *)
(* the locks is seen as one of the holders and their lines.                *)
(***************************************************************************)
OwnedBy(owner, count) ==
    [d \in Dictionaries |-> [a \in Activities |-> IF owner[d] = a THEN count[d] ELSE 0]]

LEMMA InsideIs ==
    TypeOK /\ LocksOK => Inside = OwnedBy(reservingActivity, reserveCount)
<1> SUFFICES ASSUME TypeOK, LocksOK
             PROVE  Inside = OwnedBy(reservingActivity, reserveCount)
  OBVIOUS
<1>1. ASSUME NEW d \in Dictionaries, NEW a \in Activities
      PROVE  Cardinality(Reservations(a, d)) + (IF HandedTo(a, d) THEN 1 ELSE 0)
               = IF reservingActivity[d] = a THEN reserveCount[d] ELSE 0
  <2>1. LockOK(d)
    BY DEF LocksOK
  <2>2. CASE reservingActivity[d] = a
    BY <2>1, <2>2 DEF LockOK
  <2>3. CASE reservingActivity[d] # a
    <3>1. Reservations(a, d) = {} /\ ~HandedTo(a, d)
      BY <2>1, <2>3 DEF LockOK
    <3>2. Cardinality(Reservations(a, d)) = 0
      BY <3>1, FS_EmptySet
    <3> QED  BY <2>3, <3>1, <3>2
  <2> QED  BY <2>2, <2>3
<1>2. \A d \in Dictionaries, a \in Activities :
        (pc[a] \in Reserving /\ reserveSem[a] /\ Top(a).dictionary = d) <=> HandedTo(a, d)
  BY DEF HandedTo
<1> QED  BY <1>1, <1>2 DEF Inside, OwnedBy

LEMMA InsideThen ==
    TypeOK' /\ LocksOK' => Inside' = OwnedBy(reservingActivity', reserveCount')
<1>1. (TypeOK /\ LocksOK => Inside = OwnedBy(reservingActivity, reserveCount))'
  BY InsideIs, PTL
<1> QED  BY <1>1

(* Who does not wait in reserve() is in no line.                           *)
LEMMA NotInLine ==
    ASSUME LocksOK, NEW a \in Activities, pc[a] \notin Reserving
    PROVE  ~SL!InLine(a)
BY DEF LocksOK, QueueOK, BlockedAt, Blocked, SL!InLine

(* Steps that leave the locks alone stutter.                               *)
Refined == [SL!LockNext]_(SL!lockVars)
Stays == TypeOK /\ LocksOK /\ TypeOK' /\ LocksOK'

LEMMA LocksStutter ==
    ASSUME Stays, reservingActivity' = reservingActivity, reserveCount' = reserveCount,
           waitingActivities' = waitingActivities
    PROVE  Refined
BY InsideIs, InsideThen DEF Refined, Stays, SL!lockVars

LEMMA StepRefines == SL!LockStep => Refined
BY DEF Refined, SL!LockNext

LEMMA OwnedNow ==
    ASSUME NEW d \in Dictionaries
    PROVE  OwnedBy(reservingActivity, reserveCount)[d]
             = [a \in Activities |-> IF reservingActivity[d] = a THEN reserveCount[d] ELSE 0]
BY DEF OwnedBy

LEMMA InsideTypes ==
    ASSUME Stays
    PROVE  Inside \in [Dictionaries -> [Activities -> Nat]]
<1>1. Inside = OwnedBy(reservingActivity, reserveCount)
  BY InsideIs DEF Stays
<1>2. \A d \in Dictionaries : reserveCount[d] \in Nat
  BY DEF Stays, TypeOK
<1> QED  BY <1>1, <1>2 DEF OwnedBy

(* Only the lock of d changes.                                             *)
LEMMA InsideChange ==
    ASSUME Stays, NEW d \in Dictionaries,
           \A e \in Dictionaries \ {d} :
               reservingActivity'[e] = reservingActivity[e] /\ reserveCount'[e] = reserveCount[e]
    PROVE  /\ Inside[d] = [a \in Activities |->
                             IF reservingActivity[d] = a THEN reserveCount[d] ELSE 0]
           /\ Inside' = [Inside EXCEPT
                           ![d] = [a \in Activities |->
                             IF reservingActivity'[d] = a THEN reserveCount'[d] ELSE 0]]
<1>1. /\ Inside = OwnedBy(reservingActivity, reserveCount)
      /\ Inside' = OwnedBy(reservingActivity', reserveCount')
  BY InsideIs, InsideThen DEF Stays
<1>2. OwnedBy(reservingActivity', reserveCount')
        = [OwnedBy(reservingActivity, reserveCount) EXCEPT
             ![d] = [a \in Activities |->
                       IF reservingActivity'[d] = a THEN reserveCount'[d] ELSE 0]]
  BY DEF OwnedBy
<1> QED  BY <1>1, <1>2, OwnedNow

(* reserve(): in, in line, or refused.                                     *)
LEMMA ReserveRefines ==
    ASSUME Stays, NEW a \in Activities, NEW s, NEW why, Asks(a, s, why),
           reserve(a, s, why)
    PROVE  Refined
<1>1. PICK d \in Dictionaries : d = s[Len(s)].dictionary
  <2>1. s \in Seq(Frames) /\ Len(s) > 0
    BY DEF Asks
  <2> QED  BY <2>1, SetScope
<1>2. ~SL!InLine(a)
  BY NotInLine DEF Asks, Stays
<1>3. /\ reservingActivity \in [Dictionaries -> Activities \cup {None}]
      /\ reserveCount \in [Dictionaries -> Nat]
      /\ waitingActivities \in [Dictionaries -> Seq(Activities)]
      /\ a # None /\ LockOK(d)
  BY GuardAssumption DEF Stays, TypeOK, LocksOK
<1>4. CASE reservingActivity[d] \in {None, a}
  <2>1. PICK n \in Nat : n = IF reservingActivity[d] = a THEN reserveCount[d] + 1 ELSE 1
    BY <1>3
  <2>2. /\ reservingActivity' = [reservingActivity EXCEPT ![d] = a]
        /\ reserveCount' = [reserveCount EXCEPT ![d] = n]
        /\ waitingActivities' = waitingActivities
    BY <1>1, <1>4, <2>1 DEF reserve
  <2>3. /\ Inside[d] = [b \in Activities |->
                          IF reservingActivity[d] = b THEN reserveCount[d] ELSE 0]
        /\ Inside' = [Inside EXCEPT ![d] = [b \in Activities |-> IF a = b THEN n ELSE 0]]
    <3>1. /\ reservingActivity'[d] = a /\ reserveCount'[d] = n
          /\ \A e \in Dictionaries \ {d} : /\ reservingActivity'[e] = reservingActivity[e]
                                          /\ reserveCount'[e] = reserveCount[e]
      BY <1>3, <2>2
    <3> QED  BY <3>1, InsideChange
  <2>4. [b \in Activities |-> IF a = b THEN n ELSE 0] = [Inside[d] EXCEPT ![a] = @ + 1]
    <3>1. /\ Inside[d][a] + 1 = n
          /\ \A b \in Activities \ {a} : Inside[d][b] = 0
      BY <1>3, <1>4, <2>1, <2>3 DEF LockOK
    <3> QED  BY <2>3, <3>1
  <2>5. Inside' = [Inside EXCEPT ![d][a] = @ + 1]
    BY <2>3, <2>4
  <2>6. \/ Inside[d][a] > 0
        \/ waitingActivities[d] = <<>> /\ \A b \in Activities : Inside[d][b] = 0
    BY <1>3, <1>4, <2>3, GuardAssumption DEF LockOK
  <2>7. SL!Enter(a, d)
    BY <1>2, <2>2, <2>5, <2>6 DEF SL!Enter
  <2> QED  BY <2>7, StepRefines DEF SL!LockStep
<1>5. CASE reservingActivity[d] \notin {None, a} /\ ~checkDeadLock(reservingActivity[d], a)
  <2>1. /\ reservingActivity' = reservingActivity /\ reserveCount' = reserveCount
        /\ waitingActivities' = [waitingActivities EXCEPT ![d] = Append(@, a)]
    BY <1>1, <1>5 DEF reserve
  <2>2. Inside = OwnedBy(reservingActivity, reserveCount) /\ Inside' = Inside
    BY <2>1, InsideIs, InsideThen DEF Stays
  <2>3. \E b \in Activities \ {a} : Inside[d][b] > 0
    <3>1. reservingActivity[d] \in Activities \ {a} /\ reserveCount[d] > 0
      BY <1>3, <1>5 DEF LockOK
    <3> QED  BY <2>2, <3>1, OwnedNow
  <2>4. SL!LineUp(a, d)
    BY <1>2, <2>1, <2>2, <2>3 DEF SL!LineUp
  <2> QED  BY <2>4, StepRefines DEF SL!LockStep
<1>6. CASE reservingActivity[d] \notin {None, a} /\ checkDeadLock(reservingActivity[d], a)
  <2>1. dictionaryVars' = dictionaryVars
    BY <1>1, <1>6 DEF reserve
  <2> QED  BY <2>1, LocksStutter DEF dictionaryVars
<1> QED  BY <1>4, <1>5, <1>6

(* release(): out, or out and on to the first in line.                     *)
LEMMA ReleaseRefines ==
    ASSUME Stays, NEW a \in Activities, Depth(a) > 0, HasTransfer(a),
           pc[a] \notin Reserving, Top(a).objectScope = "reserved",
           release(Top(a).dictionary)
    PROVE  Refined
<1>1. PICK d : d = Top(a).dictionary
  OBVIOUS
<1>2. /\ d \in Dictionaries /\ reservingActivity[d] = a /\ reserveCount[d] > 0
      /\ a # None /\ LockOK(d) /\ release(d)
  BY <1>1, Owned, GuardAssumption DEF Stays, LocksOK
<1>3. /\ reservingActivity \in [Dictionaries -> Activities \cup {None}]
      /\ reserveCount \in [Dictionaries -> Nat] /\ reserveCount[d] \in Nat
      /\ waitingActivities \in [Dictionaries -> Seq(Activities)]
  BY <1>2 DEF Stays, TypeOK
<1>4. ~SL!InLine(a)
  BY NotInLine DEF Stays
<1>5. /\ \A e \in Dictionaries \ {d} : /\ reservingActivity'[e] = reservingActivity[e]
                                       /\ reserveCount'[e] = reserveCount[e]
      /\ Inside[d][a] = reserveCount[d]
      /\ \A b \in Activities \ {a} : Inside[d][b] = 0
      /\ Inside[d] \in [Activities -> Nat]
  <2>1. \A e \in Dictionaries \ {d} : /\ reservingActivity'[e] = reservingActivity[e]
                                      /\ reserveCount'[e] = reserveCount[e]
    <3>1. PICK next, others : ReleaseTo(d, next, others)
      BY <1>2, ReleaseShape DEF Stays
    <3> QED  BY <1>2, <1>3, <3>1 DEF ReleaseTo
  <2>2. Inside[d] = [b \in Activities |->
                       IF reservingActivity[d] = b THEN reserveCount[d] ELSE 0]
    BY <1>2, <2>1, InsideChange
  <2> QED  BY <1>2, <1>3, <2>1, <2>2
<1>6. Inside' = [Inside EXCEPT
                   ![d] = [b \in Activities |->
                             IF reservingActivity'[d] = b THEN reserveCount'[d] ELSE 0]]
  BY <1>2, <1>5, InsideChange
<1>7. CASE reserveCount[d] > 1 \/ waitingActivities[d] = <<>>
  <2>1. /\ waitingActivities' = waitingActivities
        /\ reserveCount'[d] = reserveCount[d] - 1
        /\ reservingActivity'[d] = a \/ reserveCount'[d] = 0
    <3>1. CASE reserveCount[d] > 1
      BY <1>2, <1>3, <3>1, ReleaseShape DEF ReleaseTo, Stays
    <3>2. CASE reserveCount[d] = 1 /\ waitingActivities[d] = <<>>
      <4>1. ReleaseTo(d, None, <<>>)
        BY <1>2, <3>2, ReleaseShape DEF Stays
      <4>2. [waitingActivities EXCEPT ![d] = <<>>] = waitingActivities
        BY <1>3, <3>2
      <4>3. /\ waitingActivities' = [waitingActivities EXCEPT ![d] = <<>>]
            /\ reserveCount' = [reserveCount EXCEPT ![d] = reserveCount[d] - 1]
        BY <3>2, <4>1 DEF ReleaseTo
      <4> QED  BY <1>2, <1>3, <3>2, <4>2, <4>3
    <3> QED  BY <1>2, <1>3, <1>7, <3>1, <3>2
  <2>2. [b \in Activities |-> IF reservingActivity'[d] = b THEN reserveCount'[d] ELSE 0]
          = [Inside[d] EXCEPT ![a] = @ - 1]
    <3>1. \A b \in Activities :
            (IF reservingActivity'[d] = b THEN reserveCount'[d] ELSE 0)
              = IF b = a THEN Inside[d][a] - 1 ELSE Inside[d][b]
      BY <1>5, <2>1
    <3> QED  BY <1>5, <3>1
  <2>3. Inside' = [Inside EXCEPT ![d][a] = @ - 1]
    BY <1>6, <2>2
  <2>4. SL!Leave(a, d)
    BY <1>2, <1>4, <1>5, <1>7, <2>1, <2>3 DEF SL!Leave
  <2> QED  BY <1>2, <2>4, StepRefines DEF SL!LockStep
<1>8. CASE reserveCount[d] = 1 /\ waitingActivities[d] # <<>>
  <2>1. PICK b \in Activities : b = Head(waitingActivities[d])
    BY <1>2, <1>8, ReleaseShape DEF Stays
  <2>2. b # None
    BY GuardAssumption
  <2>3. ReleaseTo(d, b, Tail(waitingActivities[d]))
    BY <1>2, <1>8, <2>1, ReleaseShape DEF Stays
  <2>4. /\ reserveCount'[d] = 1 /\ reservingActivity'[d] = b
        /\ waitingActivities' = [waitingActivities EXCEPT ![d] = Tail(@)]
    BY <1>2, <1>3, <1>8, <2>2, <2>3 DEF ReleaseTo
  <2>5. [c \in Activities |-> IF reservingActivity'[d] = c THEN reserveCount'[d] ELSE 0]
          = [Inside[d] EXCEPT ![a] = 0, ![b] = 1]
    <3>1. \A c \in Activities :
            (IF reservingActivity'[d] = c THEN reserveCount'[d] ELSE 0)
              = IF c = b THEN 1 ELSE IF c = a THEN 0 ELSE Inside[d][c]
      BY <1>5, <2>4
    <3> QED  BY <1>5, <3>1
  <2>6. Inside' = [Inside EXCEPT ![d][a] = 0, ![d][b] = 1]
    BY <1>2, <1>6, <2>5, InsideTypes
  <2>7. SL!HandOver(a, d)
    BY <1>2, <1>4, <1>5, <1>8, <2>1, <2>4, <2>6 DEF SL!HandOver
  <2> QED  BY <1>2, <2>7, StepRefines DEF SL!LockStep
<1> QED  BY <1>2, <1>3, <1>7, <1>8

LEMMA GivenBackRefines ==
    ASSUME Stays, NEW a \in Activities, Depth(a) > 0, HasTransfer(a),
           pc[a] \notin Reserving,
           IF Top(a).objectScope = "reserved" THEN release(Top(a).dictionary)
           ELSE KeepLocks
    PROVE  Refined
BY ReleaseRefines, LocksStutter DEF KeepLocks, dictionaryVars

(* REPLY: the lock goes along, or is given back.                           *)
LEMMA ReplyRefines ==
    ASSUME Stays, NEW a \in Activities, NEW b \in Activities, reply(a, b)
    PROVE  Refined
<1>1. /\ a # b /\ pc[a] = "run" /\ pc[b] = "run" /\ Depth(a) > 0 /\ Depth(b) = 0
      /\ HasTransfer(a) /\ pc[a] \notin Reserving /\ pc[b] \notin Reserving
  BY ReplyMoves DEF Stays, HasTransfer, Reserving
<1>2. PICK d \in Dictionaries : d = Top(a).dictionary
  BY <1>1, TopOf DEF Stays
<1>3. CASE Top(a).objectScope = "released" \/ reserveCount[d] # 1
  <2>1. IF Top(a).objectScope = "reserved" THEN release(Top(a).dictionary) ELSE KeepLocks
    <3>1. Top(a).objectScope \in {"reserved", "released"}
      BY <1>1, TopOf DEF Stays
    <3> QED  BY <1>2, <1>3, <3>1 DEF reply
  <2> QED  BY <1>1, <2>1, GivenBackRefines
<1>4. CASE Top(a).objectScope # "released" /\ reserveCount[d] = 1
  <2>1. /\ reservingActivity' = [reservingActivity EXCEPT ![d] = b]
        /\ reserveCount' = reserveCount /\ waitingActivities' = waitingActivities
    BY <1>2, <1>4 DEF reply
  <2>2. reservingActivity[d] = a
    <3>1. Top(a).objectScope = "reserved"
      BY <1>1, <1>4, TopOf DEF Stays
    <3> QED  BY <1>1, <1>2, <3>1, Owned DEF Stays
  <2>3. /\ reservingActivity'[d] = b /\ reserveCount'[d] = 1
        /\ \A e \in Dictionaries \ {d} : /\ reservingActivity'[e] = reservingActivity[e]
                                         /\ reserveCount'[e] = reserveCount[e]
    BY <1>4, <2>1 DEF Stays, TypeOK
  <2>4. /\ Inside[d] = [c \in Activities |-> IF a = c THEN 1 ELSE 0]
        /\ Inside' = [Inside EXCEPT ![d] = [c \in Activities |-> IF b = c THEN 1 ELSE 0]]
    BY <1>4, <2>2, <2>3, InsideChange
  <2>5. [c \in Activities |-> IF b = c THEN 1 ELSE 0] = [Inside[d] EXCEPT ![a] = 0, ![b] = 1]
    <3>1. \A c \in Activities :
            (IF b = c THEN 1 ELSE 0) = IF c = b THEN 1 ELSE IF c = a THEN 0 ELSE Inside[d][c]
      BY <2>4
    <3> QED  BY <2>4, <3>1
  <2>6. Inside' = [Inside EXCEPT ![d][a] = 0, ![d][b] = 1]
    BY <2>4, <2>5, InsideTypes
  <2>7. ASSUME NEW e \in Dictionaries PROVE Inside[e][b] = 0
    <3>1. Reservations(b, e) = {}
      BY <1>1 DEF Reservations
    <3>2. Cardinality(Reservations(b, e)) = 0
      BY <3>1, FS_EmptySet
    <3> QED  BY <1>1, <3>2 DEF Inside
  <2>8. SL!Pass(a, b, d)
    <3>1. ~SL!InLine(a) /\ ~SL!InLine(b)
      BY <1>1, NotInLine DEF Stays
    <3> QED  BY <2>1, <2>4, <2>6, <2>7, <3>1 DEF SL!Pass
  <2> QED  BY <2>8, StepRefines DEF SL!LockStep
<1> QED  BY <1>3, <1>4

(* Every step of an activity is one of a holder, or none of the locks.     *)
LEMMA LockNextRefines ==
    ASSUME IInv, IInv', [Next]_vars
    PROVE  Refined
<1> USE DEF IInv
<1>1. Stays
  BY DEF Stays, LocksOK
<1>2. CASE UNCHANGED vars
  BY <1>1, <1>2, LocksStutter DEF vars, dictionaryVars
<1>3. ASSUME KeepLocks PROVE Refined
  BY <1>1, <1>3, LocksStutter DEF KeepLocks, dictionaryVars
<1>4. ASSUME NEW a \in Activities, Call(a) PROVE Refined
  <2>1. ASSUME NEW d \in Dictionaries, invokeGuarded(a, d) PROVE Refined
    BY <1>1, <2>1, AsksNew, ReserveRefines DEF invokeGuarded
  <2> QED  BY <1>3, <1>4, <2>1 DEF Call, invokeUnguarded
<1>5. ASSUME NEW a \in Activities, Guard(a) PROVE Refined
  <2>1. /\ pc[a] = "run" /\ Depth(a) > 0
        /\ HasTransfer(a) /\ pc[a] \notin Reserving
    BY <1>5 DEF Guard, guardOn, guardOff, guardOnWhen, guardOffWhen, At, HasTransfer, Reserving
  <2>2. ASSUME guardOn(a) PROVE Refined
    <3>1. Asks(a, frames[a], "guardOn") /\ reserve(a, frames[a], "guardOn")
      BY <2>1, <2>2, AsksTop DEF guardOn, Reserving
    <3> QED  BY <1>1, <3>1, ReserveRefines
  <2>3. ASSUME guardOnWhen(a), Top(a).objectScope = "released" PROVE Refined
    <3>1. Asks(a, frames[a], "whenOn") /\ reserve(a, frames[a], "whenOn")
      BY <2>1, <2>3, AsksTop DEF guardOnWhen, Reserving
    <3> QED  BY <1>1, <3>1, ReserveRefines
  <2>4. ASSUME IF Top(a).objectScope = "reserved" THEN release(Top(a).dictionary)
               ELSE KeepLocks
        PROVE  Refined
    BY <1>1, <2>1, <2>4, GivenBackRefines
  <2> QED  BY <1>3, <1>5, <2>2, <2>3, <2>4 DEF Guard, guardOff, guardOnWhen, guardOffWhen
<1>6. ASSUME NEW a \in Activities, Assign(a) PROVE Refined
  BY <1>1, <1>6, LocksStutter DEF Assign, notify, dictionaryVars
<1>7. ASSUME NEW a \in Activities, Reply(a) PROVE Refined
  BY <1>1, <1>7, ReplyRefines DEF Reply
<1>8. ASSUME NEW a \in Activities, GoOn(a) PROVE Refined
  <2>1. ASSUME pc[a] \in {"run", "failed"}, Depth(a) > 0,
               IF Top(a).objectScope = "reserved" THEN release(Top(a).dictionary)
               ELSE KeepLocks
        PROVE  Refined
    <3>1. HasTransfer(a) /\ pc[a] \notin Reserving
      BY <2>1 DEF HasTransfer, Reserving
    <3> QED  BY <1>1, <2>1, <3>1, GivenBackRefines
  <2>2. ASSUME endMethod(a) \/ guardWait(a) PROVE Refined
    <3>1. pc[a] = "failed" => Depth(a) > 0
      BY DEF Placed
    <3> QED  BY <2>1, <2>2, <3>1 DEF endMethod, guardWait, At
  <2>3. ASSUME guardWake(a), held[a] PROVE Refined
    <3>1. Asks(a, frames[a], "rewait") /\ reserve(a, frames[a], "rewait")
      BY <2>3, AsksTop DEF guardWake, At, Reserving, Placed
    <3> QED  BY <1>1, <3>1, ReserveRefines
  <2>4. ASSUME resume(a) PROVE Refined
    <3>1. Asks(a, frames[a], "resume") /\ reserve(a, frames[a], "resume")
      BY <2>4, AsksTop DEF resume, At, Reserving, Placed
    <3> QED  BY <1>1, <3>1, ReserveRefines
  <2> QED  BY <1>3, <1>8, <2>2, <2>3, <2>4
           DEF GoOn, waitReserve, evaluate, clearGuard, guardWake
<1> QED  BY <1>2, <1>4, <1>5, <1>6, <1>7, <1>8 DEF Next

LEMMA LockInitial == Init => SL!LockInit
<1> SUFFICES ASSUME Init PROVE SL!LockInit
  OBVIOUS
<1>1. Inside = OwnedBy(reservingActivity, reserveCount)
  BY InvInit, InsideIs DEF IInv, LocksOK
<1>2. Inside = [d \in Dictionaries |-> [a \in Activities |-> 0]]
  BY <1>1, GuardAssumption DEF Init, OwnedBy
<1> QED  BY <1>2 DEF Init, SL!LockInit

(* The scope locks of objects are locks with a line each: everything that  *)
(* GUARD, REPLY, nested calls, waits and refusals do to them looks like    *)
(* their holders entering, lining up, leaving and passing them on.         *)
THEOREM LocksImplementLines == Spec => ImplementsLock
<1>1. Init => SL!LockInit
  BY LockInitial
<1>2. IInv /\ IInv' /\ [Next]_vars => [SL!LockNext]_(SL!lockVars)
  BY LockNextRefines DEF Refined
<1> QED  BY <1>1, <1>2, InvHolds, PTL DEF Spec, ImplementsLock, SL!LockSpec

-----------------------------------------------------------------------------
(* Chains of waits.                                                        *)
LEMMA LeastExists ==
    ASSUME NEW T \in SUBSET Nat, T # {}
    PROVE  \E x \in T : \A y \in T : x <= y
<1>1. PICK x \in T : \A y \in T : ~(<<y, x>> \in OpToRel(<, Nat))
  BY NatLessThanWellFounded, WFMin
<1>2. \A y \in T : ~(y < x)
  BY <1>1 DEF OpToRel
<1> QED  BY <1>2

LEMMA UpTo ==
    ASSUME NEW n \in Nat, NEW P \in SUBSET (0..n), 0 \in P,
           \A i \in 1..n : i - 1 \in P => i \in P
    PROVE  P = 0..n
<1> DEFINE T == (0..n) \ P
<1> SUFFICES ASSUME T # {} PROVE FALSE
  OBVIOUS
<1>1. T \in SUBSET Nat
  OBVIOUS
<1>2. PICK k \in T : \A j \in T : k <= j
  BY <1>1, LeastExists
<1>3. k \in 1..n /\ k \in Int /\ k \notin P
  BY <1>2
<1>4. k - 1 \in 0..n /\ ~(k <= k - 1)
  BY <1>3
<1>5. k - 1 \in P
  BY <1>2, <1>4
<1> QED  BY <1>3, <1>5

(* A function on 0..n that starts with x and goes on with nx.              *)
Follows(g, nx, x, n) == g[0] = x /\ \A i \in 1..n : g[i] = nx[g[i - 1]]

LEMMA ChainExists ==
    ASSUME NEW D, NEW nx \in [D -> D], NEW x \in D, NEW n \in Nat
    PROVE  \E g \in [0..n -> D] : Follows(g, nx, x, n)
<1> DEFINE Chains(k) == {g \in [0..k -> D] :
                           g[0] = x /\ \A i \in 1..k : g[i] = nx[g[i - 1]]}
           P == {k \in 0..n : Chains(k) # {}}
<1>1. 0 \in P
  <2> DEFINE g == [i \in 0..0 |-> x]
  <2>1. g \in Chains(0)
    OBVIOUS
  <2> QED  BY <2>1
<1>2. ASSUME NEW k \in 1..n, k - 1 \in P PROVE k \in P
  <2>1. PICK g \in [0..k - 1 -> D] :
          g[0] = x /\ \A i \in 1..k - 1 : g[i] = nx[g[i - 1]]
    BY <1>2
  <2>2. k - 1 \in 0..k - 1 /\ g[k - 1] \in D /\ nx[g[k - 1]] \in D
    BY <2>1
  <2> DEFINE h == [i \in 0..k |-> IF i = k THEN nx[g[k - 1]] ELSE g[i]]
  <2>3. h \in [0..k -> D] /\ h[0] = x
    BY <2>1, <2>2
  <2>4. ASSUME NEW i \in 1..k PROVE h[i] = nx[h[i - 1]]
    <3>1. i - 1 \in 0..k /\ i - 1 # k /\ i \in 0..k /\ h[i - 1] = g[i - 1]
      OBVIOUS
    <3>2. CASE i = k
      BY <3>1, <3>2
    <3>3. CASE i # k
      <4>1. i \in 1..k - 1
        BY <3>3
      <4> QED  BY <2>1, <3>1, <3>3, <4>1
    <3> QED  BY <3>2, <3>3
  <2> HIDE DEF h
  <2>5. h \in Chains(k)
    BY <2>3, <2>4
  <2> QED  BY <2>5
<1> HIDE DEF Chains
<1>3. P = 0..n
  <2>1. P \in SUBSET (0..n)
    OBVIOUS
  <2> HIDE DEF P
  <2> QED  BY <1>1, <1>2, <2>1, UpTo
<1>4. Chains(n) # {}
  <2>1. n \in P
    BY <1>3
  <2> QED  BY <2>1
<1> QED  BY <1>4 DEF Chains, Follows

(* Longer than its set is large: it comes back to where it was.            *)
Repeats(f, n) == \E i, j \in 0..n : i < j /\ f[i] = f[j]

LEMMA RepeatExists ==
    ASSUME NEW n \in Nat, NEW U, IsFiniteSet(U), Cardinality(U) <= n,
           NEW f \in [0..n -> U]
    PROVE  Repeats(f, n)
<1>1. IsFiniteSet(0..n) /\ Cardinality(0..n) = n + 1
  BY FS_Interval
<1>2. Cardinality(U) < Cardinality(0..n)
  BY <1>1, FS_CardinalityType
<1>3. PICK x \in 0..n, y \in 0..n : x # y /\ f[x] = f[y]
  BY <1>1, <1>2, FS_PigeonHole
<1>4. x < y \/ y < x
  BY <1>3
<1> QED  BY <1>3, <1>4 DEF Repeats

N == Cardinality(Activities)
LEMMA NNat == N \in Nat
BY GuardAssumption, FS_CardinalityType DEF N

-----------------------------------------------------------------------------
(* The owners that checkDeadLock() visits.                                 *)
OwnersFrom(o) ==
    CHOOSE g : g = [n \in 0..N |-> IF n = 0 THEN o ELSE OwnerOfWait(g[n - 1])]

LEMMA CheckIs ==
    ASSUME NEW o, NEW a
    PROVE  checkDeadLock(o, a) <=> \E n \in 1..N : OwnersFrom(o)[n] = a
BY DEF checkDeadLock, OwnersFrom, N

LEMMA OwnersFacts ==
    ASSUME TypeOK, NEW o \in Activities
    PROVE  /\ OwnersFrom(o)[0] = o
           /\ \A n \in 1..N : OwnersFrom(o)[n] = OwnerOfWait(OwnersFrom(o)[n - 1])
<1> DEFINE D == Activities \cup {None}
           nx == [x \in D |-> OwnerOfWait(x)]
           F(g) == [n \in 0..N |-> IF n = 0 THEN o ELSE OwnerOfWait(g[n - 1])]
<1>1. \A x \in D : OwnerOfWait(x) \in D
  BY DEF OwnerOfWait, TypeOK
<1>2. nx \in [D -> D] /\ o \in D
  BY <1>1
<1>3. \A x \in D : nx[x] = OwnerOfWait(x)
  OBVIOUS
<1> HIDE DEF nx, D
<1>4. PICK g \in [0..N -> D] : g[0] = o /\ \A i \in 1..N : g[i] = nx[g[i - 1]]
  <2>1. PICK E, f : E = D /\ f = nx
    OBVIOUS
  <2>2. f \in [E -> E] /\ o \in E
    BY <1>2, <2>1
  <2>3. \E g \in [0..N -> E] : Follows(g, f, o, N)
    BY <2>2, NNat, ChainExists
  <2> QED  BY <2>1, <2>3 DEF Follows
<1>5. g = F(g)
  <2>1. \A n \in 0..N : g[n] = IF n = 0 THEN o ELSE OwnerOfWait(g[n - 1])
    <3>1. \A n \in 0..N : n = 0 \/ (n \in 1..N /\ n - 1 \in 0..N)
      BY NNat
    <3> QED  BY <1>3, <1>4, <3>1
  <2> QED  BY <1>4, <2>1
<1>6. PICK h : h = OwnersFrom(o) /\ h = F(h)
  BY <1>5 DEF OwnersFrom
<1>7. 0 \in 0..N /\ \A n \in 1..N : n \in 0..N /\ n # 0
  BY NNat
<1>8. h[0] = o /\ \A n \in 1..N : h[n] = OwnerOfWait(h[n - 1])
  BY <1>6, <1>7
<1> QED  BY <1>6, <1>8

-----------------------------------------------------------------------------
(* The activities reached from a in n waits.                               *)
NextInChain(S) == {c \in Activities : \E b \in S : WaitsFor(b, c)}
ChainOf(a) ==
    CHOOSE g : g = [n \in 0..N |-> IF n = 0 THEN {a} ELSE NextInChain(g[n - 1])]

LEMMA WaitChainIs ==
    ASSUME NEW a
    PROVE  WaitChain(a) = UNION {ChainOf(a)[n] : n \in 1..N}
BY DEF WaitChain, ChainOf, NextInChain, N

LEMMA ChainFacts ==
    ASSUME NEW a \in Activities
    PROVE  /\ ChainOf(a)[0] = {a}
           /\ \A n \in 1..N : ChainOf(a)[n] = NextInChain(ChainOf(a)[n - 1])
<1> DEFINE D == SUBSET Activities
           nx == [S \in D |-> NextInChain(S)]
           F(g) == [n \in 0..N |-> IF n = 0 THEN {a} ELSE NextInChain(g[n - 1])]
<1>1. nx \in [D -> D] /\ {a} \in D
  BY DEF NextInChain
<1>2. \A S \in D : nx[S] = NextInChain(S)
  OBVIOUS
<1> HIDE DEF nx, D
<1>3. PICK g \in [0..N -> D] : g[0] = {a} /\ \A i \in 1..N : g[i] = nx[g[i - 1]]
  <2>1. PICK E, f : E = D /\ f = nx
    OBVIOUS
  <2>2. f \in [E -> E] /\ {a} \in E
    BY <1>1, <2>1
  <2>3. \E g \in [0..N -> E] : Follows(g, f, {a}, N)
    BY <2>2, NNat, ChainExists
  <2> QED  BY <2>1, <2>3 DEF Follows
<1>4. g = F(g)
  <2>1. \A n \in 0..N : g[n] = IF n = 0 THEN {a} ELSE NextInChain(g[n - 1])
    <3>1. \A n \in 0..N : n = 0 \/ (n \in 1..N /\ n - 1 \in 0..N)
      BY NNat
    <3> QED  BY <1>2, <1>3, <3>1
  <2> QED  BY <1>3, <2>1
<1>5. PICK h : h = ChainOf(a) /\ h = F(h)
  BY <1>4 DEF ChainOf
<1>6. 0 \in 0..N /\ \A n \in 1..N : n \in 0..N /\ n # 0
  BY NNat
<1>7. h[0] = {a} /\ \A n \in 1..N : h[n] = NextInChain(h[n - 1])
  BY <1>5, <1>6
<1> QED  BY <1>5, <1>7

-----------------------------------------------------------------------------
Owner(a) == reservingActivity[Top(a).dictionary]
Watches(a) == \E d \in Watchable : a \in dependents[d]
Closed(S) == \A a \in S : Blocked(a) /\ Owner(a) \in S

(* Activities that wait only for each other, none of which watches a       *)
(* variable: there are none.                                               *)
NoCircle == \A S \in SUBSET Activities : S # {} /\ Closed(S) => \E b \in S : Watches(b)

(* checkDeadLock() can see the wait of a blocked activity, unless an       *)
(* assignment to a variable that it watches has reset waitingObject.       *)
WaitsShown == \A a \in Activities :
    Blocked(a) => \/ waitingObject[a] = Top(a).dictionary
                  \/ waitingObject[a] = None /\ Watches(a)
CircleInv == NoCircle /\ WaitsShown

LEMMA BlockedTop ==
    ASSUME IInv, NEW a \in Activities, Blocked(a)
    PROVE  /\ Depth(a) > 0 /\ Top(a).dictionary \in Dictionaries
           /\ Owner(a) \in Activities
<1>1. Depth(a) > 0 /\ TypeOK
  BY DEF IInv, Placed, Blocked, Reserving
<1>2. PICK d \in Dictionaries : d = Top(a).dictionary
  BY <1>1, TopOf
<1>3. BlockedAt(a, d) /\ LockOK(d) /\ QueueOK(d)
  BY <1>2 DEF IInv, BlockedAt
<1>4. waitingActivities[d] # <<>>
  <2>1. PICK i \in 1..Len(waitingActivities[d]) : waitingActivities[d][i] = a
    BY <1>3 DEF QueueOK
  <2>2. Len(<<>>) = 0
    OBVIOUS
  <2> QED  BY <2>1, <2>2
<1>5. reservingActivity[d] \in Activities
  BY <1>1, <1>3, <1>4 DEF LockOK, TypeOK
<1> QED  BY <1>1, <1>2, <1>5 DEF Owner

(* A circle in the chain of waits is one of waits for each other.          *)
LEMMA CircleClosed ==
    ASSUME IInv, NoCircle
    PROVE  CircularWaitInvolvesGuard
<1> SUFFICES ASSUME NEW a \in Activities, a \in WaitChain(a)
             PROVE  \E b \in WaitChain(a), d \in Watchable : b \in dependents[d]
  BY DEF CircularWaitInvolvesGuard
<1> DEFINE o == ChainOf(a)
<1>1. o[0] = {a} /\ \A n \in 1..N : o[n] = NextInChain(o[n - 1])
  BY ChainFacts
<1>2. WaitChain(a) = UNION {o[n] : n \in 1..N}
  BY WaitChainIs
<1>3. PICK m \in 1..N : a \in o[m]
  BY <1>2
<1>4. N \in Nat /\ m \in Nat /\ m >= 1 /\ 1..m \subseteq 1..N
  BY NNat
<1>5. \A b, x, y : WaitsFor(b, x) /\ WaitsFor(b, y) => x = y
  BY DEF WaitsFor
<1> HIDE DEF o
<1> DEFINE P == {n \in 0..m : \A x, y \in o[n] : x = y}
           Q == {n \in 0..m : o[m - n] # {}}
<1>6. P = 0..m
  <2>1. 0 \in P
    BY <1>1, <1>4
  <2>2. ASSUME NEW n \in 1..m, n - 1 \in P PROVE n \in P
    <3>1. n \in 1..N /\ n \in 0..m
      BY <1>4
    <3>2. o[n] = NextInChain(o[n - 1])
      BY <1>1, <3>1
    <3>3. \A x, y \in o[n - 1] : x = y
      BY <2>2
    <3>4. \A x, y \in o[n] : x = y
      BY <1>5, <3>2, <3>3 DEF NextInChain
    <3> QED  BY <3>1, <3>4
  <2>3. P \in SUBSET (0..m)
    OBVIOUS
  <2> HIDE DEF P
  <2> QED  BY <1>4, <2>1, <2>2, <2>3, UpTo
<1>7. Q = 0..m
  <2>1. 0 \in Q
    BY <1>3, <1>4
  <2>2. ASSUME NEW n \in 1..m, n - 1 \in Q PROVE n \in Q
    <3>1. m - (n - 1) \in 1..N /\ m - (n - 1) - 1 = m - n /\ n \in 0..m
      BY <1>4
    <3>2. o[m - (n - 1)] = NextInChain(o[m - n]) /\ o[m - (n - 1)] # {}
      BY <1>1, <2>2, <3>1
    <3>3. o[m - n] # {}
      BY <3>2 DEF NextInChain
    <3> QED  BY <3>1, <3>3
  <2>3. Q \in SUBSET (0..m)
    OBVIOUS
  <2> HIDE DEF Q
  <2> QED  BY <1>4, <2>1, <2>2, <2>3, UpTo
<1>8. \A n \in 0..m : o[n] # {} /\ \A x, y \in o[n] : x = y
  <2> SUFFICES ASSUME NEW n \in 0..m PROVE o[n] # {} /\ \A x, y \in o[n] : x = y
    OBVIOUS
  <2>1. m - n \in 0..m /\ m - (m - n) = n
    BY <1>4
  <2>2. m - n \in Q /\ n \in P
    BY <1>6, <1>7, <2>1
  <2> QED  BY <2>1, <2>2
<1> HIDE DEF P, Q
<1> DEFINE S == UNION {o[n] : n \in 1..m}
<1>9. S \in SUBSET Activities /\ S # {} /\ S \subseteq WaitChain(a)
  <2>1. \A n \in 1..m : o[n] \subseteq Activities
    BY <1>1, <1>4 DEF NextInChain
  <2>2. m \in 1..m
    BY <1>4
  <2> QED  BY <1>2, <1>3, <1>4, <2>1, <2>2
<1>10. ASSUME NEW n \in 0..m - 1, NEW c \in o[n]
       PROVE  Blocked(c) /\ Owner(c) \in o[n + 1] /\ n + 1 \in 1..m
  <2>1. n + 1 \in 1..N /\ n + 1 \in 0..m /\ n + 1 \in 1..m /\ n + 1 - 1 = n /\ n \in 0..m
    BY <1>4
  <2>2. o[n + 1] = NextInChain(o[n]) /\ o[n + 1] # {}
    BY <1>1, <1>8, <2>1
  <2>3. PICK y \in o[n + 1], b \in o[n] : WaitsFor(b, y)
    BY <2>2 DEF NextInChain
  <2>4. b = c
    BY <1>8, <2>1
  <2> QED  BY <2>1, <2>3, <2>4 DEF WaitsFor, Owner
<1>11. Closed(S)
  <2> SUFFICES ASSUME NEW n \in 1..m, NEW c \in o[n]
               PROVE  Blocked(c) /\ Owner(c) \in S
    BY DEF Closed
  <2>1. CASE n # m
    <3>1. n \in 0..m - 1
      BY <1>4, <2>1
    <3> QED  BY <1>10, <3>1
  <2>2. CASE n = m
    <3>1. c = a /\ a \in o[0] /\ 0 \in 0..m - 1
      <4>1. m \in 0..m
        BY <1>4
      <4> QED  BY <1>1, <1>3, <1>4, <1>8, <2>2, <4>1
    <3>2. Blocked(a) /\ Owner(a) \in o[0 + 1] /\ 0 + 1 \in 1..m
      BY <1>10, <3>1
    <3> QED  BY <3>1, <3>2
  <2> QED  BY <2>1, <2>2
<1> HIDE DEF S
<1>12. PICK b \in S : Watches(b)
  BY <1>9, <1>11 DEF NoCircle
<1> QED  BY <1>9, <1>12 DEF Watches

-----------------------------------------------------------------------------
(* Steps that block nobody.                                                *)
StaysBlocked(c) ==
    /\ Blocked(c) /\ Top(c)' = Top(c)
    /\ Watches(c) => Watches(c)'
    /\ waitingObject'[c] = waitingObject[c] \/ (waitingObject'[c] = None /\ Watches(c)')

LEMMA CalmKeeps ==
    ASSUME IInv, CircleInv,
           \A c \in Activities : Blocked(c)' => StaysBlocked(c),
           \A d \in Dictionaries, c \in Activities :
               reservingActivity'[d] = c /\ Blocked(c)' => reservingActivity[d] = c
    PROVE  CircleInv'
<1>1. WaitsShown'
  BY DEF CircleInv, WaitsShown, StaysBlocked
<1>2. NoCircle'
  <2> SUFFICES ASSUME NEW S \in SUBSET Activities, S # {}, Closed(S)'
               PROVE  \E b \in S : Watches(b)'
    BY DEF NoCircle
  <2>1. \A c \in S : Blocked(c)' /\ Owner(c)' \in S /\ StaysBlocked(c)
    BY DEF Closed
  <2>2. ASSUME NEW c \in S PROVE Blocked(c) /\ Owner(c) \in S
    <3>1. Blocked(c) /\ Top(c)' = Top(c) /\ Owner(c)' \in S
      BY <2>1 DEF StaysBlocked
    <3>2. PICK d \in Dictionaries : d = Top(c).dictionary
      BY <3>1, BlockedTop
    <3>3. reservingActivity'[d] \in S
      BY <3>1, <3>2 DEF Owner
    <3>4. PICK x \in S : x = reservingActivity'[d]
      BY <3>3
    <3>5. Blocked(x)' /\ x \in Activities
      BY <2>1
    <3>6. reservingActivity[d] = x
      BY <3>4, <3>5
    <3> QED  BY <3>1, <3>2, <3>6 DEF Owner
  <2>3. Closed(S)
    BY <2>2 DEF Closed
  <2>4. PICK b \in S : Watches(b)
    BY <2>3 DEF CircleInv, NoCircle
  <2> QED  BY <2>1, <2>4 DEF StaysBlocked
<1> QED  BY <1>1, <1>2 DEF CircleInv

(* Locks change hands to activities that are posted.                       *)
LocksCalm ==
    /\ \A c \in Activities :
         \/ reserveSem'[c]
         \/ reserveSem'[c] = reserveSem[c] /\ waitingObject'[c] = waitingObject[c]
    /\ \A d \in Dictionaries, c \in Activities :
         reservingActivity'[d] = c => reservingActivity[d] = c \/ ~Blocked(c)'

LEMMA ReleaseCalm ==
    ASSUME TypeOK, NEW d \in Dictionaries, release(d)
    PROVE  LocksCalm
<1>1. PICK next \in Activities \cup {None}, others \in Seq(Activities) :
        ReleaseTo(d, next, others)
  <2>1. <<>> \in Seq(Activities)
    BY EmptySeq
  <2> QED  BY <2>1, ReleaseShape
<1>2. CASE reserveCount[d] > 1
  BY <1>1, <1>2 DEF ReleaseTo, LocksCalm
<1>3. CASE ~(reserveCount[d] > 1)
  <2>1. /\ reservingActivity' = [reservingActivity EXCEPT ![d] = next]
        /\ waitingObject' = [b \in Activities |->
                               IF b = next THEN None ELSE waitingObject[b]]
        /\ reserveSem' = [b \in Activities |-> reserveSem[b] \/ b = next]
    BY <1>1, <1>3 DEF ReleaseTo
  <2>2. reserveSem \in [Activities -> BOOLEAN]
        /\ reservingActivity \in [Dictionaries -> Activities \cup {None}]
    BY DEF TypeOK
  <2>3. ASSUME NEW c \in Activities
        PROVE  \/ reserveSem'[c]
               \/ reserveSem'[c] = reserveSem[c] /\ waitingObject'[c] = waitingObject[c]
    BY <2>1, <2>2
  <2>4. ASSUME NEW e \in Dictionaries, NEW c \in Activities,
               reservingActivity'[e] = c
        PROVE  reservingActivity[e] = c \/ reserveSem'[c]
    BY <2>1, <2>2, <2>4
  <2> QED  BY <2>3, <2>4 DEF LocksCalm, Blocked
<1> QED  BY <1>2, <1>3

LEMMA ReleasesCalm ==
    ASSUME TypeOK, NEW a \in Activities, Depth(a) > 0,
           IF Top(a).objectScope = "reserved" THEN release(Top(a).dictionary)
           ELSE KeepLocks
    PROVE  LocksCalm
<1>1. CASE Top(a).objectScope = "reserved"
  BY <1>1, TopOf, ReleaseCalm
<1>2. CASE Top(a).objectScope # "reserved"
  BY <1>2 DEF KeepLocks, dictionaryVars, LocksCalm
<1> QED  BY <1>1, <1>2

LEMMA KeepCalm ==
    ASSUME KeepLocks PROVE LocksCalm
BY DEF KeepLocks, dictionaryVars, LocksCalm

LEMMA LocksCalmKeeps ==
    ASSUME IInv, CircleInv, LocksCalm,
           \A c \in Activities : \/ pc'[c] \notin Reserving
                                 \/ Keeps(c) /\ Watched(c)
    PROVE  CircleInv'
<1>1. ASSUME NEW c \in Activities, Blocked(c)' PROVE StaysBlocked(c)
  <2>1. pc'[c] \in Reserving /\ ~reserveSem'[c] /\ Keeps(c) /\ Watched(c)
    BY <1>1 DEF Blocked
  <2>2. reserveSem'[c] = reserveSem[c] /\ waitingObject'[c] = waitingObject[c]
    BY <2>1 DEF LocksCalm
  <2> QED  BY <2>1, <2>2 DEF StaysBlocked, Blocked, Keeps, Watched, Watches, Top, Depth
<1>2. ASSUME NEW d \in Dictionaries, NEW c \in Activities,
             reservingActivity'[d] = c, Blocked(c)'
      PROVE  reservingActivity[d] = c
  BY <1>2 DEF LocksCalm
<1> QED  BY <1>1, <1>2, CalmKeeps

-----------------------------------------------------------------------------
(* a waits for the lock d of another: its chain of owners does not lead to *)
(* a, so a circle through a would hold one without it already.             *)
LEMMA WaitCloses ==
    ASSUME IInv, CircleInv, NEW a \in Activities, NEW d \in Dictionaries,
           NEW o \in Activities, o = reservingActivity[d], o # a,
           ~checkDeadLock(o, a), ~Blocked(a),
           reservingActivity' = reservingActivity,
           Top(a)'.dictionary = d, waitingObject'[a] = d,
           \A c \in Activities \ {a} :
               /\ Keeps(c) /\ Watched(c) /\ reserveSem'[c] = reserveSem[c]
               /\ waitingObject'[c] = waitingObject[c]
    PROVE  CircleInv'
<1>1. \A c \in Activities \ {a} : Blocked(c)' => StaysBlocked(c)
  BY DEF StaysBlocked, Blocked, Keeps, Watched, Watches, Top, Depth
<1>2. WaitsShown'
  BY <1>1 DEF CircleInv, WaitsShown, StaysBlocked
<1>3. NoCircle'
  <2> SUFFICES ASSUME NEW S \in SUBSET Activities, S # {}, Closed(S)',
                      \A b \in S : ~Watches(b)'
               PROVE  FALSE
    BY DEF NoCircle
  <2>1. ASSUME NEW c \in S \ {a}
        PROVE  /\ Blocked(c) /\ Owner(c) \in S /\ ~Watches(c)
               /\ waitingObject[c] = Top(c).dictionary
    <3>1. Blocked(c)' /\ Owner(c)' \in S /\ ~Watches(c)'
      BY DEF Closed
    <3>2. Blocked(c) /\ Top(c)' = Top(c) /\ ~Watches(c)
      BY <1>1, <3>1 DEF StaysBlocked
    <3>3. Owner(c) \in S
      BY <3>1, <3>2 DEF Owner
    <3> QED  BY <3>2, <3>3 DEF CircleInv, WaitsShown
  <2>2. a \in S
    <3> SUFFICES ASSUME a \notin S PROVE FALSE
      OBVIOUS
    <3>1. Closed(S)
      BY <2>1 DEF Closed
    <3> QED  BY <2>1, <3>1 DEF CircleInv, NoCircle
  <2>3. o \in S \ {a}
    BY <2>2 DEF Closed, Owner
  <2> DEFINE g == OwnersFrom(o)
             T == S \ {a}
  <2>4. g[0] = o /\ \A n \in 1..N : g[n] = OwnerOfWait(g[n - 1])
    BY OwnersFacts DEF IInv
  <2>5. \A n \in 1..N : g[n] # a
    BY CheckIs
  <2>6. N \in Nat
    BY NNat
  <2> HIDE DEF g, T
  <2>7. ASSUME NEW c \in T PROVE OwnerOfWait(c) = Owner(c)
    <3>1. Blocked(c) /\ waitingObject[c] = Top(c).dictionary
      BY <2>1 DEF T
    <3>2. c \in Activities /\ c # None
      BY GuardAssumption DEF T
    <3>3. Top(c).dictionary \in Dictionaries /\ Top(c).dictionary # None
      BY <3>1, <3>2, BlockedTop, GuardAssumption
    <3> QED  BY <3>1, <3>2, <3>3 DEF OwnerOfWait, Owner
  <2> DEFINE P == {n \in 0..N : g[n] \in T}
  <2>8. P = 0..N
    <3>1. 0 \in P
      BY <2>3, <2>4, <2>6 DEF T
    <3>2. ASSUME NEW n \in 1..N, n - 1 \in P PROVE n \in P
      <4>1. g[n - 1] \in T /\ n \in 0..N
        BY <2>6, <3>2
      <4>2. g[n] = Owner(g[n - 1])
        BY <2>4, <2>7, <4>1
      <4>3. g[n] \in S /\ g[n] # a
        BY <2>1, <2>5, <4>1, <4>2 DEF T
      <4> QED  BY <4>1, <4>3 DEF T
    <3>3. P \in SUBSET (0..N)
      OBVIOUS
    <3> HIDE DEF P
    <3> QED  BY <2>6, <3>1, <3>2, <3>3, UpTo
  <2>9. \A n \in 0..N : g[n] \in T
    BY <2>8
  <2>10. PICK i \in 0..N, j \in 0..N : i < j /\ g[i] = g[j]
    <3>1. IsFiniteSet(T) /\ Cardinality(T) <= N
      <4>1. T \subseteq Activities /\ IsFiniteSet(Activities)
        BY GuardAssumption DEF T
      <4> QED  BY <4>1, FS_Subset DEF N
    <3>2. PICK U, n, f : U = T /\ n = N /\ f = [k \in 0..N |-> g[k]]
      OBVIOUS
    <3>3. f \in [0..n -> U] /\ n \in Nat /\ IsFiniteSet(U) /\ Cardinality(U) <= n
      BY <2>6, <2>9, <3>1, <3>2
    <3>4. Repeats(f, n)
      BY <3>3, RepeatExists
    <3> QED  BY <3>2, <3>4 DEF Repeats
  <2> DEFINE C == {g[n] : n \in i..j - 1}
  <2>11. C \in SUBSET Activities /\ C # {} /\ C \subseteq T
    <3>1. i..j - 1 \subseteq 0..N /\ i \in i..j - 1
      BY <2>6, <2>10
    <3> QED  BY <2>9, <3>1 DEF T
  <2>12. Closed(C)
    <3> SUFFICES ASSUME NEW n \in i..j - 1
                 PROVE  Blocked(g[n]) /\ Owner(g[n]) \in C
      BY DEF Closed
    <3>1. n \in 0..N /\ n + 1 \in 1..N /\ n + 1 - 1 = n
      BY <2>6, <2>10
    <3>2. g[n] \in T /\ g[n + 1] = Owner(g[n])
      BY <2>4, <2>7, <2>9, <3>1
    <3>3. g[n + 1] \in C
      <4>1. CASE n + 1 = j
        <5>1. i \in i..j - 1
          BY <2>10
        <5> QED  BY <2>10, <4>1, <5>1
      <4>2. CASE n + 1 # j
        <5>1. n + 1 \in i..j - 1
          BY <2>10, <4>2
        <5> QED  BY <5>1
      <4> QED  BY <4>1, <4>2
    <3> HIDE DEF C
    <3> QED  BY <2>1, <3>2, <3>3 DEF T
  <2> HIDE DEF C
  <2>13. PICK b \in C : Watches(b)
    BY <2>11, <2>12 DEF CircleInv, NoCircle
  <2> QED  BY <2>1, <2>11, <2>13 DEF T
<1> QED  BY <1>2, <1>3 DEF CircleInv

LEMMA ReserveCircle ==
    ASSUME IInv, CircleInv, NEW a \in Activities, NEW s, NEW why, Asks(a, s, why),
           reserve(a, s, why), \A c \in Activities : Watched(c)
    PROVE  CircleInv'
<1>1. PICK d \in Dictionaries : d = s[Len(s)].dictionary
  <2>1. Len(s) \in 1..Len(s) /\ s \in Seq(Frames)
    BY LenProperties DEF Asks
  <2>2. s[Len(s)] \in Frames
    BY <2>1, ElementOfSeq
  <2> QED  BY <2>2 DEF Frames
<1>2. /\ TypeOK /\ why \in Reserving
      /\ \A c \in Activities \ {a} : Keeps(c) /\ reserveSem'[c] = reserveSem[c]
  BY ReserveMoves DEF IInv, Asks
<1>3. reservingActivity[d] \in Activities \cup {None}
  BY <1>2 DEF TypeOK
<1>4. CASE reservingActivity[d] \in {None, a}
  <2>1. /\ reservingActivity' = [reservingActivity EXCEPT ![d] = a]
        /\ waitingObject' = waitingObject /\ reserveSem' = reserveSem
        /\ Proceed(a, why)
    BY <1>1, <1>4 DEF reserve
  <2>2. pc'[a] \notin Reserving /\ ~Blocked(a)'
    BY <1>2, <2>1 DEF Proceed, Goto, TypeOK, Reserving, Blocked
  <2>3. LocksCalm
    BY <1>2, <2>1, <2>2 DEF LocksCalm, TypeOK
  <2> QED  BY <1>2, <2>2, <2>3, LocksCalmKeeps
<1>5. CASE reservingActivity[d] \notin {None, a} /\ checkDeadLock(reservingActivity[d], a)
  <2>1. /\ reservingActivity' = reservingActivity
        /\ waitingObject' = waitingObject /\ reserveSem' = reserveSem
        /\ pc' = [pc EXCEPT ![a] = "run"]
    BY <1>1, <1>5 DEF reserve, dictionaryVars, Goto
  <2>2. pc'[a] \notin Reserving
    BY <1>2, <2>1 DEF TypeOK, Reserving
  <2>3. LocksCalm
    BY <2>1 DEF LocksCalm
  <2> QED  BY <1>2, <2>2, <2>3, LocksCalmKeeps
<1>6. CASE reservingActivity[d] \notin {None, a} /\ ~checkDeadLock(reservingActivity[d], a)
  <2>1. /\ reservingActivity' = reservingActivity
        /\ waitingObject' = [waitingObject EXCEPT ![a] = d]
        /\ frames' = [frames EXCEPT ![a] = s]
    BY <1>1, <1>6 DEF reserve
  <2>2. /\ waitingObject'[a] = d /\ frames'[a] = s
        /\ \A c \in Activities \ {a} : waitingObject'[c] = waitingObject[c]
    BY <1>2, <2>1 DEF TypeOK
  <2>3. Top(a)'.dictionary = d
    BY <1>1, <2>2 DEF Top, Depth
  <2>4. PICK o \in Activities : o = reservingActivity[d] /\ o # a
    BY <1>3, <1>6
  <2>5. ~Blocked(a) /\ ~checkDeadLock(o, a)
    BY <1>6, <2>4 DEF Blocked, Asks
  <2> QED  BY <1>2, <2>1, <2>2, <2>3, <2>4, <2>5, WaitCloses
<1> QED  BY <1>4, <1>5, <1>6

LEMMA CircleNext ==
    ASSUME IInv, CircleInv, Next
    PROVE  CircleInv'
<1> USE DEF IInv
<1>1. PICK a \in Activities :
        Call(a) \/ Guard(a) \/ Assign(a) \/ Reply(a) \/ GoOn(a)
  BY DEF Next
<1>2. dependents' = dependents => \A c \in Activities : Watched(c)
  BY DEF Watched
<1>3. Placed(a)
  OBVIOUS
<1>4. ASSUME LocksCalm, pc'[a] \notin Reserving,
             \A c \in Activities \ {a} : Keeps(c) /\ Watched(c)
      PROVE  CircleInv'
  BY <1>4, LocksCalmKeeps
<1>5. ASSUME NEW d \in Dictionaries, invokeGuarded(a, d) PROVE CircleInv'
  <2>1. PICK s : s = Append(frames[a], Frame(d, "released"))
    OBVIOUS
  <2>2. Asks(a, s, "invoke") /\ reserve(a, s, "invoke") /\ dependents' = dependents
    BY <1>5, <2>1, AsksNew DEF invokeGuarded, variableVars
  <2> QED  BY <1>2, <2>2, ReserveCircle
<1>6. ASSUME NEW d \in Dictionaries, invokeUnguarded(a, d) PROVE CircleInv'
  <2>1. /\ pc'[a] = "run" /\ dependents' = dependents /\ KeepLocks
        /\ \A c \in Activities \ {a} : Keeps(c)
    BY <1>6, TypeParts DEF StackTypes, invokeUnguarded, MayCall, At, variableVars, Keeps
  <2> QED  BY <1>2, <1>4, <2>1, KeepCalm DEF Reserving
<1>7. ASSUME endMethod(a) \/ guardOff(a) PROVE CircleInv'
  <2>1. /\ pc'[a] = "run" /\ dependents' = dependents
        /\ \A c \in Activities \ {a} : Keeps(c)
    BY <1>7, TypeParts DEF StackTypes, endMethod, guardOff, At, variableVars, Keeps
  <2>2. LocksCalm
    BY <1>7, TopOf, ReleaseCalm, ReleasesCalm DEF endMethod, guardOff
  <2> QED  BY <1>2, <1>4, <2>1, <2>2 DEF Reserving
<1>8. ASSUME guardOn(a) PROVE CircleInv'
  <2>1. /\ Asks(a, frames[a], "guardOn") /\ reserve(a, frames[a], "guardOn")
        /\ dependents' = dependents
    BY <1>8, AsksTop DEF guardOn, At, Reserving, variableVars
  <2> QED  BY <1>2, <2>1, ReserveCircle
<1>9. ASSUME guardOnWhen(a) PROVE CircleInv'
  <2>1. /\ pc[a] = "run" /\ Depth(a) > 0 /\ Top(a).dictionary \in Watchable
        /\ dependents' = [dependents EXCEPT ![Top(a).dictionary] = @ \cup {a}]
    BY <1>9 DEF guardOnWhen, At
  <2>2. \A c \in Activities : Watched(c)
    BY <2>1, TypeParts DEF OtherTypes, Watched
  <2>3. CASE Top(a).objectScope = "released"
    <3>1. Asks(a, frames[a], "whenOn") /\ reserve(a, frames[a], "whenOn")
      BY <1>9, <2>3, AsksTop DEF guardOnWhen, At, Reserving
    <3> QED  BY <2>2, <3>1, ReserveCircle
  <2>4. CASE Top(a).objectScope # "released"
    <3>1. pc' = [pc EXCEPT ![a] = "evaluate"] /\ frames' = frames /\ KeepLocks
      BY <1>9, <2>4 DEF guardOnWhen, Proceed, Goto
    <3>2. pc'[a] = "evaluate" /\ \A c \in Activities \ {a} : Keeps(c)
      BY <3>1, TypeParts DEF OtherTypes, Keeps
    <3> QED  BY <1>4, <2>2, <3>1, <3>2, KeepCalm DEF Reserving
  <2> QED  BY <2>3, <2>4
<1>10. ASSUME guardOffWhen(a) PROVE CircleInv'
  <2>1. /\ Depth(a) > 0
        /\ dependents' = [dependents EXCEPT ![Top(a).dictionary] = @ \cup {a}]
        /\ pc' = [pc EXCEPT ![a] = "evaluate"]
        /\ frames' = [frames EXCEPT ![a] = WithScope(@, "released")]
    BY <1>10 DEF guardOffWhen, Proceed, Goto
  <2>2. pc'[a] = "evaluate" /\ \A c \in Activities \ {a} : Keeps(c) /\ Watched(c)
    BY <2>1, TypeParts DEF OtherTypes, StackTypes, Keeps, Watched
  <2>3. LocksCalm
    BY <1>10, <2>1, ReleasesCalm DEF guardOffWhen
  <2> QED  BY <1>4, <2>2, <2>3 DEF Reserving
<1>11. ASSUME NEW v \in BOOLEAN, notify(a, v) PROVE CircleInv'
  <2>1. /\ frames' = frames /\ pc' = pc /\ reserveSem' = reserveSem
        /\ dependents' = dependents /\ reservingActivity' = reservingActivity
        /\ Top(a).dictionary \in Watchable
        /\ waitingObject' = [b \in Activities |->
                               IF b \in dependents[Top(a).dictionary] THEN None
                               ELSE waitingObject[b]]
    BY <1>11 DEF notify, dictionaryVars
  <2>2. ASSUME NEW c \in Activities, Blocked(c)' PROVE StaysBlocked(c)
    <3>1. Blocked(c) /\ Top(c)' = Top(c) /\ (Watches(c) => Watches(c)')
      BY <2>1, <2>2 DEF Blocked, Top, Depth, Watches
    <3>2. CASE c \in dependents[Top(a).dictionary]
      BY <2>1, <3>1, <3>2 DEF StaysBlocked, Watches
    <3>3. CASE c \notin dependents[Top(a).dictionary]
      BY <2>1, <3>1, <3>3 DEF StaysBlocked
    <3> QED  BY <3>2, <3>3
  <2> QED  BY <2>1, <2>2, CalmKeeps
<1>12. ASSUME NEW b \in Activities, reply(a, b) PROVE CircleInv'
  <2>1. /\ \A c \in Activities \ {a, b} : Keeps(c)
        /\ pc'[a] = "run" /\ pc'[b] \in {"run", "replied"} /\ Depth(a) > 0
    BY <1>12, ReplyMoves
  <2>2. dependents' = dependents
    BY <1>12 DEF reply, variableVars
  <2>3. PICK d \in Dictionaries : d = Top(a).dictionary
    BY <2>1, TopOf
  <2>4. LocksCalm
    <3>1. CASE Top(a).objectScope = "released"
      BY <1>12, <3>1, KeepCalm DEF reply
    <3>2. CASE Top(a).objectScope # "released" /\ reserveCount[d] # 1
      BY <1>12, <2>3, <3>2, ReleaseCalm DEF reply
    <3>3. CASE Top(a).objectScope # "released" /\ reserveCount[d] = 1
      <4>1. /\ reservingActivity' = [reservingActivity EXCEPT ![d] = b]
            /\ waitingObject' = waitingObject /\ reserveSem' = reserveSem
        BY <1>12, <2>3, <3>3 DEF reply
      <4>2. ~Blocked(b)'
        BY <2>1 DEF Blocked, Reserving
      <4> QED  BY <4>1, <4>2 DEF LocksCalm, TypeOK
    <3> QED  BY <3>1, <3>2, <3>3
  <2> QED  BY <1>2, <2>1, <2>2, <2>4, LocksCalmKeeps DEF Reserving
<1>13. ASSUME waitReserve(a) \/ evaluate(a) \/ clearGuard(a) PROVE CircleInv'
  <2>1. /\ pc'[a] \in {"run", "evaluate", "passed", "failed"} /\ KeepLocks
        /\ \A c \in Activities \ {a} : Keeps(c)
    BY <1>13, TypeParts DEF OtherTypes, StackTypes, waitReserve, evaluate, clearGuard,
                            Proceed, Goto, Keeps, Reserving
  <2>2. \A c \in Activities \ {a} : Watched(c)
    BY <1>13, TypeParts DEF OtherTypes, waitReserve, evaluate, clearGuard, variableVars,
                            Watched
  <2> QED  BY <1>4, <2>1, <2>2, KeepCalm DEF Reserving
<1>14. ASSUME guardWait(a) PROVE CircleInv'
  <2>1. /\ pc'[a] = "guardWait" /\ dependents' = dependents /\ Depth(a) > 0
        /\ \A c \in Activities \ {a} : Keeps(c)
    BY <1>14, TypeParts DEF OtherTypes, StackTypes, guardWait, At, Goto, Keeps,
                            variableVars, Placed
  <2>2. LocksCalm
    BY <1>14, <2>1, ReleasesCalm DEF guardWait
  <2> QED  BY <1>2, <1>4, <2>1, <2>2 DEF Reserving
<1>15. ASSUME guardWake(a) PROVE CircleInv'
  <2>1. dependents' = dependents
    BY <1>15 DEF guardWake, variableVars
  <2>2. CASE held[a]
    <3>1. Asks(a, frames[a], "rewait") /\ reserve(a, frames[a], "rewait")
      BY <1>15, <2>2, AsksTop DEF guardWake, At, Reserving, Placed
    <3> QED  BY <1>2, <2>1, <3>1, ReserveCircle
  <2>3. CASE ~held[a]
    <3>1. pc'[a] = "evaluate" /\ KeepLocks /\ \A c \in Activities \ {a} : Keeps(c)
      BY <1>15, <2>3, TypeParts DEF OtherTypes, guardWake, Proceed, Goto, Keeps
    <3> QED  BY <1>2, <1>4, <2>1, <3>1, KeepCalm DEF Reserving
  <2> QED  BY <2>2, <2>3
<1>16. ASSUME resume(a) PROVE CircleInv'
  <2>1. /\ Asks(a, frames[a], "resume") /\ reserve(a, frames[a], "resume")
        /\ dependents' = dependents
    BY <1>16, AsksTop DEF resume, At, Reserving, variableVars, Placed
  <2> QED  BY <1>2, <2>1, ReserveCircle
<1> QED  BY <1>1, <1>5, <1>6, <1>7, <1>8, <1>9, <1>10, <1>11, <1>12, <1>13, <1>14,
            <1>15, <1>16 DEF Call, Guard, Assign, Reply, GoOn

LEMMA CircleInit == Init => CircleInv
<1> SUFFICES ASSUME Init PROVE CircleInv
  OBVIOUS
<1>1. \A a \in Activities : ~Blocked(a)
  BY DEF Init, Blocked, Reserving
<1> QED  BY <1>1 DEF CircleInv, NoCircle, Closed, WaitsShown

(* Activities that wait for each other's locks in a circle: one of them    *)
(* watches a variable.  checkDeadLock() finds every other circle.          *)
THEOREM CirclesInvolveGuard == Spec => []CircularWaitInvolvesGuard
<1>1. IInv /\ CircleInv /\ [Next]_vars => CircleInv'
  <2>1. ASSUME IInv, CircleInv, UNCHANGED vars PROVE CircleInv'
    <3>1. LocksCalm /\ \A c \in Activities : Keeps(c) /\ Watched(c)
      BY <2>1 DEF vars, dictionaryVars, variableVars, LocksCalm, Keeps, Watched
    <3> QED  BY <2>1, <3>1, LocksCalmKeeps
  <2> QED  BY <2>1, CircleNext
<1>2. IInv /\ CircleInv => CircularWaitInvolvesGuard
  BY CircleClosed DEF CircleInv
<1> QED  BY <1>1, <1>2, CircleInit, InvHolds, PTL DEF Spec
=============================================================================
