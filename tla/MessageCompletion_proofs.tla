---------------------- MODULE MessageCompletion_proofs ----------------------
(***************************************************************************)
(* Proofs about MessageCompletion, for any activities, messages, listeners *)
(* and bounds.                                                             *)
(***************************************************************************)
EXTENDS MessageCompletion, SequenceTheorems, FiniteSetTheorems,
        WellFoundedInduction, TLAPS

(***************************************************************************)
(* Types.                                                                  *)
(***************************************************************************)
Party == [party : AllMessages \cup Listeners, told : 0..2, late : BOOLEAN]
Message == [returned : BOOLEAN, raised : BOOLEAN, notified : BOOLEAN,
            activated : BOOLEAN, startActivity : Activities \cup {None},
            parties : Seq(Party), waiters : SUBSET Activities]

(* What messages there are: copies that are still to be made are untouched. *)
Known(f) == Messages \cup {x \in Copies : f[x].startActivity # None}
MessageMaps ==
    {f \in [AllMessages -> Message] :
        /\ \A x \in AllMessages \ Known(f) : f[x] = NewMessage
        /\ \A x \in AllMessages : \A i \in 1..Len(f[x].parties) :
             f[x].parties[i].party \in Known(f) \cup Listeners}

Loops == {"notifying", "reporting"}
FrameEntries == [kind : {"frame"}, msg : AllMessages \cup {None}]
DispatchEntries == [kind : Bases \cup {"dispatch"}, msg : AllMessages]
LoopEntries == [kind : Loops, msg : AllMessages, next : Nat, count : Nat]
Entries == FrameEntries \cup DispatchEntries \cup LoopEntries
Modes == {"run", "raise", "wait", "endless"}

Typed ==
    /\ message \in MessageMaps
    /\ stack \in [Activities -> Seq(Entries)]
    /\ mode \in [Activities -> Modes]
    /\ waitingObject \in [Activities -> AllMessages \cup {None}]
    /\ reused \subseteq AllMessages /\ failed \subseteq AllMessages
    /\ lost \subseteq AllMessages

(* One entry of the stack s of a, when the messages are f.                 *)
EntryOK(a, s, i, f) ==
    /\ s[i].msg \in Known(f) \cup {None}
    /\ i = 1 => s[i].kind \in Activations
    /\ i # 1 => s[i].kind \notin Bases
    /\ s[i].kind = "frame" /\ s[i].msg # None => i + 2 <= MaxDepth
    /\ s[i].kind \in Loops => /\ 1 <= s[i].next /\ s[i].next <= s[i].count + 1
                              /\ s[i].count <= Len(f[s[i].msg].parties)
    /\ s[i].kind = "starting" => /\ Len(s) = 1 /\ f[s[i].msg].activated
                                 /\ f[s[i].msg].startActivity = a

StackOK(a, s, f) ==
    /\ s \in Seq(Entries) /\ Len(s) <= MaxDepth
    /\ \A i \in 1..Len(s) : EntryOK(a, s, i, f)
StacksOK == \A a \in Activities : StackOK(a, stack[a], message)

(* What every change of the messages from f to g keeps: no party is        *)
(* forgotten, and a message that was started stays where it is.            *)
Grows(f, g) ==
    /\ Known(f) \subseteq Known(g)
    /\ \A x \in AllMessages :
         /\ Len(g[x].parties) >= Len(f[x].parties)
         /\ f[x].activated =>
              /\ g[x].activated
              /\ f[x].startActivity # None => g[x].startActivity = f[x].startActivity
              /\ f[x].returned \/ f[x].raised => g[x].returned \/ g[x].raised

(* ... and one that completes no message and wakes nobody.                 *)
Quiet(f, g) ==
    \A x \in AllMessages :
        /\ g[x].waiters = f[x].waiters
        /\ g[x].returned \/ g[x].raised => f[x].returned \/ f[x].raised

Inv == Typed /\ StacksOK /\ SleepersKnown
Stepped == Inv' /\ Grows(message, message')

-----------------------------------------------------------------------------
(* Maxima exist.                                                           *)
LEMMA LeastExists ==
    ASSUME NEW T \in SUBSET Nat, T # {}
    PROVE  \E x \in T : \A y \in T : x <= y
<1>1. PICK x \in T : \A y \in T : ~(<<y, x>> \in OpToRel(<, Nat))
  BY NatLessThanWellFounded, WFMin
<1>2. \A y \in T : ~(y < x)
  BY <1>1 DEF OpToRel
<1> QED  BY <1>2

LEMMA MaxExists ==
    ASSUME NEW n \in Nat, NEW S \in SUBSET (1..n), S # {}
    PROVE  Max(S) \in S /\ \A y \in S : Max(S) >= y
<1> DEFINE T == {n - i : i \in S}
<1>1. T \in SUBSET Nat /\ T # {}
  <2>1. \A i \in S : i \in 1..n /\ n - i \in Nat
    OBVIOUS
  <2> QED  BY <2>1
<1>2. PICK x \in T : \A y \in T : x <= y
  BY <1>1, LeastExists
<1>3. PICK i \in S : x = n - i
  BY <1>2
<1>4. \A j \in S : i >= j
  <2> TAKE j \in S
  <2>1. n - j \in T
    OBVIOUS
  <2> QED  BY <1>2, <1>3, <2>1
<1> QED  BY <1>4 DEF Max

-----------------------------------------------------------------------------
(***************************************************************************)
(* The stack operations.                                                   *)
(***************************************************************************)
LEMMA FrontFacts ==
    ASSUME NEW S, NEW s \in Seq(S), s # <<>>
    PROVE  /\ Front(s) \in Seq(S) /\ Len(s) \in Nat /\ Len(s) >= 1
           /\ Len(Front(s)) = Len(s) - 1
           /\ \A i \in 1..Len(s) - 1 : Front(s)[i] = s[i]
           /\ Last(s) = s[Len(s)] /\ Last(s) \in S
           /\ (Front(s) = <<>>) = (Len(s) = 1)
<1>1. Len(s) \in Nat /\ Len(s) >= 1 /\ \A i \in 1..Len(s) : s[i] \in S
  BY EmptySeq, ElementOfSeq
<1> DEFINE n == Len(s) - 1
           t == SubSeq(s, 1, n)
<1>2. n \in Nat /\ \A i \in 1..n : s[i] \in S
  BY <1>1
<1>3. /\ t \in Seq(S) /\ Len(t) = IF 1 <= n THEN n - 1 + 1 ELSE 0
      /\ \A i \in 1..n - 1 + 1 : t[i] = s[1 + i - 1]
  BY <1>2, SubSeqProperties
<1>4. n - 1 + 1 = n /\ \A i \in 1..n : 1 + i - 1 = i
  BY <1>2
<1>5. Front(s) = t /\ n = Len(s) - 1
  BY <1>1 DEF Front
<1> HIDE DEF t, n
<1>6. Len(t) = n /\ \A i \in 1..n : t[i] = s[i]
  <2>1. Len(t) = n
    BY <1>2, <1>3
  <2> QED  BY <1>3, <1>4, <2>1
<1>7. (t = <<>>) = (n = 0)
  BY <1>3, <1>6, EmptySeq
<1> QED  BY <1>1, <1>3, <1>5, <1>6, <1>7 DEF Last

LEMMA UnwoundFacts ==
    ASSUME NEW s \in Seq(Entries), s # <<>>, s[1].kind \in Activations
    PROVE  /\ TopFrame(s) \in 1..Len(s) /\ s[TopFrame(s)].kind \in Activations
           /\ \A i \in TopFrame(s) + 1..Len(s) : s[i].kind \notin Activations
           /\ Unwound(s) \in Seq(Entries) /\ Len(Unwound(s)) = TopFrame(s)
           /\ \A i \in 1..TopFrame(s) : Unwound(s)[i] = s[i]
           /\ Last(Unwound(s)) = s[TopFrame(s)]
<1> DEFINE P == {i \in DOMAIN s : s[i].kind \in Activations}
           f == TopFrame(s)
<1>1. Len(s) \in Nat /\ Len(s) >= 1 /\ DOMAIN s = 1..Len(s)
      /\ \A i \in 1..Len(s) : s[i] \in Entries
  BY EmptySeq, LenProperties, ElementOfSeq
<1>2. P \in SUBSET (1..Len(s)) /\ 1 \in P
  BY <1>1
<1>3. f = Max(P)
  BY <1>2 DEF TopFrame
<1>4. f \in P /\ \A y \in P : f >= y
  BY <1>1, <1>2, <1>3, MaxExists
<1>5. /\ f \in 1..Len(s) /\ s[f].kind \in Activations
      /\ \A i \in f + 1..Len(s) : s[i].kind \notin Activations
  <2>1. f \in 1..Len(s) /\ s[f].kind \in Activations
    BY <1>1, <1>4
  <2>2. \A i \in f + 1..Len(s) : i \in 1..Len(s) /\ ~(f >= i)
    BY <1>1, <2>1
  <2> HIDE DEF f
  <2>3. \A i \in f + 1..Len(s) : s[i].kind \notin Activations
    BY <1>1, <1>4, <2>2
  <2> QED  BY <2>1, <2>3
<1> HIDE DEF f, P
<1>6. /\ SubSeq(s, 1, f) \in Seq(Entries)
      /\ Len(SubSeq(s, 1, f)) = f
      /\ \A i \in 1..f : SubSeq(s, 1, f)[i] = s[i]
  <2>1. f \in Int /\ 1 <= f /\ \A i \in 1..f : s[i] \in Entries
    BY <1>1, <1>5
  <2> DEFINE t == SubSeq(s, 1, f)
  <2>2. /\ t \in Seq(Entries) /\ Len(t) = IF 1 <= f THEN f - 1 + 1 ELSE 0
        /\ \A i \in 1..f - 1 + 1 : t[i] = s[1 + i - 1]
    BY <2>1, SubSeqProperties
  <2>3. f - 1 + 1 = f /\ \A i \in 1..f : 1 + i - 1 = i
    BY <2>1
  <2> HIDE DEF t
  <2>4. t \in Seq(Entries) /\ Len(t) = f /\ \A i \in 1..f : t[i] = s[i]
    BY <2>1, <2>2, <2>3
  <2> QED  BY <2>4 DEF t
<1>7. Unwound(s) = SubSeq(s, 1, f)
  BY DEF Unwound, f
<1>8. Last(Unwound(s)) = s[f]
  BY <1>1, <1>5, <1>6, <1>7 DEF Last
<1> QED  BY <1>5, <1>6, <1>7, <1>8 DEF f

(* A part of a good stack from its bottom.                                 *)
LEMMA PrefixOK ==
    ASSUME NEW a, NEW f, NEW s, NEW t, StackOK(a, s, f),
           t \in Seq(Entries), Len(t) <= Len(s), \A i \in 1..Len(t) : t[i] = s[i]
    PROVE  StackOK(a, t, f)
<1>1. Len(s) \in Nat /\ Len(t) \in Nat
  BY LenProperties DEF StackOK
<1>2. \A i \in 1..Len(t) : EntryOK(a, s, i, f)
  BY <1>1 DEF StackOK
<1>3. \A i \in 1..Len(t) : EntryOK(a, t, i, f)
  <2> SUFFICES ASSUME NEW i \in 1..Len(t) PROVE EntryOK(a, t, i, f)
    OBVIOUS
  <2>1. EntryOK(a, s, i, f) /\ t[i] = s[i]
    BY <1>2
  <2>2. Len(s) = 1 => Len(t) = 1
    <3>1. PICK x \in Nat, y \in Nat : x = Len(s) /\ y = Len(t)
      BY <1>1
    <3>2. 1 <= y /\ y <= x
      BY <3>1
    <3>3. x = 1 => y = 1
      BY <3>2
    <3> QED  BY <3>1, <3>3
  <2> QED  BY <2>1, <2>2 DEF EntryOK
<1>4. Len(t) <= MaxDepth
  BY <1>1, MessageAssumption DEF StackOK
<1> QED  BY <1>3, <1>4 DEF StackOK

(* Something is put on top.                                                *)
LEMMA PushOK ==
    ASSUME NEW a, NEW f, NEW s, NEW e \in Entries, StackOK(a, s, f), s # <<>>,
           Len(s) + 1 <= MaxDepth, e.kind \notin Bases, Kind(s) # "starting",
           e.kind = "frame" => e.msg = None, e.msg \in Known(f) \cup {None},
           e.kind \in Loops => /\ 1 <= e.next /\ e.next <= e.count + 1
                               /\ e.count <= Len(f[e.msg].parties)
    PROVE  StackOK(a, Append(s, e), f)
<1> DEFINE t == Append(s, e)
<1>1. s \in Seq(Entries) /\ Len(s) \in Nat /\ Len(s) >= 1 /\ Last(s) = s[Len(s)]
  BY FrontFacts DEF StackOK
<1>2. /\ t \in Seq(Entries) /\ Len(t) = Len(s) + 1 /\ t[Len(s) + 1] = e
      /\ \A i \in 1..Len(s) : t[i] = s[i]
  BY <1>1, AppendProperties
<1> HIDE DEF t
<1>3. ASSUME NEW i \in 1..Len(t) PROVE EntryOK(a, t, i, f)
  <2>1. CASE i = Len(s) + 1
    BY <1>1, <1>2, <2>1 DEF EntryOK, Bases, Loops
  <2>2. CASE i # Len(s) + 1
    <3>1. i \in 1..Len(s) /\ t[i] = s[i]
      BY <1>1, <1>2, <2>2
    <3>2. EntryOK(a, s, i, f)
      BY <3>1 DEF StackOK
    <3>3. s[i].kind # "starting"
      <4>1. CASE i = Len(s)
        BY <1>1, <4>1 DEF Kind
      <4>2. CASE i # Len(s)
        BY <1>1, <3>1, <3>2, <4>2 DEF EntryOK
      <4> QED  BY <4>1, <4>2
    <3> QED  BY <3>1, <3>2, <3>3 DEF EntryOK
  <2> QED  BY <2>1, <2>2
<1> QED  BY <1>2, <1>3 DEF StackOK, t

(* setObjNotify() changes the message of one frame.                        *)
LEMMA NotifyFacts ==
    ASSUME NEW s \in Seq(Entries), s # <<>>, s[1].kind \in Activations,
           NEW m \in AllMessages \cup {None}
    PROVE  LET t == setObjNotify(s, m) IN
           /\ t \in Seq(Entries) /\ Len(t) = Len(s) /\ t # <<>>
           /\ \A i \in 1..Len(s) :
                /\ t[i].kind = s[i].kind
                /\ i # TopFrame(s) => t[i] = s[i]
                /\ i = TopFrame(s) =>
                     IF s[i].kind = "frame" THEN t[i].msg = m ELSE t[i] = s[i]
<1> DEFINE f == TopFrame(s)
           t == setObjNotify(s, m)
<1>1. f \in 1..Len(s) /\ f # 0 /\ s[f] \in Entries /\ s[f].kind \in Activations
  <2>1. f \in 1..Len(s) /\ s[f].kind \in Activations
    BY UnwoundFacts
  <2> HIDE DEF f
  <2>2. s[f] \in Entries
    BY <2>1, ElementOfSeq
  <2>3. f # 0
    BY <2>1
  <2> QED  BY <2>1, <2>2, <2>3
<1>2. CASE s[f].kind = "frame"
  <2> DEFINE e == [s[f] EXCEPT !.msg = m]
  <2>1. e \in Entries /\ e.kind = "frame" /\ e.msg = m
    BY <1>1, <1>2 DEF Entries, FrameEntries, DispatchEntries, LoopEntries, Bases, Loops
  <2>2. t = [s EXCEPT ![f] = e]
    BY <1>1, <1>2 DEF setObjNotify
  <2> HIDE DEF e, f, t
  <2>3. /\ t \in Seq(Entries) /\ Len(t) = Len(s)
        /\ \A i \in 1..Len(s) : t[i] = IF i = f THEN e ELSE s[i]
    BY <1>1, <2>1, <2>2, ExceptSeq
  <2>4. t # <<>>
    BY <2>3, EmptySeq
  <2> QED  BY <1>2, <2>1, <2>3, <2>4 DEF t, f
<1>3. CASE s[f].kind # "frame"
  <2>1. t = s
    BY <1>1, <1>3 DEF setObjNotify
  <2> QED  BY <1>3, <2>1 DEF f
<1> QED  BY <1>2, <1>3

LEMMA NotifyOK ==
    ASSUME NEW a, NEW f, NEW s, StackOK(a, s, f), s # <<>>,
           NEW m \in Known(f) \cup {None}, m # None => Len(s) + 2 <= MaxDepth
    PROVE  /\ StackOK(a, setObjNotify(s, m), f)
           /\ Len(setObjNotify(s, m)) = Len(s) /\ setObjNotify(s, m) # <<>>
           /\ Kind(setObjNotify(s, m)) = Kind(s)
<1> DEFINE t == setObjNotify(s, m)
<1>1. s \in Seq(Entries) /\ Len(s) \in Nat /\ Len(s) >= 1 /\ Last(s) = s[Len(s)]
  BY FrontFacts DEF StackOK
<1>2. s[1].kind \in Activations
  BY <1>1 DEF StackOK, EntryOK
<1>3. /\ t \in Seq(Entries) /\ Len(t) = Len(s) /\ t # <<>>
      /\ \A i \in 1..Len(s) :
                /\ t[i].kind = s[i].kind
                /\ i # TopFrame(s) => t[i] = s[i]
                /\ i = TopFrame(s) =>
                     IF s[i].kind = "frame" THEN t[i].msg = m ELSE t[i] = s[i]
  BY <1>1, <1>2, NotifyFacts DEF Known, AllMessages
<1> HIDE DEF t
<1>4. ASSUME NEW i \in 1..Len(t) PROVE EntryOK(a, t, i, f)
  <2>1. EntryOK(a, s, i, f) /\ i <= Len(s) /\ i \in Int
    BY <1>1, <1>3 DEF StackOK
  <2>2. CASE t[i] = s[i]
    BY <1>3, <2>1, <2>2 DEF EntryOK
  <2>3. CASE t[i] # s[i]
    <3>1. s[i].kind = "frame" /\ t[i].kind = "frame" /\ t[i].msg = m
      BY <1>3, <2>3
    <3>2. m # None => i + 2 <= MaxDepth
      BY <1>1, <2>1, MessageAssumption
    <3> QED  BY <2>1, <3>1, <3>2 DEF EntryOK, Loops
  <2> QED  BY <2>2, <2>3
<1>5. Kind(t) = Kind(s)
  <2>1. Last(t) = t[Len(s)]
    BY <1>3 DEF Last
  <2> QED  BY <1>1, <1>3, <2>1 DEF Kind
<1>6. StackOK(a, t, f)
  BY <1>3, <1>4 DEF StackOK
<1> QED  BY <1>3, <1>5, <1>6 DEF t

(* A good stack stays good when the messages grow.                         *)
LEMMA GrowOK ==
    ASSUME NEW a, a # None, NEW s, NEW f \in MessageMaps, NEW g \in MessageMaps,
           Grows(f, g), StackOK(a, s, f)
    PROVE  StackOK(a, s, g)
<1> SUFFICES ASSUME NEW i \in 1..Len(s) PROVE EntryOK(a, s, i, g)
  BY DEF StackOK
<1>1. EntryOK(a, s, i, f) /\ s[i] \in Entries /\ Known(f) \subseteq Known(g)
  BY ElementOfSeq DEF StackOK, Grows
<1> DEFINE m == s[i].msg
<1>2. CASE s[i].kind \in Loops
  <2>1. m \in AllMessages /\ s[i].count \in Nat
    BY <1>1, <1>2 DEF Entries, FrameEntries, DispatchEntries, LoopEntries, Bases, Loops
  <2>2. Len(g[m].parties) >= Len(f[m].parties)
    BY <2>1 DEF Grows
  <2>3. Len(g[m].parties) \in Nat /\ Len(f[m].parties) \in Nat
    <3>1. g[m].parties \in Seq(Party) /\ f[m].parties \in Seq(Party)
      BY <2>1 DEF MessageMaps, Message
    <3> QED  BY <3>1, LenProperties
  <2>4. s[i].count <= Len(g[m].parties)
    <3>1. s[i].count <= Len(f[m].parties)
      BY <1>1, <1>2 DEF EntryOK
    <3> HIDE DEF m
    <3> QED  BY <2>1, <2>2, <2>3, <3>1
  <2> QED  BY <1>1, <1>2, <2>4 DEF EntryOK, Loops
<1>3. CASE s[i].kind = "starting"
  <2>1. m \in AllMessages
    BY <1>1, <1>3 DEF Entries, FrameEntries, DispatchEntries, LoopEntries, Bases, Loops
  <2> QED  BY <1>1, <1>3, <2>1 DEF EntryOK, Loops, Grows
<1>4. CASE s[i].kind \notin Loops \cup {"starting"}
  BY <1>1, <1>4 DEF EntryOK
<1> QED  BY <1>2, <1>3, <1>4

-----------------------------------------------------------------------------
(***************************************************************************)
(* Changes of the messages.                                                *)
(***************************************************************************)
LEMMA SeqByFunction ==
    ASSUME NEW S, NEW n \in Nat, NEW q \in [1..n -> S]
    PROVE  q \in Seq(S) /\ Len(q) = n
<1>1. q \in Seq(S)
  BY SeqDef
<1>2. Len(q) \in Nat /\ DOMAIN q = 1..Len(q) /\ DOMAIN q = 1..n
  BY <1>1, LenProperties
<1>3. PICK k \in Nat : k = Len(q) /\ 1..k = 1..n
  BY <1>2
<1>4. k = n
  <2>1. CASE k < n
    <3>1. n \in 1..n /\ n \notin 1..k
      BY <2>1
    <3> QED  BY <1>3, <3>1
  <2>2. CASE n < k
    <3>1. k \in 1..k /\ k \notin 1..n
      BY <2>2
    <3> QED  BY <1>3, <3>1
  <2> QED  BY <2>1, <2>2
<1> QED  BY <1>1, <1>3, <1>4

LEMMA PartiesFacts ==
    ASSUME NEW p \in Seq(Party), NEW i \in 1..Len(p)
    PROVE  /\ p[i] \in Party /\ p[i].told \in 0..2
           /\ p[i].party \in AllMessages \cup Listeners
<1>1. p[i] \in Party
  BY ElementOfSeq
<1> QED  BY <1>1 DEF Party

(* clearCompletion().                                                      *)
LEMMA ClearedFacts ==
    ASSUME NEW r \in Message
    PROVE  LET c == Cleared(r) IN
           /\ c \in Message
           /\ c.waiters = r.waiters /\ c.activated = r.activated
           /\ c.startActivity = r.startActivity
           /\ ~c.returned /\ ~c.raised /\ ~c.notified
           /\ Len(c.parties) = Len(r.parties)
           /\ \A i \in 1..Len(r.parties) : c.parties[i] = [r.parties[i] EXCEPT !.told = 0]
<1> DEFINE p == r.parties
           q == [i \in DOMAIN p |-> [p[i] EXCEPT !.told = 0]]
<1>1. p \in Seq(Party) /\ Len(p) \in Nat /\ DOMAIN p = 1..Len(p)
  <2>1. p \in Seq(Party)
    BY DEF Message
  <2> QED  BY <2>1, LenProperties
<1>2. \A i \in 1..Len(p) : [p[i] EXCEPT !.told = 0] \in Party
  <2> SUFFICES ASSUME NEW i \in 1..Len(p) PROVE [p[i] EXCEPT !.told = 0] \in Party
    OBVIOUS
  <2>1. p[i] \in Party
    BY <1>1, PartiesFacts
  <2> QED  BY <2>1 DEF Party
<1>3. q \in [1..Len(p) -> Party]
  BY <1>1, <1>2
<1>4. q \in Seq(Party) /\ Len(q) = Len(p)
  BY <1>1, <1>3, SeqByFunction
<1>5. \A i \in 1..Len(p) : q[i] = [p[i] EXCEPT !.told = 0]
  BY <1>1
<1>6. Cleared(r) = [r EXCEPT !.returned = FALSE, !.raised = FALSE, !.notified = FALSE,
                             !.parties = q]
  BY DEF Cleared
<1> HIDE DEF q
<1>7. /\ Cleared(r) \in Message
      /\ Cleared(r).waiters = r.waiters /\ Cleared(r).activated = r.activated
      /\ Cleared(r).startActivity = r.startActivity
      /\ ~Cleared(r).returned /\ ~Cleared(r).raised /\ ~Cleared(r).notified
      /\ Cleared(r).parties = q
  BY <1>4, <1>6 DEF Message
<1> QED  BY <1>4, <1>5, <1>7

(* A message changed in place.                                             *)
LEMMA ChangeOne ==
    ASSUME NEW f \in MessageMaps, NEW m \in Known(f), NEW r \in Message,
           f[m].startActivity # None => r.startActivity # None,
           \A i \in 1..Len(r.parties) : r.parties[i].party \in Known(f) \cup Listeners,
           Len(r.parties) >= Len(f[m].parties),
           f[m].activated =>
             /\ r.activated
             /\ f[m].startActivity # None => r.startActivity = f[m].startActivity
             /\ f[m].returned \/ f[m].raised => r.returned \/ r.raised
    PROVE  /\ [f EXCEPT ![m] = r] \in MessageMaps
           /\ Grows(f, [f EXCEPT ![m] = r])
           /\ /\ r.waiters = f[m].waiters
              /\ r.returned \/ r.raised => f[m].returned \/ f[m].raised
              => Quiet(f, [f EXCEPT ![m] = r])
<1> DEFINE g == [f EXCEPT ![m] = r]
<1>1. /\ g \in [AllMessages -> Message] /\ m \in AllMessages
      /\ \A x \in AllMessages : g[x] = IF x = m THEN r ELSE f[x]
  BY DEF MessageMaps, Known, AllMessages
<1> HIDE DEF g
<1>5. Known(f) \subseteq Known(g) /\ m \in Known(g)
  BY <1>1 DEF Known, AllMessages
<1>6. g \in MessageMaps
  <2>1. \A x \in AllMessages \ Known(g) : g[x] = NewMessage
    BY <1>1, <1>5 DEF MessageMaps
  <2>2. ASSUME NEW x \in AllMessages, NEW i \in 1..Len(g[x].parties)
        PROVE  g[x].parties[i].party \in Known(g) \cup Listeners
    <3>1. CASE x = m
      BY <1>1, <1>5, <2>2, <3>1
    <3>2. CASE x # m
      BY <1>1, <1>5, <2>2, <3>2 DEF MessageMaps
    <3> QED  BY <3>1, <3>2
  <2> QED  BY <1>1, <2>1, <2>2 DEF MessageMaps
<1>2. \A x \in AllMessages : Len(f[x].parties) \in Nat
  <2>1. \A x \in AllMessages : f[x].parties \in Seq(Party)
    BY DEF MessageMaps, Message
  <2> QED  BY <2>1, LenProperties
<1>3. Grows(f, g)
  <2> SUFFICES ASSUME NEW x \in AllMessages
      PROVE  /\ Len(g[x].parties) >= Len(f[x].parties)
             /\ f[x].activated =>
                  /\ g[x].activated
                  /\ f[x].startActivity # None => g[x].startActivity = f[x].startActivity
                  /\ f[x].returned \/ f[x].raised => g[x].returned \/ g[x].raised
    BY <1>5 DEF Grows
  <2>1. CASE x = m
    BY <1>1, <2>1
  <2>2. CASE x # m
    BY <1>1, <1>2, <2>2
  <2> QED  BY <2>1, <2>2
<1>4. ASSUME r.waiters = f[m].waiters,
             r.returned \/ r.raised => f[m].returned \/ f[m].raised
      PROVE  Quiet(f, g)
  BY <1>1, <1>4 DEF Quiet
<1> QED  BY <1>3, <1>4, <1>6 DEF g

LEMMA NothingChanges ==
    ASSUME NEW f \in MessageMaps
    PROVE  Grows(f, f) /\ Quiet(f, f)
<1>1. \A x \in AllMessages : f[x].parties \in Seq(Party)
  BY DEF MessageMaps, Message
<1>2. \A x \in AllMessages : Len(f[x].parties) \in Nat
  BY <1>1, LenProperties
<1> QED  BY <1>2 DEF Grows, Quiet

(* Two changes in a row.                                                   *)
LEMMA ChangeTwice ==
    ASSUME NEW f \in MessageMaps, NEW g \in MessageMaps, NEW h \in MessageMaps,
           Grows(f, g), Grows(g, h)
    PROVE  /\ Grows(f, h)
           /\ Quiet(f, g) /\ Quiet(g, h) => Quiet(f, h)
<1>1. \A x \in AllMessages : /\ f[x].parties \in Seq(Party)
                             /\ g[x].parties \in Seq(Party)
                             /\ h[x].parties \in Seq(Party)
  BY DEF MessageMaps, Message
<1>2. \A x \in AllMessages : /\ Len(f[x].parties) \in Nat
                             /\ Len(g[x].parties) \in Nat
                             /\ Len(h[x].parties) \in Nat
  BY <1>1, LenProperties
<1>3. Grows(f, h)
  <2> SUFFICES ASSUME NEW x \in AllMessages
      PROVE  /\ Len(h[x].parties) >= Len(f[x].parties)
             /\ f[x].activated =>
                  /\ h[x].activated
                  /\ f[x].startActivity # None => h[x].startActivity = f[x].startActivity
                  /\ f[x].returned \/ f[x].raised => h[x].returned \/ h[x].raised
    BY DEF Grows
  <2>1. Len(h[x].parties) >= Len(f[x].parties)
    BY <1>2 DEF Grows
  <2>2. f[x].activated =>
             /\ h[x].activated
             /\ f[x].startActivity # None => h[x].startActivity = f[x].startActivity
             /\ f[x].returned \/ f[x].raised => h[x].returned \/ h[x].raised
    BY DEF Grows
  <2> QED  BY <2>1, <2>2
<1>4. Quiet(f, g) /\ Quiet(g, h) => Quiet(f, h)
  BY DEF Quiet
<1> QED  BY <1>3, <1>4

-----------------------------------------------------------------------------
(***************************************************************************)
(* What a step has to show.                                                *)
(***************************************************************************)
(* One activity has a new stack.                                           *)
LEMMA StackMoves ==
    ASSUME Inv, NEW a \in Activities, NEW t, stack' = [stack EXCEPT ![a] = t],
           message' \in MessageMaps, Grows(message, message'),
           StackOK(a, t, message')
    PROVE  stack' \in [Activities -> Seq(Entries)] /\ StacksOK'
<1>1. stack \in [Activities -> Seq(Entries)] /\ message \in MessageMaps /\ t \in Seq(Entries)
  BY DEF Inv, Typed, StackOK
<1>2. stack' \in [Activities -> Seq(Entries)]
  BY <1>1
<1>3. \A b \in Activities : StackOK(b, stack'[b], message')
  <2> SUFFICES ASSUME NEW b \in Activities PROVE StackOK(b, stack'[b], message')
    OBVIOUS
  <2>1. CASE b = a
    BY <1>1, <2>1
  <2>2. CASE b # a
    <3>1. StackOK(b, stack[b], message) /\ stack'[b] = stack[b] /\ b # None
      BY <1>1, <2>2, MessageAssumption DEF Inv, StacksOK
    <3> QED  BY <1>1, <3>1, GrowOK
  <2> QED  BY <2>1, <2>2
<1>4. StacksOK' = \A b \in Activities : StackOK(b, stack'[b], message')
  BY DEF StacksOK, StackOK, EntryOK
<1> QED  BY <1>2, <1>3, <1>4

(* No message completes, and nobody goes to sleep or wakes.                *)
LEMMA SleepersStay ==
    ASSUME Inv, NEW a \in Activities, mode[a] # "wait", NEW p \in Modes, p # "wait",
           mode' = [mode EXCEPT ![a] = p], waitingObject' = waitingObject,
           message' \in MessageMaps, Quiet(message, message')
    PROVE  mode' \in [Activities -> Modes] /\ SleepersKnown'
<1>1. mode \in [Activities -> Modes]
  BY DEF Inv, Typed
<1>2. \A b \in Activities : (mode'[b] = "wait") = (mode[b] = "wait")
  BY <1>1
<1>3. ASSUME NEW m \in AllMessages
      PROVE  /\ message'[m].waiters
                  = {b \in Activities : mode'[b] = "wait" /\ waitingObject'[b] = m}
             /\ message'[m].returned \/ message'[m].raised => message'[m].waiters = {}
  <2>1. /\ message[m].waiters
             = {b \in Activities : mode[b] = "wait" /\ waitingObject[b] = m}
        /\ message[m].returned \/ message[m].raised => message[m].waiters = {}
    BY DEF Inv, SleepersKnown, isComplete
  <2>2. /\ message'[m].waiters = message[m].waiters
        /\ message'[m].returned \/ message'[m].raised
             => message[m].returned \/ message[m].raised
    BY DEF Quiet
  <2> QED  BY <1>2, <2>1, <2>2
<1> QED  BY <1>1, <1>3 DEF SleepersKnown, isComplete

(* Everything a step of a shows that neither completes nor sleeps.         *)
LEMMA QuietStep ==
    ASSUME Inv, NEW a \in Activities, mode[a] # "wait", NEW p \in Modes, p # "wait",
           mode' = [mode EXCEPT ![a] = p], waitingObject' = waitingObject,
           NEW t, stack' = [stack EXCEPT ![a] = t], StackOK(a, t, message'),
           message' \in MessageMaps, Grows(message, message'), Quiet(message, message'),
           reused' \subseteq AllMessages, failed' \subseteq AllMessages,
           lost' \subseteq AllMessages
    PROVE  Stepped
<1>1. mode' \in [Activities -> Modes] /\ SleepersKnown'
  BY SleepersStay
<1>2. stack' \in [Activities -> Seq(Entries)] /\ StacksOK'
  BY StackMoves
<1>3. waitingObject' \in [Activities -> AllMessages \cup {None}]
  BY DEF Inv, Typed
<1> QED  BY <1>1, <1>2, <1>3 DEF Stepped, Inv, Typed

(* A stack that is unwound to its topmost activation.                      *)
LEMMA UnwindOK ==
    ASSUME NEW a, NEW f, NEW s, s # <<>>, StackOK(a, s, f)
    PROVE  /\ StackOK(a, Unwound(s), f)
           /\ \A e \in CallsAbove(s) : e.msg \in AllMessages
<1>1. /\ s \in Seq(Entries) /\ s[1].kind \in Activations /\ Len(s) \in Nat
      /\ \A i \in 1..Len(s) : s[i] \in Entries
  BY FrontFacts, ElementOfSeq DEF StackOK, EntryOK
<1>2. /\ TopFrame(s) \in 1..Len(s)
      /\ Unwound(s) \in Seq(Entries) /\ Len(Unwound(s)) = TopFrame(s)
      /\ \A i \in 1..TopFrame(s) : Unwound(s)[i] = s[i]
      /\ \A i \in TopFrame(s) + 1..Len(s) : s[i].kind \notin Activations
  BY <1>1, UnwoundFacts
<1>3. StackOK(a, Unwound(s), f)
  BY <1>1, <1>2, PrefixOK
<1>4. \A e \in CallsAbove(s) : e.msg \in AllMessages
  <2> SUFFICES ASSUME NEW i \in TopFrame(s) + 1..Len(s) PROVE s[i].msg \in AllMessages
    BY DEF CallsAbove
  <2>1. i \in 1..Len(s)
    BY <1>1, <1>2
  <2>2. s[i] \in Entries /\ s[i].kind # "frame"
    BY <1>1, <1>2, <2>1 DEF Activations
  <2> QED  BY <2>2 DEF Entries, FrameEntries, DispatchEntries, LoopEntries, Bases, Loops
<1> QED  BY <1>3, <1>4

(* SYNTAX comes up on the stack s of a, the messages changed before.       *)
LEMMA RaiseStep ==
    ASSUME Inv, NEW a \in Activities, mode[a] # "wait", NEW s, s # <<>>,
           StackOK(a, s, message'), RaiseFrom(a, s),
           message' \in MessageMaps, Grows(message, message'), Quiet(message, message'),
           reused' \subseteq AllMessages
    PROVE  Stepped
<1>1. /\ StackOK(a, Unwound(s), message')
      /\ \A e \in CallsAbove(s) : e.msg \in AllMessages
  BY UnwindOK
<1>2. /\ failed' \subseteq AllMessages /\ lost' \subseteq AllMessages
      /\ mode' = [mode EXCEPT ![a] = "raise"] /\ waitingObject' = waitingObject
      /\ stack' = [stack EXCEPT ![a] = Unwound(s)]
  BY <1>1 DEF RaiseFrom, Inv, Typed
<1> QED  BY <1>1, <1>2, QuietStep DEF Modes

-----------------------------------------------------------------------------
(***************************************************************************)
(* Sending and telling.                                                    *)
(***************************************************************************)
LEMMA TopFacts ==
    ASSUME NEW a, NEW f, NEW s, StackOK(a, s, f), s # <<>>
    PROVE  /\ s \in Seq(Entries) /\ Len(s) \in Nat /\ Len(s) >= 1
           /\ Last(s) = s[Len(s)] /\ Last(s) \in Entries
           /\ Kind(s) = Last(s).kind /\ EntryOK(a, s, Len(s), f)
           /\ s[1].kind \in Activations
<1>1. /\ s \in Seq(Entries) /\ Len(s) \in Nat /\ Len(s) >= 1
      /\ Last(s) = s[Len(s)] /\ Last(s) \in Entries
  BY FrontFacts DEF StackOK
<1>2. EntryOK(a, s, 1, f) /\ EntryOK(a, s, Len(s), f)
  BY <1>1 DEF StackOK
<1>3. Kind(s) = Last(s).kind
  BY DEF Kind
<1> QED  BY <1>1, <1>2, <1>3 DEF EntryOK

LEMMA EntryFacts ==
    /\ \A m \in AllMessages, k \in Bases \cup {"dispatch"} :
         Entry(k, m) \in Entries /\ Entry(k, m).kind = k /\ Entry(k, m).msg = m
    /\ \A m \in AllMessages \cup {None} :
         /\ Entry("frame", m) \in Entries
         /\ Entry("frame", m).kind = "frame" /\ Entry("frame", m).msg = m
    /\ \A k \in Loops, m \in AllMessages, n \in Nat :
         /\ Loop(k, m, n) \in Entries /\ Loop(k, m, n).kind = k /\ Loop(k, m, n).msg = m
         /\ Loop(k, m, n).next = 1 /\ Loop(k, m, n).count = n
BY DEF Entry, Loop, Entries, FrameEntries, DispatchEntries, LoopEntries

LEMMA KnownFacts ==
    ASSUME NEW f
    PROVE  Known(f) \subseteq AllMessages /\ None \notin Known(f)
BY MessageAssumption DEF Known, AllMessages

LEMMA PartiesSeq ==
    ASSUME NEW f \in MessageMaps, NEW m \in AllMessages
    PROVE  f[m] \in Message /\ f[m].parties \in Seq(Party) /\ Len(f[m].parties) \in Nat
<1>1. f[m] \in Message /\ f[m].parties \in Seq(Party)
  BY DEF MessageMaps, Message
<1> QED  BY <1>1, LenProperties

(* A cleared message, with other data members.                             *)
LEMMA ClearOK ==
    ASSUME NEW f \in MessageMaps, NEW m \in Known(f), ~f[m].activated,
           NEW act \in BOOLEAN, NEW starter \in Activities \cup {None},
           f[m].startActivity # None => starter # None
    PROVE  LET r == [Cleared(f[m]) EXCEPT !.activated = act, !.startActivity = starter]
               g == [f EXCEPT ![m] = r]
           IN  g \in MessageMaps /\ Grows(f, g) /\ Quiet(f, g) /\ r \in Message
<1> DEFINE c == Cleared(f[m])
           r == [c EXCEPT !.activated = act, !.startActivity = starter]
<1>1. m \in AllMessages /\ f[m] \in Message /\ f[m].parties \in Seq(Party)
      /\ Len(f[m].parties) \in Nat
  BY KnownFacts, PartiesSeq
<1>2. /\ c \in Message /\ c.waiters = f[m].waiters
      /\ ~c.returned /\ ~c.raised
      /\ Len(c.parties) = Len(f[m].parties)
      /\ \A i \in 1..Len(f[m].parties) : c.parties[i] = [f[m].parties[i] EXCEPT !.told = 0]
  BY <1>1, ClearedFacts
<1> HIDE DEF c
<1>3. /\ r \in Message /\ r.parties = c.parties /\ r.waiters = c.waiters
      /\ r.startActivity = starter /\ ~r.returned /\ ~r.raised
  BY <1>2 DEF Message
<1>4. \A i \in 1..Len(c.parties) : c.parties[i].party \in Known(f) \cup Listeners
  <2> SUFFICES ASSUME NEW i \in 1..Len(c.parties)
               PROVE  c.parties[i].party \in Known(f) \cup Listeners
    OBVIOUS
  <2>1. f[m].parties[i] \in Party /\ f[m].parties[i].party \in Known(f) \cup Listeners
    BY <1>1, <1>2, PartiesFacts DEF MessageMaps
  <2> QED  BY <1>2, <2>1 DEF Party
<1> HIDE DEF r
<1>5. /\ [f EXCEPT ![m] = r] \in MessageMaps /\ Grows(f, [f EXCEPT ![m] = r])
      /\ Quiet(f, [f EXCEPT ![m] = r])
  BY <1>1, <1>2, <1>3, <1>4, ChangeOne
<1> QED  BY <1>3, <1>5 DEF r, c

(* Two entries pushed at a time.                                           *)
LEMMA TwoOnTop ==
    ASSUME NEW S, NEW s \in Seq(S), NEW x \in S, NEW y \in S
    PROVE  s \o <<x, y>> = Append(Append(s, x), y)
<1>1. <<x, y>> \in Seq(S) /\ Len(<<x, y>>) = 2 /\ <<x, y>>[1] = x /\ <<x, y>>[2] = y
  OBVIOUS
<1> DEFINE l == s \o <<x, y>>
           r == Append(Append(s, x), y)
<1>2. Len(s) \in Nat
  BY LenProperties
<1>3. /\ l \in Seq(S) /\ Len(l) = Len(s) + 2
      /\ \A i \in 1..Len(s) + 2 : l[i] = IF i <= Len(s) THEN s[i] ELSE <<x, y>>[i - Len(s)]
  BY <1>1, ConcatProperties
<1>4. /\ r \in Seq(S) /\ Len(r) = Len(s) + 1 + 1 /\ r[Len(s) + 1 + 1] = y
      /\ r[Len(s) + 1] = x /\ \A i \in 1..Len(s) : r[i] = s[i]
  <2> DEFINE q == Append(s, x)
  <2>1. /\ q \in Seq(S) /\ Len(q) = Len(s) + 1 /\ q[Len(s) + 1] = x
        /\ \A i \in 1..Len(s) : q[i] = s[i]
    BY AppendProperties
  <2> HIDE DEF q
  <2>2. /\ Append(q, y) \in Seq(S) /\ Len(Append(q, y)) = Len(q) + 1
        /\ Append(q, y)[Len(q) + 1] = y /\ \A i \in 1..Len(q) : Append(q, y)[i] = q[i]
    BY <2>1, AppendProperties
  <2>3. Len(s) + 1 \in 1..Len(q) /\ \A i \in 1..Len(s) : i \in 1..Len(q)
    BY <1>2, <2>1
  <2>4. r = Append(q, y)
    BY DEF q
  <2> QED  BY <2>1, <2>2, <2>3, <2>4
<1> HIDE DEF l, r
<1>5. ASSUME NEW i \in 1..Len(s) + 2 PROVE l[i] = r[i]
  <2>1. CASE i \in 1..Len(s)
    BY <1>2, <1>3, <1>4, <2>1
  <2>2. CASE i = Len(s) + 1
    <3>1. ~(i <= Len(s)) /\ i - Len(s) = 1
      BY <1>2, <2>2
    <3> QED  BY <1>1, <1>3, <1>4, <2>2, <3>1
  <2>3. CASE i = Len(s) + 2
    <3>1. ~(i <= Len(s)) /\ i - Len(s) = 2 /\ Len(s) + 1 + 1 = i
      BY <1>2, <2>3
    <3> QED  BY <1>1, <1>3, <1>4, <3>1
  <2> QED  BY <1>2, <2>1, <2>2, <2>3
<1>6. Len(l) = Len(r)
  BY <1>2, <1>3, <1>4
<1>7. l = r
  BY <1>3, <1>4, <1>5, <1>6, SeqEqual
<1> QED  BY <1>7 DEF l, r

(* The stack of a call: a dispatch and the frame of the method.            *)
LEMMA DispatchOK ==
    ASSUME NEW a, NEW f, NEW s, StackOK(a, s, f), s # <<>>, Kind(s) # "starting",
           NEW m \in Known(f), Len(s) + 2 <= MaxDepth
    PROVE  StackOK(a, setObjNotify(s, m) \o <<Entry("dispatch", m), Entry("frame", None)>>, f)
<1> DEFINE t == setObjNotify(s, m)
           d == Entry("dispatch", m)
           e == Entry("frame", None)
           u == Append(t, d)
<1>1. m \in AllMessages /\ m # None /\ Len(s) \in Nat
  BY KnownFacts, TopFacts
<1>2. StackOK(a, t, f) /\ Len(t) = Len(s) /\ t # <<>> /\ Kind(t) = Kind(s)
  BY <1>1, NotifyOK
<1>3. /\ d \in Entries /\ d.kind = "dispatch" /\ d.msg = m
      /\ e \in Entries /\ e.kind = "frame" /\ e.msg = None
  BY <1>1, EntryFacts
<1> HIDE DEF t, d, e
<1>4. StackOK(a, u, f)
  <2>1. Len(t) + 1 <= MaxDepth
    BY <1>1, <1>2, MessageAssumption
  <2> QED  BY <1>2, <1>3, <2>1, PushOK DEF Bases, Loops
<1>5. u # <<>> /\ Len(u) = Len(s) + 1 /\ Kind(u) = "dispatch"
  <2>1. t \in Seq(Entries)
    BY <1>2 DEF StackOK
  <2>2. u # <<>> /\ Len(u) = Len(s) + 1 /\ u[Len(s) + 1] = d
    BY <1>2, <1>3, <2>1, AppendProperties
  <2> HIDE DEF u
  <2> QED  BY <1>3, <2>2 DEF Kind, Last
<1>6. Append(u, e) = t \o <<d, e>>
  BY <1>2, <1>3, TwoOnTop DEF StackOK
<1> HIDE DEF u
<1>7. StackOK(a, Append(u, e), f)
  <2>1. Len(u) + 1 <= MaxDepth
    BY <1>1, <1>5, MessageAssumption
  <2> QED  BY <1>3, <1>4, <1>5, <2>1, PushOK DEF Bases, Loops
<1> QED  BY <1>6, <1>7 DEF t, d, e

LEMMA SendStep ==
    ASSUME Inv, NEW a \in Activities, mode[a] = "run", NEW s, s # <<>>,
           NEW msgs \in MessageMaps, Grows(message, msgs), Quiet(message, msgs),
           \A x \in AllMessages : msgs[x].activated = message[x].activated,
           StackOK(a, s, msgs), Kind(s) # "starting",
           NEW m \in Known(msgs), send(a, s, msgs, m)
    PROVE  Stepped
<1>1. /\ m \in AllMessages /\ message \in MessageMaps /\ mode \in [Activities -> Modes]
      /\ reused \subseteq AllMessages /\ failed \subseteq AllMessages
      /\ lost \subseteq AllMessages /\ a # None
  BY KnownFacts, MessageAssumption DEF Inv, Typed
<1>2. reused' \subseteq AllMessages
  BY <1>1 DEF send, NoteReuse
<1>3. CASE checkReuse(m)
  <2>1. RaiseFrom(a, s) /\ message' = msgs
    BY <1>3 DEF send
  <2> QED  BY <1>2, <2>1, RaiseStep
<1>4. CASE ~checkReuse(m)
  <2>1. ~msgs[m].activated /\ msgs[m] \in Message
    BY <1>1, <1>4, PartiesSeq DEF checkReuse
  <2> DEFINE c == Cleared(msgs[m])
  <2>2. /\ c \in Message /\ c.activated = FALSE /\ c.startActivity = msgs[m].startActivity
    <3>1. c \in Message /\ c.activated = msgs[m].activated
          /\ c.startActivity = msgs[m].startActivity
      BY <2>1, ClearedFacts
    <3> QED  BY <2>1, <3>1 DEF Message
  <2> HIDE DEF c
  <2>3. ASSUME NEW starter \in Activities \cup {None},
               msgs[m].startActivity # None => starter # None,
               message' = [msgs EXCEPT ![m] = [c EXCEPT !.activated = FALSE,
                                                        !.startActivity = starter]]
        PROVE  /\ message' \in MessageMaps /\ Grows(message, message')
               /\ Quiet(message, message') /\ Grows(msgs, message')
               /\ StackOK(a, s, message')
    <3>1. message' \in MessageMaps /\ Grows(msgs, message') /\ Quiet(msgs, message')
      BY <2>1, <2>3, ClearOK DEF c
    <3> QED  BY <1>1, <3>1, ChangeTwice, GrowOK
  <2>4. CASE RaiseFrom(a, s) /\ message' = [msgs EXCEPT ![m] = c]
    <3>1. c = [c EXCEPT !.activated = FALSE, !.startActivity = msgs[m].startActivity]
      BY <2>2 DEF Message
    <3>2. msgs[m].startActivity \in Activities \cup {None}
      BY <2>1 DEF Message
    <3>3. /\ message' \in MessageMaps /\ Grows(message, message')
          /\ Quiet(message, message') /\ StackOK(a, s, message')
      BY <2>3, <2>4, <3>1, <3>2
    <3> QED  BY <1>2, <2>4, <3>3, RaiseStep
  <2>5. CASE /\ MayInvoke(s, 2)
             /\ message' = [msgs EXCEPT ![m] = [c EXCEPT !.startActivity = a]]
             /\ stack' = [stack EXCEPT ![a] = setObjNotify(s, m)
                              \o <<Entry("dispatch", m), Entry("frame", None)>>]
             /\ UNCHANGED <<mode, waitingObject, failed, lost>>
    <3>1. [c EXCEPT !.startActivity = a] = [c EXCEPT !.activated = FALSE, !.startActivity = a]
      BY <2>2 DEF Message
    <3>2. /\ message' \in MessageMaps /\ Grows(message, message')
          /\ Quiet(message, message') /\ Grows(msgs, message')
          /\ StackOK(a, s, message')
      BY <1>1, <2>3, <2>5, <3>1
    <3>3. m \in Known(message') /\ Len(s) + 2 <= MaxDepth
      BY <2>5, <3>2 DEF Grows, MayInvoke
    <3>4. StackOK(a, setObjNotify(s, m) \o <<Entry("dispatch", m), Entry("frame", None)>>,
                  message')
      BY <3>2, <3>3, DispatchOK
    <3>5. mode' = [mode EXCEPT ![a] = "run"]
      BY <1>1, <2>5
    <3> QED  BY <1>1, <1>2, <2>5, <3>2, <3>4, <3>5, QuietStep DEF Modes
  <2> QED  BY <1>4, <2>4, <2>5 DEF send, c
<1> QED  BY <1>3, <1>4

LEMMA MinTwo == \A n \in 1..3 : Min({n, 2}) \in 0..2
<1> SUFFICES ASSUME NEW n \in 1..3 PROVE Min({n, 2}) \in 0..2
  OBVIOUS
<1>1. \E x \in {n, 2} : \A y \in {n, 2} : x <= y
  OBVIOUS
<1>2. Min({n, 2}) \in {n, 2} /\ \A y \in {n, 2} : Min({n, 2}) <= y
  BY <1>1 DEF Min
<1> QED  BY <1>2

(* messageComplete goes to a party.                                        *)
LEMMA TellStep ==
    ASSUME Inv, NEW a \in Activities, mode[a] = "run", NEW s, s # <<>>,
           NEW msgs \in MessageMaps, Grows(message, msgs), Quiet(message, msgs),
           \A x \in AllMessages : msgs[x].activated = message[x].activated,
           StackOK(a, s, msgs), Kind(s) # "starting",
           NEW m \in Known(msgs), NEW i \in 1..Len(msgs[m].parties),
           Tell(a, s, msgs, m, i)
    PROVE  Stepped
<1>1. /\ m \in AllMessages /\ message \in MessageMaps /\ mode \in [Activities -> Modes]
      /\ msgs[m] \in Message /\ msgs[m].parties \in Seq(Party) /\ a # None
      /\ Len(msgs[m].parties) \in Nat
  BY KnownFacts, PartiesSeq, MessageAssumption DEF Inv, Typed
<1> DEFINE p == msgs[m].parties[i]
           q == [p EXCEPT !.told = Min({@ + 1, 2})]
           ps == [msgs[m].parties EXCEPT ![i] = q]
           r == [msgs[m] EXCEPT !.parties = ps]
           noted == [msgs EXCEPT ![m].parties[i].told = Min({@ + 1, 2})]
<1>2. /\ p \in Party /\ p.told \in 0..2
      /\ p.party \in Known(msgs) \cup Listeners
  BY <1>1, PartiesFacts DEF MessageMaps
<1>3. q \in Party /\ q.party = p.party
  <2>1. Min({p.told + 1, 2}) \in 0..2
    <3>1. PICK n \in 1..3 : n = p.told + 1
      BY <1>2
    <3>2. Min({n, 2}) \in 0..2
      BY MinTwo
    <3> QED  BY <3>1, <3>2
  <2> QED  BY <1>2, <2>1 DEF Party
<1>4. noted = [msgs EXCEPT ![m] = r]
  BY <1>1 DEF MessageMaps
<1>5. /\ ps \in Seq(Party) /\ Len(ps) = Len(msgs[m].parties)
      /\ \A j \in 1..Len(ps) : ps[j].party = msgs[m].parties[j].party
  <2> HIDE DEF q
  <2>1. /\ ps \in Seq(Party) /\ Len(ps) = Len(msgs[m].parties)
        /\ \A j \in 1..Len(msgs[m].parties) :
             ps[j] = IF j = i THEN q ELSE msgs[m].parties[j]
    BY <1>1, <1>3, ExceptSeq
  <2> QED  BY <1>3, <2>1
<1> HIDE DEF ps
<1>6. /\ r \in Message /\ r.parties = ps /\ r.startActivity = msgs[m].startActivity
      /\ r.activated = msgs[m].activated /\ r.waiters = msgs[m].waiters
      /\ r.returned = msgs[m].returned /\ r.raised = msgs[m].raised
  BY <1>1, <1>5 DEF Message
<1> HIDE DEF r
<1>7. \A j \in 1..Len(r.parties) : r.parties[j].party \in Known(msgs) \cup Listeners
  BY <1>1, <1>5, <1>6 DEF MessageMaps
<1>8. noted \in MessageMaps /\ Grows(msgs, noted) /\ Quiet(msgs, noted)
  <2> HIDE DEF noted
  <2>1. Len(r.parties) >= Len(msgs[m].parties)
    BY <1>1, <1>5, <1>6
  <2> QED  BY <1>1, <1>4, <1>6, <1>7, <2>1, ChangeOne
<1>9. \A x \in AllMessages : noted[x].activated = message[x].activated
  BY <1>1, <1>4, <1>6 DEF MessageMaps
<1> HIDE DEF noted
<1>10. /\ Grows(message, noted) /\ Quiet(message, noted) /\ StackOK(a, s, noted)
       /\ p.party \in Known(noted) \cup Listeners
  BY <1>1, <1>2, <1>8, ChangeTwice, GrowOK DEF Grows
<1>11. CASE p.party \in Listeners
  <2>1. /\ MayInvoke(s, 1) /\ message' = noted
        /\ stack' = [stack EXCEPT ![a] = Append(s, Entry("frame", None))]
        /\ UNCHANGED <<mode, waitingObject, history>>
    BY <1>11 DEF Tell, noted
  <2> DEFINE e == Entry("frame", None)
  <2>2. e \in Entries /\ e.kind = "frame" /\ e.msg = None
    BY EntryFacts
  <2> HIDE DEF e
  <2>3. Len(s) + 1 <= MaxDepth
    BY <2>1 DEF MayInvoke
  <2>4. StackOK(a, Append(s, e), noted)
    BY <1>10, <2>2, <2>3, PushOK DEF Bases, Loops
  <2>5. mode' = [mode EXCEPT ![a] = "run"]
    BY <1>1, <2>1
  <2> QED
    BY <1>8, <1>10, <2>1, <2>4, <2>5, QuietStep DEF history, Inv, Typed, Modes, e
<1>12. CASE p.party \notin Listeners
  <2>1. send(a, s, noted, p.party) /\ p.party \in Known(noted)
    BY <1>10, <1>12 DEF Tell, noted
  <2> QED  BY <1>8, <1>9, <1>10, <2>1, SendStep
<1> QED  BY <1>11, <1>12

-----------------------------------------------------------------------------
(***************************************************************************)
(* The operations.                                                         *)
(***************************************************************************)
LEMMA StackFacts ==
    ASSUME Inv, NEW a \in Activities
    PROVE  /\ StackOK(a, stack[a], message) /\ message \in MessageMaps
           /\ mode \in [Activities -> Modes] /\ a # None
           /\ Created = Known(message) /\ Created \subseteq AllMessages
           /\ None \notin Created
           /\ stack[a] = <<>> => Kind(stack[a]) = "idle"
           /\ reused \subseteq AllMessages /\ failed \subseteq AllMessages
           /\ lost \subseteq AllMessages
<1>1. a # None
  BY MessageAssumption
<1>2. Created = Known(message)
  BY DEF Created, Known
<1> QED  BY <1>1, <1>2, KnownFacts DEF Inv, Typed, StacksOK, Kind

LEMMA NothingInv == Inv /\ UNCHANGED vars => Stepped
<1> SUFFICES ASSUME Inv, UNCHANGED vars PROVE Stepped
  OBVIOUS
<1>1. Inv'
  BY DEF Inv, Typed, StacksOK, StackOK, EntryOK, SleepersKnown, vars, isComplete
<1>2. Grows(message, message')
  BY NothingChanges DEF Inv, Typed, vars
<1> QED  BY <1>1, <1>2 DEF Stepped

LEMMA SendInv ==
    ASSUME Inv, NEW a \in Activities, NEW m \in Created, sendMessage(a, m)
    PROVE  Stepped
<1>1. /\ send(a, stack[a], message, m) /\ mode[a] = "run" /\ Kind(stack[a]) = "frame"
      /\ stack[a] # <<>>
  BY StackFacts DEF sendMessage, InRexx, Turn
<1> QED  BY <1>1, StackFacts, NothingChanges, SendStep

(* A message that is not pending yet is given to r.                        *)
LEMMA PendingOK ==
    ASSUME Inv, NEW m \in Created, ~checkReuse(m),
           NEW r \in {Pending(message[m]), Cleared(message[m])}
    PROVE  LET g == [message EXCEPT ![m] = r] IN
           /\ g \in MessageMaps /\ Grows(message, g) /\ Quiet(message, g)
           /\ r \in Message /\ r.startActivity = message[m].startActivity
           /\ r.waiters = message[m].waiters /\ ~r.returned /\ ~r.raised
           /\ r = Pending(message[m]) => r.activated
<1>1. /\ message \in MessageMaps /\ m \in AllMessages /\ m \in Known(message)
      /\ message[m] \in Message /\ ~message[m].activated
  BY KnownFacts, PartiesSeq DEF Inv, Typed, checkReuse, Created, Known
<1> DEFINE c == Cleared(message[m])
           act == IF r = Pending(message[m]) THEN TRUE ELSE FALSE
<1>2. /\ c \in Message /\ c.activated = FALSE /\ c.waiters = message[m].waiters
      /\ c.startActivity = message[m].startActivity /\ ~c.returned /\ ~c.raised
  <2>1. /\ c \in Message /\ c.activated = message[m].activated
        /\ c.waiters = message[m].waiters
        /\ c.startActivity = message[m].startActivity /\ ~c.returned /\ ~c.raised
    BY <1>1, ClearedFacts
  <2> QED  BY <1>1, <2>1 DEF Message
<1> HIDE DEF c
<1>3. r = [c EXCEPT !.activated = act, !.startActivity = message[m].startActivity]
  <2>1. CASE r = Pending(message[m])
    BY <1>2, <2>1 DEF Pending, Message, c
  <2>2. CASE r # Pending(message[m])
    <3>1. r = c
      BY <2>2 DEF c
    <3> QED  BY <1>2, <2>2, <3>1 DEF Message
  <2> QED  BY <2>1, <2>2
<1>4. act \in BOOLEAN /\ message[m].startActivity \in Activities \cup {None}
  BY <1>1 DEF Message
<1>5. r = Pending(message[m]) => act
  OBVIOUS
<1> HIDE DEF act
<1>6. LET g == [message EXCEPT ![m] = r] IN
           g \in MessageMaps /\ Grows(message, g) /\ Quiet(message, g) /\ r \in Message
  BY <1>1, <1>3, <1>4, ClearOK DEF c
<1>7. /\ r.startActivity = message[m].startActivity /\ r.waiters = message[m].waiters
      /\ ~r.returned /\ ~r.raised /\ r.activated = act
  BY <1>2, <1>3 DEF Message
<1> QED  BY <1>5, <1>6, <1>7

LEMMA NotStartedInv ==
    ASSUME Inv, NEW a \in Activities, NEW m \in Created,
           NEW r \in {Pending(message[m]), Cleared(message[m])},
           NotStarted(a, m, r)
    PROVE  Stepped
<1>1. /\ RaiseFrom(a, stack[a]) /\ mode[a] = "run" /\ stack[a] # <<>>
  BY StackFacts DEF NotStarted, InRexx, Turn
<1>2. CASE checkReuse(m)
  <2>1. message' = message /\ reused' = reused
    BY <1>2 DEF NotStarted
  <2> QED  BY <1>1, <2>1, StackFacts, NothingChanges, RaiseStep
<1>3. CASE ~checkReuse(m)
  <2>1. message' = [message EXCEPT ![m] = r] /\ reused' \subseteq AllMessages
    BY <1>3, StackFacts DEF NotStarted, NoteReuse
  <2>2. /\ message' \in MessageMaps /\ Grows(message, message')
        /\ Quiet(message, message')
    BY <1>3, <2>1, PendingOK
  <2> QED  BY <1>1, <2>1, <2>2, StackFacts, GrowOK, RaiseStep
<1> QED  BY <1>2, <1>3

(* A new thread: b is given the message m, pending in msgs.                *)
LEMMA StartStep ==
    ASSUME Inv, NEW a \in Activities, mode[a] = "run", NEW b \in Activities,
           NEW msgs \in [AllMessages -> Message], Grows(message, msgs), Quiet(message, msgs),
           NEW m \in AllMessages, msgs[m].activated, ~message[m].activated,
           ~msgs[m].returned, ~msgs[m].raised,
           \A x \in AllMessages : x # m => msgs[x].activated = message[x].activated,
           stack[b] = <<>>, message' = [msgs EXCEPT ![m].startActivity = b],
           message' \in MessageMaps, Known(msgs) \subseteq Known(message'),
           stack' = [stack EXCEPT ![b] = <<Entry("starting", m)>>],
           UNCHANGED <<mode, waitingObject, failed, lost>>, reused' \subseteq AllMessages
    PROVE  Stepped
<1>1. /\ message \in MessageMaps /\ mode \in [Activities -> Modes] /\ b # None
      /\ msgs[m] \in Message
  BY StackFacts
<1>2. \A x \in AllMessages :
        /\ message'[x] = IF x = m THEN [msgs[m] EXCEPT !.startActivity = b] ELSE msgs[x]
        /\ message'[x].parties = msgs[x].parties /\ message'[x].waiters = msgs[x].waiters
        /\ message'[x].activated = msgs[x].activated
        /\ message'[x].returned = msgs[x].returned /\ message'[x].raised = msgs[x].raised
  BY <1>1 DEF MessageMaps, Message
<1>3. message'[m].startActivity = b
  BY <1>1 DEF MessageMaps, Message
<1>4. Grows(message, message')
  <2>1. \A x \in AllMessages : Len(message'[x].parties) >= Len(message[x].parties)
    BY <1>2 DEF Grows
  <2>2. Known(message) \subseteq Known(message')
    BY DEF Grows
  <2>3. ASSUME NEW x \in AllMessages, message[x].activated
        PROVE  /\ message'[x].activated
               /\ message[x].startActivity # None
                    => message'[x].startActivity = message[x].startActivity
               /\ message[x].returned \/ message[x].raised
                    => message'[x].returned \/ message'[x].raised
    BY <1>2, <2>3 DEF Grows
  <2> QED  BY <2>1, <2>2, <2>3 DEF Grows
<1>5. Quiet(message, message')
  BY <1>2 DEF Quiet
<1>6. StackOK(b, <<Entry("starting", m)>>, message')
  <2> DEFINE e == Entry("starting", m)
             t == <<e>>
  <2>1. e \in Entries /\ e.kind = "starting" /\ e.msg = m
    BY EntryFacts DEF Bases
  <2> HIDE DEF e
  <2>2. t \in Seq(Entries) /\ Len(t) = 1 /\ t[1] = e
    BY <2>1
  <2> HIDE DEF t
  <2>3. m \in Known(message')
    BY <1>1, <1>3 DEF Known, AllMessages
  <2>4. EntryOK(b, t, 1, message')
    BY <1>2, <1>3, <2>1, <2>2, <2>3 DEF EntryOK, Activations, Bases, Loops
  <2>5. StackOK(b, t, message')
    BY <2>2, <2>4, MessageAssumption DEF StackOK
  <2> QED  BY <2>5 DEF t, e
<1>7. stack' \in [Activities -> Seq(Entries)] /\ StacksOK'
  BY <1>4, <1>6, StackMoves
<1>8. mode' = [mode EXCEPT ![a] = "run"]
  BY <1>1
<1>9. mode' \in [Activities -> Modes] /\ SleepersKnown'
  BY <1>5, <1>8, SleepersStay DEF Modes
<1> QED  BY <1>4, <1>7, <1>9 DEF Stepped, Inv, Typed

LEMMA StartInv ==
    ASSUME Inv, NEW a \in Activities, NEW m \in Created, start(a, m)
    PROVE  Stepped
<1>1. CASE NotStarted(a, m, Pending(message[m]))
  BY <1>1, NotStartedInv
<1>2. ASSUME InRexx(a), ~checkReuse(m), NoteReuse(m), NEW b \in Activities,
             StartOn(b, m, [message EXCEPT ![m] = Pending(@)])
      PROVE  Stepped
  <2> DEFINE r == Pending(message[m])
             g == [message EXCEPT ![m] = r]
  <2>1. /\ message \in MessageMaps /\ m \in AllMessages /\ mode[a] = "run"
        /\ m \in Known(message) /\ b # None /\ message[m] \in Message
    BY <1>2, StackFacts, PartiesSeq DEF InRexx, Turn
  <2>2. /\ g \in MessageMaps /\ Grows(message, g) /\ Quiet(message, g)
        /\ r \in Message /\ r.activated /\ ~r.returned /\ ~r.raised
    BY <1>2, PendingOK
  <2>3. ~message[m].activated
    BY <1>2 DEF checkReuse
  <2>4. message' = [message EXCEPT ![m] = [Cleared(message[m]) EXCEPT
                       !.activated = TRUE, !.startActivity = b]]
    <3> HIDE DEF r
    <3>1. message' = [message EXCEPT ![m] = [r EXCEPT !.startActivity = b]]
      BY <1>2, <2>1 DEF StartOn, r, MessageMaps
    <3>2. [r EXCEPT !.startActivity = b]
            = [Cleared(message[m]) EXCEPT !.activated = TRUE, !.startActivity = b]
      BY DEF r, Pending
    <3> QED  BY <3>1, <3>2
  <2>5. message' \in MessageMaps
    BY <2>1, <2>3, <2>4, ClearOK
  <2> HIDE DEF r
  <2>6. /\ g[m] = r /\ \A x \in AllMessages : x # m => g[x] = message[x]
    BY <2>1 DEF MessageMaps
  <2>7. /\ stack[b] = <<>> /\ message' = [g EXCEPT ![m].startActivity = b]
        /\ stack' = [stack EXCEPT ![b] = <<Entry("starting", m)>>]
        /\ UNCHANGED <<mode, waitingObject, failed, lost>>
    BY <1>2 DEF StartOn, r
  <2>8. reused' \subseteq AllMessages
    BY <1>2, <2>1, StackFacts DEF NoteReuse
  <2> HIDE DEF g
  <2>9. Known(g) \subseteq Known(message') /\ g \in [AllMessages -> Message]
    BY <2>1, <2>2, <2>7 DEF Known, MessageMaps, Message, AllMessages
  <2> QED  BY <2>1, <2>2, <2>3, <2>5, <2>6, <2>7, <2>8, <2>9, StartStep
<1> QED  BY <1>1, <1>2 DEF start

(* reply() makes a copy of the message and starts that.                    *)
LEMMA CopyOK ==
    ASSUME NEW f \in MessageMaps, NEW n \in Copies \ Known(f), NEW r \in Message,
           r.startActivity # None,
           \A i \in 1..Len(r.parties) : r.parties[i].party \in Known(f) \cup Listeners
    PROVE  /\ [f EXCEPT ![n] = r] \in MessageMaps
           /\ Known(f) \subseteq Known([f EXCEPT ![n] = r])
<1> DEFINE g == [f EXCEPT ![n] = r]
<1>1. /\ g \in [AllMessages -> Message] /\ n \in AllMessages
      /\ \A x \in AllMessages : g[x] = IF x = n THEN r ELSE f[x]
  BY DEF MessageMaps, AllMessages
<1> HIDE DEF g
<1>2. Known(g) = Known(f) \cup {n}
  BY <1>1 DEF Known, AllMessages
<1>3. \A x \in AllMessages \ Known(g) : g[x] = NewMessage
  BY <1>1, <1>2 DEF MessageMaps
<1>4. ASSUME NEW x \in AllMessages, NEW i \in 1..Len(g[x].parties)
      PROVE  g[x].parties[i].party \in Known(g) \cup Listeners
  <2>1. CASE x = n
    BY <1>1, <1>2, <1>4, <2>1
  <2>2. CASE x # n
    BY <1>1, <1>2, <1>4, <2>2 DEF MessageMaps
  <2> QED  BY <2>1, <2>2
<1>5. g \in MessageMaps
  BY <1>1, <1>3, <1>4 DEF MessageMaps
<1> QED  BY <1>2, <1>5 DEF g

LEMMA ReplyInv ==
    ASSUME Inv, NEW a \in Activities, NEW m \in Created, reply(a, m)
    PROVE  Stepped
<1>1. CASE NotStarted(a, m, Cleared(message[m]))
  BY <1>1, NotStartedInv
<1> DEFINE r == Cleared(message[m])
           copy == [NewMessage EXCEPT !.parties = r.parties]
<1>2. ASSUME InRexx(a), ~checkReuse(m), NoteReuse(m), NEW b \in Activities,
             NEW n \in Copies \ Created,
             StartOn(b, n, [message EXCEPT ![m] = r, ![n] = Pending(copy)])
      PROVE  Stepped
  <2> DEFINE g == [message EXCEPT ![m] = r]
             k == Pending(copy)
             msgs == [g EXCEPT ![n] = k]
             u == [k EXCEPT !.startActivity = b]
  <2>1. /\ message \in MessageMaps /\ m \in AllMessages /\ mode[a] = "run"
        /\ m \in Known(message) /\ b # None /\ n \in AllMessages
        /\ Created = Known(message) /\ n # m
    BY <1>2, StackFacts DEF InRexx, Turn, AllMessages
  <2>2. /\ g \in MessageMaps /\ Grows(message, g) /\ Quiet(message, g)
        /\ r \in Message /\ r.startActivity = message[m].startActivity
    BY <1>2, PendingOK
  <2> HIDE DEF r
  <2>3. /\ g[m] = r /\ \A x \in AllMessages : x # m => g[x] = message[x]
    BY <2>1 DEF MessageMaps
  <2>4. Known(g) = Known(message)
    BY <2>1, <2>2, <2>3 DEF Known, AllMessages
  <2>5. r.parties \in Seq(Party) /\ Len(r.parties) \in Nat
        /\ \A i \in 1..Len(r.parties) : r.parties[i].party \in Known(g) \cup Listeners
    <3>1. r = g[m]
      BY <2>3
    <3> HIDE DEF g
    <3>2. r.parties \in Seq(Party) /\ Len(r.parties) \in Nat
      BY <2>1, <2>2, <3>1, PartiesSeq
    <3>3. \A i \in 1..Len(r.parties) : r.parties[i].party \in Known(g) \cup Listeners
      BY <2>1, <2>2, <3>1 DEF MessageMaps
    <3> QED  BY <3>2, <3>3
  <2>6. /\ copy \in Message /\ copy.parties = r.parties /\ copy.waiters = {}
        /\ copy.startActivity = None /\ ~copy.returned /\ ~copy.raised
    BY <2>5 DEF NewMessage, Message
  <2> HIDE DEF copy
  <2>7. /\ k \in Message /\ k.waiters = {} /\ k.activated /\ k.startActivity = None
        /\ ~k.returned /\ ~k.raised /\ Len(k.parties) = Len(r.parties)
        /\ \A i \in 1..Len(k.parties) : k.parties[i].party \in Known(g) \cup Listeners
    <3> DEFINE c == Cleared(copy)
    <3>1. /\ c \in Message /\ c.waiters = {} /\ c.startActivity = None
          /\ ~c.returned /\ ~c.raised /\ Len(c.parties) = Len(r.parties)
          /\ \A i \in 1..Len(r.parties) : c.parties[i] = [r.parties[i] EXCEPT !.told = 0]
      BY <2>6, ClearedFacts
    <3> HIDE DEF c
    <3>2. k = [c EXCEPT !.activated = TRUE]
      BY DEF Pending, c
    <3>3. \A i \in 1..Len(r.parties) : c.parties[i].party = r.parties[i].party
      <4> SUFFICES ASSUME NEW i \in 1..Len(r.parties)
                   PROVE  c.parties[i].party = r.parties[i].party
        OBVIOUS
      <4>1. r.parties[i] \in Party
        BY <2>5, PartiesFacts
      <4> QED  BY <3>1, <4>1 DEF Party
    <3> HIDE DEF k
    <3>4. /\ k \in Message /\ k.waiters = {} /\ k.activated /\ k.startActivity = None
          /\ ~k.returned /\ ~k.raised /\ k.parties = c.parties
      BY <3>1, <3>2 DEF Message
    <3> QED  BY <2>5, <3>1, <3>3, <3>4
  <2> HIDE DEF k
  <2>8. /\ u \in Message /\ u.parties = k.parties /\ u.startActivity = b
    BY <2>7 DEF Message
  <2>9. /\ stack[b] = <<>> /\ message' = [msgs EXCEPT ![n].startActivity = b]
        /\ stack' = [stack EXCEPT ![b] = <<Entry("starting", n)>>]
        /\ UNCHANGED <<mode, waitingObject, failed, lost>>
    BY <1>2, <2>1 DEF StartOn, k
  <2>10. /\ msgs \in [AllMessages -> Message] /\ msgs[n] = k
         /\ \A x \in AllMessages : x # n => msgs[x] = g[x]
    BY <2>1, <2>2, <2>7 DEF MessageMaps
  <2>11. message' = [g EXCEPT ![n] = u]
    BY <2>1, <2>2, <2>7, <2>9 DEF MessageMaps
  <2> HIDE DEF g, u
  <2>12. message' \in MessageMaps /\ Known(g) \subseteq Known(message')
    BY <2>1, <2>2, <2>4, <2>7, <2>8, <2>11, CopyOK
  <2> HIDE DEF msgs
  <2>13. message[n] = NewMessage /\ g[n] = message[n]
    BY <1>2, <2>1, <2>3 DEF MessageMaps
  <2>14. Known(msgs) = Known(g)
    <3>1. n \notin Known(g)
      BY <1>2, <2>1, <2>4
    <3> QED  BY <2>7, <2>10, <3>1 DEF Known, AllMessages
  <2>15. Grows(g, msgs) /\ Quiet(g, msgs)
    <3>1. \A x \in AllMessages : Len(g[x].parties) \in Nat
      BY <2>2, PartiesSeq
    <3>2. Len(g[n].parties) = 0 /\ ~g[n].activated /\ g[n].waiters = {}
      BY <2>13 DEF NewMessage
    <3>3. \A x \in AllMessages : Len(msgs[x].parties) >= Len(g[x].parties)
      <4> SUFFICES ASSUME NEW x \in AllMessages
                   PROVE  Len(msgs[x].parties) >= Len(g[x].parties)
        OBVIOUS
      <4>1. CASE x = n
        BY <2>5, <2>7, <2>10, <3>2, <4>1
      <4>2. CASE x # n
        BY <2>10, <3>1, <4>2
      <4> QED  BY <4>1, <4>2
    <3>4. Grows(g, msgs)
      BY <2>10, <2>14, <3>2, <3>3 DEF Grows
    <3>5. Quiet(g, msgs)
      BY <2>7, <2>10, <3>2 DEF Quiet
    <3> QED  BY <3>4, <3>5
  <2>16. Grows(message, msgs) /\ Quiet(message, msgs)
    <3>1. Known(message) \subseteq Known(msgs)
      BY <2>2, <2>15 DEF Grows
    <3>2. \A x \in AllMessages : /\ Len(message[x].parties) \in Nat
                                 /\ Len(g[x].parties) \in Nat
                                 /\ Len(msgs[x].parties) \in Nat
      <4>1. \A x \in AllMessages : msgs[x].parties \in Seq(Party)
        BY <2>10 DEF Message
      <4>2. \A x \in AllMessages : Len(msgs[x].parties) \in Nat
        BY <4>1, LenProperties
      <4> QED  BY <2>1, <2>2, <4>2, PartiesSeq
    <3>3. \A x \in AllMessages : Len(msgs[x].parties) >= Len(message[x].parties)
      <4> SUFFICES ASSUME NEW x \in AllMessages
                   PROVE  Len(msgs[x].parties) >= Len(message[x].parties)
        OBVIOUS
      <4>1. Len(msgs[x].parties) >= Len(g[x].parties) /\ Len(g[x].parties) >= Len(message[x].parties)
        BY <2>2, <2>15 DEF Grows
      <4> QED  BY <3>2, <4>1
    <3>4. Grows(message, msgs)
      <4>1. \A x \in AllMessages : message[x].activated =>
              /\ msgs[x].activated
              /\ message[x].startActivity # None
                   => msgs[x].startActivity = message[x].startActivity
              /\ message[x].returned \/ message[x].raised
                   => msgs[x].returned \/ msgs[x].raised
        BY <2>2, <2>15 DEF Grows
      <4> QED  BY <3>1, <3>3, <4>1 DEF Grows
    <3>5. Quiet(message, msgs)
      BY <2>2, <2>15 DEF Quiet
    <3> QED  BY <3>4, <3>5
  <2>17. /\ msgs[n].activated /\ ~message[n].activated
         /\ ~msgs[n].returned /\ ~msgs[n].raised
    BY <2>7, <2>10, <2>13 DEF NewMessage
  <2>18. \A x \in AllMessages : x # n => msgs[x].activated = message[x].activated
    <3>1. ~message[m].activated
      BY <1>2 DEF checkReuse
    <3>2. r.activated = message[m].activated
      <4>1. message[m] \in Message
        BY <2>1, PartiesSeq
      <4> QED  BY <4>1, ClearedFacts DEF r
    <3> QED  BY <2>3, <2>10, <3>2
  <2>19. reused' \subseteq AllMessages /\ Known(msgs) \subseteq Known(message')
    BY <1>2, <2>1, <2>12, <2>14, StackFacts DEF NoteReuse
  <2> QED  BY <2>1, <2>9, <2>10, <2>12, <2>16, <2>17, <2>18, <2>19, StartStep
<1> QED  BY <1>1, <1>2 DEF reply

(* The topmost entry is popped.                                            *)
LEMMA PopOK ==
    ASSUME NEW a, NEW f, NEW s, StackOK(a, s, f), s # <<>>
    PROVE  /\ StackOK(a, Front(s), f)
           /\ Len(Front(s)) \in Nat /\ Len(s) \in Nat
           /\ Len(s) = Len(Front(s)) + 1
           /\ Front(s) = <<>> <=> Len(Front(s)) = 0
           /\ Kind(Front(s)) # "starting"
           /\ Front(s) # <<>> =>
                /\ Last(Front(s)) \in Entries
                /\ Last(Front(s)).kind = Kind(Front(s))
                /\ Last(Front(s)).msg \in Known(f) \cup {None}
           /\ Kind(Front(s)) = "dispatch" => Len(Front(s)) # 1
<1> DEFINE t == Front(s)
<1>1. s \in Seq(Entries)
  BY DEF StackOK
<1>2. /\ t \in Seq(Entries) /\ Len(s) \in Nat /\ Len(s) >= 1
      /\ Len(t) = Len(s) - 1 /\ \A i \in 1..Len(s) - 1 : t[i] = s[i]
      /\ (t = <<>> <=> Len(s) = 1)
  BY <1>1, FrontFacts
<1> HIDE DEF t
<1>3. /\ StackOK(a, t, f) /\ Len(t) \in Nat /\ Len(s) = Len(t) + 1
      /\ (t = <<>> <=> Len(t) = 0)
  BY <1>2, PrefixOK
<1>4. CASE t = <<>>
  <2>1. Kind(t) = "idle"
    BY <1>4 DEF Kind
  <2> QED  BY <1>2, <1>3, <1>4, <2>1 DEF t
<1>5. CASE t # <<>>
  <2>1. /\ Len(t) >= 1 /\ Last(t) = t[Len(t)] /\ Last(t) \in Entries
        /\ Kind(t) = Last(t).kind /\ EntryOK(a, t, Len(t), f)
    BY <1>3, <1>5, TopFacts
  <2>2. EntryOK(a, s, Len(t), f) /\ s[Len(t)] = t[Len(t)]
    BY <1>2, <2>1 DEF StackOK
  <2>3. Len(s) # 1
    BY <1>2, <1>5
  <2>4. Kind(t) # "starting"
    BY <2>1, <2>2, <2>3 DEF EntryOK
  <2>5. Last(t).msg \in Known(f) \cup {None}
    BY <2>1 DEF EntryOK
  <2>6. Kind(t) = "dispatch" => Len(t) # 1
    BY <2>1 DEF EntryOK, Activations, Bases
  <2> QED  BY <1>2, <1>3, <1>5, <2>1, <2>4, <2>5, <2>6 DEF t
<1> QED  BY <1>4, <1>5

(* The base of a thread.                                                   *)
LEMMA BaseOK ==
    ASSUME NEW a, NEW f, NEW k \in Bases \ {"starting"}, NEW m \in Known(f)
    PROVE  LET t == <<Entry(k, m)>> IN
           StackOK(a, t, f) /\ t # <<>> /\ Len(t) = 1 /\ Kind(t) = k
<1> DEFINE e == Entry(k, m)
           t == <<e>>
<1>1. e \in Entries /\ e.kind = k /\ e.msg = m
  BY EntryFacts, KnownFacts
<1> HIDE DEF e
<1>2. t \in Seq(Entries) /\ Len(t) = 1 /\ t[1] = e /\ t # <<>>
  BY <1>1
<1> HIDE DEF t
<1>3. EntryOK(a, t, 1, f)
  BY <1>1, <1>2 DEF EntryOK, Activations, Bases, Loops
<1>4. StackOK(a, t, f)
  BY <1>2, <1>3, MessageAssumption DEF StackOK
<1>5. Kind(t) = k
  BY <1>1, <1>2 DEF Kind, Last
<1> QED  BY <1>2, <1>4, <1>5 DEF t, e

LEMMA ThreeEntries ==
    ASSUME NEW S, NEW x \in S, NEW y \in S, NEW z \in S
    PROVE  Append(Append(<<x>>, y), z) = <<x, y, z>>
<1> DEFINE l == Append(Append(<<x>>, y), z)
           r == <<x, y, z>>
           q == Append(<<x>>, y)
<1>1. r \in Seq(S) /\ Len(r) = 3 /\ r[1] = x /\ r[2] = y /\ r[3] = z
  OBVIOUS
<1>2. <<x>> \in Seq(S) /\ Len(<<x>>) = 1 /\ <<x>>[1] = x
  OBVIOUS
<1>3. q \in Seq(S) /\ Len(q) = 2 /\ q[1] = x /\ q[2] = y
  BY <1>2, AppendProperties
<1> HIDE DEF q, l, r
<1>4. /\ Append(q, z) \in Seq(S) /\ Len(Append(q, z)) = 3
      /\ Append(q, z)[1] = x /\ Append(q, z)[2] = y /\ Append(q, z)[3] = z
  <2>0. q \in Seq(S)
    BY <1>3
  <2>1. /\ Append(q, z) \in Seq(S) /\ Len(Append(q, z)) = Len(q) + 1
        /\ Append(q, z)[Len(q) + 1] = z
        /\ \A i \in 1..Len(q) : Append(q, z)[i] = q[i]
    BY <2>0, AppendProperties
  <2>2. Len(q) + 1 = 3 /\ 1 \in 1..Len(q) /\ 2 \in 1..Len(q)
    BY <1>3
  <2> QED  BY <1>3, <2>1, <2>2
<1>5. l = Append(q, z)
  BY DEF l, q
<1>6. \A i \in 1..3 : l[i] = r[i]
  BY <1>1, <1>4, <1>5
<1>7. l = r
  BY <1>1, <1>4, <1>5, <1>6, SeqEqual
<1> QED  BY <1>7 DEF l, r

LEMMA RunStartedInv ==
    ASSUME Inv, NEW a \in Activities, runStarted(a)
    PROVE  Stepped
<1> DEFINE m == Top(a).msg
<1>1. /\ mode[a] = "run" /\ Kind(stack[a]) = "starting" /\ stack[a] # <<>>
      /\ message' = [message EXCEPT ![m].startActivity = a]
      /\ stack' = [stack EXCEPT ![a] =
                       <<Entry("running", m), Entry("dispatch", m), Entry("frame", None)>>]
      /\ UNCHANGED <<mode, waitingObject, history>>
  BY StackFacts DEF runStarted, Turn
<1>2. /\ Last(stack[a]) \in Entries /\ Last(stack[a]).kind = "starting"
      /\ EntryOK(a, stack[a], Len(stack[a]), message)
      /\ Last(stack[a]) = stack[a][Len(stack[a])]
  BY <1>1, StackFacts, TopFacts
<1>3. /\ m \in Known(message) /\ m \in AllMessages /\ message[m].startActivity = a
  <2>1. m \in AllMessages
    BY <1>2 DEF Top, Entries, FrameEntries, DispatchEntries, LoopEntries, Bases, Loops
  <2> QED  BY <1>2, <2>1, MessageAssumption DEF EntryOK, Top, AllMessages
<1>4. message' = message
  <2>1. message \in [AllMessages -> Message] /\ message[m] \in Message
    BY <1>3, StackFacts, PartiesSeq DEF MessageMaps
  <2>2. [message[m] EXCEPT !.startActivity = a] = message[m]
    BY <1>3, <2>1 DEF Message
  <2>3. message' = [message EXCEPT ![m] = [message[m] EXCEPT !.startActivity = a]]
    BY <1>1
  <2> HIDE DEF m
  <2> QED  BY <1>3, <2>1, <2>2, <2>3
<1> DEFINE d == Entry("dispatch", m)
           e == Entry("frame", None)
           t == <<Entry("running", m)>>
           u == Append(t, d)
<1>5. StackOK(a, t, message) /\ t # <<>> /\ Len(t) = 1 /\ Kind(t) = "running"
  BY <1>3, BaseOK DEF Bases
<1>6. /\ d \in Entries /\ d.kind = "dispatch" /\ d.msg = m
      /\ e \in Entries /\ e.kind = "frame" /\ e.msg = None
  BY <1>3, EntryFacts
<1>7. Append(u, e) = <<Entry("running", m), Entry("dispatch", m), Entry("frame", None)>>
  <2>1. Entry("running", m) \in Entries
    BY <1>3, EntryFacts DEF Bases
  <2> QED  BY <1>6, <2>1, ThreeEntries
<1> HIDE DEF t, d, e, m
<1>8. StackOK(a, u, message)
  <2>1. Len(t) + 1 <= MaxDepth
    BY <1>5, MessageAssumption
  <2> QED  BY <1>3, <1>5, <1>6, <2>1, PushOK DEF Bases, Loops
<1>9. u # <<>> /\ Len(u) = 2 /\ Kind(u) = "dispatch"
  <2>1. t \in Seq(Entries)
    BY <1>5 DEF StackOK
  <2>2. u \in Seq(Entries) /\ Len(u) = 2 /\ u[2] = d
    BY <1>5, <1>6, <2>1, AppendProperties
  <2>3. u # <<>>
    BY <2>2, EmptySeq
  <2> HIDE DEF u
  <2> QED  BY <1>6, <2>2, <2>3 DEF Kind, Last
<1> HIDE DEF u
<1>10. StackOK(a, Append(u, e), message)
  <2>1. Len(u) + 1 <= MaxDepth
    BY <1>9, MessageAssumption
  <2> QED  BY <1>6, <1>8, <1>9, <2>1, PushOK DEF Bases, Loops
<1>11. mode' = [mode EXCEPT ![a] = "run"]
  BY <1>1, StackFacts
<1>12. /\ stack' = [stack EXCEPT ![a] = Append(u, e)] /\ waitingObject' = waitingObject
       /\ reused' \subseteq AllMessages /\ failed' \subseteq AllMessages
       /\ lost' \subseteq AllMessages
  BY <1>1, <1>7, StackFacts DEF m, history
<1>13. message' \in MessageMaps /\ Grows(message, message') /\ Quiet(message, message')
  BY <1>4, StackFacts, NothingChanges
<1>14. StackOK(a, Append(u, e), message')
  BY <1>4, <1>10
<1> QED  BY <1>1, <1>11, <1>12, <1>13, <1>14, QuietStep DEF Modes

(* sendNotification() of m, which is complete now.                         *)
LEMMA NotifyingStep ==
    ASSUME Inv, NEW a \in Activities, mode[a] # "wait", NEW s, s # <<>>,
           StackOK(a, s, message), Kind(s) # "starting", Len(s) + 1 <= MaxDepth,
           NEW kind \in Loops, NEW m \in Known(message),
           NEW r \in {[message[m] EXCEPT !.returned = TRUE],
                      [message[m] EXCEPT !.raised = TRUE]},
           sendNotification(a, s, kind, m, r),
           NEW p \in Modes, p # "wait", mode' = [mode EXCEPT ![a] = p],
           UNCHANGED history
    PROVE  Stepped
<1> DEFINE w == [r EXCEPT !.waiters = {}]
           n == Len(r.parties)
<1>1. /\ message \in MessageMaps /\ mode \in [Activities -> Modes] /\ a # None
      /\ m \in AllMessages /\ message[m] \in Message
      /\ message[m].parties \in Seq(Party) /\ Len(message[m].parties) \in Nat
      /\ waitingObject \in [Activities -> AllMessages \cup {None}]
  BY StackFacts, KnownFacts, PartiesSeq DEF Inv, Typed
<1>2. /\ r.waiters = message[m].waiters /\ r.parties = message[m].parties
      /\ w \in Message /\ w.parties = message[m].parties /\ w.waiters = {}
      /\ w.startActivity = message[m].startActivity
      /\ w.activated = message[m].activated /\ (w.returned \/ w.raised)
  BY <1>1 DEF Message
<1>3. message' = [message EXCEPT ![m] = w]
  BY DEF sendNotification
<1> HIDE DEF w
<1>4. message' \in MessageMaps /\ Grows(message, message')
  <2>1. \A i \in 1..Len(w.parties) : w.parties[i].party \in Known(message) \cup Listeners
    BY <1>1, <1>2 DEF MessageMaps
  <2>2. Len(w.parties) >= Len(message[m].parties)
    BY <1>1, <1>2
  <2> QED  BY <1>1, <1>2, <1>3, <2>1, <2>2, ChangeOne
<1>5. \A x \in AllMessages : message'[x] = IF x = m THEN w ELSE message[x]
  BY <1>1, <1>3 DEF MessageMaps
<1> DEFINE t == setObjNotify(s, None)
           e == Loop(kind, m, n)
<1>6. stack' = [stack EXCEPT ![a] = Append(t, e)] /\ StackOK(a, s, message')
  BY <1>1, <1>4, GrowOK DEF sendNotification
<1>7. StackOK(a, t, message') /\ Len(t) = Len(s) /\ t # <<>> /\ Kind(t) = Kind(s)
  BY <1>6, NotifyOK
<1>8. n \in Nat /\ n = Len(message[m].parties)
  BY <1>1, <1>2
<1>9. /\ e \in Entries /\ e.kind = kind /\ e.msg = m /\ e.next = 1 /\ e.count = n
  BY <1>1, <1>8, EntryFacts
<1> HIDE DEF e, t, n
<1>10. StackOK(a, Append(t, e), message')
  <2>1. /\ 1 <= e.next /\ e.next <= e.count + 1
        /\ e.count <= Len(message'[e.msg].parties)
    BY <1>1, <1>2, <1>5, <1>8, <1>9
  <2>2. e.msg \in Known(message') /\ e.kind \notin Bases /\ e.kind # "frame"
    BY <1>4, <1>9 DEF Grows, Loops, Bases
  <2> QED  BY <1>7, <1>9, <2>1, <2>2, PushOK
<1>11. stack' \in [Activities -> Seq(Entries)] /\ StacksOK'
  BY <1>4, <1>6, <1>10, StackMoves
<1>12. waitingObject' = [b \in Activities |->
                           IF b \in message[m].waiters THEN None ELSE waitingObject[b]]
  BY <1>2 DEF sendNotification
<1>13. \A b \in Activities : (mode'[b] = "wait") = (mode[b] = "wait")
  BY <1>1
<1>14. ASSUME NEW x \in AllMessages
       PROVE  /\ message'[x].waiters
                   = {b \in Activities : mode'[b] = "wait" /\ waitingObject'[b] = x}
              /\ message'[x].returned \/ message'[x].raised => message'[x].waiters = {}
  <2>1. x # None
    BY MessageAssumption DEF AllMessages
  <2>2. /\ message[x].waiters
             = {b \in Activities : mode[b] = "wait" /\ waitingObject[b] = x}
        /\ message[x].returned \/ message[x].raised => message[x].waiters = {}
        /\ message[m].waiters
             = {b \in Activities : mode[b] = "wait" /\ waitingObject[b] = m}
    BY <1>1 DEF Inv, SleepersKnown, isComplete
  <2>3. CASE x = m
    BY <1>2, <1>5, <1>12, <1>13, <2>1, <2>2, <2>3
  <2>4. CASE x # m
    BY <1>5, <1>12, <1>13, <2>1, <2>2, <2>4
  <2> QED  BY <2>3, <2>4
<1>15. SleepersKnown'
  BY <1>14 DEF SleepersKnown, isComplete
<1>16. /\ mode' \in [Activities -> Modes]
       /\ waitingObject' \in [Activities -> AllMessages \cup {None}]
  BY <1>1, <1>12
<1> QED  BY <1>4, <1>11, <1>15, <1>16 DEF Stepped, Inv, Typed, history

LEMMA NotifyInv ==
    ASSUME Inv, NEW a \in Activities, NEW m \in Created,
           NEW p \in Created \cup Listeners, notify(a, m, p)
    PROVE  Stepped
<1> DEFINE late == isComplete(m) /\ ~message[m].notified
           q == [party |-> p, told |-> 0, late |-> late]
           ps == Append(message[m].parties, q)
           w == [message[m] EXCEPT !.parties = ps]
           added == [message EXCEPT ![m] = w]
<1>1. /\ message \in MessageMaps /\ mode \in [Activities -> Modes] /\ a # None
      /\ m \in Known(message) /\ m \in AllMessages /\ message[m] \in Message
      /\ message[m].parties \in Seq(Party) /\ Len(message[m].parties) \in Nat
      /\ p \in Known(message) \cup Listeners /\ p \in AllMessages \cup Listeners
      /\ StackOK(a, stack[a], message)
  BY StackFacts, KnownFacts, PartiesSeq
<1>2. /\ mode[a] = "run" /\ Kind(stack[a]) = "frame" /\ stack[a] # <<>>
  BY StackFacts DEF notify, InRexx, Turn
<1>3. /\ message[m].notified =>
            Tell(a, stack[a], added, m, Len(added[m].parties))
      /\ ~message[m].notified =>
            message' = added /\ UNCHANGED <<stack, mode, waitingObject, history>>
  BY DEF notify
<1>4. q \in Party /\ q.party = p
  <2>1. late \in BOOLEAN
    BY <1>1 DEF Message
  <2> HIDE DEF late
  <2> QED  BY <1>1, <2>1 DEF Party
<1> HIDE DEF q
<1>5. /\ ps \in Seq(Party) /\ Len(ps) = Len(message[m].parties) + 1
      /\ ps[Len(message[m].parties) + 1] = q
      /\ \A i \in 1..Len(message[m].parties) : ps[i] = message[m].parties[i]
  BY <1>1, <1>4, AppendProperties
<1> HIDE DEF ps
<1>6. /\ w \in Message /\ w.parties = ps /\ w.waiters = message[m].waiters
      /\ w.startActivity = message[m].startActivity
      /\ w.activated = message[m].activated
      /\ w.returned = message[m].returned /\ w.raised = message[m].raised
  BY <1>1, <1>5 DEF Message
<1> HIDE DEF w
<1>7. \A i \in 1..Len(w.parties) : w.parties[i].party \in Known(message) \cup Listeners
  <2> SUFFICES ASSUME NEW i \in 1..Len(w.parties)
               PROVE  w.parties[i].party \in Known(message) \cup Listeners
    OBVIOUS
  <2>1. CASE i \in 1..Len(message[m].parties)
    BY <1>1, <1>5, <1>6, <2>1 DEF MessageMaps
  <2>2. CASE i = Len(message[m].parties) + 1
    BY <1>1, <1>4, <1>5, <1>6, <2>2
  <2> QED  BY <1>1, <1>5, <1>6, <2>1, <2>2
<1>8. added \in MessageMaps /\ Grows(message, added) /\ Quiet(message, added)
  <2>1. Len(w.parties) >= Len(message[m].parties)
    BY <1>1, <1>5, <1>6
  <2> QED  BY <1>1, <1>6, <1>7, <2>1, ChangeOne
<1>9. /\ added[m] = w
      /\ \A x \in AllMessages : added[x].activated = message[x].activated
  BY <1>1, <1>6 DEF MessageMaps
<1> HIDE DEF added
<1>10. StackOK(a, stack[a], added) /\ m \in Known(added)
  BY <1>1, <1>8, GrowOK DEF Grows
<1>11. CASE message[m].notified
  <2>1. Len(added[m].parties) \in 1..Len(added[m].parties)
    BY <1>1, <1>5, <1>6, <1>9
  <2> QED  BY <1>2, <1>3, <1>8, <1>9, <1>10, <1>11, <2>1, TellStep
<1>12. CASE ~message[m].notified
  <2>1. /\ message' = added /\ waitingObject' = waitingObject
        /\ reused' \subseteq AllMessages /\ failed' \subseteq AllMessages
        /\ lost' \subseteq AllMessages
    BY <1>3, <1>12, StackFacts DEF history
  <2>2. stack' = [stack EXCEPT ![a] = stack[a]] /\ mode' = [mode EXCEPT ![a] = "run"]
    BY <1>1, <1>2, <1>3, <1>12 DEF Inv, Typed
  <2> QED  BY <1>2, <1>8, <1>10, <2>1, <2>2, QuietStep DEF Modes
<1> QED  BY <1>11, <1>12

LEMMA WaitInv ==
    ASSUME Inv, NEW a \in Activities, NEW m \in Created, wait(a, m)
    PROVE  Stepped
<1>1. /\ message \in MessageMaps /\ mode \in [Activities -> Modes] /\ a # None
      /\ m \in Known(message) /\ m \in AllMessages /\ message[m] \in Message
      /\ message[m].parties \in Seq(Party) /\ Len(message[m].parties) \in Nat
      /\ StackOK(a, stack[a], message)
      /\ reused \subseteq AllMessages /\ failed \subseteq AllMessages
      /\ lost \subseteq AllMessages
      /\ waitingObject \in [Activities -> AllMessages \cup {None}]
      /\ stack = [stack EXCEPT ![a] = stack[a]]
  BY StackFacts, KnownFacts, PartiesSeq DEF Inv, Typed
<1>2. /\ mode[a] = "run" /\ stack[a] # <<>> /\ ~message[m].returned /\ ~message[m].raised
  BY StackFacts DEF wait, InRexx, Turn, isComplete
<1>3. CASE /\ RaiseFrom(a, stack[a])
           /\ UNCHANGED <<message, reused>>
  BY <1>1, <1>2, <1>3, NothingChanges, RaiseStep
<1>4. CASE /\ mode' = [mode EXCEPT ![a] = "endless"]
           /\ UNCHANGED <<message, stack, waitingObject, history>>
  <2>1. /\ stack' = [stack EXCEPT ![a] = stack[a]] /\ waitingObject' = waitingObject
        /\ message' = message
        /\ reused' \subseteq AllMessages /\ failed' \subseteq AllMessages
        /\ lost' \subseteq AllMessages
    BY <1>1, <1>4 DEF history
  <2>2. Grows(message, message') /\ Quiet(message, message') /\ message' \in MessageMaps
    BY <1>1, <2>1, NothingChanges
  <2>3. StackOK(a, stack[a], message') /\ mode[a] # "wait"
    BY <1>1, <1>2, <2>1
  <2> QED  BY <1>4, <2>1, <2>2, <2>3, QuietStep DEF Modes
<1>5. CASE /\ message' = [message EXCEPT ![m].waiters = @ \cup {a}]
           /\ waitingObject' = [waitingObject EXCEPT ![a] = m]
           /\ mode' = [mode EXCEPT ![a] = "wait"]
           /\ UNCHANGED <<stack, history>>
  <2> DEFINE w == [message[m] EXCEPT !.waiters = @ \cup {a}]
  <2>1. /\ w \in Message /\ w.parties = message[m].parties
        /\ w.waiters = message[m].waiters \cup {a}
        /\ w.startActivity = message[m].startActivity
        /\ w.activated = message[m].activated
        /\ w.returned = message[m].returned /\ w.raised = message[m].raised
    BY <1>1 DEF Message
  <2>2. message' = [message EXCEPT ![m] = w]
    BY <1>5
  <2> HIDE DEF w
  <2>3. message' \in MessageMaps /\ Grows(message, message')
    <3>1. \A i \in 1..Len(w.parties) : w.parties[i].party \in Known(message) \cup Listeners
      BY <1>1, <2>1 DEF MessageMaps
    <3>2. Len(w.parties) >= Len(message[m].parties)
      BY <1>1, <2>1
    <3> QED  BY <1>1, <2>1, <2>2, <3>1, <3>2, ChangeOne
  <2>4. \A x \in AllMessages : message'[x] = IF x = m THEN w ELSE message[x]
    BY <1>1, <2>2 DEF MessageMaps
  <2>5. stack' = [stack EXCEPT ![a] = stack[a]] /\ StackOK(a, stack[a], message')
    BY <1>1, <1>5, <2>3, GrowOK
  <2>6. stack' \in [Activities -> Seq(Entries)] /\ StacksOK'
    BY <2>3, <2>5, StackMoves
  <2>7. ASSUME NEW x \in AllMessages
        PROVE  /\ message'[x].waiters
                    = {b \in Activities : mode'[b] = "wait" /\ waitingObject'[b] = x}
               /\ message'[x].returned \/ message'[x].raised => message'[x].waiters = {}
    <3>1. /\ message[x].waiters
               = {b \in Activities : mode[b] = "wait" /\ waitingObject[b] = x}
          /\ message[x].returned \/ message[x].raised => message[x].waiters = {}
      BY <1>1 DEF Inv, SleepersKnown, isComplete
    <3>2. \A b \in Activities \ {a} : mode'[b] = mode[b] /\ waitingObject'[b] = waitingObject[b]
      BY <1>1, <1>5
    <3>3. mode'[a] = "wait" /\ waitingObject'[a] = m
      BY <1>1, <1>5
    <3>4. CASE x = m
      BY <1>2, <2>1, <2>4, <3>1, <3>2, <3>3, <3>4
    <3>5. CASE x # m
      BY <1>2, <2>4, <3>1, <3>2, <3>3, <3>5
    <3> QED  BY <3>4, <3>5
  <2>8. SleepersKnown'
    BY <2>7 DEF SleepersKnown, isComplete
  <2>9. /\ mode' \in [Activities -> Modes]
        /\ waitingObject' \in [Activities -> AllMessages \cup {None}]
        /\ reused' \subseteq AllMessages /\ failed' \subseteq AllMessages
        /\ lost' \subseteq AllMessages
    BY <1>1, <1>5 DEF Modes, history
  <2> QED  BY <2>3, <2>6, <2>8, <2>9 DEF Stepped, Inv, Typed
<1> QED  BY <1>3, <1>4, <1>5 DEF wait

LEMMA WakeInv ==
    ASSUME Inv, NEW a \in Activities, wake(a)
    PROVE  Stepped
<1>1. /\ waitingObject[a] = None
      /\ mode' = [mode EXCEPT ![a] = "run"]
      /\ UNCHANGED <<message, stack, waitingObject, history>>
  BY DEF wake
<1>2. message \in MessageMaps /\ mode \in [Activities -> Modes]
  BY StackFacts
<1>3. Grows(message, message')
  BY <1>1, <1>2, NothingChanges
<1>4. ASSUME NEW x \in AllMessages
      PROVE  /\ message'[x].waiters
                  = {b \in Activities : mode'[b] = "wait" /\ waitingObject'[b] = x}
             /\ message'[x].returned \/ message'[x].raised => message'[x].waiters = {}
  <2>1. /\ message[x].waiters
             = {b \in Activities : mode[b] = "wait" /\ waitingObject[b] = x}
        /\ message[x].returned \/ message[x].raised => message[x].waiters = {}
    BY DEF Inv, SleepersKnown, isComplete
  <2>2. x # None
    BY MessageAssumption DEF AllMessages
  <2>3. \A b \in Activities \ {a} : mode'[b] = mode[b]
    BY <1>1, <1>2
  <2> QED  BY <1>1, <2>1, <2>2, <2>3
<1>5. SleepersKnown'
  BY <1>4 DEF SleepersKnown, isComplete
<1>6. Typed'
  BY <1>1, <1>2 DEF Inv, Typed, history, Modes
<1>7. StacksOK'
  BY <1>1 DEF Inv, StacksOK, StackOK, EntryOK
<1> QED  BY <1>3, <1>5, <1>6, <1>7 DEF Stepped, Inv

LEMMA ReturnInv ==
    ASSUME Inv, NEW a \in Activities, return(a)
    PROVE  Stepped
<1> DEFINE s == Front(stack[a])
           m == Last(s).msg
<1>1. /\ mode[a] = "run" /\ stack[a] # <<>> /\ UNCHANGED <<mode, history>>
      /\ IF Kind(s) = "dispatch"
         THEN sendNotification(a, Front(s), "notifying", m,
                               [message[m] EXCEPT !.returned = TRUE])
         ELSE stack' = [stack EXCEPT ![a] = s] /\ UNCHANGED <<message, waitingObject>>
  BY StackFacts DEF return, InRexx, Turn
<1>2. /\ StackOK(a, stack[a], message) /\ Len(stack[a]) <= MaxDepth
      /\ message \in MessageMaps /\ mode \in [Activities -> Modes]
      /\ Len(stack[a]) \in Nat
  BY <1>1, StackFacts, TopFacts DEF StackOK
<1>3. /\ StackOK(a, s, message)
      /\ Len(s) \in Nat /\ Len(stack[a]) = Len(s) + 1
      /\ s # <<>> => /\ Last(s) \in Entries
                     /\ Last(s).kind = Kind(s)
                     /\ Last(s).msg \in Known(message) \cup {None}
      /\ Kind(s) = "dispatch" => Len(s) # 1
  BY <1>1, <1>2, PopOK
<1>4. mode' = [mode EXCEPT ![a] = "run"]
  BY <1>1, <1>2
<1> HIDE DEF s
<1>5. CASE Kind(s) = "dispatch"
  <2>1. s # <<>>
    BY <1>5 DEF Kind
  <2>2. m \in Known(message)
    <3>1. m \in AllMessages
      BY <1>3, <1>5, <2>1 DEF Entries, FrameEntries, DispatchEntries, LoopEntries, Loops
    <3> QED  BY <1>3, <2>1, <3>1, MessageAssumption DEF AllMessages
  <2> HIDE DEF m
  <2>3. /\ StackOK(a, Front(s), message)
        /\ Len(Front(s)) \in Nat /\ Len(s) = Len(Front(s)) + 1
        /\ (Front(s) = <<>> <=> Len(Front(s)) = 0) /\ Kind(Front(s)) # "starting"
    BY <1>3, <2>1, PopOK
  <2>4. Len(Front(s)) + 1 <= MaxDepth /\ Front(s) # <<>>
    <3>1. PICK n \in Nat : n = Len(Front(s))
      BY <2>3
    <3>2. n + 1 + 1 <= MaxDepth
      BY <1>2, <1>3, <2>3, <3>1
    <3>3. n + 1 <= MaxDepth /\ n # 0
      BY <1>3, <1>5, <2>3, <3>1, <3>2, MessageAssumption
    <3> QED  BY <2>3, <3>1, <3>3
  <2>5. sendNotification(a, Front(s), "notifying", m,
                         [message[m] EXCEPT !.returned = TRUE])
    BY <1>1, <1>5
  <2>6. mode[a] # "wait" /\ "notifying" \in Loops /\ "run" \in Modes
    BY <1>1 DEF Loops, Modes
  <2> QED  BY <1>1, <1>4, <2>2, <2>3, <2>4, <2>5, <2>6, NotifyingStep
<1>6. CASE Kind(s) # "dispatch"
  <2>1. /\ stack' = [stack EXCEPT ![a] = s] /\ message' = message
        /\ waitingObject' = waitingObject
        /\ reused' \subseteq AllMessages /\ failed' \subseteq AllMessages
        /\ lost' \subseteq AllMessages
    BY <1>1, <1>6, StackFacts DEF history
  <2>2. Grows(message, message') /\ Quiet(message, message') /\ message' \in MessageMaps
    BY <1>2, <2>1, NothingChanges
  <2>3. StackOK(a, s, message') /\ mode[a] # "wait"
    BY <1>1, <1>3, <2>1
  <2> QED  BY <1>4, <2>1, <2>2, <2>3, QuietStep DEF Modes
<1> QED  BY <1>5, <1>6

(* The topmost entry is a loop over the parties of a message.              *)
LEMMA LoopFacts ==
    ASSUME Inv, NEW a \in Activities, InCode(a, {"notifying", "reporting"})
    PROVE  /\ mode[a] = "run" /\ stack[a] # <<>>
           /\ StackOK(a, stack[a], message) /\ message \in MessageMaps
           /\ Top(a) \in LoopEntries /\ Top(a) = stack[a][Len(stack[a])]
           /\ Top(a).msg \in Known(message) /\ Top(a).msg \in AllMessages
           /\ 1 <= Top(a).next /\ Top(a).next <= Top(a).count + 1
           /\ Top(a).count <= Len(message[Top(a).msg].parties)
           /\ Len(message[Top(a).msg].parties) \in Nat
           /\ Len(stack[a]) \in Nat /\ Len(stack[a]) > 1
<1>1. /\ mode[a] = "run" /\ stack[a] # <<>> /\ Kind(stack[a]) \in Loops
      /\ StackOK(a, stack[a], message) /\ message \in MessageMaps
  BY StackFacts DEF InCode, Loops
<1>2. /\ Top(a) \in Entries /\ Top(a) = stack[a][Len(stack[a])]
      /\ Top(a).kind \in Loops
      /\ EntryOK(a, stack[a], Len(stack[a]), message)
      /\ Len(stack[a]) \in Nat /\ Len(stack[a]) >= 1
  BY <1>1, TopFacts DEF Top
<1>3. Top(a) \in LoopEntries
  BY <1>2 DEF Entries, FrameEntries, DispatchEntries, LoopEntries, Bases, Loops
<1>4. Top(a).msg \in AllMessages
  BY <1>3 DEF LoopEntries
<1>5. Top(a).msg \in Known(message)
  BY <1>2, <1>4, MessageAssumption DEF EntryOK, AllMessages
<1>6. /\ 1 <= Top(a).next /\ Top(a).next <= Top(a).count + 1
      /\ Top(a).count <= Len(message[Top(a).msg].parties)
  BY <1>2 DEF EntryOK
<1>7. Len(stack[a]) # 1
  BY <1>2 DEF EntryOK, Activations, Bases, Loops
<1>8. Len(message[Top(a).msg].parties) \in Nat
  BY <1>1, <1>4, PartiesSeq
<1>9. Len(stack[a]) > 1
  <2>1. PICK n \in Nat : n = Len(stack[a])
    BY <1>2
  <2>2. n >= 1 /\ n # 1
    BY <1>2, <1>7, <2>1
  <2>3. n > 1
    BY <2>2
  <2> QED  BY <2>1, <2>3
<1> QED  BY <1>1, <1>2, <1>3, <1>4, <1>5, <1>6, <1>8, <1>9

LEMMA NotifyNextInv ==
    ASSUME Inv, NEW a \in Activities, notifyNext(a)
    PROVE  Stepped
<1> DEFINE loop == Top(a)
           n == Len(stack[a])
           e == [loop EXCEPT !.next = loop.next + 1]
           t == [stack[a] EXCEPT ![n] = e]
<1>1. /\ mode[a] = "run" /\ stack[a] # <<>>
      /\ StackOK(a, stack[a], message) /\ message \in MessageMaps
      /\ loop \in LoopEntries /\ loop = stack[a][n]
      /\ loop.msg \in Known(message) /\ loop.msg \in AllMessages
      /\ 1 <= loop.next /\ loop.next <= loop.count + 1
      /\ loop.count <= Len(message[loop.msg].parties)
      /\ Len(message[loop.msg].parties) \in Nat
      /\ n \in Nat /\ n > 1
  BY LoopFacts DEF notifyNext
<1>2. /\ loop.next <= loop.count
      /\ Tell(a, [stack[a] EXCEPT ![n].next = @ + 1], message, loop.msg, loop.next)
  BY DEF notifyNext
<1>3. loop.next \in Nat /\ loop.count \in Nat /\ loop.kind \in Loops
  BY <1>1 DEF LoopEntries
<1>4. /\ e \in LoopEntries /\ e.kind = loop.kind /\ e.msg = loop.msg
      /\ e.next = loop.next + 1 /\ e.count = loop.count
  BY <1>1, <1>3 DEF LoopEntries
<1>5. t = [stack[a] EXCEPT ![n].next = @ + 1]
  BY <1>1
<1> HIDE DEF loop, e
<1>6. e \in Entries /\ stack[a] \in Seq(Entries)
  BY <1>1, <1>4 DEF Entries, StackOK
<1>7. /\ t \in Seq(Entries) /\ Len(t) = n
      /\ \A i \in 1..n : t[i] = IF i = n THEN e ELSE stack[a][i]
  BY <1>1, <1>6, ExceptSeq
<1> HIDE DEF t
<1>8. ASSUME NEW i \in 1..Len(t) PROVE EntryOK(a, t, i, message)
  <2>1. EntryOK(a, stack[a], i, message)
    BY <1>1, <1>7 DEF StackOK
  <2>2. CASE i = n
    BY <1>1, <1>2, <1>3, <1>4, <1>7, <2>1, <2>2 DEF EntryOK, Loops
  <2>3. CASE i # n
    BY <1>7, <2>1, <2>3 DEF EntryOK
  <2> QED  BY <2>2, <2>3
<1>9. StackOK(a, t, message)
  BY <1>1, <1>7, <1>8 DEF StackOK
<1>10. t # <<>> /\ Kind(t) # "starting"
  <2>1. t # <<>>
    BY <1>1, <1>7, EmptySeq
  <2>2. Kind(t) = e.kind
    BY <1>1, <1>7, <2>1 DEF Kind, Last
  <2> QED  BY <1>3, <1>4, <2>1, <2>2 DEF Loops
<1>11. loop.next \in 1..Len(message[loop.msg].parties)
  BY <1>1, <1>2, <1>3
<1> QED  BY <1>1, <1>2, <1>5, <1>9, <1>10, <1>11, NothingChanges, TellStep

LEMMA AllNotifiedInv ==
    ASSUME Inv, NEW a \in Activities, setAllNotified(a)
    PROVE  Stepped
<1> DEFINE m == Top(a).msg
           s == Front(stack[a])
           w == [message[m] EXCEPT !.notified = TRUE]
           t == IF Kind(s) \in Bases THEN <<>> ELSE s
           p == IF Top(a).kind = "reporting" /\ Kind(s) = "frame" THEN "raise" ELSE "run"
<1>1. /\ mode[a] = "run" /\ stack[a] # <<>>
      /\ StackOK(a, stack[a], message) /\ message \in MessageMaps
      /\ m \in Known(message) /\ m \in AllMessages
  BY LoopFacts DEF setAllNotified
<1>2. /\ message' = [message EXCEPT ![m] = w]
      /\ stack' = [stack EXCEPT ![a] = t]
      /\ mode' = [mode EXCEPT ![a] = p]
      /\ UNCHANGED <<waitingObject, history>>
  BY DEF setAllNotified
<1>3. /\ message[m] \in Message /\ message[m].parties \in Seq(Party)
      /\ Len(message[m].parties) \in Nat
  BY <1>1, PartiesSeq
<1>4. /\ w \in Message /\ w.parties = message[m].parties
      /\ w.waiters = message[m].waiters
      /\ w.startActivity = message[m].startActivity
      /\ w.activated = message[m].activated
      /\ w.returned = message[m].returned /\ w.raised = message[m].raised
  BY <1>3 DEF Message
<1> HIDE DEF w
<1>5. /\ message' \in MessageMaps /\ Grows(message, message')
      /\ Quiet(message, message')
  <2>1. \A i \in 1..Len(w.parties) : w.parties[i].party \in Known(message) \cup Listeners
    BY <1>1, <1>4 DEF MessageMaps
  <2>2. Len(w.parties) >= Len(message[m].parties)
    BY <1>3, <1>4
  <2> QED  BY <1>1, <1>2, <1>4, <2>1, <2>2, ChangeOne
<1>6. StackOK(a, t, message)
  <2>1. StackOK(a, s, message)
    BY <1>1, PopOK
  <2>2. StackOK(a, <<>>, message)
    <3>1. <<>> \in Seq(Entries) /\ Len(<<>>) = 0
      OBVIOUS
    <3> QED  BY <3>1, MessageAssumption DEF StackOK
  <2> HIDE DEF s
  <2> QED  BY <2>1, <2>2
<1>7. StackOK(a, t, message')
  BY <1>1, <1>5, <1>6, StackFacts, GrowOK
<1>8. p \in Modes /\ p # "wait"
  BY DEF Modes
<1>9. /\ waitingObject' = waitingObject
      /\ reused' \subseteq AllMessages /\ failed' \subseteq AllMessages
      /\ lost' \subseteq AllMessages
  BY <1>2, StackFacts DEF history
<1> HIDE DEF t, p
<1> QED  BY <1>1, <1>2, <1>5, <1>7, <1>8, <1>9, QuietStep

(* Below the first entry there is nothing to unwind to.                    *)
LEMMA NothingBelow == TopFrame(<<>>) = 0 /\ Kind(Unwound(<<>>)) = "idle"
<1>1. {i \in DOMAIN <<>> : <<>>[i].kind \in Activations} = {}
  OBVIOUS
<1>2. TopFrame(<<>>) = 0
  BY <1>1 DEF TopFrame
<1>3. SubSeq(<<>>, 1, 0) = <<>>
  <2>1. /\ SubSeq(<<>>, 1, 0) \in Seq({}) /\ Len(SubSeq(<<>>, 1, 0)) = 0
    <3>1. 1 \in Int /\ 0 \in Int /\ \A i \in 1..0 : <<>>[i] \in {}
      OBVIOUS
    <3> QED  BY <3>1, SubSeqProperties
  <2> QED  BY <2>1, EmptySeq
<1> QED  BY <1>2, <1>3 DEF Unwound, Kind

LEMMA RaiseInv ==
    ASSUME Inv, NEW a \in Activities, raise(a)
    PROVE  Stepped
<1>1. /\ RaiseFrom(a, stack[a]) /\ UNCHANGED <<message, reused>>
      /\ mode[a] = "run" /\ stack[a] # <<>>
  BY StackFacts DEF raise, InRexx, Turn
<1> QED  BY <1>1, StackFacts, NothingChanges, RaiseStep

LEMMA TrapNotifiesInv ==
    ASSUME Inv, NEW a \in Activities, trapNotifies(a)
    PROVE  Stepped
<1> DEFINE m == Top(a).msg
           s == stack[a]
<1>1. /\ mode[a] = "raise" /\ Kind(s) = "frame" /\ s # <<>> /\ m # None
      /\ error(a, s, m)
  BY StackFacts DEF trapNotifies, Raising
<1>2. /\ StackOK(a, s, message) /\ Last(s) = s[Len(s)] /\ Len(s) \in Nat
      /\ EntryOK(a, s, Len(s), message) /\ Kind(s) = Last(s).kind
  BY <1>1, StackFacts, TopFacts
<1>3. m \in Known(message) /\ Len(s) + 2 <= MaxDepth
  BY <1>1, <1>2 DEF EntryOK, Top
<1>4. Len(s) + 1 <= MaxDepth
  BY <1>2, <1>3, MessageAssumption
<1>5. /\ sendNotification(a, s, "reporting", m, [message[m] EXCEPT !.raised = TRUE])
      /\ mode' = [mode EXCEPT ![a] = "run"] /\ UNCHANGED history
  BY <1>1 DEF error
<1>6. mode[a] # "wait" /\ "reporting" \in Loops /\ "run" \in Modes /\ Kind(s) # "starting"
  BY <1>1 DEF Loops, Modes
<1> HIDE DEF m, s
<1> QED  BY <1>1, <1>2, <1>3, <1>4, <1>5, <1>6, NotifyingStep

LEMMA TrappedInv ==
    ASSUME Inv, NEW a \in Activities, trapped(a)
    PROVE  Stepped
<1>1. /\ mode[a] = "raise" /\ mode' = [mode EXCEPT ![a] = "run"]
      /\ UNCHANGED <<message, stack, waitingObject, history>>
  BY DEF trapped, Raising
<1>2. /\ stack' = [stack EXCEPT ![a] = stack[a]] /\ message' = message
      /\ waitingObject' = waitingObject
      /\ reused' \subseteq AllMessages /\ failed' \subseteq AllMessages
      /\ lost' \subseteq AllMessages
  BY <1>1 DEF history, Inv, Typed
<1>3. /\ StackOK(a, stack[a], message') /\ message' \in MessageMaps
      /\ Grows(message, message') /\ Quiet(message, message')
  BY <1>2, StackFacts, NothingChanges
<1> QED  BY <1>1, <1>2, <1>3, QuietStep DEF Modes

LEMMA UntrappedInv ==
    ASSUME Inv, NEW a \in Activities, untrapped(a)
    PROVE  Stepped
<1> DEFINE s == Front(stack[a])
<1>1. /\ mode[a] = "raise" /\ stack[a] # <<>> /\ message' = message /\ reused' = reused
      /\ IF TopFrame(s) = 0
         THEN /\ stack' = [stack EXCEPT ![a] = <<>>]
              /\ mode' = [mode EXCEPT ![a] = "run"]
              /\ UNCHANGED <<waitingObject, failed, lost>>
         ELSE RaiseFrom(a, s)
  BY StackFacts DEF untrapped, Raising
<1>2. /\ message' \in MessageMaps /\ Grows(message, message') /\ Quiet(message, message')
      /\ reused' \subseteq AllMessages
  BY <1>1, StackFacts, NothingChanges
<1>3. CASE TopFrame(s) = 0
  <2>1. StackOK(a, <<>>, message')
    <3>1. <<>> \in Seq(Entries) /\ Len(<<>>) = 0
      OBVIOUS
    <3> QED  BY <3>1, MessageAssumption DEF StackOK
  <2>2. /\ stack' = [stack EXCEPT ![a] = <<>>] /\ mode' = [mode EXCEPT ![a] = "run"]
        /\ waitingObject' = waitingObject
        /\ failed' \subseteq AllMessages /\ lost' \subseteq AllMessages
    BY <1>1, <1>3, StackFacts
  <2> QED  BY <1>1, <1>2, <2>1, <2>2, QuietStep DEF Modes
<1>4. CASE TopFrame(s) # 0
  <2>1. s # <<>>
    BY <1>4, NothingBelow
  <2>2. StackOK(a, s, message')
    BY <1>1, StackFacts, PopOK
  <2> HIDE DEF s
  <2>3. RaiseFrom(a, s) /\ mode[a] # "wait"
    BY <1>1, <1>4
  <2> QED  BY <1>2, <2>1, <2>2, <2>3, RaiseStep
<1> QED  BY <1>3, <1>4

LEMMA HandleErrorInv ==
    ASSUME Inv, NEW a \in Activities, handleError(a)
    PROVE  Stepped
<1> DEFINE m == Top(a).msg
<1>1. mode[a] = "raise"
  BY DEF handleError
<1>2. ASSUME Kind(stack[a]) \in {"running", "handling"}
      PROVE  m \in Known(message)
  <2>1. stack[a] # <<>>
    BY <1>2, StackFacts
  <2>2. /\ Last(stack[a]) \in Entries /\ Last(stack[a]).kind \in {"running", "handling"}
        /\ EntryOK(a, stack[a], Len(stack[a]), message)
        /\ Last(stack[a]) = stack[a][Len(stack[a])]
    BY <1>2, <2>1, StackFacts, TopFacts
  <2>3. m \in AllMessages
    BY <2>2 DEF Top, Entries, FrameEntries, DispatchEntries, LoopEntries, Loops
  <2> QED  BY <2>2, <2>3, MessageAssumption DEF EntryOK, Top, AllMessages
<1>3. ASSUME NEW k \in {"handling", "catching"}, m \in Known(message),
             error(a, <<Entry(k, m)>>, m)
      PROVE  Stepped
  <2> DEFINE s == <<Entry(k, m)>>
  <2>1. /\ StackOK(a, s, message) /\ s # <<>> /\ Len(s) = 1 /\ Kind(s) = k
    BY <1>3, BaseOK DEF Bases
  <2>2. /\ sendNotification(a, s, "reporting", m, [message[m] EXCEPT !.raised = TRUE])
        /\ mode' = [mode EXCEPT ![a] = "run"] /\ UNCHANGED history
    BY <1>3 DEF error
  <2> HIDE DEF s, m
  <2>3. /\ mode[a] # "wait" /\ "reporting" \in Loops /\ "run" \in Modes
        /\ Kind(s) # "starting" /\ Len(s) + 1 <= MaxDepth
    BY <1>1, <2>1, MessageAssumption DEF Loops, Modes
  <2> QED  BY <1>3, <2>1, <2>2, <2>3, NotifyingStep
<1>4. CASE Kind(stack[a]) = "running" /\ error(a, <<Entry("handling", m)>>, m)
  BY <1>2, <1>3, <1>4
<1>5. CASE Kind(stack[a]) = "handling" /\ error(a, <<Entry("catching", m)>>, m)
  BY <1>2, <1>3, <1>5
<1>6. CASE /\ stack' = [stack EXCEPT ![a] = <<>>]
           /\ mode' = [mode EXCEPT ![a] = "run"]
           /\ UNCHANGED <<message, waitingObject, history>>
  <2>1. /\ message' = message /\ waitingObject' = waitingObject
        /\ reused' \subseteq AllMessages /\ failed' \subseteq AllMessages
        /\ lost' \subseteq AllMessages
    BY <1>6, StackFacts DEF history
  <2>2. /\ message' \in MessageMaps /\ Grows(message, message') /\ Quiet(message, message')
    BY <2>1, StackFacts, NothingChanges
  <2>3. StackOK(a, <<>>, message')
    <3>1. <<>> \in Seq(Entries) /\ Len(<<>>) = 0
      OBVIOUS
    <3> QED  BY <3>1, MessageAssumption DEF StackOK
  <2> QED  BY <1>1, <1>6, <2>1, <2>2, <2>3, QuietStep DEF Modes
<1> QED  BY <1>4, <1>5, <1>6 DEF handleError

LEMMA SignalInv ==
    ASSUME Inv, NEW a \in Activities, signalUser(a)
    PROVE  Stepped
<1> DEFINE s == Front(stack[a])
<1>1. /\ mode[a] = "run" /\ stack[a] # <<>> /\ Kind(Unwound(s)) = "frame"
      /\ stack' = [stack EXCEPT ![a] = Unwound(s)]
      /\ failed' = failed \cup {e.msg : e \in {e \in CallsAbove(s) : e.kind # "dispatch"}}
      /\ lost' = lost \cup {e.msg : e \in {e \in CallsAbove(s) : e.kind = "dispatch"}}
      /\ UNCHANGED <<message, mode, waitingObject, reused>>
  BY StackFacts DEF signalUser, InRexx, Turn
<1>2. s # <<>>
  BY <1>1, NothingBelow
<1>3. StackOK(a, s, message) /\ mode' = [mode EXCEPT ![a] = "run"]
  BY <1>1, StackFacts, PopOK
<1> HIDE DEF s
<1>4. /\ StackOK(a, Unwound(s), message)
      /\ \A e \in CallsAbove(s) : e.msg \in AllMessages
  BY <1>2, <1>3, UnwindOK
<1>5. /\ reused' \subseteq AllMessages /\ failed' \subseteq AllMessages
      /\ lost' \subseteq AllMessages
  BY <1>1, <1>4, StackFacts
<1>6. /\ message' \in MessageMaps /\ Grows(message, message') /\ Quiet(message, message')
      /\ StackOK(a, Unwound(s), message')
  BY <1>1, <1>4, StackFacts, NothingChanges
<1> QED  BY <1>1, <1>3, <1>5, <1>6, QuietStep DEF Modes

-----------------------------------------------------------------------------
(***************************************************************************)
(* The invariant.                                                          *)
(***************************************************************************)
LEMMA InvInit == Init => Inv
<1> SUFFICES ASSUME Init PROVE Inv
  OBVIOUS
<1>1. NewMessage \in Message /\ Len(NewMessage.parties) = 0
  <2>1. <<>> \in Seq(Party) /\ Len(<<>>) = 0
    OBVIOUS
  <2> QED  BY <2>1 DEF NewMessage, Message
<1>2. message = [m \in AllMessages |-> NewMessage]
  BY DEF Init
<1>3. message \in MessageMaps
  <2>1. message \in [AllMessages -> Message]
    BY <1>1, <1>2
  <2>2. \A x \in AllMessages : message[x] = NewMessage
    BY <1>2
  <2>3. \A x \in AllMessages : \A i \in 1..Len(message[x].parties) : FALSE
    <3> SUFFICES ASSUME NEW x \in AllMessages, NEW i \in 1..Len(message[x].parties)
                 PROVE  FALSE
      OBVIOUS
    <3>1. i \in 1..0
      BY <1>1, <2>2
    <3> QED  BY <3>1
  <2> QED  BY <2>1, <2>2, <2>3 DEF MessageMaps
<1>4. PICK a \in Activities :
         stack = [b \in Activities |-> IF b = a THEN <<Entry("frame", None)>> ELSE <<>>]
  BY DEF Init
<1>5. ASSUME NEW b \in Activities
      PROVE  StackOK(b, <<Entry("frame", None)>>, message) /\ StackOK(b, <<>>, message)
  <2> DEFINE e == Entry("frame", None)
             t == <<e>>
  <2>1. e \in Entries /\ e.kind = "frame" /\ e.msg = None
    BY EntryFacts
  <2> HIDE DEF e
  <2>2. t \in Seq(Entries) /\ Len(t) = 1 /\ t[1] = e
    BY <2>1
  <2> HIDE DEF t
  <2>3. EntryOK(b, t, 1, message)
    BY <2>1, <2>2 DEF EntryOK, Activations, Bases, Loops
  <2>4. StackOK(b, t, message)
    BY <2>2, <2>3, MessageAssumption DEF StackOK
  <2>5. <<>> \in Seq(Entries) /\ Len(<<>>) = 0
    OBVIOUS
  <2>6. StackOK(b, <<>>, message)
    BY <2>5, MessageAssumption DEF StackOK
  <2> QED  BY <2>4, <2>6 DEF t, e
<1>6. StacksOK /\ stack \in [Activities -> Seq(Entries)]
  <2>1. \A b \in Activities : stack[b] \in {<<Entry("frame", None)>>, <<>>}
    BY <1>4
  <2>2. \A b \in Activities : StackOK(b, stack[b], message)
    BY <1>5, <2>1
  <2>3. \A b \in Activities : stack[b] \in Seq(Entries)
    BY <2>2 DEF StackOK
  <2>4. stack = [b \in Activities |-> stack[b]]
    BY <1>4
  <2> QED  BY <2>2, <2>3, <2>4 DEF StacksOK
<1>7. SleepersKnown
  BY <1>2 DEF Init, SleepersKnown, NewMessage, isComplete
<1>8. Typed
  BY <1>3, <1>6 DEF Init, Typed, Modes
<1> QED  BY <1>6, <1>7, <1>8 DEF Inv

LEMMA InvNext == Inv /\ [Next]_vars => Stepped
<1> SUFFICES ASSUME Inv, [Next]_vars PROVE Stepped
  OBVIOUS
<1>1. CASE UNCHANGED vars
  BY <1>1, NothingInv
<1>2. ASSUME NEW a \in Activities, Use(a) PROVE Stepped
  <2>1. PICK m \in Created :
            \/ sendMessage(a, m) \/ start(a, m) \/ reply(a, m) \/ wait(a, m)
            \/ \E p \in Created \cup Listeners : notify(a, m, p)
    BY <1>2 DEF Use
  <2> QED  BY <2>1, SendInv, StartInv, ReplyInv, WaitInv, NotifyInv
<1>3. ASSUME NEW a \in Activities, Complete(a) PROVE Stepped
  BY <1>3, ReturnInv, NotifyNextInv, AllNotifiedInv DEF Complete
<1>4. ASSUME NEW a \in Activities, Fail(a) PROVE Stepped
  BY <1>4, RaiseInv, TrapNotifiesInv, TrappedInv, UntrappedInv, HandleErrorInv, SignalInv
     DEF Fail
<1>5. ASSUME NEW a \in Activities, runStarted(a) \/ wake(a) PROVE Stepped
  BY <1>5, RunStartedInv, WakeInv
<1> QED  BY <1>1, <1>2, <1>3, <1>4, <1>5 DEF Next

LEMMA InvHolds == Spec => []Inv
<1>1. Inv /\ [Next]_vars => Inv'
  BY InvNext DEF Stepped
<1> QED  BY InvInit, <1>1, PTL DEF Spec

-----------------------------------------------------------------------------
(***************************************************************************)
(* What it is for.                                                         *)
(***************************************************************************)
(* Every variable has its type, and a loop over the interested parties of  *)
(* a message (sendNotification) stays within them, although notify() adds  *)
(* to them and the message may be sent again meanwhile.                    *)
THEOREM MessageTypeCorrect == Spec => []TypeOK
<1>1. Inv => TypeOK
  <2> SUFFICES ASSUME Inv PROVE TypeOK
    OBVIOUS
  <2>1. ASSUME NEW m \in AllMessages
        PROVE  LET r == message[m] IN
               /\ {r.returned, r.raised, r.notified, r.activated} \subseteq BOOLEAN
               /\ r.startActivity \in Activities \cup {None}
               /\ r.parties \in Seq([party : AllMessages \cup Listeners, told : 0..2,
                                     late : BOOLEAN])
               /\ r.waiters \subseteq Activities
    <3>1. message[m] \in Message
      BY PartiesSeq DEF Inv, Typed
    <3> QED  BY <3>1 DEF Message, Party
  <2>2. ASSUME NEW a \in Activities, NEW i \in 1..MaxDepth, i <= Len(stack[a])
        PROVE  LET e == stack[a][i] IN
               /\ e.kind \in (IF i = 1 THEN Activations ELSE {"frame"} \cup Calls)
               /\ e.msg \in (IF e.kind = "frame" THEN AllMessages \cup {None}
                             ELSE AllMessages)
               /\ e.kind \in {"notifying", "reporting"} =>
                    e.next \in 1..(e.count + 1) /\ e.count <= Len(message[e.msg].parties)
    <3> DEFINE e == stack[a][i]
    <3>1. StackOK(a, stack[a], message) /\ stack[a] \in Seq(Entries)
      BY StackFacts DEF StackOK
    <3>2. i \in 1..Len(stack[a])
      BY <2>2, <3>1, LenProperties, MessageAssumption
    <3>3. e \in Entries /\ EntryOK(a, stack[a], i, message)
      BY <3>1, <3>2, ElementOfSeq DEF StackOK
    <3>4. e.kind \in (IF i = 1 THEN Activations ELSE {"frame"} \cup Calls)
      BY <3>3 DEF EntryOK, Entries, FrameEntries, DispatchEntries, LoopEntries,
                  Activations, Bases, Loops, Calls
    <3>5. e.msg \in (IF e.kind = "frame" THEN AllMessages \cup {None} ELSE AllMessages)
      BY <3>3 DEF Entries, FrameEntries, DispatchEntries, LoopEntries, Bases, Loops
    <3>6. ASSUME e.kind \in Loops
          PROVE  e.next \in 1..(e.count + 1) /\ e.count <= Len(message[e.msg].parties)
      <4>1. e.next \in Nat /\ e.count \in Nat
        BY <3>3, <3>6 DEF Entries, FrameEntries, DispatchEntries, LoopEntries, Bases, Loops
      <4>2. /\ 1 <= e.next /\ e.next <= e.count + 1
            /\ e.count <= Len(message[e.msg].parties)
        BY <3>3, <3>6 DEF EntryOK
      <4> HIDE DEF e
      <4> QED  BY <4>1, <4>2
    <3> QED  BY <3>4, <3>5, <3>6 DEF Loops
  <2>3. \A a \in Activities : Len(stack[a]) <= MaxDepth
    BY DEF Inv, StacksOK, StackOK
  <2>4. /\ mode \in [Activities -> {"run", "raise", "wait", "endless"}]
        /\ waitingObject \in [Activities -> AllMessages \cup {None}]
        /\ reused \cup failed \cup lost \subseteq AllMessages
    BY DEF Inv, Typed, Modes
  <2> QED  BY <2>1, <2>2, <2>3, <2>4 DEF TypeOK
<1> QED  BY InvHolds, <1>1, PTL

(* Nobody sleeps for a message that is complete, and everybody who sleeps  *)
(* is among the waiters of the message that will post him: sendNotification *)
(* empties the list it has posted, wait() adds itself before it sleeps.    *)
THEOREM SleepersAreKnown == Spec => []SleepersKnown
<1>1. Inv => SleepersKnown
  BY DEF Inv
<1> QED  BY InvHolds, <1>1, PTL

(* A message that start() or reply() gave to an activity never moves to    *)
(* another, and what it completed with is never cleared: checkReuse()      *)
(* keeps send(), start() and reply() from a message that was started.      *)
THEOREM StartedStays == Spec => StartedForGood
<1> DEFINE A == \A m \in AllMessages :
                  message[m].activated /\ message[m].startActivity # None
                  => /\ message'[m].startActivity = message[m].startActivity
                     /\ isComplete(m) => isComplete(m)'
<1>1. Inv /\ [Next]_vars => A
  <2> SUFFICES ASSUME Inv, [Next]_vars PROVE A
    OBVIOUS
  <2>1. Grows(message, message')
    BY InvNext DEF Stepped
  <2> QED  BY <2>1 DEF Grows, isComplete
<1> HIDE DEF A
<1>2. Inv /\ [Next]_vars => [A]_vars
  BY <1>1
<1>3. Spec => [][A]_vars
  BY InvHolds, <1>2, PTL DEF Spec
<1> QED  BY <1>3 DEF StartedForGood, A

-----------------------------------------------------------------------------
(***************************************************************************)
(* Who has been told.  A message that nobody sent or started has no        *)
(* completion; one that is used once and has notified everybody has.  The  *)
(* loops under way and the parties added meanwhile account for the rest.   *)
(***************************************************************************)
Done(r) == r.returned \/ r.raised
Told(r, j) == r.parties[j].late \/ r.parties[j].told > 0
RecordOK(r, once) ==
    /\ r.startActivity = None => ~Done(r) /\ ~r.notified
    /\ once /\ r.notified => Done(r) /\ \A j \in 1..Len(r.parties) : Told(r, j)
RecordKeeps(r, q, once) ==
    r.startActivity # None =>
        /\ q.startActivity # None
        /\ once /\ Done(r) =>
             /\ Done(q)
             /\ \A j \in 1..Len(q.parties) :
                  (j \in 1..Len(r.parties) => Told(r, j)) => Told(q, j)
MessagesOK(f, R) == \A x \in AllMessages : RecordOK(f[x], x \notin R)
Keeps(f, g, R, Q) ==
    R \subseteq Q /\ \A x \in AllMessages : RecordKeeps(f[x], g[x], x \notin Q)

LoopTold(r, e) ==
    Done(r) /\ \A j \in 1..Len(r.parties) : j < e.next \/ j > e.count => Told(r, j)
CallOK(f, R, e) ==
    e.msg # None =>
        /\ f[e.msg].startActivity # None
        /\ e.kind \in Loops /\ e.msg \notin R => LoopTold(f[e.msg], e)
CallsOK(f, R, s) == \A i \in 1..Len(s) : CallOK(f, R, s[i])

ToldInv == /\ MessagesOK(message, reused)
           /\ \A a \in Activities : CallsOK(message, reused, stack[a])
ToldStepped == ToldInv' /\ Keeps(message, message', reused, reused')

LEMMA SameKeeps == \A r : \A once \in BOOLEAN : RecordKeeps(r, r, once)
BY DEF RecordKeeps

LEMMA MessageAndMore ==
    ASSUME NEW f, NEW R, NEW Q, NEW m \in AllMessages, NEW r,
           f \in [AllMessages -> Message], R \subseteq Q, Q \subseteq R \cup {m},
           MessagesOK(f, R), RecordOK(r, m \notin Q), RecordKeeps(f[m], r, m \notin Q)
    PROVE  /\ MessagesOK([f EXCEPT ![m] = r], Q)
           /\ Keeps(f, [f EXCEPT ![m] = r], R, Q)
<1> DEFINE g == [f EXCEPT ![m] = r]
<1>1. g[m] = r /\ \A x \in AllMessages : x # m => g[x] = f[x]
  OBVIOUS
<1> HIDE DEF g
<1>2. ASSUME NEW x \in AllMessages
      PROVE  RecordOK(g[x], x \notin Q) /\ RecordKeeps(f[x], g[x], x \notin Q)
  <2>1. CASE x = m
    BY <1>1, <2>1
  <2>2. CASE x # m
    <3>1. (x \notin Q) = (x \notin R) /\ (x \notin Q) \in BOOLEAN /\ g[x] = f[x]
      BY <1>1, <2>2
    <3>2. RecordOK(f[x], x \notin R)
      BY DEF MessagesOK
    <3> QED  BY <3>1, <3>2, SameKeeps
  <2> QED  BY <2>1, <2>2
<1> QED  BY <1>2 DEF MessagesOK, Keeps, g

LEMMA KeepsTwice ==
    ASSUME NEW f, NEW g, NEW h, NEW R, NEW Q, Keeps(f, g, R, R), Keeps(g, h, R, Q)
    PROVE  Keeps(f, h, R, Q)
<1> SUFFICES ASSUME NEW x \in AllMessages
             PROVE  RecordKeeps(f[x], h[x], x \notin Q)
  BY DEF Keeps
<1>1. RecordKeeps(f[x], g[x], x \notin R) /\ RecordKeeps(g[x], h[x], x \notin Q)
  BY DEF Keeps
<1>2. x \notin Q => x \notin R
  BY DEF Keeps
<1> QED  BY <1>1, <1>2 DEF RecordKeeps

LEMMA KeepsSame ==
    ASSUME NEW f, NEW R
    PROVE  Keeps(f, f, R, R)
BY SameKeeps DEF Keeps

(* Entries stay good when the messages change.                             *)
LEMMA KeepsCalls ==
    ASSUME NEW f, NEW g, NEW R, NEW Q, Keeps(f, g, R, Q),
           NEW s \in Seq(Entries), CallsOK(f, R, s)
    PROVE  CallsOK(g, Q, s)
<1> SUFFICES ASSUME NEW i \in 1..Len(s) PROVE CallOK(g, Q, s[i])
  BY DEF CallsOK
<1> DEFINE e == s[i]
<1>1. e \in Entries /\ CallOK(f, R, e)
  BY ElementOfSeq DEF CallsOK
<1>2. e.msg \in AllMessages \cup {None}
  BY <1>1 DEF Entries, FrameEntries, DispatchEntries, LoopEntries
<1>3. CASE e.msg # None
  <2>1. RecordKeeps(f[e.msg], g[e.msg], e.msg \notin Q) /\ R \subseteq Q
    BY <1>2, <1>3 DEF Keeps
  <2> QED  BY <1>1, <1>3, <2>1 DEF CallOK, RecordKeeps, LoopTold
<1>4. CASE e.msg = None
  BY <1>4 DEF CallOK
<1> QED  BY <1>3, <1>4

LEMMA PrefixCalls ==
    ASSUME NEW f, NEW R, NEW s, NEW t, CallsOK(f, R, s), Len(t) \in Nat, Len(s) \in Nat,
           Len(t) <= Len(s), \A i \in 1..Len(t) : t[i] = s[i]
    PROVE  CallsOK(f, R, t)
<1>1. \A i \in 1..Len(t) : i \in 1..Len(s)
  <2>1. PICK x \in Nat, y \in Nat : x = Len(t) /\ y = Len(s)
    OBVIOUS
  <2>2. \A i \in 1..x : i \in 1..y
    BY <2>1
  <2> QED  BY <2>1, <2>2
<1> QED  BY <1>1 DEF CallsOK

LEMMA PushCalls ==
    ASSUME NEW f, NEW R, NEW s \in Seq(Entries), NEW e \in Entries,
           CallsOK(f, R, s), CallOK(f, R, e)
    PROVE  CallsOK(f, R, Append(s, e))
<1> DEFINE t == Append(s, e)
<1>1. /\ t \in Seq(Entries) /\ Len(t) = Len(s) + 1 /\ t[Len(s) + 1] = e
      /\ \A i \in 1..Len(s) : t[i] = s[i]
  BY AppendProperties
<1>2. Len(s) \in Nat
  BY LenProperties
<1> HIDE DEF t
<1>3. ASSUME NEW i \in 1..Len(t) PROVE CallOK(f, R, t[i])
  <2>1. CASE i = Len(s) + 1
    BY <1>1, <2>1
  <2>2. CASE i # Len(s) + 1
    <3>1. i \in 1..Len(s)
      BY <1>1, <1>2, <2>2
    <3> QED  BY <1>1, <3>1 DEF CallsOK
  <2> QED  BY <2>1, <2>2
<1> QED  BY <1>3 DEF CallsOK, t

LEMMA NotifyCalls ==
    ASSUME NEW f, NEW R, NEW s \in Seq(Entries), s # <<>>, s[1].kind \in Activations,
           NEW m \in AllMessages \cup {None}, m # None => f[m].startActivity # None,
           CallsOK(f, R, s)
    PROVE  CallsOK(f, R, setObjNotify(s, m))
<1> DEFINE t == setObjNotify(s, m)
<1>1. /\ t \in Seq(Entries) /\ Len(t) = Len(s)
      /\ \A i \in 1..Len(s) :
           /\ t[i].kind = s[i].kind
           /\ t[i] # s[i] => t[i].kind = "frame" /\ t[i].msg = m
  BY NotifyFacts
<1> HIDE DEF t
<1>2. ASSUME NEW i \in 1..Len(t) PROVE CallOK(f, R, t[i])
  <2>1. CASE t[i] = s[i]
    BY <1>1, <2>1 DEF CallsOK
  <2>2. CASE t[i] # s[i]
    BY <1>1, <2>2 DEF CallOK, Loops
  <2> QED  BY <2>1, <2>2
<1> QED  BY <1>2 DEF CallsOK, t

(* What every step shows.                                                  *)
LEMMA ToldMoves ==
    ASSUME Inv, ToldInv, NEW a \in Activities, NEW t, stack' = [stack EXCEPT ![a] = t],
           Keeps(message, message', reused, reused'), MessagesOK(message', reused'),
           CallsOK(message', reused', t)
    PROVE  ToldStepped
<1>1. stack \in [Activities -> Seq(Entries)]
  BY DEF Inv, Typed
<1>2. ASSUME NEW b \in Activities PROVE CallsOK(message', reused', stack'[b])
  <2>1. CASE b = a
    BY <1>1, <2>1
  <2>2. CASE b # a
    <3>1. stack'[b] = stack[b] /\ stack[b] \in Seq(Entries)
          /\ CallsOK(message, reused, stack[b])
      BY <1>1, <2>2 DEF ToldInv
    <3> QED  BY <3>1, KeepsCalls
  <2> QED  BY <2>1, <2>2
<1>3. ToldInv' = (/\ MessagesOK(message', reused')
                  /\ \A b \in Activities : CallsOK(message', reused', stack'[b]))
  BY DEF ToldInv, MessagesOK, CallsOK, CallOK
<1> QED  BY <1>2, <1>3 DEF ToldStepped

(* The stack of a is a part of what it was, or nothing changes.            *)
LEMMA ToldShrinks ==
    ASSUME Inv, ToldInv, NEW a \in Activities, NEW t, stack' = [stack EXCEPT ![a] = t],
           message' = message, reused' = reused, CallsOK(message, reused, t)
    PROVE  ToldStepped
<1>1. Keeps(message, message', reused, reused') /\ MessagesOK(message', reused')
  BY KeepsSame DEF ToldInv
<1> QED  BY <1>1, ToldMoves

LEMMA UnwoundCalls ==
    ASSUME NEW a, NEW f, NEW g, NEW R, NEW s, s # <<>>, StackOK(a, s, g), CallsOK(f, R, s)
    PROVE  CallsOK(f, R, Unwound(s))
<1>1. /\ s \in Seq(Entries) /\ s[1].kind \in Activations /\ Len(s) \in Nat
  BY TopFacts
<1>2. /\ TopFrame(s) \in 1..Len(s) /\ Len(Unwound(s)) = TopFrame(s)
      /\ \A i \in 1..TopFrame(s) : Unwound(s)[i] = s[i]
  BY <1>1, UnwoundFacts
<1>3. TopFrame(s) \in Nat /\ TopFrame(s) <= Len(s)
  BY <1>1, <1>2
<1> QED  BY <1>1, <1>2, <1>3, PrefixCalls

LEMMA FrontCalls ==
    ASSUME NEW a, NEW f, NEW g, NEW R, NEW s, s # <<>>, StackOK(a, s, g), CallsOK(f, R, s)
    PROVE  CallsOK(f, R, Front(s))
<1>1. s \in Seq(Entries)
  BY DEF StackOK
<1>2. /\ Front(s) \in Seq(Entries) /\ Len(s) \in Nat /\ Len(s) >= 1
      /\ Len(Front(s)) = Len(s) - 1 /\ \A i \in 1..Len(s) - 1 : Front(s)[i] = s[i]
  BY <1>1, FrontFacts
<1>3. Len(Front(s)) \in Nat /\ Len(Front(s)) <= Len(s)
  BY <1>2
<1> QED  BY <1>2, <1>3, PrefixCalls

LEMMA NoCalls == \A f, R : CallsOK(f, R, <<>>)
<1>1. Len(<<>>) = 0 /\ 1..0 = {}
  OBVIOUS
<1> QED  BY <1>1 DEF CallsOK

LEMMA ToldRaise ==
    ASSUME Inv, ToldInv, NEW a \in Activities, NEW s, s # <<>>, NEW g, StackOK(a, s, g),
           RaiseFrom(a, s), Keeps(message, message', reused, reused'),
           MessagesOK(message', reused'), CallsOK(message', reused', s)
    PROVE  ToldStepped
<1>1. stack' = [stack EXCEPT ![a] = Unwound(s)]
  BY DEF RaiseFrom
<1>2. CallsOK(message', reused', Unwound(s))
  BY UnwoundCalls
<1> QED  BY <1>1, <1>2, ToldMoves

(* A message without a completion.                                         *)
LEMMA BlankOK ==
    ASSUME NEW r, NEW q, ~Done(q), ~q.notified, NEW once \in BOOLEAN,
           r.startActivity # None => q.startActivity # None /\ ~once
    PROVE  RecordOK(q, once) /\ RecordKeeps(r, q, once)
BY DEF RecordOK, RecordKeeps

(* The message m, not started, is cleared.                                 *)
LEMMA ClearTold ==
    ASSUME NEW f \in MessageMaps, NEW R, MessagesOK(f, R), NEW m \in AllMessages,
           NEW Q, Q = IF f[m].startActivity = None THEN R ELSE R \cup {m},
           NEW r, ~r.returned, ~r.raised, ~r.notified,
           f[m].startActivity # None => r.startActivity # None
    PROVE  MessagesOK([f EXCEPT ![m] = r], Q) /\ Keeps(f, [f EXCEPT ![m] = r], R, Q)
<1>1. f \in [AllMessages -> Message] /\ R \subseteq Q /\ Q \subseteq R \cup {m}
  BY DEF MessageMaps
<1>2. RecordOK(r, m \notin Q) /\ RecordKeeps(f[m], r, m \notin Q)
  <2>1. ~Done(r) /\ (m \notin Q) \in BOOLEAN
        /\ (f[m].startActivity # None => ~(m \notin Q))
    BY DEF Done
  <2> QED  BY <2>1, BlankOK
<1> QED  BY <1>1, <1>2, MessageAndMore

LEMMA ToldSend ==
    ASSUME Inv, ToldInv, NEW a \in Activities, NEW s, s # <<>>,
           NEW msgs \in MessageMaps, Keeps(message, msgs, reused, reused),
           MessagesOK(msgs, reused), CallsOK(msgs, reused, s), StackOK(a, s, msgs),
           \A x \in AllMessages : msgs[x].startActivity = message[x].startActivity,
           NEW m \in Known(msgs), send(a, s, msgs, m)
    PROVE  ToldStepped
<1>1. /\ m \in AllMessages /\ msgs[m] \in Message /\ a # None /\ m # None
      /\ s \in Seq(Entries) /\ s[1].kind \in Activations
  BY KnownFacts, PartiesSeq, MessageAssumption, TopFacts
<1>2. CASE checkReuse(m)
  <2>1. RaiseFrom(a, s) /\ message' = msgs /\ reused' = reused
    BY <1>2 DEF send
  <2> QED  BY <2>1, ToldRaise
<1>3. CASE ~checkReuse(m)
  <2> DEFINE c == Cleared(msgs[m])
  <2>1. /\ reused' = IF msgs[m].startActivity = None THEN reused ELSE reused \cup {m}
    BY <1>1, <1>3 DEF send, NoteReuse
  <2>2. /\ c \in Message /\ ~c.returned /\ ~c.raised /\ ~c.notified
        /\ c.startActivity = msgs[m].startActivity
    BY <1>1, ClearedFacts
  <2> HIDE DEF c
  <2>3. ASSUME NEW r, ~r.returned, ~r.raised, ~r.notified,
               msgs[m].startActivity # None => r.startActivity # None,
               message' = [msgs EXCEPT ![m] = r]
        PROVE  /\ Keeps(message, message', reused, reused')
               /\ MessagesOK(message', reused') /\ CallsOK(message', reused', s)
    <3>1. MessagesOK(message', reused') /\ Keeps(msgs, message', reused, reused')
      BY <1>1, <2>1, <2>3, ClearTold
    <3> QED  BY <1>1, <3>1, KeepsTwice, KeepsCalls
  <2>4. CASE RaiseFrom(a, s) /\ message' = [msgs EXCEPT ![m] = c]
    BY <2>2, <2>3, <2>4, ToldRaise
  <2>5. CASE /\ message' = [msgs EXCEPT ![m] = [c EXCEPT !.startActivity = a]]
             /\ stack' = [stack EXCEPT ![a] = setObjNotify(s, m)
                              \o <<Entry("dispatch", m), Entry("frame", None)>>]
    <3> DEFINE r == [c EXCEPT !.startActivity = a]
               t == setObjNotify(s, m)
               d == Entry("dispatch", m)
               e == Entry("frame", None)
    <3>1. ~r.returned /\ ~r.raised /\ ~r.notified /\ r.startActivity = a
      BY <2>2 DEF Message
    <3>2. message'[m] = r
      BY <1>1, <2>5 DEF MessageMaps
    <3> HIDE DEF r
    <3>3. /\ Keeps(message, message', reused, reused')
          /\ MessagesOK(message', reused') /\ CallsOK(message', reused', s)
      BY <1>1, <2>3, <2>5, <3>1 DEF r
    <3>4. message'[m].startActivity # None
      BY <1>1, <3>1, <3>2
    <3>5. CallsOK(message', reused', t) /\ t \in Seq(Entries)
      BY <1>1, <3>3, <3>4, NotifyCalls, NotifyFacts
    <3>6. /\ d \in Entries /\ d.kind = "dispatch" /\ d.msg = m
          /\ e \in Entries /\ e.kind = "frame" /\ e.msg = None
      BY <1>1, EntryFacts
    <3>7. CallOK(message', reused', d) /\ CallOK(message', reused', e)
      BY <3>4, <3>6 DEF CallOK, Loops
    <3> HIDE DEF t, d, e
    <3>8. CallsOK(message', reused', Append(t, d)) /\ Append(t, d) \in Seq(Entries)
      BY <3>5, <3>6, <3>7, PushCalls, AppendProperties
    <3>9. CallsOK(message', reused', Append(Append(t, d), e))
      BY <3>6, <3>7, <3>8, PushCalls
    <3>10. Append(Append(t, d), e) = t \o <<d, e>>
      BY <3>5, <3>6, TwoOnTop
    <3>11. stack' = [stack EXCEPT ![a] = t \o <<d, e>>]
      BY <2>5 DEF t, d, e
    <3> QED  BY <3>3, <3>9, <3>10, <3>11, ToldMoves
  <2> QED  BY <1>3, <2>4, <2>5 DEF send, c
<1> QED  BY <1>2, <1>3

LEMMA MinOne ==
    \A n \in 0..2 : Min({n + 1, 2}) > 0 /\ (n = 0 => Min({n + 1, 2}) = 1)
<1> SUFFICES ASSUME NEW n \in 0..2
             PROVE  Min({n + 1, 2}) > 0 /\ (n = 0 => Min({n + 1, 2}) = 1)
  OBVIOUS
<1>1. \E x \in {n + 1, 2} : \A y \in {n + 1, 2} : x <= y
  OBVIOUS
<1>2. /\ Min({n + 1, 2}) \in {n + 1, 2}
      /\ \A y \in {n + 1, 2} : Min({n + 1, 2}) <= y
  BY <1>1 DEF Min
<1>3. Min({n + 1, 2}) <= n + 1
  BY <1>2
<1> QED  BY <1>2, <1>3

(* Telling the party i of m: what becomes of the messages, and what runs.  *)
LEMMA TellNotes ==
    ASSUME NEW a, a # None, NEW s, NEW msgs \in MessageMaps, NEW m \in Known(msgs),
           NEW i \in 1..Len(msgs[m].parties), Tell(a, s, msgs, m, i), StackOK(a, s, msgs)
    PROVE  \E noted \in MessageMaps :
             /\ Known(noted) = Known(msgs) /\ StackOK(a, s, noted)
             /\ \A x \in AllMessages :
                  /\ x # m => noted[x] = msgs[x]
                  /\ noted[x].startActivity = msgs[x].startActivity
                  /\ noted[x].notified = msgs[x].notified
                  /\ noted[x].returned = msgs[x].returned
                  /\ noted[x].raised = msgs[x].raised
             /\ Len(noted[m].parties) = Len(msgs[m].parties)
             /\ \A j \in 1..Len(msgs[m].parties) :
                  j # i => noted[m].parties[j] = msgs[m].parties[j]
             /\ noted[m].parties[i].told > 0
             /\ msgs[m].parties[i].told = 0 => noted[m].parties[i].told = 1
             /\ LET p == msgs[m].parties[i].party
                IN  /\ p \in Known(noted) \cup Listeners
                    /\ IF p \in Listeners
                       THEN /\ message' = noted
                            /\ stack' = [stack EXCEPT ![a] = Append(s, Entry("frame", None))]
                            /\ UNCHANGED <<mode, waitingObject, history>>
                       ELSE send(a, s, noted, p)
<1>1. /\ m \in AllMessages /\ msgs[m] \in Message /\ msgs[m].parties \in Seq(Party)
      /\ Len(msgs[m].parties) \in Nat
  BY KnownFacts, PartiesSeq
<1> DEFINE p == msgs[m].parties[i]
           q == [p EXCEPT !.told = Min({@ + 1, 2})]
           ps == [msgs[m].parties EXCEPT ![i] = q]
           r == [msgs[m] EXCEPT !.parties = ps]
           noted == [msgs EXCEPT ![m].parties[i].told = Min({@ + 1, 2})]
<1>2. /\ p \in Party /\ p.told \in 0..2
      /\ p.party \in Known(msgs) \cup Listeners
  BY <1>1, PartiesFacts DEF MessageMaps
<1>3. /\ q \in Party /\ q.party = p.party /\ q.told > 0
      /\ p.told = 0 => q.told = 1
  <2>1. /\ Min({p.told + 1, 2}) \in 0..2 /\ Min({p.told + 1, 2}) > 0
        /\ p.told = 0 => Min({p.told + 1, 2}) = 1
    <3>1. PICK n \in 1..3 : n = p.told + 1
      BY <1>2
    <3>2. Min({n, 2}) \in 0..2
      BY MinTwo
    <3>3. Min({p.told + 1, 2}) > 0 /\ (p.told = 0 => Min({p.told + 1, 2}) = 1)
      BY <1>2, MinOne
    <3> QED  BY <3>1, <3>2, <3>3
  <2> QED  BY <1>2, <2>1 DEF Party
<1>4. noted = [msgs EXCEPT ![m] = r]
  BY <1>1 DEF MessageMaps
<1>5. /\ ps \in Seq(Party) /\ Len(ps) = Len(msgs[m].parties)
      /\ ps[i] = q
      /\ \A j \in 1..Len(ps) : j # i => ps[j] = msgs[m].parties[j]
  <2> HIDE DEF q
  <2>1. /\ ps \in Seq(Party) /\ Len(ps) = Len(msgs[m].parties)
        /\ \A j \in 1..Len(msgs[m].parties) :
             ps[j] = IF j = i THEN q ELSE msgs[m].parties[j]
    BY <1>1, <1>3, ExceptSeq
  <2> QED  BY <1>3, <2>1
<1> HIDE DEF ps
<1>6. /\ r \in Message /\ r.parties = ps /\ r.startActivity = msgs[m].startActivity
      /\ r.notified = msgs[m].notified /\ r.waiters = msgs[m].waiters
      /\ r.returned = msgs[m].returned /\ r.raised = msgs[m].raised
      /\ r.activated = msgs[m].activated
  BY <1>1, <1>5 DEF Message
<1> HIDE DEF r
<1>7. noted \in MessageMaps /\ Known(noted) = Known(msgs) /\ Grows(msgs, noted)
  <2>1. /\ \A j \in 1..Len(r.parties) : r.parties[j].party \in Known(msgs) \cup Listeners
    <3> SUFFICES ASSUME NEW j \in 1..Len(r.parties)
                 PROVE  r.parties[j].party \in Known(msgs) \cup Listeners
      OBVIOUS
    <3>1. CASE j = i
      BY <1>2, <1>3, <1>5, <1>6, <3>1
    <3>2. CASE j # i
      BY <1>1, <1>5, <1>6, <3>2 DEF MessageMaps
    <3> QED  BY <3>1, <3>2
  <2>2. Len(r.parties) >= Len(msgs[m].parties)
    BY <1>1, <1>5, <1>6
  <2>3. noted \in MessageMaps /\ Grows(msgs, noted)
    BY <1>1, <1>4, <1>6, <2>1, <2>2, ChangeOne
  <2>4. \A x \in AllMessages : noted[x].startActivity = msgs[x].startActivity
    BY <1>1, <1>4, <1>6 DEF MessageMaps
  <2> HIDE DEF noted
  <2>5. Known(noted) = Known(msgs)
    BY <2>4 DEF Known, AllMessages
  <2> QED  BY <2>3, <2>5
<1>8. noted[m] = r /\ \A x \in AllMessages : x # m => noted[x] = msgs[x]
  BY <1>1, <1>4, <1>6 DEF MessageMaps
<1>9. Tell(a, s, msgs, m, i) =
        IF p.party \in Listeners
        THEN /\ MayInvoke(s, 1) /\ message' = noted
             /\ stack' = [stack EXCEPT ![a] = Append(s, Entry("frame", None))]
             /\ UNCHANGED <<mode, waitingObject, history>>
        ELSE send(a, s, noted, p.party)
  BY DEF Tell
<1> HIDE DEF noted
<1>10. StackOK(a, s, noted)
  BY <1>7, GrowOK
<1>11. /\ \A x \in AllMessages :
             /\ x # m => noted[x] = msgs[x]
             /\ noted[x].startActivity = msgs[x].startActivity
             /\ noted[x].notified = msgs[x].notified
             /\ noted[x].returned = msgs[x].returned
             /\ noted[x].raised = msgs[x].raised
       /\ Len(noted[m].parties) = Len(msgs[m].parties)
       /\ \A j \in 1..Len(msgs[m].parties) :
             j # i => noted[m].parties[j] = msgs[m].parties[j]
       /\ noted[m].parties[i] = q
  BY <1>5, <1>6, <1>8
<1> HIDE DEF q, p
<1> QED  BY <1>2, <1>3, <1>7, <1>9, <1>10, <1>11 DEF p

(* A party is told: msgs is the messages, but for one party of m that was  *)
(* not told before, and the loop e on top of s that has counted it.        *)
LEMMA ToldTell ==
    ASSUME Inv, ToldInv, NEW a \in Activities, NEW s, s # <<>>,
           NEW msgs \in MessageMaps, StackOK(a, s, msgs),
           \A x \in AllMessages : msgs[x].startActivity = message[x].startActivity,
           NEW m \in Known(msgs), NEW i \in 1..Len(msgs[m].parties),
           Tell(a, s, msgs, m, i),
           \A noted \in MessageMaps :
             /\ \A x \in AllMessages : x # m => noted[x] = msgs[x]
             /\ Len(noted[m].parties) = Len(msgs[m].parties)
             /\ \A j \in 1..Len(msgs[m].parties) :
                  j # i => noted[m].parties[j] = msgs[m].parties[j]
             /\ Told(noted[m], i)
             /\ noted[m].startActivity = msgs[m].startActivity
             /\ noted[m].notified = msgs[m].notified
             /\ noted[m].returned = msgs[m].returned
             /\ noted[m].raised = msgs[m].raised
             => /\ Keeps(message, noted, reused, reused)
                /\ MessagesOK(noted, reused) /\ CallsOK(noted, reused, s)
    PROVE  ToldStepped
<1>1. PICK noted \in MessageMaps :
        /\ Known(noted) = Known(msgs) /\ StackOK(a, s, noted)
        /\ \A x \in AllMessages :
             /\ x # m => noted[x] = msgs[x]
             /\ noted[x].startActivity = msgs[x].startActivity
             /\ noted[x].notified = msgs[x].notified
             /\ noted[x].returned = msgs[x].returned
             /\ noted[x].raised = msgs[x].raised
        /\ Len(noted[m].parties) = Len(msgs[m].parties)
        /\ \A j \in 1..Len(msgs[m].parties) :
             j # i => noted[m].parties[j] = msgs[m].parties[j]
        /\ noted[m].parties[i].told > 0
        /\ LET p == msgs[m].parties[i].party
           IN  /\ p \in Known(noted) \cup Listeners
               /\ IF p \in Listeners
                  THEN /\ message' = noted
                       /\ stack' = [stack EXCEPT ![a] = Append(s, Entry("frame", None))]
                       /\ UNCHANGED <<mode, waitingObject, history>>
                  ELSE send(a, s, noted, p)
  BY TellNotes, MessageAssumption
<1> DEFINE p == msgs[m].parties[i].party
           e == Entry("frame", None)
<1>2. m \in AllMessages /\ s \in Seq(Entries)
  BY KnownFacts DEF StackOK
<1>3. /\ Keeps(message, noted, reused, reused)
      /\ MessagesOK(noted, reused) /\ CallsOK(noted, reused, s)
  <2>1. Told(noted[m], i)
    BY <1>1 DEF Told
  <2> QED  BY <1>1, <1>2, <2>1
<1>4. CASE p \in Listeners
  <2>1. /\ message' = noted /\ reused' = reused
        /\ stack' = [stack EXCEPT ![a] = Append(s, e)]
    BY <1>1, <1>4 DEF history
  <2>2. e \in Entries /\ e.kind = "frame" /\ e.msg = None
    BY EntryFacts
  <2> HIDE DEF e
  <2>3. CallsOK(noted, reused, Append(s, e))
    <3>1. CallOK(noted, reused, e)
      BY <2>2 DEF CallOK
    <3> QED  BY <1>2, <1>3, <2>2, <3>1, PushCalls
  <2> QED  BY <1>3, <2>1, <2>3, ToldMoves
<1>5. CASE p \notin Listeners
  <2>1. send(a, s, noted, p) /\ p \in Known(noted)
    BY <1>1, <1>5
  <2>2. \A x \in AllMessages : noted[x].startActivity = message[x].startActivity
    BY <1>1
  <2> HIDE DEF p
  <2> QED  BY <1>1, <1>3, <2>1, <2>2, ToldSend
<1> QED  BY <1>4, <1>5

-----------------------------------------------------------------------------
LEMMA ToldSending ==
    ASSUME Inv, ToldInv, NEW a \in Activities, NEW m \in Created, sendMessage(a, m)
    PROVE  ToldStepped
<1>1. /\ send(a, stack[a], message, m) /\ stack[a] # <<>>
  BY StackFacts DEF sendMessage, InRexx, Turn
<1>2. /\ Keeps(message, message, reused, reused) /\ MessagesOK(message, reused)
      /\ CallsOK(message, reused, stack[a])
  BY KeepsSame DEF ToldInv
<1> QED  BY <1>1, <1>2, StackFacts, ToldSend

LEMMA PendingFacts ==
    ASSUME Inv, NEW m \in Created, NEW r \in {Pending(message[m]), Cleared(message[m])}
    PROVE  /\ m \in AllMessages /\ message \in MessageMaps
           /\ ~r.returned /\ ~r.raised /\ ~r.notified
           /\ r.startActivity = message[m].startActivity
           /\ r \in Message
<1>1. m \in AllMessages /\ message[m] \in Message /\ message \in MessageMaps
  BY KnownFacts, PartiesSeq DEF Inv, Typed, Created, Known
<1> DEFINE c == Cleared(message[m])
<1>2. /\ c \in Message /\ ~c.returned /\ ~c.raised /\ ~c.notified
      /\ c.startActivity = message[m].startActivity
  BY <1>1, ClearedFacts
<1> HIDE DEF c
<1>3. r = c \/ r = [c EXCEPT !.activated = TRUE]
  BY DEF Pending, c
<1> QED  BY <1>1, <1>2, <1>3 DEF Message

LEMMA ToldNotStarted ==
    ASSUME Inv, ToldInv, NEW a \in Activities, NEW m \in Created,
           NEW r \in {Pending(message[m]), Cleared(message[m])}, NotStarted(a, m, r)
    PROVE  ToldStepped
<1>1. /\ RaiseFrom(a, stack[a]) /\ stack[a] # <<>> /\ StackOK(a, stack[a], message)
      /\ stack[a] \in Seq(Entries)
  BY StackFacts DEF NotStarted, InRexx, Turn, StackOK
<1>2. CallsOK(message, reused, stack[a]) /\ MessagesOK(message, reused)
  BY DEF ToldInv
<1>3. CASE checkReuse(m)
  <2>1. message' = message /\ reused' = reused
    BY <1>3 DEF NotStarted
  <2> QED  BY <1>1, <1>2, <2>1, KeepsSame, ToldRaise
<1>4. CASE ~checkReuse(m)
  <2>1. /\ message' = [message EXCEPT ![m] = r]
        /\ reused' = IF message[m].startActivity = None THEN reused ELSE reused \cup {m}
    BY <1>4 DEF NotStarted, NoteReuse
  <2>2. MessagesOK(message', reused') /\ Keeps(message, message', reused, reused')
    BY <1>2, <2>1, PendingFacts, ClearTold
  <2>3. CallsOK(message', reused', stack[a])
    BY <1>1, <1>2, <2>2, KeepsCalls
  <2> QED  BY <1>1, <2>2, <2>3, ToldRaise
<1> QED  BY <1>3, <1>4

(* b is given the message n, cleared.                                      *)
LEMMA ToldStart ==
    ASSUME Inv, ToldInv, NEW b \in Activities, NEW n \in AllMessages,
           Keeps(message, message', reused, reused'), MessagesOK(message', reused'),
           message'[n].startActivity = b,
           stack' = [stack EXCEPT ![b] = <<Entry("starting", n)>>]
    PROVE  ToldStepped
<1> DEFINE e == Entry("starting", n)
           t == <<e>>
<1>1. e \in Entries /\ e.kind = "starting" /\ e.msg = n
  BY EntryFacts DEF Bases
<1> HIDE DEF e
<1>2. Len(t) = 1 /\ t[1] = e
  OBVIOUS
<1> HIDE DEF t
<1>3. CallOK(message', reused', e)
  BY <1>1, MessageAssumption DEF CallOK, Loops
<1>4. CallsOK(message', reused', t)
  BY <1>2, <1>3 DEF CallsOK
<1>5. stack' = [stack EXCEPT ![b] = t]
  BY DEF t, e
<1> QED  BY <1>4, <1>5, ToldMoves

LEMMA ToldStarting ==
    ASSUME Inv, ToldInv, NEW a \in Activities, NEW m \in Created, start(a, m)
    PROVE  ToldStepped
<1>1. CASE NotStarted(a, m, Pending(message[m]))
  BY <1>1, ToldNotStarted
<1>2. ASSUME NoteReuse(m), NEW b \in Activities,
             StartOn(b, m, [message EXCEPT ![m] = Pending(@)])
      PROVE  ToldStepped
  <2> DEFINE p == Pending(message[m])
             r == [p EXCEPT !.startActivity = b]
  <2>1. /\ m \in AllMessages /\ message \in MessageMaps
        /\ ~p.returned /\ ~p.raised /\ ~p.notified /\ p \in Message
    BY PendingFacts
  <2> HIDE DEF p
  <2>2. /\ message' = [message EXCEPT ![m] = r]
        /\ stack' = [stack EXCEPT ![b] = <<Entry("starting", m)>>]
    BY <1>2, <2>1 DEF StartOn, MessageMaps, p
  <2>3. ~r.returned /\ ~r.raised /\ ~r.notified /\ r.startActivity = b
    BY <2>1 DEF Message
  <2> HIDE DEF r
  <2>4. /\ reused' = IF message[m].startActivity = None THEN reused ELSE reused \cup {m}
        /\ MessagesOK(message, reused) /\ b # None
    BY <1>2, MessageAssumption DEF NoteReuse, ToldInv
  <2>5. MessagesOK(message', reused') /\ Keeps(message, message', reused, reused')
    BY <2>1, <2>2, <2>3, <2>4, ClearTold
  <2>6. message'[m].startActivity = b
    BY <2>1, <2>2, <2>3 DEF MessageMaps
  <2> QED  BY <2>1, <2>2, <2>5, <2>6, ToldStart
<1> QED  BY <1>1, <1>2 DEF start

LEMMA ToldReplying ==
    ASSUME Inv, ToldInv, NEW a \in Activities, NEW m \in Created, reply(a, m)
    PROVE  ToldStepped
<1>1. CASE NotStarted(a, m, Cleared(message[m]))
  BY <1>1, ToldNotStarted
<1> DEFINE r == Cleared(message[m])
           copy == [NewMessage EXCEPT !.parties = r.parties]
<1>2. ASSUME NoteReuse(m), NEW b \in Activities, NEW n \in Copies \ Created,
             StartOn(b, n, [message EXCEPT ![m] = r, ![n] = Pending(copy)])
      PROVE  ToldStepped
  <2> DEFINE k == Pending(copy)
             u == [k EXCEPT !.startActivity = b]
             g == [message EXCEPT ![m] = r]
  <2>1. /\ m \in AllMessages /\ message \in MessageMaps /\ n \in AllMessages
        /\ ~r.returned /\ ~r.raised /\ ~r.notified /\ r \in Message
        /\ r.startActivity = message[m].startActivity /\ n # m
    BY PendingFacts DEF AllMessages
  <2>2. /\ k.returned = FALSE /\ k.raised = FALSE /\ k.notified = FALSE
        /\ DOMAIN k = DOMAIN NewMessage
    BY DEF Pending, Cleared, NewMessage
  <2> HIDE DEF k, r
  <2>3. /\ ~u.returned /\ ~u.raised /\ ~u.notified /\ u.startActivity = b
    BY <2>2 DEF NewMessage
  <2>4. /\ message' = [g EXCEPT ![n] = u]
        /\ stack' = [stack EXCEPT ![b] = <<Entry("starting", n)>>]
    BY <1>2, <2>1 DEF StartOn, MessageMaps, k, r
  <2> HIDE DEF u
  <2>5. /\ reused' = IF message[m].startActivity = None THEN reused ELSE reused \cup {m}
        /\ MessagesOK(message, reused) /\ b # None
    BY <1>2, MessageAssumption DEF NoteReuse, ToldInv
  <2>6. MessagesOK(g, reused') /\ Keeps(message, g, reused, reused')
    BY <2>1, <2>5, ClearTold
  <2>7. g \in [AllMessages -> Message] /\ g[n].startActivity = None
    <3>1. message[n] = NewMessage
      BY <1>2, <2>1 DEF MessageMaps, Created, Known
    <3> QED  BY <2>1, <3>1 DEF MessageMaps, NewMessage
  <2> HIDE DEF g
  <2>8. MessagesOK(message', reused') /\ Keeps(g, message', reused', reused')
    <3>1. RecordOK(u, n \notin reused') /\ RecordKeeps(g[n], u, n \notin reused')
      BY <2>3, <2>7, BlankOK DEF Done
    <3> QED  BY <2>1, <2>4, <2>6, <2>7, <3>1, MessageAndMore
  <2>9. Keeps(message, message', reused, reused')
    <3>1. ASSUME NEW x \in AllMessages
          PROVE  RecordKeeps(message[x], message'[x], x \notin reused')
      <4>1. /\ RecordKeeps(message[x], g[x], x \notin reused')
            /\ RecordKeeps(g[x], message'[x], x \notin reused')
        BY <2>6, <2>8 DEF Keeps
      <4> QED  BY <4>1 DEF RecordKeeps
    <3> QED  BY <2>6, <3>1 DEF Keeps
  <2>10. message'[n].startActivity = b
    BY <2>1, <2>3, <2>4, <2>7
  <2> QED  BY <2>1, <2>4, <2>8, <2>9, <2>10, ToldStart
<1> QED  BY <1>1, <1>2 DEF reply

LEMMA ToldRunStarted ==
    ASSUME Inv, ToldInv, NEW a \in Activities, runStarted(a)
    PROVE  ToldStepped
<1> DEFINE m == Top(a).msg
           x == Entry("running", m)
           y == Entry("dispatch", m)
           z == Entry("frame", None)
           t == <<x, y, z>>
<1>1. /\ Kind(stack[a]) = "starting" /\ stack[a] # <<>>
      /\ message' = [message EXCEPT ![m].startActivity = a]
      /\ stack' = [stack EXCEPT ![a] = t]
      /\ reused' = reused
  BY StackFacts DEF runStarted, Turn, history
<1>2. /\ Last(stack[a]) \in Entries /\ Last(stack[a]).kind = "starting"
      /\ EntryOK(a, stack[a], Len(stack[a]), message)
      /\ Last(stack[a]) = stack[a][Len(stack[a])]
  BY <1>1, StackFacts, TopFacts
<1>3. m \in AllMessages /\ message[m].startActivity = a /\ a # None
  BY <1>2, MessageAssumption
     DEF EntryOK, Top, Entries, FrameEntries, DispatchEntries, LoopEntries, Bases, Loops
<1>4. message' = message
  <2>1. message \in [AllMessages -> Message] /\ message[m] \in Message
    BY <1>3, StackFacts, PartiesSeq DEF MessageMaps
  <2>2. [message[m] EXCEPT !.startActivity = a] = message[m]
    BY <1>3, <2>1 DEF Message
  <2>3. message' = [message EXCEPT ![m] = [message[m] EXCEPT !.startActivity = a]]
    BY <1>1
  <2> HIDE DEF m
  <2> QED  BY <1>3, <2>1, <2>2, <2>3
<1>5. /\ x.kind = "running" /\ x.msg = m /\ y.kind = "dispatch" /\ y.msg = m
      /\ z.msg = None
  BY <1>3, EntryFacts DEF Bases
<1> HIDE DEF m, x, y, z
<1>6. /\ CallOK(message, reused, x) /\ CallOK(message, reused, y)
      /\ CallOK(message, reused, z)
  BY <1>3, <1>5 DEF CallOK, Loops
<1>7. Len(t) = 3 /\ t[1] = x /\ t[2] = y /\ t[3] = z
  OBVIOUS
<1> HIDE DEF t
<1>8. CallsOK(message, reused, t)
  <2>1. \A i \in 1..3 : i = 1 \/ i = 2 \/ i = 3
    OBVIOUS
  <2> QED  BY <1>6, <1>7, <2>1 DEF CallsOK
<1> QED  BY <1>1, <1>4, <1>8, ToldShrinks

(* The party p is added to m, and told if m has notified everybody.        *)
LEMMA AddNotes ==
    ASSUME Inv, NEW a \in Activities, NEW m \in Created, NEW p \in Created \cup Listeners,
           notify(a, m, p)
    PROVE  /\ m \in AllMessages /\ stack[a] # <<>> /\ Len(message[m].parties) \in Nat
           /\ \E added \in MessageMaps :
                /\ m \in Known(added) /\ StackOK(a, stack[a], added)
                /\ \A x \in AllMessages :
                     /\ x # m => added[x] = message[x]
                     /\ added[x].startActivity = message[x].startActivity
                     /\ added[x].notified = message[x].notified
                     /\ added[x].returned = message[x].returned
                     /\ added[x].raised = message[x].raised
                /\ LET n == Len(message[m].parties)
                   IN  /\ Len(added[m].parties) = n + 1
                       /\ \A i \in 1..n : added[m].parties[i] = message[m].parties[i]
                       /\ added[m].parties[n + 1].told = 0
                       /\ added[m].parties[n + 1].late
                            = (isComplete(m) /\ ~message[m].notified)
                       /\ IF message[m].notified
                          THEN Tell(a, stack[a], added, m, n + 1)
                          ELSE /\ message' = added
                               /\ UNCHANGED <<stack, mode, waitingObject, history>>
<1> DEFINE old == message[m]
           n == Len(old.parties)
           late == isComplete(m) /\ ~old.notified
           q == [party |-> p, told |-> 0, late |-> late]
           ps == Append(old.parties, q)
           w == [old EXCEPT !.parties = ps]
           added == [message EXCEPT ![m] = w]
<1>1. /\ message \in MessageMaps /\ message \in [AllMessages -> Message]
      /\ m \in Known(message) /\ m \in AllMessages /\ old \in Message
      /\ old.parties \in Seq(Party) /\ n \in Nat
      /\ p \in Known(message) \cup Listeners /\ p \in AllMessages \cup Listeners
      /\ StackOK(a, stack[a], message) /\ a # None
  BY StackFacts, KnownFacts, PartiesSeq DEF MessageMaps
<1>2. stack[a] # <<>>
  BY StackFacts DEF notify, InRexx, Turn
<1>3. /\ old.notified => Tell(a, stack[a], added, m, Len(added[m].parties))
      /\ ~old.notified => message' = added /\ UNCHANGED <<stack, mode, waitingObject, history>>
  BY DEF notify
<1>4. q \in Party /\ q.party = p /\ q.told = 0 /\ q.late = late
  <2>1. late \in BOOLEAN
    BY <1>1 DEF Message
  <2> HIDE DEF late
  <2> QED  BY <1>1, <2>1 DEF Party
<1> HIDE DEF q
<1>5. /\ ps \in Seq(Party) /\ Len(ps) = n + 1 /\ ps[n + 1] = q
      /\ \A i \in 1..n : ps[i] = old.parties[i]
  BY <1>1, <1>4, AppendProperties
<1> HIDE DEF ps
<1>6. /\ w \in Message /\ w.parties = ps /\ w.waiters = old.waiters
      /\ w.startActivity = old.startActivity /\ w.activated = old.activated
      /\ w.returned = old.returned /\ w.raised = old.raised /\ w.notified = old.notified
  BY <1>1, <1>5 DEF Message
<1> HIDE DEF w
<1>7. \A i \in 1..Len(w.parties) : w.parties[i].party \in Known(message) \cup Listeners
  <2> SUFFICES ASSUME NEW i \in 1..Len(w.parties)
               PROVE  w.parties[i].party \in Known(message) \cup Listeners
    OBVIOUS
  <2>1. CASE i \in 1..n
    BY <1>1, <1>5, <1>6, <2>1 DEF MessageMaps
  <2>2. CASE i = n + 1
    BY <1>1, <1>4, <1>5, <1>6, <2>2
  <2> QED  BY <1>1, <1>5, <1>6, <2>1, <2>2
<1>8. added \in MessageMaps /\ Grows(message, added)
  <2>1. Len(w.parties) >= n
    BY <1>1, <1>5, <1>6
  <2> QED  BY <1>1, <1>6, <1>7, <2>1, ChangeOne
<1>9. added[m] = w /\ \A x \in AllMessages : x # m => added[x] = message[x]
  BY <1>1
<1> HIDE DEF added, late, n
<1>10. StackOK(a, stack[a], added) /\ m \in Known(added)
  BY <1>1, <1>8, GrowOK DEF Grows
<1>11. \A x \in AllMessages : /\ added[x].startActivity = message[x].startActivity
                              /\ added[x].notified = message[x].notified
                              /\ added[x].returned = message[x].returned
                              /\ added[x].raised = message[x].raised
  BY <1>6, <1>9
<1>12. /\ Len(added[m].parties) = n + 1 /\ added[m].parties[n + 1] = q
       /\ \A i \in 1..n : added[m].parties[i] = old.parties[i]
  BY <1>5, <1>6, <1>9
<1>13. IF old.notified THEN Tell(a, stack[a], added, m, n + 1)
       ELSE message' = added /\ UNCHANGED <<stack, mode, waitingObject, history>>
  BY <1>3, <1>12
<1> QED  BY <1>1, <1>2, <1>4, <1>8, <1>9, <1>10, <1>11, <1>12, <1>13 DEF late, n

LEMMA ToldListening ==
    ASSUME Inv, ToldInv, NEW a \in Activities, NEW m \in Created,
           NEW p \in Created \cup Listeners, notify(a, m, p)
    PROVE  ToldStepped
<1> DEFINE old == message[m]
           n == Len(old.parties)
<1>1. /\ m \in AllMessages /\ stack[a] # <<>> /\ n \in Nat
  BY AddNotes
<1>2. PICK added \in MessageMaps :
         /\ m \in Known(added) /\ StackOK(a, stack[a], added)
         /\ \A x \in AllMessages :
              /\ x # m => added[x] = message[x]
              /\ added[x].startActivity = message[x].startActivity
              /\ added[x].notified = message[x].notified
              /\ added[x].returned = message[x].returned
              /\ added[x].raised = message[x].raised
         /\ Len(added[m].parties) = n + 1
         /\ \A i \in 1..n : added[m].parties[i] = old.parties[i]
         /\ added[m].parties[n + 1].late = (isComplete(m) /\ ~old.notified)
         /\ IF old.notified
            THEN Tell(a, stack[a], added, m, n + 1)
            ELSE /\ message' = added
                 /\ UNCHANGED <<stack, mode, waitingObject, history>>
  BY AddNotes
<1>3. /\ message \in [AllMessages -> Message] /\ stack[a] \in Seq(Entries)
      /\ RecordOK(old, m \notin reused) /\ MessagesOK(message, reused)
      /\ CallsOK(message, reused, stack[a])
  BY <1>1 DEF Inv, Typed, MessageMaps, ToldInv, MessagesOK
<1> DEFINE Fits(r) == /\ Len(r.parties) = n + 1
                      /\ \A i \in 1..n : r.parties[i] = old.parties[i]
                      /\ r.startActivity = old.startActivity /\ r.notified = old.notified
                      /\ r.returned = old.returned /\ r.raised = old.raised
<1>4. ASSUME NEW g \in MessageMaps, \A x \in AllMessages : x # m => g[x] = message[x],
             Fits(g[m]), Done(old) => Told(g[m], n + 1)
      PROVE  /\ Keeps(message, g, reused, reused) /\ MessagesOK(g, reused)
             /\ CallsOK(g, reused, stack[a])
  <2> DEFINE r == g[m]
  <2>1. \A j \in 1..n + 1 : j \in 1..n \/ j = n + 1
    BY <1>1
  <2>2. Fits(r) /\ (Done(old) => Told(r, n + 1))
    BY <1>4
  <2>3. g = [message EXCEPT ![m] = r]
    BY <1>1, <1>3, <1>4 DEF MessageMaps
  <2> HIDE DEF n, r
  <2>4. RecordOK(r, m \notin reused)
    BY <1>3, <2>1, <2>2 DEF RecordOK, Done, Told, n
  <2>5. RecordKeeps(old, r, m \notin reused)
    BY <2>1, <2>2 DEF RecordKeeps, Done, Told, n
  <2> HIDE DEF Fits, old
  <2>6. Keeps(message, g, reused, reused) /\ MessagesOK(g, reused)
    BY <1>1, <1>3, <2>3, <2>4, <2>5, MessageAndMore DEF old
  <2> QED  BY <1>3, <2>6, KeepsCalls
<1>5. CASE ~old.notified
  <2>1. Done(old) => Told(added[m], n + 1)
    BY <1>2, <1>5 DEF Told, Done, isComplete
  <2>2. Fits(added[m])
    BY <1>1, <1>2
  <2>3. /\ message' = added /\ reused' = reused
        /\ stack' = [stack EXCEPT ![a] = stack[a]]
    BY <1>2, <1>5 DEF history, Inv, Typed
  <2> HIDE DEF Fits
  <2> QED  BY <1>2, <1>4, <2>1, <2>2, <2>3, ToldMoves
<1>6. CASE old.notified
  <2>1. Tell(a, stack[a], added, m, n + 1) /\ n + 1 \in 1..Len(added[m].parties)
    BY <1>1, <1>2, <1>6
  <2>2. ASSUME NEW noted \in MessageMaps,
             \A x \in AllMessages : x # m => noted[x] = added[x],
             Len(noted[m].parties) = Len(added[m].parties),
             \A j \in 1..Len(added[m].parties) :
                  j # n + 1 => noted[m].parties[j] = added[m].parties[j],
             Told(noted[m], n + 1),
             noted[m].startActivity = added[m].startActivity,
             noted[m].notified = added[m].notified,
             noted[m].returned = added[m].returned,
             noted[m].raised = added[m].raised
        PROVE  /\ Keeps(message, noted, reused, reused)
               /\ MessagesOK(noted, reused) /\ CallsOK(noted, reused, stack[a])
    <3>1. Fits(noted[m])
      <4>1. \A i \in 1..n : i \in 1..n + 1 /\ i # n + 1
        BY <1>1
      <4> QED  BY <1>1, <1>2, <2>2, <4>1
    <3>2. \A x \in AllMessages : x # m => noted[x] = message[x]
      BY <1>2, <2>2
    <3> HIDE DEF Fits, n, old
    <3> QED  BY <1>4, <2>2, <3>1, <3>2
  <2> HIDE DEF n, old
  <2> QED  BY <1>1, <1>2, <2>1, <2>2, ToldTell
<1> QED  BY <1>5, <1>6

LEMMA ToldWaiting ==
    ASSUME Inv, ToldInv, NEW a \in Activities, NEW m \in Created, wait(a, m)
    PROVE  ToldStepped
<1>1. /\ message \in [AllMessages -> Message] /\ m \in AllMessages /\ stack[a] # <<>>
      /\ StackOK(a, stack[a], message) /\ message[m] \in Message
      /\ stack \in [Activities -> Seq(Entries)]
  BY StackFacts, PartiesSeq DEF wait, InRexx, Turn, MessageMaps, Inv, Typed
<1>2. CallsOK(message, reused, stack[a]) /\ MessagesOK(message, reused)
      /\ RecordOK(message[m], m \notin reused)
  BY <1>1 DEF ToldInv, MessagesOK
<1>3. CASE RaiseFrom(a, stack[a]) /\ UNCHANGED <<message, reused>>
  BY <1>1, <1>2, <1>3, KeepsSame, ToldRaise
<1>4. CASE UNCHANGED <<message, stack, waitingObject, history>>
  <2>1. /\ stack' = [stack EXCEPT ![a] = stack[a]] /\ message' = message
        /\ reused' = reused
    BY <1>1, <1>4 DEF history
  <2> QED  BY <1>2, <2>1, ToldShrinks
<1>5. CASE /\ message' = [message EXCEPT ![m].waiters = @ \cup {a}]
           /\ UNCHANGED <<stack, history>>
  <2> DEFINE w == [message[m] EXCEPT !.waiters = @ \cup {a}]
  <2>1. /\ w.parties = message[m].parties /\ w.startActivity = message[m].startActivity
        /\ w.notified = message[m].notified
        /\ w.returned = message[m].returned /\ w.raised = message[m].raised
    BY <1>1 DEF Message
  <2>2. message' = [message EXCEPT ![m] = w]
    BY <1>5
  <2> HIDE DEF w
  <2>3. RecordOK(w, m \notin reused) /\ RecordKeeps(message[m], w, m \notin reused)
    BY <1>2, <2>1 DEF RecordOK, RecordKeeps, Done, Told
  <2>4. MessagesOK(message', reused) /\ Keeps(message, message', reused, reused)
    BY <1>1, <1>2, <2>2, <2>3, MessageAndMore
  <2>5. CallsOK(message', reused, stack[a])
    BY <1>1, <1>2, <2>4, KeepsCalls
  <2>6. stack' = [stack EXCEPT ![a] = stack[a]] /\ reused' = reused
    BY <1>1, <1>5 DEF history
  <2> QED  BY <2>4, <2>5, <2>6, ToldMoves
<1> QED  BY <1>3, <1>4, <1>5 DEF wait

(* sendNotification() of m, which is complete now.                         *)
LEMMA ToldNotifying ==
    ASSUME Inv, ToldInv, NEW a \in Activities, NEW s \in Seq(Entries), s # <<>>,
           s[1].kind \in Activations, CallsOK(message, reused, s),
           NEW kind \in Loops, NEW m \in AllMessages, message[m].startActivity # None,
           NEW r \in {[message[m] EXCEPT !.returned = TRUE],
                      [message[m] EXCEPT !.raised = TRUE]},
           sendNotification(a, s, kind, m, r), reused' = reused
    PROVE  ToldStepped
<1> DEFINE w == [r EXCEPT !.waiters = {}]
           n == Len(r.parties)
           t == setObjNotify(s, None)
           e == Loop(kind, m, n)
<1>1. /\ message \in [AllMessages -> Message] /\ message[m] \in Message
      /\ message[m].parties \in Seq(Party) /\ Len(message[m].parties) \in Nat
  BY PartiesSeq DEF Inv, Typed, MessageMaps
<1>2. /\ r.parties = message[m].parties /\ w.parties = message[m].parties
      /\ w.startActivity = message[m].startActivity /\ w.notified = message[m].notified
      /\ (w.returned \/ w.raised)
  BY <1>1 DEF Message
<1>3. message' = [message EXCEPT ![m] = w] /\ stack' = [stack EXCEPT ![a] = Append(t, e)]
  BY DEF sendNotification
<1> HIDE DEF w
<1>4. RecordOK(message[m], m \notin reused) /\ MessagesOK(message, reused)
  BY DEF ToldInv, MessagesOK
<1>5. RecordOK(w, m \notin reused) /\ RecordKeeps(message[m], w, m \notin reused)
  BY <1>2, <1>4 DEF RecordOK, RecordKeeps, Done, Told
<1>6. MessagesOK(message', reused) /\ Keeps(message, message', reused, reused)
  BY <1>1, <1>3, <1>4, <1>5, MessageAndMore
<1>7. CallsOK(message', reused, t) /\ t \in Seq(Entries)
  BY <1>6, KeepsCalls, NotifyCalls, NotifyFacts
<1>8. /\ e \in Entries /\ e.kind = kind /\ e.msg = m /\ e.next = 1 /\ e.count = n
      /\ n = Len(w.parties) /\ n \in Nat
  BY <1>1, <1>2, EntryFacts
<1> HIDE DEF t, e, n
<1>9. CallOK(message', reused, e)
  <2>1. message'[m] = w
    BY <1>1, <1>3
  <2>2. \A j \in 1..n : ~(j < 1) /\ ~(j > n)
    BY <1>8
  <2>3. LoopTold(w, e)
    BY <1>2, <1>8, <2>2 DEF LoopTold, Done
  <2> QED  BY <1>2, <1>8, <2>1, <2>3 DEF CallOK
<1>10. CallsOK(message', reused, Append(t, e))
  BY <1>7, <1>8, <1>9, PushCalls
<1> QED  BY <1>3, <1>6, <1>10, ToldMoves

LEMMA ToldReturning ==
    ASSUME Inv, ToldInv, NEW a \in Activities, return(a)
    PROVE  ToldStepped
<1> DEFINE s == Front(stack[a])
           m == Last(s).msg
<1>1. /\ stack[a] # <<>> /\ reused' = reused
      /\ IF Kind(s) = "dispatch"
         THEN sendNotification(a, Front(s), "notifying", m,
                               [message[m] EXCEPT !.returned = TRUE])
         ELSE stack' = [stack EXCEPT ![a] = s] /\ UNCHANGED <<message, waitingObject>>
  BY StackFacts DEF return, InRexx, Turn, history
<1>2. StackOK(a, stack[a], message) /\ CallsOK(message, reused, stack[a])
  BY StackFacts DEF ToldInv
<1>3. /\ StackOK(a, s, message) /\ CallsOK(message, reused, s)
      /\ Kind(s) = "dispatch" => Len(s) # 1
  BY <1>1, <1>2, PopOK, FrontCalls
<1> HIDE DEF s
<1>4. CASE Kind(s) = "dispatch"
  <2>1. s # <<>>
    BY <1>4 DEF Kind
  <2>2. /\ Last(s) \in Entries /\ Last(s).kind = "dispatch" /\ Last(s) = s[Len(s)]
        /\ Len(s) \in 1..Len(s)
    BY <1>3, <1>4, <2>1, TopFacts
  <2>3. m \in AllMessages /\ m # None
    BY <2>2, MessageAssumption
       DEF Entries, FrameEntries, DispatchEntries, LoopEntries, Loops, AllMessages
  <2>4. message[m].startActivity # None
    BY <1>3, <2>2, <2>3 DEF CallsOK, CallOK
  <2> HIDE DEF m
  <2> DEFINE t == Front(s)
  <2>5. /\ StackOK(a, t, message) /\ CallsOK(message, reused, t) /\ t # <<>>
    <3>1. /\ StackOK(a, t, message) /\ CallsOK(message, reused, t)
          /\ Len(t) \in Nat /\ Len(s) = Len(t) + 1 /\ (t = <<>> <=> Len(t) = 0)
      BY <1>3, <2>1, PopOK, FrontCalls
    <3> HIDE DEF t
    <3> QED  BY <1>3, <1>4, <3>1
  <2>6. sendNotification(a, t, "notifying", m, [message[m] EXCEPT !.returned = TRUE])
    BY <1>1, <1>4
  <2> HIDE DEF t
  <2>7. t \in Seq(Entries) /\ t[1].kind \in Activations /\ "notifying" \in Loops
    BY <2>5, TopFacts DEF Loops
  <2> QED  BY <1>1, <2>3, <2>4, <2>5, <2>6, <2>7, ToldNotifying
<1>5. CASE Kind(s) # "dispatch"
  BY <1>1, <1>3, <1>5, ToldShrinks
<1> QED  BY <1>4, <1>5

LEMMA ToldNext ==
    ASSUME Inv, ToldInv, NEW a \in Activities, notifyNext(a)
    PROVE  ToldStepped
<1> DEFINE loop == Top(a)
           n == Len(stack[a])
           i == loop.next
           m == loop.msg
           e == [loop EXCEPT !.next = loop.next + 1]
           t == [stack[a] EXCEPT ![n] = e]
<1>1. /\ stack[a] # <<>>
      /\ StackOK(a, stack[a], message) /\ message \in MessageMaps
      /\ loop \in LoopEntries /\ loop = stack[a][n]
      /\ m \in Known(message) /\ m \in AllMessages /\ m # None
      /\ 1 <= loop.next /\ loop.next <= loop.count + 1
      /\ loop.count <= Len(message[m].parties)
      /\ Len(message[m].parties) \in Nat
      /\ n \in Nat /\ n > 1
  BY LoopFacts, KnownFacts DEF notifyNext
<1>2. /\ loop.next <= loop.count
      /\ Tell(a, [stack[a] EXCEPT ![n].next = @ + 1], message, loop.msg, loop.next)
  BY DEF notifyNext
<1>3. loop.next \in Nat /\ loop.count \in Nat /\ loop.kind \in Loops
  BY <1>1 DEF LoopEntries
<1>4. /\ e \in LoopEntries /\ e.kind = loop.kind /\ e.msg = m
      /\ e.next = i + 1 /\ e.count = loop.count
  BY <1>1, <1>3 DEF LoopEntries
<1>5. t = [stack[a] EXCEPT ![n].next = @ + 1]
  BY <1>1
<1>6. i \in 1..Len(message[m].parties)
  BY <1>1, <1>2, <1>3
<1>7. /\ RecordOK(message[m], m \notin reused) /\ CallsOK(message, reused, stack[a])
      /\ MessagesOK(message, reused) /\ stack[a] \in Seq(Entries)
      /\ message \in [AllMessages -> Message]
  BY <1>1 DEF ToldInv, MessagesOK, StackOK, MessageMaps
<1>8. CallOK(message, reused, loop)
  <2>1. n \in 1..n
    BY <1>1
  <2> QED  BY <1>1, <1>7, <2>1 DEF CallsOK
<1>9. i \in Nat /\ Tell(a, t, message, m, i)
  BY <1>2, <1>3, <1>5
<1>10. e \in Entries
  BY <1>4 DEF Entries
<1> HIDE DEF loop, e
<1>11. /\ t \in Seq(Entries) /\ Len(t) = n
       /\ \A j \in 1..n : t[j] = IF j = n THEN e ELSE stack[a][j]
  BY <1>1, <1>7, <1>10, ExceptSeq
<1> HIDE DEF t
<1>12. StackOK(a, t, message) /\ t # <<>>
  <2>1. ASSUME NEW j \in 1..Len(t) PROVE EntryOK(a, t, j, message)
    <3>1. EntryOK(a, stack[a], j, message)
      BY <1>1, <1>11, <2>1 DEF StackOK
    <3>2. CASE j = n
      BY <1>1, <1>2, <1>3, <1>4, <1>11, <3>1, <3>2 DEF EntryOK, Loops
    <3>3. CASE j # n
      BY <1>11, <3>1, <3>3 DEF EntryOK
    <3> QED  BY <3>2, <3>3
  <2> QED  BY <1>1, <1>11, <2>1, EmptySeq DEF StackOK
<1>13. ASSUME NEW noted \in MessageMaps,
             \A x \in AllMessages : x # m => noted[x] = message[x],
             Len(noted[m].parties) = Len(message[m].parties),
             \A j \in 1..Len(message[m].parties) :
                  j # i => noted[m].parties[j] = message[m].parties[j],
             Told(noted[m], i),
             noted[m].startActivity = message[m].startActivity,
             noted[m].notified = message[m].notified,
             noted[m].returned = message[m].returned,
             noted[m].raised = message[m].raised
       PROVE  /\ Keeps(message, noted, reused, reused)
              /\ MessagesOK(noted, reused) /\ CallsOK(noted, reused, t)
  <2> DEFINE r == noted[m]
             old == message[m]
  <2>1. noted = [message EXCEPT ![m] = r]
    BY <1>1, <1>7, <1>13 DEF MessageMaps
  <2>2. /\ Len(r.parties) = Len(old.parties) /\ Told(r, i)
        /\ \A j \in 1..Len(old.parties) : j # i => r.parties[j] = old.parties[j]
        /\ r.startActivity = old.startActivity /\ r.notified = old.notified
        /\ r.returned = old.returned /\ r.raised = old.raised
        /\ RecordOK(old, m \notin reused)
    BY <1>7, <1>13
  <2> HIDE DEF r, old, i
  <2>3. \A j \in 1..Len(old.parties) : Told(old, j) => Told(r, j)
    BY <2>2 DEF Told
  <2>4. RecordOK(r, m \notin reused)
    BY <2>2, <2>3 DEF RecordOK, Done
  <2>5. RecordKeeps(old, r, m \notin reused)
    BY <2>2, <2>3 DEF RecordKeeps, Done
  <2> HIDE DEF m
  <2>6. Keeps(message, noted, reused, reused) /\ MessagesOK(noted, reused)
    BY <1>1, <1>7, <2>1, <2>4, <2>5, MessageAndMore DEF old
  <2>7. CallsOK(noted, reused, stack[a])
    BY <1>7, <2>6, KeepsCalls
  <2>8. CallOK(noted, reused, e)
    <3>1. old.startActivity # None
      BY <1>1, <1>8 DEF CallOK, old, m
    <3>2. ASSUME m \notin reused PROVE LoopTold(r, e)
      <4>1. LoopTold(old, loop)
        BY <1>1, <1>3, <1>8, <3>2 DEF CallOK, old, m
      <4>2. \A j \in 1..Len(old.parties) : j < i + 1 => j < i \/ j = i
        BY <1>1, <1>9 DEF old
      <4>3. \A j \in 1..Len(old.parties) : j < e.next \/ j > e.count => Told(r, j)
        BY <1>4, <2>2, <2>3, <4>1, <4>2 DEF LoopTold, i
      <4> QED  BY <2>2, <4>1, <4>3 DEF LoopTold, Done
    <3> QED  BY <1>1, <1>3, <1>4, <2>2, <3>1, <3>2 DEF CallOK, r
  <2> QED
    <3>1. ASSUME NEW j \in 1..Len(t) PROVE CallOK(noted, reused, t[j])
      BY <1>11, <2>7, <2>8, <3>1 DEF CallsOK
    <3> QED  BY <2>6, <3>1 DEF CallsOK
<1> HIDE DEF i, m
<1> QED  BY <1>1, <1>6, <1>9, <1>12, <1>13, ToldTell

LEMMA ToldEverybody ==
    ASSUME Inv, ToldInv, NEW a \in Activities, setAllNotified(a)
    PROVE  ToldStepped
<1> DEFINE m == Top(a).msg
           s == Front(stack[a])
           old == message[m]
           w == [old EXCEPT !.notified = TRUE]
           t == IF Kind(s) \in Bases THEN <<>> ELSE s
<1>1. /\ stack[a] # <<>>
      /\ StackOK(a, stack[a], message) /\ message \in MessageMaps
      /\ m \in AllMessages /\ m # None /\ Top(a) \in LoopEntries
      /\ Top(a) = stack[a][Len(stack[a])] /\ Len(stack[a]) \in Nat /\ Len(stack[a]) > 1
      /\ Len(old.parties) \in Nat
  BY LoopFacts, KnownFacts DEF setAllNotified
<1>2. /\ message' = [message EXCEPT ![m] = w]
      /\ stack' = [stack EXCEPT ![a] = t]
      /\ reused' = reused /\ Top(a).next > Top(a).count
  BY DEF setAllNotified, history
<1>3. /\ old \in Message /\ RecordOK(old, m \notin reused)
      /\ CallsOK(message, reused, stack[a]) /\ MessagesOK(message, reused)
      /\ message \in [AllMessages -> Message] /\ stack[a] \in Seq(Entries)
  BY <1>1, PartiesSeq DEF ToldInv, MessagesOK, MessageMaps, StackOK
<1>4. CallOK(message, reused, Top(a))
  <2>1. Len(stack[a]) \in 1..Len(stack[a])
    BY <1>1
  <2> QED  BY <1>1, <1>3, <2>1 DEF CallsOK
<1>5. /\ w.parties = old.parties /\ w.startActivity = old.startActivity
      /\ w.returned = old.returned /\ w.raised = old.raised /\ w.notified = TRUE
  BY <1>3 DEF Message
<1> HIDE DEF w
<1>6. old.startActivity # None
  BY <1>1, <1>4 DEF CallOK
<1>7. ASSUME m \notin reused
      PROVE  Done(old) /\ \A j \in 1..Len(old.parties) : Told(old, j)
  <2>1. LoopTold(old, Top(a))
    BY <1>1, <1>4, <1>7 DEF CallOK, LoopEntries
  <2>2. Top(a).next \in Nat /\ Top(a).count \in Nat
    BY <1>1 DEF LoopEntries
  <2>3. \A j \in 1..Len(old.parties) : j < Top(a).next \/ j > Top(a).count
    BY <1>1, <1>2, <2>2
  <2> QED  BY <2>1, <2>3 DEF LoopTold
<1>8. RecordOK(w, m \notin reused) /\ RecordKeeps(old, w, m \notin reused)
  BY <1>5, <1>6, <1>7 DEF RecordOK, RecordKeeps, Done, Told
<1>9. MessagesOK(message', reused) /\ Keeps(message, message', reused, reused)
  BY <1>1, <1>2, <1>3, <1>8, MessageAndMore
<1>10. CallsOK(message', reused, t)
  <2>1. CallsOK(message, reused, s) /\ s \in Seq(Entries)
    BY <1>1, <1>3, FrontCalls, FrontFacts
  <2> HIDE DEF s
  <2>2. CallsOK(message', reused, s)
    BY <1>9, <2>1, KeepsCalls
  <2> QED  BY <2>2, NoCalls
<1> HIDE DEF t
<1> QED  BY <1>2, <1>9, <1>10, ToldMoves

LEMMA ToldRaising ==
    ASSUME Inv, ToldInv, NEW a \in Activities, raise(a) \/ trapped(a) \/ wake(a)
    PROVE  ToldStepped
<1>1. /\ message' = message /\ reused' = reused
      /\ stack \in [Activities -> Seq(Entries)]
      /\ CallsOK(message, reused, stack[a]) /\ MessagesOK(message, reused)
      /\ StackOK(a, stack[a], message)
  BY StackFacts DEF raise, trapped, wake, history, Inv, Typed, ToldInv
<1>2. CASE raise(a)
  <2>1. RaiseFrom(a, stack[a]) /\ stack[a] # <<>>
    BY <1>2, StackFacts DEF raise, InRexx, Turn
  <2> QED  BY <1>1, <2>1, KeepsSame, ToldRaise
<1>3. CASE trapped(a) \/ wake(a)
  <2>1. stack' = [stack EXCEPT ![a] = stack[a]]
    BY <1>1, <1>3 DEF trapped, wake
  <2> QED  BY <1>1, <2>1, ToldShrinks
<1> QED  BY <1>2, <1>3

LEMMA ToldTrapping ==
    ASSUME Inv, ToldInv, NEW a \in Activities, trapNotifies(a)
    PROVE  ToldStepped
<1> DEFINE m == Top(a).msg
           s == stack[a]
<1>1. /\ s # <<>> /\ m # None /\ error(a, s, m)
  BY StackFacts DEF trapNotifies, Raising
<1>2. /\ StackOK(a, s, message) /\ Last(s) = s[Len(s)] /\ Len(s) \in 1..Len(s)
      /\ Last(s) \in Entries /\ s[1].kind \in Activations /\ s \in Seq(Entries)
      /\ CallsOK(message, reused, s)
  BY <1>1, StackFacts, TopFacts DEF ToldInv
<1>3. m \in AllMessages
  BY <1>1, <1>2 DEF Top, Entries, FrameEntries, DispatchEntries, LoopEntries
<1>4. message[m].startActivity # None
  BY <1>1, <1>2 DEF CallsOK, CallOK, Top
<1>5. /\ sendNotification(a, s, "reporting", m, [message[m] EXCEPT !.raised = TRUE])
      /\ reused' = reused /\ "reporting" \in Loops
  BY <1>1 DEF error, history, Loops
<1> HIDE DEF m, s
<1> QED  BY <1>1, <1>2, <1>3, <1>4, <1>5, ToldNotifying

LEMMA ToldUntrapped ==
    ASSUME Inv, ToldInv, NEW a \in Activities, untrapped(a)
    PROVE  ToldStepped
<1> DEFINE s == Front(stack[a])
<1>1. /\ stack[a] # <<>> /\ message' = message /\ reused' = reused
      /\ IF TopFrame(s) = 0 THEN stack' = [stack EXCEPT ![a] = <<>>] ELSE RaiseFrom(a, s)
  BY StackFacts DEF untrapped, Raising
<1>2. /\ StackOK(a, s, message) /\ CallsOK(message, reused, s)
      /\ MessagesOK(message, reused)
  BY <1>1, StackFacts, PopOK, FrontCalls DEF ToldInv
<1>3. CASE TopFrame(s) = 0
  BY <1>1, <1>3, NoCalls, ToldShrinks
<1>4. CASE TopFrame(s) # 0
  <2>1. s # <<>>
    BY <1>4, NothingBelow
  <2> HIDE DEF s
  <2> QED  BY <1>1, <1>2, <1>4, <2>1, KeepsSame, ToldRaise
<1> QED  BY <1>3, <1>4

LEMMA ToldHandling ==
    ASSUME Inv, ToldInv, NEW a \in Activities, handleError(a)
    PROVE  ToldStepped
<1> DEFINE m == Top(a).msg
<1>1. ASSUME NEW k \in {"handling", "catching"},
             Kind(stack[a]) \in {"running", "handling"},
             error(a, <<Entry(k, m)>>, m)
      PROVE  ToldStepped
  <2> DEFINE s == <<Entry(k, m)>>
  <2>1. stack[a] # <<>>
    BY <1>1, StackFacts
  <2>2. /\ Last(stack[a]) \in Entries /\ Last(stack[a]).kind \in {"running", "handling"}
        /\ Last(stack[a]) = stack[a][Len(stack[a])] /\ Len(stack[a]) \in 1..Len(stack[a])
        /\ CallsOK(message, reused, stack[a])
    BY <1>1, <2>1, StackFacts, TopFacts DEF ToldInv
  <2>3. m \in AllMessages /\ m # None
    BY <2>2, MessageAssumption
       DEF Top, Entries, FrameEntries, DispatchEntries, LoopEntries, Loops, AllMessages
  <2>4. message[m].startActivity # None
    BY <2>2, <2>3 DEF CallsOK, CallOK, Top
  <2> HIDE DEF m
  <2> DEFINE e == Entry(k, m)
  <2>5. e \in Entries /\ e.kind = k /\ e.msg = m
    BY <2>3, EntryFacts DEF Bases
  <2>6. sendNotification(a, <<e>>, "reporting", m, [message[m] EXCEPT !.raised = TRUE])
        /\ reused' = reused
    BY <1>1 DEF error, history, m
  <2> HIDE DEF e
  <2> DEFINE t == <<e>>
  <2>7. t \in Seq(Entries) /\ t # <<>> /\ Len(t) = 1 /\ t[1] = e
    BY <2>5
  <2> HIDE DEF t
  <2>8. CallsOK(message, reused, t)
    <3>1. CallOK(message, reused, e)
      BY <1>1, <2>4, <2>5 DEF CallOK, Loops
    <3> QED  BY <2>7, <3>1 DEF CallsOK
  <2>9. t[1].kind \in Activations /\ "reporting" \in Loops
    BY <1>1, <2>5, <2>7 DEF Activations, Bases, Loops
  <2>10. sendNotification(a, t, "reporting", m, [message[m] EXCEPT !.raised = TRUE])
    BY <2>6 DEF t
  <2> QED  BY <2>3, <2>4, <2>6, <2>7, <2>8, <2>9, <2>10, ToldNotifying
<1>2. CASE Kind(stack[a]) = "running" /\ error(a, <<Entry("handling", m)>>, m)
  BY <1>1, <1>2
<1>3. CASE Kind(stack[a]) = "handling" /\ error(a, <<Entry("catching", m)>>, m)
  BY <1>1, <1>3
<1>4. CASE /\ stack' = [stack EXCEPT ![a] = <<>>]
           /\ UNCHANGED <<message, waitingObject, history>>
  BY <1>4, NoCalls, ToldShrinks DEF history
<1> QED  BY <1>2, <1>3, <1>4 DEF handleError

LEMMA ToldSignal ==
    ASSUME Inv, ToldInv, NEW a \in Activities, signalUser(a)
    PROVE  ToldStepped
<1> DEFINE s == Front(stack[a])
<1>1. /\ stack[a] # <<>> /\ Kind(Unwound(s)) = "frame"
      /\ stack' = [stack EXCEPT ![a] = Unwound(s)]
      /\ message' = message /\ reused' = reused
  BY StackFacts DEF signalUser, InRexx, Turn
<1>2. s # <<>>
  BY <1>1, NothingBelow
<1>3. StackOK(a, s, message) /\ CallsOK(message, reused, s)
  BY <1>1, StackFacts, PopOK, FrontCalls DEF ToldInv
<1> HIDE DEF s
<1>4. CallsOK(message, reused, Unwound(s))
  BY <1>2, <1>3, UnwoundCalls
<1> QED  BY <1>1, <1>4, ToldShrinks

LEMMA ToldInit == Init => ToldInv
<1> SUFFICES ASSUME Init PROVE ToldInv
  OBVIOUS
<1>1. MessagesOK(message, reused)
  BY DEF Init, MessagesOK, RecordOK, NewMessage, Done
<1>2. PICK a \in Activities :
         stack = [b \in Activities |-> IF b = a THEN <<Entry("frame", None)>> ELSE <<>>]
  BY DEF Init
<1>3. CallsOK(message, reused, <<Entry("frame", None)>>)
  <2> DEFINE e == Entry("frame", None)
             t == <<e>>
  <2>1. e.msg = None
    BY EntryFacts
  <2> HIDE DEF e
  <2>2. Len(t) = 1 /\ t[1] = e
    OBVIOUS
  <2> HIDE DEF t
  <2>3. CallsOK(message, reused, t)
    BY <2>1, <2>2 DEF CallsOK, CallOK
  <2> QED  BY <2>3 DEF t, e
<1>4. ASSUME NEW b \in Activities PROVE CallsOK(message, reused, stack[b])
  <2>1. stack[b] = <<Entry("frame", None)>> \/ stack[b] = <<>>
    BY <1>2
  <2> QED  BY <1>3, <2>1, NoCalls
<1> QED  BY <1>1, <1>4 DEF ToldInv

LEMMA ToldStays == Inv /\ ToldInv /\ [Next]_vars => ToldStepped
<1> SUFFICES ASSUME Inv, ToldInv, [Next]_vars PROVE ToldStepped
  OBVIOUS
<1>1. CASE UNCHANGED vars
  <2>1. ToldInv'
    BY <1>1 DEF vars, ToldInv, MessagesOK, CallsOK, CallOK
  <2>2. Keeps(message, message', reused, reused')
    BY <1>1, KeepsSame DEF vars
  <2> QED  BY <2>1, <2>2 DEF ToldStepped
<1>2. ASSUME NEW a \in Activities, Use(a) PROVE ToldStepped
  <2>1. PICK m \in Created :
            \/ sendMessage(a, m) \/ start(a, m) \/ reply(a, m) \/ wait(a, m)
            \/ \E p \in Created \cup Listeners : notify(a, m, p)
    BY <1>2 DEF Use
  <2> QED  BY <2>1, ToldSending, ToldStarting, ToldReplying, ToldWaiting, ToldListening
<1>3. ASSUME NEW a \in Activities, Complete(a) PROVE ToldStepped
  BY <1>3, ToldReturning, ToldNext, ToldEverybody DEF Complete
<1>4. ASSUME NEW a \in Activities, Fail(a) PROVE ToldStepped
  BY <1>4, ToldRaising, ToldTrapping, ToldUntrapped, ToldHandling, ToldSignal DEF Fail
<1>5. ASSUME NEW a \in Activities, runStarted(a) \/ wake(a) PROVE ToldStepped
  BY <1>5, ToldRunStarted, ToldRaising
<1> QED  BY <1>1, <1>2, <1>3, <1>4, <1>5 DEF Next

(* A message object that is used once and has notified everybody has its   *)
(* completion, and every party was told - whatever conditions cut loops    *)
(* off, however many loops ran - but for those that notify() added between *)
(* the completion and the end of sendNotification().                       *)
THEOREM EveryoneIsTold == Spec => []EveryoneTold
<1>1. Inv /\ ToldInv => EveryoneTold
  <2> SUFFICES ASSUME Inv, ToldInv, NEW m \in AllMessages \ reused, message[m].notified
               PROVE  /\ isComplete(m)
                      /\ \A p \in ToSet(message[m].parties) : p.late \/ p.told > 0
    BY DEF EveryoneTold
  <2>1. RecordOK(message[m], TRUE)
    <3>1. (m \notin reused) = TRUE
      OBVIOUS
    <3> QED  BY <3>1 DEF ToldInv, MessagesOK
  <2>2. Done(message[m]) /\ \A j \in 1..Len(message[m].parties) : Told(message[m], j)
    BY <2>1 DEF RecordOK
  <2>3. message[m].parties \in Seq(Party)
    BY PartiesSeq DEF Inv, Typed
  <2>4. DOMAIN message[m].parties = 1..Len(message[m].parties)
    BY <2>3, LenProperties
  <2> QED  BY <2>2, <2>4 DEF ToSet, Done, Told, isComplete
<1>2. Init => Inv /\ ToldInv
  BY InvInit, ToldInit
<1>3. Inv /\ ToldInv /\ [Next]_vars => (Inv /\ ToldInv)'
  BY InvNext, ToldStays DEF Stepped, ToldStepped
<1> QED  BY <1>1, <1>2, <1>3, PTL DEF Spec

-----------------------------------------------------------------------------
(***************************************************************************)
(* Who has been told twice.  A message that is used once lives on one      *)
(* activity: on the stack of that activity are the call of dispatch(), the *)
(* frame that called it and remembers the message, and the base of a       *)
(* thread; then the one loop that tells the parties, which is alone but    *)
(* for the base below it.  So no second loop can begin, and the parties    *)
(* the loop has not come to have not been told.                            *)
(***************************************************************************)
UntoldFrom(r, i) == \A j \in 1..Len(r.parties) : j >= i => r.parties[j].told = 0
RecordOnce(r) ==
    /\ ~Done(r) => UntoldFrom(r, 1)
    /\ \A j \in 1..Len(r.parties) : r.parties[j].told <= 1
EntryOnce(a, r, e) ==
    /\ r.startActivity = a
    /\ Done(r) => e.kind \in Loops \cup (Bases \ {"starting"})
    /\ e.kind \in Loops => Done(r) /\ ~r.notified /\ UntoldFrom(r, e.next)
Together(s, i, j) ==
    \/ /\ s[i].kind = "frame" /\ s[j].kind = "dispatch"
       /\ \A k \in 1..Len(s) : i < k /\ k < j => s[k].kind \notin Activations
    \/ s[i].kind \in Bases /\ j = 2 /\ s[j].kind \in Loops \cup {"dispatch"}

(* The message x, whose record is r, on the stack s of a.                  *)
LoopAbove(s, x) == Len(s) >= 2 /\ s[2].kind \in Loops /\ s[2].msg = x
StackOnce(a, r, x, s) ==
    /\ \A i \in 1..Len(s) : s[i].msg = x => EntryOnce(a, r, s[i])
    /\ \A i, j \in 1..Len(s) :
         i < j /\ s[i].msg = x /\ s[j].msg = x => Together(s, i, j)
    /\ \A i \in 1..Len(s) :
         s[i].msg = x /\ s[i].kind \in Bases /\ Done(r) => LoopAbove(s, x)
Absent(x, s) == \A i \in 1..Len(s) : s[i].msg # x

Once == AllMessages \ (reused \cup failed)
OnceInv ==
    \A x \in Once :
        /\ RecordOnce(message[x])
        /\ \A a \in Activities : StackOnce(a, message[x], x, stack[a])

LEMMA OnceAbsent ==
    ASSUME NEW a, NEW r, NEW x, NEW s, Absent(x, s)
    PROVE  StackOnce(a, r, x, s)
BY DEF Absent, StackOnce

(* Part of a stack from its bottom, which does not cut the loop above a    *)
(* base.                                                                   *)
LEMMA OncePrefix ==
    ASSUME NEW a, NEW r, NEW x, NEW s \in Seq(Entries), NEW t \in Seq(Entries),
           StackOnce(a, r, x, s), Len(t) <= Len(s), \A i \in 1..Len(t) : t[i] = s[i],
           LoopAbove(s, x) => Len(t) # 1
    PROVE  StackOnce(a, r, x, t)
<1>1. PICK n \in Nat, k \in Nat : n = Len(s) /\ k = Len(t)
  BY LenProperties
<1>2. \A i \in 1..k : i \in 1..n /\ t[i] = s[i]
  BY <1>1
<1>3. ASSUME NEW i \in 1..k, t[i].msg = x PROVE EntryOnce(a, r, t[i])
  BY <1>1, <1>2, <1>3 DEF StackOnce
<1>4. ASSUME NEW i \in 1..k, NEW j \in 1..k, i < j, t[i].msg = x, t[j].msg = x
      PROVE  Together(t, i, j)
  <2>1. Together(s, i, j)
    BY <1>1, <1>2, <1>4 DEF StackOnce
  <2> QED  BY <1>1, <1>2, <2>1 DEF Together
<1>5. ASSUME NEW i \in 1..k, t[i].msg = x, t[i].kind \in Bases, Done(r)
      PROVE  LoopAbove(t, x)
  <2>1. LoopAbove(s, x)
    BY <1>1, <1>2, <1>5 DEF StackOnce
  <2>2. k >= 2 /\ 2 \in 1..k
    BY <1>1, <2>1
  <2> QED  BY <1>1, <1>2, <2>1, <2>2 DEF LoopAbove
<1> QED  BY <1>1, <1>3, <1>4, <1>5 DEF StackOnce

LEMMA OncePush ==
    ASSUME NEW a, NEW r, NEW x, NEW s \in Seq(Entries), NEW e \in Entries, e.msg # x,
           StackOnce(a, r, x, s)
    PROVE  StackOnce(a, r, x, Append(s, e))
<1> DEFINE t == Append(s, e)
<1>1. PICK n \in Nat : n = Len(s)
  BY LenProperties
<1>2. /\ Len(t) = n + 1 /\ t[n + 1] = e
      /\ \A i \in 1..n : t[i] = s[i]
  BY <1>1, AppendProperties
<1> HIDE DEF t
<1>3. \A i \in 1..n + 1 : t[i].msg = x => i \in 1..n /\ t[i] = s[i]
  BY <1>1, <1>2
<1>4. ASSUME NEW i \in 1..n + 1, t[i].msg = x PROVE EntryOnce(a, r, t[i])
  BY <1>1, <1>3, <1>4 DEF StackOnce
<1>5. ASSUME NEW i \in 1..n + 1, NEW j \in 1..n + 1, i < j, t[i].msg = x, t[j].msg = x
      PROVE  Together(t, i, j)
  <2>1. Together(s, i, j) /\ j \in 1..n
    BY <1>1, <1>3, <1>5 DEF StackOnce
  <2>2. \A k \in 1..n + 1 : k < j => k \in 1..n /\ t[k] = s[k]
    BY <1>1, <1>2, <2>1
  <2> QED  BY <1>1, <1>2, <1>3, <1>5, <2>1, <2>2 DEF Together
<1>6. ASSUME NEW i \in 1..n + 1, t[i].msg = x, t[i].kind \in Bases, Done(r)
      PROVE  LoopAbove(t, x)
  <2>1. LoopAbove(s, x)
    BY <1>1, <1>3, <1>6 DEF StackOnce
  <2>2. n >= 2 /\ 2 \in 1..n
    BY <1>1, <2>1 DEF LoopAbove
  <2> QED  BY <1>1, <1>2, <2>1, <2>2 DEF LoopAbove
<1> QED  BY <1>1, <1>2, <1>4, <1>5, <1>6 DEF StackOnce, t

(* setObjNotify() with another message.                                    *)
LEMMA OnceNotify ==
    ASSUME NEW a, NEW r, NEW x, NEW s \in Seq(Entries), s # <<>>,
           s[1].kind \in Activations, NEW m \in AllMessages \cup {None}, m # x,
           StackOnce(a, r, x, s)
    PROVE  StackOnce(a, r, x, setObjNotify(s, m))
<1> DEFINE t == setObjNotify(s, m)
<1>1. PICK n \in Nat : n = Len(s)
  BY LenProperties
<1>2. /\ Len(t) = n
      /\ \A i \in 1..n : t[i].kind = s[i].kind
      /\ \A i \in 1..n : t[i] # s[i] => t[i].msg = m /\ s[i].kind = "frame"
  BY <1>1, NotifyFacts
<1> HIDE DEF t
<1>3. ASSUME NEW i \in 1..n, t[i].msg = x PROVE t[i] = s[i] /\ EntryOnce(a, r, t[i])
  BY <1>1, <1>2, <1>3 DEF StackOnce
<1>4. ASSUME NEW i \in 1..n, NEW j \in 1..n, i < j, t[i].msg = x, t[j].msg = x
      PROVE  Together(t, i, j)
  <2>1. Together(s, i, j)
    BY <1>1, <1>3, <1>4 DEF StackOnce
  <2> QED  BY <1>1, <1>2, <2>1 DEF Together
<1>5. ASSUME NEW i \in 1..n, t[i].msg = x, t[i].kind \in Bases, Done(r)
      PROVE  LoopAbove(t, x)
  <2>1. LoopAbove(s, x)
    BY <1>1, <1>3, <1>5 DEF StackOnce
  <2>2. 2 \in 1..n
    BY <1>1, <2>1 DEF LoopAbove
  <2> QED  BY <1>1, <1>2, <2>1, <2>2 DEF LoopAbove, Loops
<1> QED  BY <1>1, <1>2, <1>3, <1>4, <1>5 DEF StackOnce, t

(* A change of the record that the entries do not see.                     *)
Mild(r, q) ==
    /\ q.startActivity = r.startActivity /\ Done(q) = Done(r)
    /\ q.notified = r.notified
    /\ ~r.notified => \A i \in Nat : UntoldFrom(r, i) => UntoldFrom(q, i)

LEMMA OnceMild ==
    ASSUME NEW a, NEW r, NEW q, NEW x, NEW s \in Seq(Entries), StackOnce(a, r, x, s),
           Mild(r, q)
    PROVE  StackOnce(a, q, x, s)
<1>1. ASSUME NEW i \in 1..Len(s), s[i].msg = x PROVE EntryOnce(a, q, s[i])
  <2>1. EntryOnce(a, r, s[i]) /\ s[i] \in Entries
    BY <1>1, ElementOfSeq DEF StackOnce
  <2>2. s[i].kind \in Loops => s[i].next \in Nat
    BY <2>1 DEF Entries, FrameEntries, DispatchEntries, LoopEntries, Loops, Bases
  <2> QED  BY <2>1, <2>2 DEF EntryOnce, Mild
<1> QED  BY <1>1 DEF StackOnce, Mild

(* A message that was never sent or started is on no stack.                *)
LEMMA OnceFresh ==
    ASSUME Inv, ToldInv, NEW a \in Activities, NEW x \in AllMessages,
           message[x].startActivity = None
    PROVE  Absent(x, stack[a])
<1>1. CallsOK(message, reused, stack[a]) /\ x # None
  BY MessageAssumption DEF ToldInv, AllMessages
<1> QED  BY <1>1 DEF Absent, CallsOK, CallOK

(* What every step shows: it moves a and, if it moves a message that is    *)
(* started elsewhere, only mildly.                                         *)
Moves(a, f, g, x) == f[x].startActivity \in {None, a} \/ Mild(f[x], g[x])

LEMMA OnceMoves ==
    ASSUME Inv, ToldInv, OnceInv, NEW a \in Activities, NEW t,
           stack' = [stack EXCEPT ![a] = t],
           reused \subseteq reused', failed \subseteq failed',
           \A x \in AllMessages \ (reused' \cup failed') :
             /\ RecordOnce(message'[x]) /\ Moves(a, message, message', x)
             /\ StackOnce(a, message'[x], x, t)
    PROVE  OnceInv'
<1>1. stack \in [Activities -> Seq(Entries)]
  BY DEF Inv, Typed
<1>2. ASSUME NEW x \in AllMessages \ (reused' \cup failed'), NEW b \in Activities
      PROVE  StackOnce(b, message'[x], x, stack'[b])
  <2>1. CASE b = a
    BY <1>1, <2>1
  <2>2. CASE b # a
    <3>1. /\ stack'[b] = stack[b] /\ stack[b] \in Seq(Entries)
          /\ StackOnce(b, message[x], x, stack[b])
      BY <1>1, <2>2 DEF OnceInv, Once
    <3>2. CASE Mild(message[x], message'[x])
      BY <3>1, <3>2, OnceMild
    <3>3. CASE message[x].startActivity = None
      BY <3>1, <3>3, OnceFresh, OnceAbsent
    <3>4. CASE message[x].startActivity = a
      <4>1. Absent(x, stack[b])
        BY <2>2, <3>1, <3>4 DEF StackOnce, EntryOnce, Absent
      <4> QED  BY <3>1, <4>1, OnceAbsent
    <3> QED  BY <3>2, <3>3, <3>4 DEF Moves
  <2> QED  BY <2>1, <2>2
<1>3. OnceInv' = \A x \in AllMessages \ (reused' \cup failed') :
                   /\ RecordOnce(message'[x])
                   /\ \A b \in Activities : StackOnce(b, message'[x], x, stack'[b])
  BY DEF OnceInv, Once, RecordOnce, StackOnce, EntryOnce, Done, UntoldFrom, Together,
         LoopAbove
<1> QED  BY <1>2, <1>3

LEMMA OnceRaise ==
    ASSUME Inv, ToldInv, OnceInv, NEW a \in Activities, NEW s, s # <<>>, NEW g,
           StackOK(a, s, g), RaiseFrom(a, s), reused \subseteq reused',
           \A x \in AllMessages \ (reused' \cup failed) :
             /\ RecordOnce(message'[x]) /\ Moves(a, message, message', x)
             /\ StackOnce(a, message'[x], x, s)
    PROVE  OnceInv'
<1> DEFINE t == Unwound(s)
           cut == {e.msg : e \in {e \in CallsAbove(s) : e.kind \in {"notifying", "reporting"}}}
<1>1. s \in Seq(Entries) /\ s[1].kind \in Activations /\ Len(s) \in Nat
  BY TopFacts
<1>2. /\ TopFrame(s) \in 1..Len(s) /\ t \in Seq(Entries) /\ Len(t) = TopFrame(s)
      /\ \A i \in 1..TopFrame(s) : t[i] = s[i]
  BY <1>1, UnwoundFacts
<1>3. stack' = [stack EXCEPT ![a] = t] /\ failed' = failed \cup cut
  BY DEF RaiseFrom
<1> HIDE DEF t
<1>4. ASSUME NEW x \in AllMessages \ (reused' \cup failed')
      PROVE  StackOnce(a, message'[x], x, t)
  <2>1. x \in AllMessages \ (reused' \cup failed) /\ x \notin cut
    BY <1>3
  <2>2. StackOnce(a, message'[x], x, s)
    BY <2>1
  <2>3. ASSUME LoopAbove(s, x), TopFrame(s) = 1 PROVE FALSE
    <3>1. 2 \in TopFrame(s) + 1..Len(s)
      BY <1>1, <2>3 DEF LoopAbove
    <3>2. s[2] \in CallsAbove(s) /\ s[2].kind \in {"notifying", "reporting"}
      BY <2>3, <3>1 DEF CallsAbove, LoopAbove, Loops
    <3>3. s[2].msg \in cut
      BY <3>2
    <3> HIDE DEF cut
    <3> QED  BY <2>1, <2>3, <3>3 DEF LoopAbove
  <2> HIDE DEF cut
  <2>4. Len(t) <= Len(s) /\ \A i \in 1..Len(t) : t[i] = s[i]
    BY <1>1, <1>2
  <2>5. LoopAbove(s, x) => Len(t) # 1
    BY <1>2, <2>3
  <2> QED  BY <1>1, <1>2, <2>2, <2>4, <2>5, OncePrefix
<1> QED  BY <1>3, <1>4, OnceMoves

(* setObjNotify() and dispatch() of a message that is on no stack.         *)
LEMMA OnceDispatch ==
    ASSUME NEW a, NEW r, NEW m \in AllMessages, NEW s \in Seq(Entries), s # <<>>,
           s[1].kind \in Activations, Absent(m, s), r.startActivity = a, ~Done(r),
           NEW d \in Entries, d.kind = "dispatch", d.msg = m
    PROVE  StackOnce(a, r, m, Append(setObjNotify(s, m), d))
<1> DEFINE t == setObjNotify(s, m)
           u == Append(t, d)
           f == TopFrame(s)
<1>1. PICK n \in Nat : n = Len(s)
  BY LenProperties
<1>2. /\ t \in Seq(Entries) /\ Len(t) = n
      /\ \A i \in 1..n : t[i].kind = s[i].kind
      /\ \A i \in 1..n : i # f => t[i] = s[i]
      /\ \A i \in 1..n : i = f => IF s[i].kind = "frame" THEN t[i].msg = m ELSE t[i] = s[i]
  BY <1>1, NotifyFacts
<1>3. /\ f \in 1..n
      /\ \A i \in f + 1..n : s[i].kind \notin Activations
  BY <1>1, UnwoundFacts
<1> HIDE DEF f, t
<1>4. Len(u) = n + 1 /\ u[n + 1] = d /\ \A i \in 1..n : u[i] = t[i]
  BY <1>2, AppendProperties
<1> HIDE DEF u
<1>5. ASSUME NEW i \in 1..n + 1, u[i].msg = m
      PROVE  i = n + 1 \/ (i = f /\ u[i].kind = "frame")
  <2>1. CASE i \in 1..n
    <3>1. s[i].msg # m
      BY <1>1, <2>1 DEF Absent
    <3> QED  BY <1>2, <1>4, <1>5, <2>1, <3>1
  <2>2. i \in 1..n \/ i = n + 1
    OBVIOUS
  <2> QED  BY <2>1, <2>2
<1>6. ASSUME NEW i \in 1..n + 1, u[i].msg = m
      PROVE  EntryOnce(a, r, u[i]) /\ u[i].kind \notin Bases
  BY <1>4, <1>5, <1>6 DEF EntryOnce, Loops, Bases
<1>7. ASSUME NEW i \in 1..n + 1, NEW j \in 1..n + 1, i < j, u[i].msg = m, u[j].msg = m
      PROVE  Together(u, i, j)
  <2>1. i = f /\ j = n + 1 /\ u[i].kind = "frame"
    BY <1>3, <1>5, <1>7
  <2>2. \A k \in 1..n + 1 : i < k /\ k < j => k \in f + 1..n /\ u[k].kind = s[k].kind
    BY <1>2, <1>3, <1>4, <2>1
  <2> QED  BY <1>3, <1>4, <2>1, <2>2 DEF Together
<1> QED  BY <1>4, <1>6, <1>7 DEF StackOnce, u, t

LEMMA ClearedOnce ==
    ASSUME NEW r \in Message
    PROVE  ~Done(Cleared(r)) /\ RecordOnce(Cleared(r))
<1> DEFINE c == Cleared(r)
<1>1. /\ ~c.returned /\ ~c.raised /\ Len(c.parties) = Len(r.parties)
      /\ \A i \in 1..Len(r.parties) : c.parties[i] = [r.parties[i] EXCEPT !.told = 0]
  BY ClearedFacts
<1> HIDE DEF c
<1>2. ASSUME NEW i \in 1..Len(c.parties) PROVE c.parties[i].told = 0
  <2>1. r.parties[i] \in Party
    BY <1>1, <1>2, ElementOfSeq DEF Message
  <2> QED  BY <1>1, <1>2, <2>1 DEF Party
<1>3. ~Done(c) /\ RecordOnce(c)
  BY <1>1, <1>2 DEF Done, RecordOnce, UntoldFrom
<1> QED  BY <1>3 DEF c

(* The entries of s are about messages that were sent or started.          *)
Started(s) ==
    \A i \in 1..Len(s) : s[i].msg # None => message[s[i].msg].startActivity # None

LEMMA StartedStack ==
    ASSUME ToldInv, NEW a \in Activities
    PROVE  Started(stack[a])
BY DEF ToldInv, CallsOK, CallOK, Started

LEMMA OnceSend ==
    ASSUME Inv, ToldInv, OnceInv, NEW a \in Activities, NEW s, s # <<>>,
           NEW msgs \in MessageMaps, StackOK(a, s, msgs), Started(s),
           \A x \in AllMessages : msgs[x].startActivity = message[x].startActivity,
           NEW m \in Known(msgs), send(a, s, msgs, m),
           \A x \in Once : /\ RecordOnce(msgs[x]) /\ Moves(a, message, msgs, x)
                           /\ StackOnce(a, msgs[x], x, s)
    PROVE  OnceInv'
<1>1. /\ m \in AllMessages /\ msgs[m] \in Message /\ a # None /\ None \notin AllMessages
      /\ s \in Seq(Entries) /\ s[1].kind \in Activations /\ msgs \in [AllMessages -> Message]
  BY KnownFacts, PartiesSeq, MessageAssumption, TopFacts DEF AllMessages, MessageMaps
<1>2. CASE checkReuse(m)
  <2>1. RaiseFrom(a, s) /\ message' = msgs /\ reused' = reused
    BY <1>2 DEF send
  <2>2. \A x \in AllMessages \ (reused' \cup failed) :
             /\ RecordOnce(message'[x]) /\ Moves(a, message, message', x)
             /\ StackOnce(a, message'[x], x, s)
    BY <2>1 DEF Once
  <2> QED  BY <2>1, <2>2, OnceRaise
<1>3. CASE ~checkReuse(m)
  <2> DEFINE c == Cleared(msgs[m])
  <2>1. reused' = IF message[m].startActivity = None THEN reused ELSE reused \cup {m}
    BY <1>1, <1>3 DEF send, NoteReuse
  <2>2. c \in Message /\ ~Done(c) /\ RecordOnce(c)
    BY <1>1, ClearedFacts, ClearedOnce
  <2> HIDE DEF c
  <2>3. ASSUME NEW r, RecordOnce(r), message' = [msgs EXCEPT ![m] = r],
               NEW x \in AllMessages \ (reused' \cup failed)
        PROVE  /\ RecordOnce(message'[x]) /\ Moves(a, message, message', x)
               /\ x # m => StackOnce(a, message'[x], x, s)
               /\ x = m => Absent(m, s)
    <3>1. x \in Once /\ (x = m => message[m].startActivity = None)
      BY <2>1 DEF Once
    <3>2. CASE x = m
      BY <1>1, <2>3, <3>1, <3>2 DEF Moves, Absent, Started
    <3>3. CASE x # m
      BY <1>1, <2>3, <3>1, <3>3 DEF Moves
    <3> QED  BY <3>2, <3>3
  <2>4. CASE RaiseFrom(a, s) /\ message' = [msgs EXCEPT ![m] = c]
    <3>1. \A x \in AllMessages \ (reused' \cup failed) :
             /\ RecordOnce(message'[x]) /\ Moves(a, message, message', x)
             /\ StackOnce(a, message'[x], x, s)
      BY <2>2, <2>3, <2>4, OnceAbsent
    <3> QED  BY <2>1, <2>4, <3>1, OnceRaise
  <2>5. CASE /\ message' = [msgs EXCEPT ![m] = [c EXCEPT !.startActivity = a]]
             /\ stack' = [stack EXCEPT ![a] = setObjNotify(s, m)
                              \o <<Entry("dispatch", m), Entry("frame", None)>>]
             /\ failed' = failed
    <3> DEFINE r == [c EXCEPT !.startActivity = a]
               t == setObjNotify(s, m)
               d == Entry("dispatch", m)
               e == Entry("frame", None)
    <3>1. r.startActivity = a /\ ~Done(r) /\ RecordOnce(r)
      BY <2>2 DEF Message, Done, RecordOnce, UntoldFrom
    <3>2. message'[m] = r /\ message' = [msgs EXCEPT ![m] = r]
      BY <1>1, <2>5
    <3> HIDE DEF r
    <3>3. /\ d \in Entries /\ d.kind = "dispatch" /\ d.msg = m
          /\ e \in Entries /\ e.kind = "frame" /\ e.msg = None
      BY <1>1, EntryFacts
    <3>4. t \in Seq(Entries)
      BY <1>1, NotifyFacts
    <3>5. stack' = [stack EXCEPT ![a] = t \o <<d, e>>]
      BY <2>5
    <3> HIDE DEF d, e
    <3>6. ASSUME NEW x \in AllMessages \ (reused' \cup failed)
          PROVE  StackOnce(a, message'[x], x, Append(t, d))
      <4>1. CASE x = m
        <5>1. Absent(m, s)
          BY <2>3, <3>1, <3>2, <4>1
        <5> QED  BY <1>1, <3>1, <3>2, <3>3, <4>1, <5>1, OnceDispatch
      <4>2. CASE x # m
        <5>1. StackOnce(a, message'[x], x, s)
          BY <2>3, <3>1, <3>2, <4>2
        <5>2. StackOnce(a, message'[x], x, t)
          BY <1>1, <4>2, <5>1, OnceNotify
        <5> HIDE DEF t
        <5> QED  BY <3>3, <3>4, <4>2, <5>2, OncePush
      <4> QED  BY <4>1, <4>2
    <3> HIDE DEF t
    <3>7. ASSUME NEW x \in AllMessages \ (reused' \cup failed')
          PROVE  /\ RecordOnce(message'[x]) /\ Moves(a, message, message', x)
                 /\ StackOnce(a, message'[x], x, Append(Append(t, d), e))
      <4>1. x \in AllMessages \ (reused' \cup failed) /\ e.msg # x
        BY <1>1, <2>5, <3>3
      <4>2. Append(t, d) \in Seq(Entries)
        BY <3>3, <3>4, AppendProperties
      <4>3. StackOnce(a, message'[x], x, Append(t, d))
        BY <3>6, <4>1
      <4>4. StackOnce(a, message'[x], x, Append(Append(t, d), e))
        BY <3>3, <4>1, <4>2, <4>3, OncePush
      <4> QED  BY <2>3, <3>1, <3>2, <4>1, <4>4
    <3>8. t \o <<d, e>> = Append(Append(t, d), e)
      BY <3>3, <3>4, TwoOnTop
    <3> DEFINE u == Append(Append(t, d), e)
    <3>9. /\ stack' = [stack EXCEPT ![a] = u]
          /\ \A x \in AllMessages \ (reused' \cup failed') :
               /\ RecordOnce(message'[x]) /\ Moves(a, message, message', x)
               /\ StackOnce(a, message'[x], x, u)
      BY <3>5, <3>7, <3>8
    <3>10. reused \subseteq reused' /\ failed \subseteq failed'
      BY <2>1, <2>5
    <3> HIDE DEF u
    <3> QED  BY <3>9, <3>10, OnceMoves
  <2> QED  BY <1>3, <2>4, <2>5 DEF send, c
<1> QED  BY <1>2, <1>3

LEMMA OnceTell ==
    ASSUME Inv, ToldInv, OnceInv, NEW a \in Activities, NEW s, s # <<>>,
           NEW msgs \in MessageMaps, StackOK(a, s, msgs), Started(s),
           \A x \in AllMessages : msgs[x].startActivity = message[x].startActivity,
           NEW m \in Known(msgs), NEW i \in 1..Len(msgs[m].parties),
           Tell(a, s, msgs, m, i),
           \A x \in Once \ {m} : /\ RecordOnce(msgs[x]) /\ Moves(a, message, msgs, x)
                                 /\ StackOnce(a, msgs[x], x, s),
           m \in Once => msgs[m].parties[i].told = 0,
           ASSUME m \in Once, NEW noted \in MessageMaps,
                  noted[m].startActivity = msgs[m].startActivity,
                  noted[m].notified = msgs[m].notified,
                  noted[m].returned = msgs[m].returned,
                  noted[m].raised = msgs[m].raised,
                  Len(noted[m].parties) = Len(msgs[m].parties),
                  \A j \in 1..Len(msgs[m].parties) :
                    j # i => noted[m].parties[j] = msgs[m].parties[j],
                  noted[m].parties[i].told = 1
           PROVE  /\ RecordOnce(noted[m]) /\ Moves(a, message, noted, m)
                  /\ StackOnce(a, noted[m], m, s)
    PROVE  OnceInv'
<1>1. PICK noted \in MessageMaps :
        /\ Known(noted) = Known(msgs) /\ StackOK(a, s, noted)
        /\ \A x \in AllMessages :
             /\ x # m => noted[x] = msgs[x]
             /\ noted[x].startActivity = msgs[x].startActivity
             /\ noted[x].notified = msgs[x].notified
             /\ noted[x].returned = msgs[x].returned
             /\ noted[x].raised = msgs[x].raised
        /\ Len(noted[m].parties) = Len(msgs[m].parties)
        /\ \A j \in 1..Len(msgs[m].parties) :
             j # i => noted[m].parties[j] = msgs[m].parties[j]
        /\ msgs[m].parties[i].told = 0 => noted[m].parties[i].told = 1
        /\ LET p == msgs[m].parties[i].party
           IN  /\ p \in Known(noted) \cup Listeners
               /\ IF p \in Listeners
                  THEN /\ message' = noted
                       /\ stack' = [stack EXCEPT ![a] = Append(s, Entry("frame", None))]
                       /\ UNCHANGED <<mode, waitingObject, history>>
                  ELSE send(a, s, noted, p)
  BY TellNotes, MessageAssumption
<1> DEFINE p == msgs[m].parties[i].party
           e == Entry("frame", None)
<1>2. m \in AllMessages /\ s \in Seq(Entries) /\ None \notin AllMessages
  BY KnownFacts, MessageAssumption DEF StackOK, AllMessages
<1>3. ASSUME NEW x \in Once
      PROVE  /\ RecordOnce(noted[x]) /\ Moves(a, message, noted, x)
             /\ StackOnce(a, noted[x], x, s)
  <2>1. CASE x = m
    BY <1>1, <1>2, <1>3, <2>1
  <2>2. CASE x # m
    BY <1>1, <2>2 DEF Moves, Once
  <2> QED  BY <2>1, <2>2
<1>4. CASE p \in Listeners
  <2>1. /\ message' = noted /\ reused' = reused /\ failed' = failed
        /\ stack' = [stack EXCEPT ![a] = Append(s, e)]
    BY <1>1, <1>4 DEF history
  <2>2. e \in Entries /\ e.msg = None
    BY EntryFacts
  <2> HIDE DEF e
  <2>3. \A x \in Once : StackOnce(a, noted[x], x, Append(s, e))
    BY <1>2, <1>3, <2>2, OncePush DEF Once
  <2> QED  BY <1>3, <2>1, <2>3, OnceMoves DEF Once
<1>5. CASE p \notin Listeners
  <2>1. send(a, s, noted, p) /\ p \in Known(noted)
    BY <1>1, <1>5
  <2>2. \A x \in AllMessages : noted[x].startActivity = message[x].startActivity
    BY <1>1
  <2> HIDE DEF p
  <2> QED  BY <1>1, <1>3, <2>1, <2>2, OnceSend
<1> QED  BY <1>4, <1>5

LEMMA OnceStill == \A a, x : \A f : Moves(a, f, f, x)
BY DEF Moves, Mild

(* The messages stay: what moves is a part of a stack.                     *)
LEMMA OnceShrinks ==
    ASSUME Inv, ToldInv, OnceInv, NEW a \in Activities, NEW t,
           stack' = [stack EXCEPT ![a] = t], message' = message,
           reused' = reused, failed \subseteq failed',
           \A x \in AllMessages \ (reused \cup failed') : StackOnce(a, message[x], x, t)
    PROVE  OnceInv'
<1>1. \A x \in AllMessages \ (reused' \cup failed') :
             /\ RecordOnce(message'[x]) /\ Moves(a, message, message', x)
             /\ StackOnce(a, message'[x], x, t)
  BY OnceStill DEF OnceInv, Once
<1> QED  BY <1>1, OnceMoves

LEMMA OnceSending ==
    ASSUME Inv, ToldInv, OnceInv, NEW a \in Activities, NEW m \in Created, sendMessage(a, m)
    PROVE  OnceInv'
<1>1. /\ send(a, stack[a], message, m) /\ stack[a] # <<>> /\ m \in Known(message)
      /\ message \in MessageMaps /\ StackOK(a, stack[a], message)
  BY StackFacts DEF sendMessage, InRexx, Turn
<1>2. \A x \in Once : /\ RecordOnce(message[x]) /\ Moves(a, message, message, x)
                      /\ StackOnce(a, message[x], x, stack[a])
  BY OnceStill DEF OnceInv
<1> QED  BY <1>1, <1>2, StartedStack, OnceSend

LEMMA PendingOnce ==
    ASSUME NEW q \in Message, NEW r \in {Pending(q), Cleared(q)}
    PROVE  ~Done(r) /\ RecordOnce(r) /\ r.startActivity = q.startActivity /\ r \in Message
<1> DEFINE c == Cleared(q)
<1>1. /\ c \in Message /\ c.startActivity = q.startActivity
      /\ ~Done(c) /\ RecordOnce(c)
  BY ClearedFacts, ClearedOnce
<1> HIDE DEF c
<1>2. r = c \/ r = [c EXCEPT !.activated = TRUE]
  BY DEF Pending, c
<1> QED  BY <1>1, <1>2 DEF Message, Done, RecordOnce, UntoldFrom

LEMMA OnceNotStarted ==
    ASSUME Inv, ToldInv, OnceInv, NEW a \in Activities, NEW m \in Created,
           NEW r \in {Pending(message[m]), Cleared(message[m])}, NotStarted(a, m, r)
    PROVE  OnceInv'
<1>1. /\ RaiseFrom(a, stack[a]) /\ stack[a] # <<>> /\ StackOK(a, stack[a], message)
      /\ m \in AllMessages /\ message \in [AllMessages -> Message]
  BY StackFacts DEF NotStarted, InRexx, Turn, MessageMaps
<1>2. RecordOnce(r)
  BY <1>1, PendingOnce
<1>3. /\ reused \subseteq reused'
      /\ \/ message' = message
         \/ /\ message' = [message EXCEPT ![m] = r]
            /\ message[m].startActivity # None => m \in reused'
  BY DEF NotStarted, NoteReuse
<1>4. ASSUME NEW x \in AllMessages \ (reused' \cup failed)
      PROVE  /\ RecordOnce(message'[x]) /\ Moves(a, message, message', x)
             /\ StackOnce(a, message'[x], x, stack[a])
  <2>1. x \in Once
    BY <1>3 DEF Once
  <2>2. CASE message'[x] = message[x]
    BY <2>1, <2>2 DEF OnceInv, Moves, Mild
  <2>3. CASE x = m /\ message'[x] = r /\ message[m].startActivity = None
    BY <1>1, <1>2, <2>3, OnceFresh, OnceAbsent DEF Moves
  <2> QED  BY <1>1, <1>3, <2>2, <2>3
<1> QED  BY <1>1, <1>3, <1>4, OnceRaise

(* b is given the message n.                                               *)
LEMMA OnceStart ==
    ASSUME Inv, ToldInv, OnceInv, NEW b \in Activities, NEW n \in AllMessages,
           stack' = [stack EXCEPT ![b] = <<Entry("starting", n)>>],
           reused \subseteq reused', failed' = failed,
           ~Done(message'[n]), message'[n].startActivity = b,
           \A x \in AllMessages \ (reused' \cup failed) :
             RecordOnce(message'[x]) /\ Moves(b, message, message', x)
    PROVE  OnceInv'
<1> DEFINE e == Entry("starting", n)
           t == <<e>>
<1>1. e \in Entries /\ e.kind = "starting" /\ e.msg = n
  BY EntryFacts DEF Bases
<1> HIDE DEF e
<1>2. Len(t) = 1 /\ t[1] = e
  OBVIOUS
<1> HIDE DEF t
<1>3. ASSUME NEW x \in AllMessages \ (reused' \cup failed')
      PROVE  StackOnce(b, message'[x], x, t)
  <2>1. CASE x = n
    <3>1. EntryOnce(b, message'[n], e)
      BY <1>1 DEF EntryOnce, Loops
    <3>2. \A i \in 1..1 : i = 1
      OBVIOUS
    <3> QED  BY <1>1, <1>2, <2>1, <3>1, <3>2 DEF StackOnce
  <2>2. CASE x # n
    <3>1. Absent(x, t)
      BY <1>1, <1>2, <2>2 DEF Absent
    <3> QED  BY <3>1, OnceAbsent
  <2> QED  BY <2>1, <2>2
<1>4. stack' = [stack EXCEPT ![b] = t]
  BY DEF t, e
<1> QED  BY <1>3, <1>4, OnceMoves

LEMMA OnceStarting ==
    ASSUME Inv, ToldInv, OnceInv, NEW a \in Activities, NEW m \in Created, start(a, m)
    PROVE  OnceInv'
<1>1. CASE NotStarted(a, m, Pending(message[m]))
  BY <1>1, OnceNotStarted
<1>2. ASSUME NoteReuse(m), NEW b \in Activities,
             StartOn(b, m, [message EXCEPT ![m] = Pending(@)])
      PROVE  OnceInv'
  <2> DEFINE p == Pending(message[m])
             r == [p EXCEPT !.startActivity = b]
  <2>1. /\ m \in AllMessages /\ message \in [AllMessages -> Message]
        /\ p \in Message /\ ~Done(p) /\ RecordOnce(p)
    BY PendingFacts, PendingOnce DEF MessageMaps
  <2> HIDE DEF p
  <2>2. /\ message' = [message EXCEPT ![m] = r] /\ failed' = failed
        /\ stack' = [stack EXCEPT ![b] = <<Entry("starting", m)>>]
    BY <1>2, <2>1 DEF StartOn, p
  <2>3. ~Done(r) /\ RecordOnce(r) /\ r.startActivity = b
    BY <2>1 DEF Message, Done, RecordOnce, UntoldFrom
  <2> HIDE DEF r
  <2>4. reused \subseteq reused' /\ (message[m].startActivity # None => m \in reused')
    BY <1>2 DEF NoteReuse
  <2>5. message'[m] = r
    BY <2>1, <2>2
  <2>6. ASSUME NEW x \in AllMessages \ (reused' \cup failed)
        PROVE  RecordOnce(message'[x]) /\ Moves(b, message, message', x)
    <3>1. CASE x = m
      BY <2>3, <2>4, <2>5, <3>1 DEF Moves
    <3>2. CASE x # m
      BY <2>1, <2>2, <2>4, <3>2 DEF OnceInv, Once, Moves, Mild
    <3> QED  BY <3>1, <3>2
  <2> QED  BY <2>1, <2>2, <2>3, <2>4, <2>5, <2>6, OnceStart
<1> QED  BY <1>1, <1>2 DEF start

LEMMA OnceReplying ==
    ASSUME Inv, ToldInv, OnceInv, NEW a \in Activities, NEW m \in Created, reply(a, m)
    PROVE  OnceInv'
<1>1. CASE NotStarted(a, m, Cleared(message[m]))
  BY <1>1, OnceNotStarted
<1> DEFINE r == Cleared(message[m])
           copy == [NewMessage EXCEPT !.parties = r.parties]
<1>2. ASSUME NoteReuse(m), NEW b \in Activities, NEW n \in Copies \ Created,
             StartOn(b, n, [message EXCEPT ![m] = r, ![n] = Pending(copy)])
      PROVE  OnceInv'
  <2> DEFINE k == Pending(copy)
             u == [k EXCEPT !.startActivity = b]
  <2>1. /\ m \in AllMessages /\ message \in MessageMaps /\ n \in AllMessages /\ n # m
        /\ message \in [AllMessages -> Message] /\ message[m] \in Message
    BY PendingFacts, PartiesSeq DEF AllMessages, MessageMaps
  <2>2. r \in Message /\ RecordOnce(r)
    BY <2>1, PendingOnce
  <2>3. message[n].startActivity = None
    <3>1. message[n] = NewMessage
      BY <2>1 DEF MessageMaps, Created, Known
    <3> QED  BY <3>1 DEF NewMessage
  <2> HIDE DEF r
  <2>4. copy \in Message
    BY <2>2 DEF NewMessage, Message
  <2> HIDE DEF copy
  <2>5. k \in Message /\ ~Done(k) /\ RecordOnce(k)
    BY <2>4, PendingOnce
  <2> HIDE DEF k
  <2>6. ~Done(u) /\ RecordOnce(u) /\ u.startActivity = b
    BY <2>5 DEF Message, Done, RecordOnce, UntoldFrom
  <2>7. /\ message' = [message EXCEPT ![m] = r, ![n] = u] /\ failed' = failed
        /\ stack' = [stack EXCEPT ![b] = <<Entry("starting", n)>>]
    BY <1>2, <2>1 DEF StartOn, k
  <2> HIDE DEF u
  <2>8. reused \subseteq reused' /\ (message[m].startActivity # None => m \in reused')
    BY <1>2 DEF NoteReuse
  <2>9. message'[n] = u /\ message'[m] = r
        /\ \A x \in AllMessages \ {m, n} : message'[x] = message[x]
    BY <2>1, <2>7
  <2>10. ASSUME NEW x \in AllMessages \ (reused' \cup failed)
         PROVE  RecordOnce(message'[x]) /\ Moves(b, message, message', x)
    <3>1. CASE x = m
      BY <2>2, <2>8, <2>9, <3>1 DEF Moves
    <3>2. CASE x = n
      BY <2>3, <2>6, <2>9, <3>2 DEF Moves
    <3>3. CASE x \notin {m, n}
      BY <2>8, <2>9, <3>3 DEF OnceInv, Once, Moves, Mild
    <3> QED  BY <3>1, <3>2, <3>3
  <2> QED  BY <2>1, <2>6, <2>7, <2>8, <2>9, <2>10, OnceStart
<1> QED  BY <1>1, <1>2 DEF reply

LEMMA OnceRunStarted ==
    ASSUME Inv, ToldInv, OnceInv, NEW a \in Activities, runStarted(a)
    PROVE  OnceInv'
<1> DEFINE m == Top(a).msg
           x == Entry("running", m)
           y == Entry("dispatch", m)
           z == Entry("frame", None)
           t == <<x, y, z>>
           n == Len(stack[a])
<1>1. /\ Kind(stack[a]) = "starting" /\ stack[a] # <<>>
      /\ message' = [message EXCEPT ![m].startActivity = a]
      /\ stack' = [stack EXCEPT ![a] = t]
      /\ reused' = reused /\ failed' = failed
  BY StackFacts DEF runStarted, Turn, history
<1>2. /\ stack[a][n] \in Entries /\ stack[a][n].kind = "starting"
      /\ EntryOK(a, stack[a], n, message) /\ m = stack[a][n].msg /\ n \in 1..n
  BY <1>1, StackFacts, TopFacts DEF Top
<1>3. m \in AllMessages /\ message[m].startActivity = a /\ a # None /\ m # None
  BY <1>2, MessageAssumption
     DEF EntryOK, Entries, FrameEntries, DispatchEntries, LoopEntries, Bases, Loops,
         AllMessages
<1>4. message' = message
  <2>1. message \in [AllMessages -> Message] /\ message[m] \in Message
    BY <1>3, StackFacts, PartiesSeq DEF MessageMaps
  <2>2. [message[m] EXCEPT !.startActivity = a] = message[m]
    BY <1>3, <2>1 DEF Message
  <2>3. message' = [message EXCEPT ![m] = [message[m] EXCEPT !.startActivity = a]]
    BY <1>1
  <2> HIDE DEF m
  <2> QED  BY <1>3, <2>1, <2>2, <2>3
<1>5. /\ x.kind = "running" /\ x.msg = m /\ y.kind = "dispatch" /\ y.msg = m
      /\ z.kind = "frame" /\ z.msg = None
  BY <1>3, EntryFacts DEF Bases
<1>6. m \in Once => ~Done(message[m])
  <2> HIDE DEF m
  <2> SUFFICES ASSUME m \in Once PROVE ~Done(message[m])
    OBVIOUS
  <2>1. StackOnce(a, message[m], m, stack[a])
    BY DEF OnceInv
  <2>2. EntryOnce(a, message[m], stack[a][n])
    BY <1>2, <2>1 DEF StackOnce
  <2> QED  BY <1>2, <2>2 DEF EntryOnce, Loops
<1> HIDE DEF m, x, y, z, n
<1>7. Len(t) = 3 /\ t[1] = x /\ t[2] = y /\ t[3] = z
  OBVIOUS
<1> HIDE DEF t
<1>8. \A i \in 1..3 : i = 1 \/ i = 2 \/ i = 3
  OBVIOUS
<1>9. ASSUME NEW w \in Once PROVE StackOnce(a, message[w], w, t)
  <2>1. w # None
    BY MessageAssumption DEF Once, AllMessages
  <2>2. CASE w = m
    <3>1. ASSUME NEW i \in 1..3, t[i].msg = w
          PROVE  i \in {1, 2} /\ EntryOnce(a, message[w], t[i])
      BY <1>3, <1>5, <1>6, <1>7, <1>8, <2>1, <2>2, <3>1 DEF EntryOnce, Loops
    <3>2. Together(t, 1, 2)
      BY <1>5, <1>7 DEF Together, Bases
    <3>3. \A i, j \in 1..3 : i < j /\ t[i].msg = w /\ t[j].msg = w => i = 1 /\ j = 2
      BY <3>1
    <3> QED  BY <1>6, <1>7, <2>2, <3>1, <3>2, <3>3 DEF StackOnce
  <2>3. CASE w # m
    <3>1. Absent(w, t)
      BY <1>5, <1>7, <1>8, <2>1, <2>3 DEF Absent
    <3> QED  BY <3>1, OnceAbsent
  <2> QED  BY <2>2, <2>3
<1>10. \A w \in AllMessages \ (reused \cup failed') : StackOnce(a, message[w], w, t)
  BY <1>1, <1>9 DEF Once
<1> QED  BY <1>1, <1>4, <1>10, OnceShrinks

LEMMA OnceListening ==
    ASSUME Inv, ToldInv, OnceInv, NEW a \in Activities, NEW m \in Created,
           NEW p \in Created \cup Listeners, notify(a, m, p)
    PROVE  OnceInv'
<1> DEFINE old == message[m]
           n == Len(old.parties)
<1>1. /\ m \in AllMessages /\ stack[a] # <<>> /\ n \in Nat
  BY AddNotes
<1>2. PICK added \in MessageMaps :
         /\ m \in Known(added) /\ StackOK(a, stack[a], added)
         /\ \A x \in AllMessages :
              /\ x # m => added[x] = message[x]
              /\ added[x].startActivity = message[x].startActivity
              /\ added[x].notified = message[x].notified
              /\ added[x].returned = message[x].returned
              /\ added[x].raised = message[x].raised
         /\ Len(added[m].parties) = n + 1
         /\ \A i \in 1..n : added[m].parties[i] = old.parties[i]
         /\ added[m].parties[n + 1].told = 0
         /\ IF old.notified
            THEN Tell(a, stack[a], added, m, n + 1)
            ELSE /\ message' = added
                 /\ UNCHANGED <<stack, mode, waitingObject, history>>
  BY AddNotes
<1>3. RecordOK(old, m \notin reused) /\ stack[a] \in Seq(Entries)
      /\ stack \in [Activities -> Seq(Entries)]
  BY <1>1 DEF Inv, Typed, ToldInv, MessagesOK
<1>4. ASSUME m \in Once, NEW r,
             r.startActivity = old.startActivity, r.notified = old.notified,
             r.returned = old.returned, r.raised = old.raised,
             Len(r.parties) = n + 1, \A i \in 1..n : r.parties[i] = old.parties[i],
             r.parties[n + 1].told \in {0, 1},
             ~old.notified => r.parties[n + 1].told = 0
      PROVE  RecordOnce(r) /\ Mild(old, r) /\ StackOnce(a, r, m, stack[a])
  <2>1. \A i \in 1..n + 1 : i \in 1..n \/ i = n + 1
    BY <1>1
  <2>2. RecordOnce(old) /\ StackOnce(a, old, m, stack[a])
    BY <1>4 DEF OnceInv
  <2>3. old.notified => Done(old)
    <3>1. (m \notin reused) = TRUE
      BY <1>4 DEF Once
    <3> QED  BY <1>3, <3>1 DEF RecordOK
  <2> HIDE DEF n, old
  <2>4. \A i \in Nat : UntoldFrom(old, i) /\ ~old.notified => UntoldFrom(r, i)
    BY <1>4, <2>1 DEF UntoldFrom, n
  <2>5. Mild(old, r)
    BY <1>4, <2>4 DEF Mild, Done
  <2>6. RecordOnce(r)
    <3>1. \A i \in 1..n : old.parties[i].told <= 1
      BY <2>2 DEF RecordOnce, n
    <3>2. \A i \in 1..n + 1 : r.parties[i].told <= 1
      BY <1>4, <2>1, <3>1
    <3>3. ~Done(r) => UntoldFrom(r, 1)
      BY <1>4, <2>2, <2>3, <2>4 DEF RecordOnce, Done
    <3> QED  BY <1>4, <3>2, <3>3 DEF RecordOnce
  <2> QED  BY <1>3, <2>2, <2>5, <2>6, OnceMild
<1>5. ASSUME NEW x \in Once \ {m}
      PROVE  /\ RecordOnce(added[x]) /\ Moves(a, message, added, x)
             /\ StackOnce(a, added[x], x, stack[a])
  BY <1>2 DEF OnceInv, Once, Moves, Mild
<1>6. CASE ~old.notified
  <2>1. /\ message' = added /\ reused' = reused /\ failed' = failed
        /\ stack' = [stack EXCEPT ![a] = stack[a]]
    BY <1>2, <1>3, <1>6 DEF history
  <2>2. ASSUME NEW x \in Once
        PROVE  /\ RecordOnce(added[x]) /\ Moves(a, message, added, x)
               /\ StackOnce(a, added[x], x, stack[a])
    <3>1. CASE x = m
      BY <1>1, <1>2, <1>4, <1>6, <3>1 DEF Moves
    <3> QED  BY <1>5, <3>1
  <2> QED  BY <2>1, <2>2, OnceMoves DEF Once
<1>7. CASE old.notified
  <2>1. Tell(a, stack[a], added, m, n + 1) /\ n + 1 \in 1..Len(added[m].parties)
    BY <1>1, <1>2, <1>7
  <2>2. ASSUME m \in Once, NEW noted \in MessageMaps,
               noted[m].startActivity = added[m].startActivity,
               noted[m].notified = added[m].notified,
               noted[m].returned = added[m].returned,
               noted[m].raised = added[m].raised,
               Len(noted[m].parties) = Len(added[m].parties),
               \A j \in 1..Len(added[m].parties) :
                 j # n + 1 => noted[m].parties[j] = added[m].parties[j],
               noted[m].parties[n + 1].told = 1
        PROVE  /\ RecordOnce(noted[m]) /\ Moves(a, message, noted, m)
               /\ StackOnce(a, noted[m], m, stack[a])
    <3>1. \A i \in 1..n : i \in 1..n + 1 /\ i # n + 1
      BY <1>1
    <3>2. \A i \in 1..n : noted[m].parties[i] = old.parties[i]
      BY <1>2, <2>2, <3>1
    <3>3. RecordOnce(noted[m]) /\ Mild(old, noted[m]) /\ StackOnce(a, noted[m], m, stack[a])
      BY <1>1, <1>2, <1>4, <1>7, <2>2, <3>2
    <3> QED  BY <3>3 DEF Moves
  <2> HIDE DEF n, old
  <2> QED  BY <1>1, <1>2, <1>5, <2>1, <2>2, StartedStack, OnceTell
<1> QED  BY <1>6, <1>7

LEMMA OnceWaiting ==
    ASSUME Inv, ToldInv, OnceInv, NEW a \in Activities, NEW m \in Created, wait(a, m)
    PROVE  OnceInv'
<1>1. /\ message \in [AllMessages -> Message] /\ m \in AllMessages /\ stack[a] # <<>>
      /\ StackOK(a, stack[a], message) /\ message[m] \in Message
      /\ stack \in [Activities -> Seq(Entries)]
  BY StackFacts, PartiesSeq DEF wait, InRexx, Turn, MessageMaps, Inv, Typed
<1>2. ASSUME NEW x \in Once
      PROVE  RecordOnce(message[x]) /\ StackOnce(a, message[x], x, stack[a])
  BY DEF OnceInv
<1>3. CASE RaiseFrom(a, stack[a]) /\ UNCHANGED <<message, reused>>
  <2>1. \A x \in AllMessages \ (reused' \cup failed) :
             /\ RecordOnce(message'[x]) /\ Moves(a, message, message', x)
             /\ StackOnce(a, message'[x], x, stack[a])
    BY <1>2, <1>3, OnceStill DEF Once
  <2> QED  BY <1>1, <1>3, <2>1, OnceRaise
<1>4. CASE /\ \/ message' = message \/ message' = [message EXCEPT ![m].waiters = @ \cup {a}]
           /\ UNCHANGED <<stack, history>>
  <2>1. /\ stack' = [stack EXCEPT ![a] = stack[a]]
        /\ reused' = reused /\ failed' = failed
    BY <1>1, <1>4 DEF history
  <2>2. ASSUME NEW x \in Once
        PROVE  /\ RecordOnce(message'[x]) /\ Moves(a, message, message', x)
               /\ StackOnce(a, message'[x], x, stack[a])
    <3> DEFINE w == [message[m] EXCEPT !.waiters = @ \cup {a}]
    <3>1. /\ w.parties = message[m].parties /\ w.startActivity = message[m].startActivity
          /\ w.notified = message[m].notified
          /\ w.returned = message[m].returned /\ w.raised = message[m].raised
      BY <1>1 DEF Message
    <3>2. message' = message \/ message' = [message EXCEPT ![m] = w]
      BY <1>4
    <3> HIDE DEF w
    <3>3. message'[x] = message[x] \/ (x = m /\ message'[x] = w)
      BY <1>1, <3>2 DEF Once
    <3>4. Mild(message[x], message'[x]) /\ RecordOnce(message'[x])
      BY <1>2, <3>1, <3>3 DEF Mild, Done, UntoldFrom, RecordOnce
    <3>5. stack[a] \in Seq(Entries)
      BY <1>1
    <3> QED  BY <1>2, <3>4, <3>5, OnceMild DEF Moves
  <2> QED  BY <2>1, <2>2, OnceMoves DEF Once
<1> QED  BY <1>3, <1>4 DEF wait, history

(* sendNotification() of m, which is complete now: a forgets m but for the *)
(* base of its thread.                                                     *)
LEMMA OnceNotifying ==
    ASSUME Inv, ToldInv, OnceInv, NEW a \in Activities, NEW s \in Seq(Entries), s # <<>>,
           s[1].kind \in Activations, NEW kind \in Loops, NEW m \in AllMessages,
           NEW r \in {[message[m] EXCEPT !.returned = TRUE],
                      [message[m] EXCEPT !.raised = TRUE]},
           sendNotification(a, s, kind, m, r), reused' = reused, failed' = failed,
           \A x \in Once : StackOnce(a, message[x], x, s),
           m \in Once =>
             /\ message[m].startActivity = a /\ ~Done(message[m])
             /\ \A i \in 1..Len(s) : s[i].msg = m =>
                  \/ i = TopFrame(s) /\ s[i].kind = "frame"
                  \/ i = 1 /\ Len(s) = 1 /\ s[i].kind \in Bases \ {"starting"}
    PROVE  OnceInv'
<1> DEFINE w == [r EXCEPT !.waiters = {}]
           c == Len(r.parties)
           t == setObjNotify(s, None)
           e == Loop(kind, m, c)
           u == Append(t, e)
<1>1. /\ message \in [AllMessages -> Message] /\ message[m] \in Message
      /\ message[m].parties \in Seq(Party) /\ Len(message[m].parties) \in Nat
      /\ None \notin AllMessages
  BY PartiesSeq, MessageAssumption DEF Inv, Typed, MessageMaps, AllMessages
<1>2. /\ r.parties = message[m].parties /\ w.parties = message[m].parties
      /\ w.startActivity = message[m].startActivity /\ w.notified = message[m].notified
      /\ Done(w)
  BY <1>1 DEF Message, Done
<1>3. message' = [message EXCEPT ![m] = w] /\ stack' = [stack EXCEPT ![a] = u]
  BY DEF sendNotification
<1> HIDE DEF w
<1>4. /\ e \in Entries /\ e.kind = kind /\ e.msg = m /\ e.next = 1
  BY <1>1, <1>2, EntryFacts
<1>5. PICK n \in Nat : n = Len(s)
  BY LenProperties
<1>6. /\ t \in Seq(Entries) /\ Len(t) = n
      /\ \A i \in 1..n :
           /\ t[i].kind = s[i].kind
           /\ i # TopFrame(s) => t[i] = s[i]
           /\ i = TopFrame(s) =>
                IF s[i].kind = "frame" THEN t[i].msg = None ELSE t[i] = s[i]
  BY <1>5, NotifyFacts
<1> HIDE DEF t, e
<1>7. ASSUME NEW x \in Once, x # m PROVE StackOnce(a, message[x], x, u)
  <2>1. x # None /\ StackOnce(a, message[x], x, s)
    BY <1>1 DEF Once
  <2>2. StackOnce(a, message[x], x, t)
    BY <2>1, OnceNotify DEF t
  <2> QED  BY <1>4, <1>6, <1>7, <2>2, OncePush
<1>8. /\ Len(u) = n + 1 /\ u[n + 1] = e
      /\ \A i \in 1..n : u[i] = t[i]
  BY <1>6, AppendProperties
<1> HIDE DEF u
<1>9. ASSUME m \in Once
      PROVE  RecordOnce(w) /\ StackOnce(a, w, m, u)
  <2>1. /\ RecordOnce(message[m]) /\ ~Done(message[m]) /\ w.startActivity = a
    BY <1>2, <1>9 DEF OnceInv
  <2>2. UntoldFrom(w, 1) /\ RecordOnce(w)
    BY <1>2, <2>1 DEF RecordOnce, UntoldFrom
  <2>3. ~w.notified
    <3>1. (m \notin reused) = TRUE /\ RecordOK(message[m], m \notin reused)
      BY <1>9 DEF Once, ToldInv, MessagesOK
    <3> QED  BY <1>2, <2>1, <3>1 DEF RecordOK
  <2>4. EntryOnce(a, w, e)
    BY <1>4, <2>1, <2>2, <2>3, <1>2 DEF EntryOnce
  <2>5. ASSUME NEW i \in 1..n + 1, u[i].msg = m
        PROVE  i = n + 1 \/ (i = 1 /\ n = 1 /\ u[i].kind \in Bases \ {"starting"})
    <3>1. CASE i \in 1..n
      <4>1. t[i].msg = m /\ u[i] = t[i]
        BY <1>8, <2>5, <3>1
      <4>2. s[i].msg = m
        BY <1>1, <1>6, <3>1, <4>1
      <4>3. ~(i = TopFrame(s) /\ s[i].kind = "frame")
        BY <1>1, <1>6, <3>1, <4>1
      <4> QED  BY <1>5, <1>6, <1>9, <3>1, <4>1, <4>2, <4>3
    <3>2. i \in 1..n \/ i = n + 1
      OBVIOUS
    <3> QED  BY <3>1, <3>2
  <2>6. ASSUME NEW i \in 1..n + 1, u[i].msg = m
        PROVE  /\ EntryOnce(a, w, u[i])
               /\ u[i].kind \in Bases => LoopAbove(u, m)
    <3>1. CASE i = n + 1
      BY <1>4, <1>8, <2>4, <3>1 DEF Bases, Loops
    <3>2. CASE i = 1 /\ n = 1 /\ u[i].kind \in Bases \ {"starting"}
      BY <1>4, <1>8, <2>1, <3>2 DEF EntryOnce, LoopAbove, Bases, Loops
    <3> QED  BY <2>5, <2>6, <3>1, <3>2
  <2>7. ASSUME NEW i \in 1..n + 1, NEW j \in 1..n + 1, i < j, u[i].msg = m, u[j].msg = m
        PROVE  Together(u, i, j)
    <3>1. j = n + 1 /\ n = 1 /\ u[i].kind \in Bases
      BY <2>5, <2>7
    <3> QED  BY <1>4, <1>8, <3>1 DEF Together
  <2> QED  BY <1>8, <2>2, <2>6, <2>7 DEF StackOnce
<1>10. ASSUME NEW x \in AllMessages \ (reused' \cup failed')
       PROVE  /\ RecordOnce(message'[x]) /\ Moves(a, message, message', x)
              /\ StackOnce(a, message'[x], x, u)
  <2>1. x \in Once
    BY DEF Once
  <2>2. CASE x = m
    BY <1>1, <1>3, <1>9, <2>1, <2>2 DEF Moves
  <2>3. CASE x # m
    BY <1>1, <1>3, <1>7, <2>1, <2>3, OnceStill DEF OnceInv, Moves, Mild
  <2> QED  BY <2>2, <2>3
<1> QED  BY <1>3, <1>10, OnceMoves

(* Something other than the loop of x is popped.                           *)
LEMMA OnceFront ==
    ASSUME NEW a, NEW r, NEW x, NEW s \in Seq(Entries), s # <<>>, StackOnce(a, r, x, s),
           s[Len(s)].kind \notin Loops \/ s[Len(s)].msg # x
    PROVE  StackOnce(a, r, x, Front(s))
<1> DEFINE t == Front(s)
<1>1. /\ t \in Seq(Entries) /\ Len(s) \in Nat /\ Len(s) >= 1 /\ Len(t) = Len(s) - 1
      /\ \A i \in 1..Len(s) - 1 : t[i] = s[i]
  BY FrontFacts
<1> HIDE DEF t
<1>2. Len(t) <= Len(s) /\ \A i \in 1..Len(t) : t[i] = s[i]
  BY <1>1
<1>3. LoopAbove(s, x) => Len(t) # 1
  BY <1>1 DEF LoopAbove
<1> QED  BY <1>1, <1>2, <1>3, OncePrefix DEF t

LEMMA OnceReturning ==
    ASSUME Inv, ToldInv, OnceInv, NEW a \in Activities, return(a)
    PROVE  OnceInv'
<1> DEFINE s == Front(stack[a])
           m == Last(s).msg
<1>1. /\ stack[a] # <<>> /\ reused' = reused /\ failed' = failed
      /\ Kind(stack[a]) = "frame"
      /\ IF Kind(s) = "dispatch"
         THEN sendNotification(a, Front(s), "notifying", m,
                               [message[m] EXCEPT !.returned = TRUE])
         ELSE stack' = [stack EXCEPT ![a] = s] /\ UNCHANGED <<message, waitingObject>>
  BY StackFacts DEF return, InRexx, Turn, history
<1>2. /\ StackOK(a, stack[a], message) /\ stack[a] \in Seq(Entries)
      /\ stack[a][Len(stack[a])].kind = "frame"
  BY <1>1, StackFacts, TopFacts
<1>3. ASSUME NEW x \in Once PROVE StackOnce(a, message[x], x, s)
  <2>1. StackOnce(a, message[x], x, stack[a])
    BY DEF OnceInv
  <2> QED  BY <1>1, <1>2, <2>1, OnceFront DEF Loops
<1>4. StackOK(a, s, message) /\ (Kind(s) = "dispatch" => Len(s) # 1)
  BY <1>1, <1>2, PopOK
<1> HIDE DEF s
<1>5. CASE Kind(s) = "dispatch"
  <2>1. s # <<>>
    BY <1>5 DEF Kind
  <2>2. /\ Last(s) \in Entries /\ Last(s).kind = "dispatch" /\ Last(s) = s[Len(s)]
        /\ Len(s) \in 1..Len(s) /\ s \in Seq(Entries) /\ Len(s) \in Nat
    BY <1>4, <1>5, <2>1, TopFacts
  <2>3. m \in AllMessages /\ m # None
    BY <2>2, MessageAssumption
       DEF Entries, FrameEntries, DispatchEntries, LoopEntries, Loops, AllMessages
  <2> HIDE DEF m
  <2> DEFINE t == Front(s)
  <2>4. /\ StackOK(a, t, message) /\ t # <<>> /\ t \in Seq(Entries)
        /\ Len(s) = Len(t) + 1 /\ Len(t) \in Nat
        /\ \A i \in 1..Len(t) : t[i] = s[i]
    <3>1. /\ StackOK(a, t, message) /\ Len(t) \in Nat /\ Len(s) = Len(t) + 1
          /\ (t = <<>> <=> Len(t) = 0)
      BY <1>4, <2>1, PopOK
    <3>2. \A i \in 1..Len(s) - 1 : t[i] = s[i]
      BY <2>1, <2>2, FrontFacts
    <3> HIDE DEF t
    <3> QED  BY <1>4, <1>5, <3>1, <3>2 DEF StackOK
  <2>5. \A x \in Once : StackOnce(a, message[x], x, t)
    BY <1>3, <2>1, <2>2, OnceFront DEF Loops
  <2>6. sendNotification(a, t, "notifying", m, [message[m] EXCEPT !.returned = TRUE])
    BY <1>1, <1>5
  <2> HIDE DEF t
  <2>7. /\ TopFrame(t) \in 1..Len(t) /\ t[TopFrame(t)].kind \in Activations
        /\ \A i \in TopFrame(t) + 1..Len(t) : t[i].kind \notin Activations
        /\ t[1].kind \in Activations /\ "notifying" \in Loops
    BY <2>4, TopFacts, UnwoundFacts DEF Loops
  <2>8. ASSUME m \in Once
        PROVE  /\ message[m].startActivity = a /\ ~Done(message[m])
               /\ \A i \in 1..Len(t) : t[i].msg = m =>
                    \/ i = TopFrame(t) /\ t[i].kind = "frame"
                    \/ i = 1 /\ Len(t) = 1 /\ t[i].kind \in Bases \ {"starting"}
    <3>1. StackOnce(a, message[m], m, s)
      BY <1>3, <2>8
    <3>2. EntryOnce(a, message[m], s[Len(s)])
      BY <2>2, <3>1 DEF StackOnce, m
    <3>3. message[m].startActivity = a /\ ~Done(message[m])
      BY <2>2, <3>2 DEF EntryOnce, Loops, Bases
    <3>4. ASSUME NEW i \in 1..Len(t), t[i].msg = m
          PROVE  \/ i = TopFrame(t) /\ t[i].kind = "frame"
                 \/ i = 1 /\ Len(t) = 1 /\ t[i].kind \in Bases \ {"starting"}
      <4>1. i \in 1..Len(s) /\ i < Len(s) /\ s[i] = t[i]
        BY <2>4
      <4>2. Together(s, i, Len(s))
        BY <2>2, <3>1, <3>4, <4>1 DEF StackOnce, m
      <4>3. CASE s[i].kind \in Bases /\ Len(s) = 2
        <5> HIDE DEF s
        <5>1. i = 1 /\ Len(t) = 1
          <6>1. PICK k \in Nat : k = Len(t) /\ k + 1 = 2
            BY <2>4, <4>3
          <6>2. k = 1
            BY <6>1
          <6>3. i \in 1..1
            BY <6>1, <6>2
          <6> QED  BY <6>1, <6>2, <6>3
        <5>2. EntryOK(a, s, i, message)
          BY <1>4, <4>1 DEF StackOK
        <5>3. s[i].kind # "starting"
          BY <4>3, <5>2 DEF EntryOK
        <5> QED  BY <4>1, <4>3, <5>1, <5>3
      <4>4. CASE /\ s[i].kind = "frame"
                 /\ \A k \in 1..Len(s) : i < k /\ k < Len(s) => s[k].kind \notin Activations
        <5>1. \A k \in 1..Len(t) : i < k => t[k].kind \notin Activations
          BY <2>4, <4>4
        <5>2. t[i].kind \in Activations
          BY <4>1, <4>4 DEF Activations
        <5>3. ~(i < TopFrame(t))
          BY <2>7, <5>1
        <5>4. ~(TopFrame(t) < i)
          BY <2>4, <2>7, <5>2
        <5>5. i = TopFrame(t)
          BY <2>4, <2>7, <5>3, <5>4
        <5> QED  BY <4>1, <4>4, <5>5
      <4> QED  BY <4>2, <4>3, <4>4 DEF Together
    <3> QED  BY <3>3, <3>4
  <2> QED  BY <1>1, <2>3, <2>4, <2>5, <2>6, <2>7, <2>8, OnceNotifying
<1>6. CASE Kind(s) # "dispatch"
  BY <1>1, <1>3, <1>6, OnceShrinks DEF Once
<1> QED  BY <1>5, <1>6

LEMMA OnceNext ==
    ASSUME Inv, ToldInv, OnceInv, NEW a \in Activities, notifyNext(a)
    PROVE  OnceInv'
<1> DEFINE loop == Top(a)
           n == Len(stack[a])
           i == loop.next
           m == loop.msg
           e == [loop EXCEPT !.next = loop.next + 1]
           t == [stack[a] EXCEPT ![n] = e]
<1>1. /\ stack[a] # <<>>
      /\ StackOK(a, stack[a], message) /\ message \in MessageMaps
      /\ loop \in LoopEntries /\ loop = stack[a][n]
      /\ m \in Known(message) /\ m \in AllMessages /\ m # None
      /\ 1 <= loop.next /\ loop.next <= loop.count + 1
      /\ loop.count <= Len(message[m].parties)
      /\ Len(message[m].parties) \in Nat
      /\ n \in Nat /\ n > 1
  BY LoopFacts, KnownFacts DEF notifyNext
<1>2. /\ loop.next <= loop.count
      /\ Tell(a, [stack[a] EXCEPT ![n].next = @ + 1], message, loop.msg, loop.next)
  BY DEF notifyNext
<1>3. loop.next \in Nat /\ loop.count \in Nat /\ loop.kind \in Loops
  BY <1>1 DEF LoopEntries
<1>4. /\ e \in LoopEntries /\ e.kind = loop.kind /\ e.msg = m
      /\ e.next = i + 1 /\ e.count = loop.count /\ e \in Entries
  BY <1>1, <1>3 DEF LoopEntries, Entries
<1>5. i \in Nat /\ Tell(a, t, message, m, i) /\ i \in 1..Len(message[m].parties)
  BY <1>1, <1>2, <1>3
<1>6. stack[a] \in Seq(Entries) /\ n \in 1..n
  BY <1>1 DEF StackOK
<1> HIDE DEF loop, e
<1>7. /\ t \in Seq(Entries) /\ Len(t) = n
      /\ \A j \in 1..n : t[j] = IF j = n THEN e ELSE stack[a][j]
  BY <1>1, <1>4, <1>6, ExceptSeq
<1> HIDE DEF t
<1>8. StackOK(a, t, message) /\ t # <<>>
  <2>1. ASSUME NEW j \in 1..Len(t) PROVE EntryOK(a, t, j, message)
    <3>1. EntryOK(a, stack[a], j, message)
      BY <1>1, <1>7, <2>1 DEF StackOK
    <3>2. CASE j = n
      <4>1. t[j] = e /\ j # 1 /\ e.kind \in Loops /\ e.msg = m
        BY <1>1, <1>3, <1>4, <1>7, <3>2
      <4>2. /\ m \in Known(message) \cup {None} /\ e.kind \notin Bases
            /\ e.kind # "frame" /\ e.kind # "starting"
        BY <1>1, <4>1 DEF Loops, Bases
      <4>3. 1 <= e.next /\ e.next <= e.count + 1 /\ e.count <= Len(message[m].parties)
        BY <1>1, <1>2, <1>3, <1>4
      <4> HIDE DEF m
      <4> QED  BY <4>1, <4>2, <4>3 DEF EntryOK
    <3>3. CASE j # n
      BY <1>7, <3>1, <3>3 DEF EntryOK
    <3> QED  BY <3>2, <3>3
  <2> QED  BY <1>1, <1>7, <2>1, EmptySeq DEF StackOK
<1>9. \A j \in 1..n : t[j].kind = stack[a][j].kind /\ t[j].msg = stack[a][j].msg
  BY <1>1, <1>4, <1>7
<1>10. Started(t)
  BY <1>7, <1>9, StartedStack DEF Started
(* The stack seen with a record that is as complete as it was.             *)
<1>11. ASSUME NEW x \in Once, NEW q, Done(q) = Done(message[x]),
              \A j \in 1..n : t[j].msg = x => EntryOnce(a, q, t[j])
       PROVE  StackOnce(a, q, x, t)
  <2>1. StackOnce(a, message[x], x, stack[a])
    BY DEF OnceInv
  <2>2. ASSUME NEW j \in 1..n, NEW k \in 1..n, j < k, t[j].msg = x, t[k].msg = x
        PROVE  Together(t, j, k)
    <3>1. Together(stack[a], j, k)
      BY <1>9, <2>1, <2>2 DEF StackOnce
    <3> QED  BY <1>7, <1>9, <2>2, <3>1 DEF Together
  <2>3. ASSUME NEW j \in 1..n, t[j].msg = x, t[j].kind \in Bases, Done(q)
        PROVE  LoopAbove(t, x)
    <3>1. LoopAbove(stack[a], x)
      BY <1>9, <1>11, <2>1, <2>3 DEF StackOnce
    <3>2. 2 \in 1..n
      BY <1>1
    <3> QED  BY <1>7, <1>9, <3>1, <3>2 DEF LoopAbove
  <2> HIDE DEF n
  <2> QED  BY <1>7, <1>11, <2>2, <2>3 DEF StackOnce
<1>12. ASSUME NEW x \in Once \ {m}
       PROVE  /\ RecordOnce(message[x]) /\ Moves(a, message, message, x)
              /\ StackOnce(a, message[x], x, t)
  <2>1. RecordOnce(message[x]) /\ StackOnce(a, message[x], x, stack[a])
    BY DEF OnceInv
  <2>2. \A j \in 1..n : t[j].msg = x => EntryOnce(a, message[x], t[j])
    BY <1>4, <1>7, <2>1 DEF StackOnce
  <2> QED  BY <1>11, <2>1, <2>2, OnceStill
<1>13. ASSUME m \in Once
       PROVE  /\ RecordOnce(message[m]) /\ StackOnce(a, message[m], m, stack[a])
              /\ EntryOnce(a, message[m], loop)
  <2>1. RecordOnce(message[m]) /\ StackOnce(a, message[m], m, stack[a])
    BY <1>13 DEF OnceInv
  <2>2. EntryOnce(a, message[m], loop)
    BY <1>1, <1>6, <2>1 DEF StackOnce
  <2> QED  BY <2>1, <2>2
<1>14. m \in Once => message[m].parties[i].told = 0
  BY <1>3, <1>5, <1>13 DEF EntryOnce, UntoldFrom
<1>15. ASSUME m \in Once, NEW noted \in MessageMaps,
              noted[m].startActivity = message[m].startActivity,
              noted[m].notified = message[m].notified,
              noted[m].returned = message[m].returned,
              noted[m].raised = message[m].raised,
              Len(noted[m].parties) = Len(message[m].parties),
              \A j \in 1..Len(message[m].parties) :
                j # i => noted[m].parties[j] = message[m].parties[j],
              noted[m].parties[i].told = 1
       PROVE  /\ RecordOnce(noted[m]) /\ Moves(a, message, noted, m)
              /\ StackOnce(a, noted[m], m, t)
  <2> DEFINE q == noted[m]
             r == message[m]
  <2>1. /\ q.startActivity = r.startActivity /\ q.notified = r.notified
        /\ Done(q) = Done(r) /\ Len(q.parties) = Len(r.parties) /\ q.parties[i].told = 1
        /\ \A j \in 1..Len(r.parties) : j # i => q.parties[j] = r.parties[j]
    BY <1>15 DEF Done
  <2>2. /\ RecordOnce(r) /\ EntryOnce(a, r, loop) /\ StackOnce(a, r, m, stack[a])
        /\ Len(r.parties) \in Nat /\ i \in Nat
    BY <1>1, <1>5, <1>13, <1>15
  <2>3. EntryOnce(a, r, loop) = EntryOnce(a, r, loop) /\ loop.next = i
    BY DEF i
  <2> HIDE DEF q, r, i
  <2>4. Done(r) /\ ~r.notified /\ r.startActivity = a /\ UntoldFrom(r, i)
    BY <1>3, <2>2, <2>3 DEF EntryOnce
  <2>5. UntoldFrom(q, i + 1)
    <3>1. \A j \in 1..Len(r.parties) : j >= i + 1 => j >= i /\ j # i
      BY <2>2
    <3> QED  BY <2>1, <2>4, <3>1 DEF UntoldFrom
  <2>6. RecordOnce(q)
    BY <2>1, <2>2, <2>4 DEF RecordOnce
  <2>7. EntryOnce(a, q, e)
    BY <1>3, <1>4, <2>1, <2>4, <2>5 DEF EntryOnce
  <2>8. ASSUME NEW j \in 1..n, t[j].msg = m PROVE EntryOnce(a, q, t[j])
    <3>1. CASE j = n
      BY <1>7, <2>7, <3>1
    <3>2. CASE j # n
      <4>1. t[j] = stack[a][j] /\ j < n /\ stack[a][n].msg = m /\ stack[a][n].kind \in Loops
        BY <1>1, <1>3, <1>7, <3>2 DEF m
      <4> HIDE DEF m
      <4>2. Together(stack[a], j, n) /\ EntryOnce(a, r, t[j])
        BY <1>6, <2>2, <2>8, <4>1 DEF StackOnce
      <4>3. t[j].kind \in Bases
        BY <4>1, <4>2 DEF Together, Loops
      <4> QED  BY <2>1, <4>2, <4>3 DEF EntryOnce, Bases, Loops
    <3> QED  BY <3>1, <3>2
  <2>9. StackOnce(a, q, m, t)
    <3>1. m \in Once /\ r = message[m]
      BY <1>15 DEF r
    <3> HIDE DEF m, n
    <3> QED  BY <1>11, <2>1, <2>8, <3>1
  <2>10. Moves(a, message, noted, m)
    BY <2>4 DEF Moves, r
  <2> QED  BY <2>6, <2>9, <2>10 DEF q
<1> HIDE DEF i, m, n
<1> QED  BY <1>1, <1>5, <1>7, <1>8, <1>10, <1>12, <1>14, <1>15, OnceTell

LEMMA OnceEverybody ==
    ASSUME Inv, ToldInv, OnceInv, NEW a \in Activities, setAllNotified(a)
    PROVE  OnceInv'
<1> DEFINE m == Top(a).msg
           s == Front(stack[a])
           n == Len(stack[a])
           w == [message[m] EXCEPT !.notified = TRUE]
           t == IF Kind(s) \in Bases THEN <<>> ELSE s
<1>1. /\ stack[a] # <<>> /\ stack[a] \in Seq(Entries)
      /\ StackOK(a, stack[a], message) /\ message \in [AllMessages -> Message]
      /\ m \in AllMessages /\ m # None /\ Top(a).kind \in Loops
      /\ Top(a) = stack[a][n] /\ n \in Nat /\ n > 1 /\ n \in 1..n
      /\ n = Len(stack[a])
  BY LoopFacts, KnownFacts DEF setAllNotified, MessageMaps, StackOK, LoopEntries
<1>2. /\ message' = [message EXCEPT ![m] = w]
      /\ stack' = [stack EXCEPT ![a] = t]
      /\ reused' = reused /\ failed' = failed
  BY DEF setAllNotified, history
<1>3. /\ w.parties = message[m].parties /\ w.startActivity = message[m].startActivity
      /\ w.returned = message[m].returned /\ w.raised = message[m].raised
  BY <1>1 DEF Message
<1> HIDE DEF w
<1>4. /\ s \in Seq(Entries) /\ Len(s) = n - 1
      /\ \A i \in 1..n - 1 : s[i] = stack[a][i]
      /\ StackOK(a, s, message)
  BY <1>1, FrontFacts, PopOK
<1>5. ASSUME NEW x \in Once, x # m PROVE StackOnce(a, message[x], x, t)
  <2>1. StackOnce(a, message[x], x, stack[a])
    BY DEF OnceInv
  <2>2. StackOnce(a, message[x], x, s)
    BY <1>1, <1>5, <2>1, OnceFront
  <2>3. StackOnce(a, message[x], x, <<>>)
    <3>1. Absent(x, <<>>)
      BY DEF Absent
    <3> QED  BY <3>1, OnceAbsent
  <2> HIDE DEF s
  <2> QED  BY <2>2, <2>3
<1>6. stack[a][n].msg = m /\ stack[a][n].kind \in Loops
  BY <1>1
<1> HIDE DEF m, s, n
<1>7. ASSUME m \in Once
      PROVE  /\ RecordOnce(w) /\ message[m].startActivity = a /\ Absent(m, t)
  <2>1. RecordOnce(message[m]) /\ StackOnce(a, message[m], m, stack[a])
    BY <1>7 DEF OnceInv
  <2>2. EntryOnce(a, message[m], stack[a][n])
    BY <1>1, <1>6, <2>1 DEF StackOnce
  <2>3. RecordOnce(w) /\ message[m].startActivity = a
    BY <1>3, <2>1, <2>2 DEF RecordOnce, EntryOnce, Done, UntoldFrom
  <2>4. CASE Kind(s) \in Bases
    <3>1. t = <<>>
      BY <2>4
    <3> HIDE DEF t
    <3>2. Absent(m, <<>>)
      BY DEF Absent
    <3> QED  BY <2>3, <3>1, <3>2
  <2>5. CASE Kind(s) \notin Bases
    <3>1. ASSUME NEW i \in 1..Len(s), s[i].msg = m PROVE FALSE
      <4>1. i \in 1..n /\ i < n /\ s[i] = stack[a][i]
        BY <1>1, <1>4
      <4>2. Together(stack[a], i, n)
        BY <1>1, <1>6, <2>1, <3>1, <4>1 DEF StackOnce
      <4>3. s[i].kind \in Bases /\ n = 2
        BY <1>6, <4>1, <4>2 DEF Together, Loops
      <4>4. i = Len(s) /\ s # <<>>
        <5>1. Len(s) = 1
          BY <1>4, <4>3
        <5>2. i \in 1..1
          BY <5>1
        <5>3. s # <<>>
          BY <5>1, EmptySeq
        <5> QED  BY <5>1, <5>2, <5>3
      <4>5. Kind(s) = s[Len(s)].kind
        BY <1>4, <4>4, TopFacts
      <4> QED  BY <2>5, <4>3, <4>4, <4>5
    <3> QED  BY <2>3, <2>5, <3>1 DEF Absent
  <2> QED  BY <2>4, <2>5
<1> HIDE DEF t
<1>8. ASSUME NEW x \in AllMessages \ (reused' \cup failed')
      PROVE  /\ RecordOnce(message'[x]) /\ Moves(a, message, message', x)
             /\ StackOnce(a, message'[x], x, t)
  <2>1. x \in Once
    BY <1>2 DEF Once
  <2>2. CASE x = m
    BY <1>1, <1>2, <1>7, <2>1, <2>2, OnceAbsent DEF Moves
  <2>3. CASE x # m
    BY <1>1, <1>2, <1>5, <2>1, <2>3 DEF OnceInv, Moves, Mild
  <2> QED  BY <2>2, <2>3
<1> QED  BY <1>2, <1>8, OnceMoves

LEMMA OnceRaising ==
    ASSUME Inv, ToldInv, OnceInv, NEW a \in Activities, raise(a) \/ trapped(a) \/ wake(a)
    PROVE  OnceInv'
<1>1. /\ message' = message /\ reused' = reused
      /\ stack \in [Activities -> Seq(Entries)] /\ StackOK(a, stack[a], message)
  BY StackFacts DEF raise, trapped, wake, history, Inv, Typed
<1>2. \A x \in Once : /\ RecordOnce(message[x]) /\ Moves(a, message, message, x)
                      /\ StackOnce(a, message[x], x, stack[a])
  BY OnceStill DEF OnceInv
<1>3. CASE raise(a)
  <2>1. RaiseFrom(a, stack[a]) /\ stack[a] # <<>>
    BY <1>3, StackFacts DEF raise, InRexx, Turn
  <2> QED  BY <1>1, <1>2, <2>1, OnceRaise DEF Once
<1>4. CASE trapped(a) \/ wake(a)
  <2>1. stack' = [stack EXCEPT ![a] = stack[a]] /\ failed' = failed
    BY <1>1, <1>4 DEF trapped, wake, history
  <2> QED  BY <1>1, <1>2, <2>1, OnceShrinks DEF Once
<1> QED  BY <1>3, <1>4

LEMMA OnceTrapping ==
    ASSUME Inv, ToldInv, OnceInv, NEW a \in Activities, trapNotifies(a)
    PROVE  OnceInv'
<1> DEFINE m == Top(a).msg
           s == stack[a]
           n == Len(s)
<1>1. /\ s # <<>> /\ m # None /\ error(a, s, m) /\ Kind(s) = "frame"
  BY StackFacts DEF trapNotifies, Raising
<1>2. /\ StackOK(a, s, message) /\ s[n].kind = "frame" /\ s[n].msg = m /\ n \in 1..n
      /\ s[n] \in Entries /\ s[1].kind \in Activations /\ s \in Seq(Entries) /\ n \in Nat
  BY <1>1, StackFacts, TopFacts DEF Top
<1>3. m \in AllMessages
  BY <1>1, <1>2 DEF Entries, FrameEntries, DispatchEntries, LoopEntries, Bases, Loops
<1>4. /\ sendNotification(a, s, "reporting", m, [message[m] EXCEPT !.raised = TRUE])
      /\ reused' = reused /\ failed' = failed /\ "reporting" \in Loops
  BY <1>1 DEF error, history, Loops
<1>5. TopFrame(s) = n
  <2>1. /\ TopFrame(s) \in 1..n
        /\ \A i \in TopFrame(s) + 1..n : s[i].kind \notin Activations
    BY <1>1, <1>2, UnwoundFacts
  <2>2. s[n].kind \in Activations
    BY <1>2 DEF Activations
  <2>3. n \notin TopFrame(s) + 1..n
    BY <2>1, <2>2
  <2> HIDE DEF n
  <2> QED  BY <1>2, <2>1, <2>3
<1>6. \A x \in Once : StackOnce(a, message[x], x, s)
  BY DEF OnceInv
<1> HIDE DEF m
<1>7. ASSUME m \in Once
      PROVE  /\ message[m].startActivity = a /\ ~Done(message[m])
             /\ \A i \in 1..n : s[i].msg = m =>
                  \/ i = TopFrame(s) /\ s[i].kind = "frame"
                  \/ i = 1 /\ n = 1 /\ s[i].kind \in Bases \ {"starting"}
  <2>1. StackOnce(a, message[m], m, s)
    BY <1>6, <1>7
  <2>2. EntryOnce(a, message[m], s[n])
    BY <1>2, <2>1 DEF StackOnce
  <2>3. message[m].startActivity = a /\ ~Done(message[m])
    BY <1>2, <2>2 DEF EntryOnce, Loops, Bases
  <2>4. ASSUME NEW i \in 1..n, s[i].msg = m PROVE i = n
    <3>1. i < n => Together(s, i, n)
      BY <1>2, <2>1, <2>4 DEF StackOnce
    <3>2. ~(i < n)
      BY <1>2, <3>1 DEF Together, Loops
    <3> HIDE DEF n
    <3> QED  BY <1>2, <3>2
  <2> QED  BY <1>2, <1>5, <2>3, <2>4
<1> HIDE DEF s
<1> QED  BY <1>1, <1>2, <1>3, <1>4, <1>6, <1>7, OnceNotifying

LEMMA OnceUntrapped ==
    ASSUME Inv, ToldInv, OnceInv, NEW a \in Activities, untrapped(a)
    PROVE  OnceInv'
<1> DEFINE s == Front(stack[a])
<1>1. /\ stack[a] # <<>> /\ message' = message /\ reused' = reused
      /\ Kind(stack[a]) = "frame"
      /\ IF TopFrame(s) = 0
         THEN stack' = [stack EXCEPT ![a] = <<>>] /\ failed' = failed
         ELSE RaiseFrom(a, s)
  BY StackFacts DEF untrapped, Raising
<1>2. /\ stack[a] \in Seq(Entries) /\ stack[a][Len(stack[a])].kind = "frame"
      /\ StackOK(a, s, message)
  BY <1>1, StackFacts, TopFacts, PopOK
<1>3. ASSUME NEW x \in Once
      PROVE  /\ RecordOnce(message[x]) /\ Moves(a, message, message, x)
             /\ StackOnce(a, message[x], x, s)
  <2>1. StackOnce(a, message[x], x, stack[a]) /\ RecordOnce(message[x])
    BY DEF OnceInv
  <2>2. StackOnce(a, message[x], x, s)
    BY <1>1, <1>2, <2>1, OnceFront DEF Loops
  <2> QED  BY <2>1, <2>2, OnceStill
<1>4. CASE TopFrame(s) = 0
  <2>1. \A x : Absent(x, <<>>)
    BY DEF Absent
  <2> QED  BY <1>1, <1>4, <2>1, OnceAbsent, OnceShrinks
<1>5. CASE TopFrame(s) # 0
  <2>1. s # <<>>
    BY <1>5, NothingBelow
  <2> HIDE DEF s
  <2> QED  BY <1>1, <1>2, <1>3, <1>5, <2>1, OnceRaise DEF Once
<1> QED  BY <1>4, <1>5

LEMMA OnceHandling ==
    ASSUME Inv, ToldInv, OnceInv, NEW a \in Activities, handleError(a)
    PROVE  OnceInv'
<1> DEFINE m == Top(a).msg
<1>1. ASSUME NEW k \in {"handling", "catching"},
             Kind(stack[a]) \in {"running", "handling"},
             error(a, <<Entry(k, m)>>, m)
      PROVE  OnceInv'
  <2> DEFINE n == Len(stack[a])
  <2>1. stack[a] # <<>>
    BY <1>1, StackFacts
  <2>2. /\ stack[a][n] \in Entries /\ stack[a][n].kind \in Bases \ {"starting"}
        /\ stack[a][n].msg = m /\ n \in 1..n /\ n \in Nat
        /\ EntryOK(a, stack[a], n, message)
    BY <1>1, <2>1, StackFacts, TopFacts DEF Bases, Top
  <2>3. m \in AllMessages /\ m # None
    BY <2>2, MessageAssumption
       DEF Entries, FrameEntries, DispatchEntries, LoopEntries, Loops, Bases, AllMessages
  <2>4. n = 1
    BY <2>2 DEF EntryOK
  <2> HIDE DEF m
  <2>5. ASSUME m \in Once PROVE message[m].startActivity = a /\ ~Done(message[m])
    <3>1. StackOnce(a, message[m], m, stack[a])
      BY <2>5 DEF OnceInv
    <3>2. EntryOnce(a, message[m], stack[a][n]) /\ ~LoopAbove(stack[a], m)
      BY <2>2, <2>4, <3>1 DEF StackOnce, LoopAbove
    <3> QED  BY <2>2, <3>1, <3>2 DEF StackOnce, EntryOnce
  <2> DEFINE e == Entry(k, m)
  <2>6. e \in Entries /\ e.kind = k /\ e.msg = m
    BY <2>3, EntryFacts DEF Bases
  <2>7. sendNotification(a, <<e>>, "reporting", m, [message[m] EXCEPT !.raised = TRUE])
        /\ reused' = reused /\ failed' = failed
    BY <1>1 DEF error, history, m
  <2> HIDE DEF e
  <2> DEFINE t == <<e>>
  <2>8. t \in Seq(Entries) /\ t # <<>> /\ Len(t) = 1 /\ t[1] = e
    BY <2>6
  <2> HIDE DEF t, n
  <2>9. t[1].kind \in Activations /\ t[1].kind \in Bases \ {"starting"}
        /\ "reporting" \in Loops /\ t[1].msg = m
    BY <1>1, <2>6, <2>8 DEF Activations, Bases, Loops
  <2>10. \A i \in 1..1 : i = 1
    OBVIOUS
  <2>11. ASSUME NEW x \in Once PROVE StackOnce(a, message[x], x, t)
    <3>1. CASE x = m
      <4>1. EntryOnce(a, message[x], t[1]) /\ ~Done(message[x])
        BY <2>5, <2>9, <3>1 DEF EntryOnce, Bases, Loops
      <4> QED  BY <2>8, <2>10, <4>1 DEF StackOnce
    <3>2. CASE x # m
      <4>1. Absent(x, t)
        BY <2>8, <2>9, <2>10, <3>2 DEF Absent
      <4> QED  BY <4>1, OnceAbsent
    <3> QED  BY <3>1, <3>2
  <2>12. m \in Once =>
           /\ message[m].startActivity = a /\ ~Done(message[m])
           /\ \A i \in 1..Len(t) : t[i].msg = m =>
                \/ i = TopFrame(t) /\ t[i].kind = "frame"
                \/ i = 1 /\ Len(t) = 1 /\ t[i].kind \in Bases \ {"starting"}
    BY <2>5, <2>8, <2>9, <2>10
  <2>13. sendNotification(a, t, "reporting", m, [message[m] EXCEPT !.raised = TRUE])
    BY <2>7 DEF t
  <2> QED  BY <2>3, <2>7, <2>8, <2>9, <2>11, <2>12, <2>13, OnceNotifying
<1>2. CASE Kind(stack[a]) = "running" /\ error(a, <<Entry("handling", m)>>, m)
  BY <1>1, <1>2
<1>3. CASE Kind(stack[a]) = "handling" /\ error(a, <<Entry("catching", m)>>, m)
  BY <1>1, <1>3
<1>4. CASE /\ stack' = [stack EXCEPT ![a] = <<>>]
           /\ UNCHANGED <<message, waitingObject, history>>
  <2>1. \A x : Absent(x, <<>>)
    BY DEF Absent
  <2> QED  BY <1>4, <2>1, OnceAbsent, OnceShrinks DEF history
<1> QED  BY <1>2, <1>3, <1>4 DEF handleError

LEMMA OnceSignal ==
    ASSUME Inv, ToldInv, OnceInv, NEW a \in Activities, signalUser(a)
    PROVE  OnceInv'
<1> DEFINE s == Front(stack[a])
           t == Unwound(s)
           cut == {e.msg : e \in {e \in CallsAbove(s) : e.kind # "dispatch"}}
<1>1. /\ stack[a] # <<>> /\ Kind(t) = "frame" /\ Kind(stack[a]) = "frame"
      /\ stack' = [stack EXCEPT ![a] = t]
      /\ message' = message /\ reused' = reused /\ failed' = failed \cup cut
  BY StackFacts DEF signalUser, InRexx, Turn
<1>2. s # <<>>
  BY <1>1, NothingBelow
<1>3. /\ stack[a] \in Seq(Entries) /\ stack[a][Len(stack[a])].kind = "frame"
      /\ StackOK(a, s, message)
  BY <1>1, StackFacts, TopFacts, PopOK
<1>4. \A x \in Once : StackOnce(a, message[x], x, s)
  <2> TAKE x \in Once
  <2>1. StackOnce(a, message[x], x, stack[a])
    BY DEF OnceInv
  <2> QED  BY <1>1, <1>3, <2>1, OnceFront DEF Loops
<1> HIDE DEF s
<1>5. s \in Seq(Entries) /\ s[1].kind \in Activations /\ Len(s) \in Nat
  BY <1>2, <1>3, TopFacts
<1>6. /\ TopFrame(s) \in 1..Len(s) /\ t \in Seq(Entries) /\ Len(t) = TopFrame(s)
      /\ \A i \in 1..TopFrame(s) : t[i] = s[i]
  BY <1>2, <1>5, UnwoundFacts
<1> HIDE DEF t
<1>7. ASSUME NEW x \in AllMessages \ (reused \cup failed')
      PROVE  StackOnce(a, message[x], x, t)
  <2>1. x \in Once /\ x \notin cut
    BY <1>1 DEF Once
  <2>2. ASSUME LoopAbove(s, x), TopFrame(s) = 1 PROVE FALSE
    <3>1. 2 \in TopFrame(s) + 1..Len(s)
      BY <1>5, <2>2 DEF LoopAbove
    <3>2. s[2] \in CallsAbove(s) /\ s[2].kind # "dispatch"
      BY <2>2, <3>1 DEF CallsAbove, LoopAbove, Loops
    <3>3. s[2].msg \in cut
      BY <3>2
    <3> HIDE DEF cut
    <3> QED  BY <2>1, <2>2, <3>3 DEF LoopAbove
  <2> HIDE DEF cut
  <2>3. Len(t) <= Len(s) /\ \A i \in 1..Len(t) : t[i] = s[i]
    BY <1>5, <1>6
  <2>4. LoopAbove(s, x) => Len(t) # 1
    BY <1>6, <2>2
  <2> QED  BY <1>4, <1>5, <1>6, <2>1, <2>3, <2>4, OncePrefix
<1> QED  BY <1>1, <1>7, OnceShrinks

LEMMA OnceInit == Init => OnceInv
<1> SUFFICES ASSUME Init, NEW x \in Once
             PROVE  /\ RecordOnce(message[x])
                    /\ \A a \in Activities : StackOnce(a, message[x], x, stack[a])
  BY DEF OnceInv
<1>1. message[x] = NewMessage /\ x # None
  BY MessageAssumption DEF Init, Once, AllMessages
<1>2. RecordOnce(message[x])
  <2>1. NewMessage.parties = <<>> /\ Len(<<>>) = 0
    BY DEF NewMessage
  <2>2. \A j \in 1..0 : FALSE
    OBVIOUS
  <2> QED  BY <1>1, <2>1, <2>2 DEF RecordOnce, UntoldFrom
<1>3. PICK a \in Activities :
         stack = [b \in Activities |-> IF b = a THEN <<Entry("frame", None)>> ELSE <<>>]
  BY DEF Init
<1>4. Absent(x, <<Entry("frame", None)>>)
  <2> DEFINE e == Entry("frame", None)
             t == <<e>>
  <2>1. e.msg = None
    BY EntryFacts
  <2> HIDE DEF e
  <2>2. Len(t) = 1 /\ t[1] = e
    OBVIOUS
  <2> HIDE DEF t
  <2>3. Absent(x, t)
    BY <1>1, <2>1, <2>2 DEF Absent
  <2> QED  BY <2>3 DEF t, e
<1>5. Absent(x, <<>>)
  BY DEF Absent
<1>6. ASSUME NEW b \in Activities PROVE StackOnce(b, message[x], x, stack[b])
  <2>1. stack[b] = <<Entry("frame", None)>> \/ stack[b] = <<>>
    BY <1>3
  <2> QED  BY <1>4, <1>5, <2>1, OnceAbsent
<1> QED  BY <1>2, <1>6

LEMMA OnceStays == Inv /\ ToldInv /\ OnceInv /\ [Next]_vars => OnceInv'
<1> SUFFICES ASSUME Inv, ToldInv, OnceInv, [Next]_vars PROVE OnceInv'
  OBVIOUS
<1>1. CASE UNCHANGED vars
  BY <1>1 DEF vars, OnceInv, Once, RecordOnce, StackOnce, EntryOnce, Done, UntoldFrom,
              Together, LoopAbove
<1>2. ASSUME NEW a \in Activities, Use(a) PROVE OnceInv'
  <2>1. PICK m \in Created :
            \/ sendMessage(a, m) \/ start(a, m) \/ reply(a, m) \/ wait(a, m)
            \/ \E p \in Created \cup Listeners : notify(a, m, p)
    BY <1>2 DEF Use
  <2> QED  BY <2>1, OnceSending, OnceStarting, OnceReplying, OnceWaiting, OnceListening
<1>3. ASSUME NEW a \in Activities, Complete(a) PROVE OnceInv'
  BY <1>3, OnceReturning, OnceNext, OnceEverybody DEF Complete
<1>4. ASSUME NEW a \in Activities, Fail(a) PROVE OnceInv'
  BY <1>4, OnceRaising, OnceTrapping, OnceUntrapped, OnceHandling, OnceSignal DEF Fail
<1>5. ASSUME NEW a \in Activities, runStarted(a) \/ wake(a) PROVE OnceInv'
  BY <1>5, OnceRunStarted, OnceRaising
<1> QED  BY <1>1, <1>2, <1>3, <1>4, <1>5 DEF Next

(* A message object that is used once tells nobody twice - the return of   *)
(* its method, an error that comes later, the bases of threads and a       *)
(* notify() during the notification included - unless a party fails at it. *)
THEOREM NobodyIsToldTwice == Spec => []ToldOnce
<1>1. Inv /\ OnceInv => ToldOnce
  <2> SUFFICES ASSUME Inv, OnceInv, NEW m \in AllMessages \ (reused \cup failed)
               PROVE  \A p \in ToSet(message[m].parties) : p.told <= 1
    BY DEF ToldOnce
  <2>1. RecordOnce(message[m])
    BY DEF OnceInv, Once
  <2>2. message[m].parties \in Seq(Party)
    BY PartiesSeq DEF Inv, Typed
  <2>3. DOMAIN message[m].parties = 1..Len(message[m].parties)
    BY <2>2, LenProperties
  <2> QED  BY <2>1, <2>3 DEF ToSet, RecordOnce
<1>2. Init => Inv /\ ToldInv /\ OnceInv
  BY InvInit, ToldInit, OnceInit
<1>3. Inv /\ ToldInv /\ OnceInv /\ [Next]_vars => (Inv /\ ToldInv /\ OnceInv)'
  BY InvNext, ToldStays, OnceStays DEF Stepped, ToldStepped
<1> QED  BY <1>1, <1>2, <1>3, PTL DEF Spec

-----------------------------------------------------------------------------
(***************************************************************************)
(* What becomes of a dispatch.  Its method runs right above it, and the    *)
(* frame below knows the message, unless that is the base of a thread.     *)
(***************************************************************************)
Nested(s) ==
    \A i \in 1..Len(s) : s[i].kind = "dispatch" =>
        /\ i + 1 \in 1..Len(s) /\ s[i + 1].kind = "frame"
        /\ \A f \in 1..i - 1 :
             /\ s[f].kind = "frame"
             /\ \A k \in f + 1..i - 1 : s[k].kind \notin Activations
             => s[f].msg = s[i].msg
BasesOK(f, s) ==
    \A i \in 1..Len(s) : s[i].kind \in Bases =>
        /\ f[s[i].msg].activated /\ f[s[i].msg].startActivity # None
        /\ s[i].kind \in {"handling", "catching"} => Done(f[s[i].msg])
Live(s, m) == \E i \in 1..Len(s) : s[i].kind \in {"dispatch", "starting"} /\ s[i].msg = m
Active(s, p, m) == Live(s, m) \/ (p = "raise" /\ Last(s).msg = m)

FlowInv ==
    /\ \A a \in Activities : /\ Nested(stack[a]) /\ BasesOK(message, stack[a])
                             /\ mode[a] = "raise" => stack[a] # <<>>
    /\ \A m \in AllMessages \ (reused \cup lost) :
         message[m].startActivity # None =>
             Done(message[m]) \/ \E a \in Activities : Active(stack[a], mode[a], m)

(* A part of the stack, and the stack with something on top.               *)
LEMMA NestedPrefix ==
    ASSUME NEW s, NEW t, Nested(s), Len(t) \in Nat, Len(s) \in Nat, Len(t) <= Len(s),
           \A i \in 1..Len(t) : t[i] = s[i],
           Len(t) # 0 => t[Len(t)].kind # "dispatch"
    PROVE  Nested(t)
<1> SUFFICES ASSUME NEW i \in 1..Len(t), t[i].kind = "dispatch"
    PROVE  /\ i + 1 \in 1..Len(t) /\ t[i + 1].kind = "frame"
           /\ \A f \in 1..i - 1 :
                /\ t[f].kind = "frame"
                /\ \A k \in f + 1..i - 1 : t[k].kind \notin Activations
                => t[f].msg = t[i].msg
  BY DEF Nested
<1>1. PICK x \in Nat, y \in Nat : x = Len(t) /\ y = Len(s)
  OBVIOUS
<1>2. /\ i \in 1..Len(s) /\ i # Len(t) /\ t[i] = s[i]
      /\ i \in 1..x /\ x <= y /\ i # x
  <2>1. x # 0 /\ i \in 1..x /\ x <= y
    BY <1>1
  <2>2. i \in 1..y
    BY <2>1
  <2> QED  BY <1>1, <2>1, <2>2
<1>3. i + 1 \in 1..x
  BY <1>2
<1>4. /\ s[i + 1].kind = "frame"
      /\ \A f \in 1..i - 1 :
           /\ s[f].kind = "frame"
           /\ \A k \in f + 1..i - 1 : s[k].kind \notin Activations
           => s[f].msg = s[i].msg
  BY <1>2 DEF Nested
<1>5. \A f \in 1..i - 1 : f \in 1..x /\ \A k \in f + 1..i - 1 : k \in 1..x
  BY <1>2
<1>6. \A f \in 1..i - 1 : t[f] = s[f] /\ \A k \in f + 1..i - 1 : t[k] = s[k]
  BY <1>1, <1>5
<1> QED  BY <1>1, <1>2, <1>3, <1>4, <1>6

LEMMA NestedNotify ==
    ASSUME NEW s \in Seq(Entries), s # <<>>, s[1].kind \in Activations,
           NEW m \in AllMessages \cup {None}, Nested(s)
    PROVE  /\ Nested(setObjNotify(s, m))
           /\ \A x : Live(s, x) <=> Live(setObjNotify(s, m), x)
<1> DEFINE t == setObjNotify(s, m)
           h == TopFrame(s)
<1>1. /\ t \in Seq(Entries) /\ Len(t) = Len(s) /\ Len(s) \in Nat
      /\ \A i \in 1..Len(s) : /\ t[i].kind = s[i].kind
                              /\ i # h => t[i] = s[i]
                              /\ t[i] # s[i] => s[i].kind = "frame"
  BY NotifyFacts, LenProperties
<1>2. h \in 1..Len(s) /\ \A i \in h + 1..Len(s) : s[i].kind \notin Activations
  BY UnwoundFacts
<1> HIDE DEF t, h
<1>3. ASSUME NEW i \in 1..Len(t), t[i].kind = "dispatch"
      PROVE  /\ i + 1 \in 1..Len(t) /\ t[i + 1].kind = "frame"
             /\ \A f \in 1..i - 1 :
                  /\ t[f].kind = "frame"
                  /\ \A k \in f + 1..i - 1 : t[k].kind \notin Activations
                  => t[f].msg = t[i].msg
  <2>1. /\ i \in 1..Len(s) /\ s[i].kind = "dispatch" /\ t[i] = s[i]
    BY <1>1, <1>3
  <2>2. /\ i + 1 \in 1..Len(s) /\ s[i + 1].kind = "frame"
        /\ \A f \in 1..i - 1 :
             /\ s[f].kind = "frame"
             /\ \A k \in f + 1..i - 1 : s[k].kind \notin Activations
             => s[f].msg = s[i].msg
    BY <2>1 DEF Nested
  <2>3. ~(h < i)
    <3>1. ~(i + 1 \in h + 1..Len(s))
      BY <1>2, <2>2 DEF Activations
    <3> QED  BY <1>1, <1>2, <2>2, <3>1
  <2>4. \A f \in 1..i - 1 : f \in 1..Len(s) /\ f # h
                            /\ \A k \in f + 1..i - 1 : k \in 1..Len(s)
    BY <1>1, <1>2, <2>1, <2>3
  <2>5. \A f \in 1..i - 1 : t[f] = s[f] /\ \A k \in f + 1..i - 1 : t[k].kind = s[k].kind
    BY <1>1, <2>4
  <2> QED  BY <1>1, <2>1, <2>2, <2>5
<1>4. Nested(t)
  BY <1>3 DEF Nested
<1>5. ASSUME NEW x PROVE Live(s, x) <=> Live(t, x)
  BY <1>1 DEF Live
<1> QED  BY <1>4, <1>5 DEF t

LEMMA NestedPush ==
    ASSUME NEW s \in Seq(Entries), NEW e \in Entries, Nested(s), e.kind # "dispatch"
    PROVE  /\ Nested(Append(s, e))
           /\ \A x : Live(s, x) => Live(Append(s, e), x)
<1> DEFINE t == Append(s, e)
<1>1. /\ Len(t) = Len(s) + 1 /\ t[Len(s) + 1] = e /\ Len(s) \in Nat
      /\ \A i \in 1..Len(s) : t[i] = s[i]
  BY AppendProperties, LenProperties
<1> HIDE DEF t
<1>2. PICK n \in Nat : n = Len(s)
  BY <1>1
<1>3. ASSUME NEW i \in 1..Len(t), t[i].kind = "dispatch"
      PROVE  /\ i + 1 \in 1..Len(t) /\ t[i + 1].kind = "frame"
             /\ \A f \in 1..i - 1 :
                  /\ t[f].kind = "frame"
                  /\ \A k \in f + 1..i - 1 : t[k].kind \notin Activations
                  => t[f].msg = t[i].msg
  <2>1. i \in 1..n
    BY <1>1, <1>2, <1>3
  <2>2. /\ i + 1 \in 1..n /\ s[i + 1].kind = "frame" /\ t[i] = s[i]
        /\ \A f \in 1..i - 1 :
             /\ s[f].kind = "frame"
             /\ \A k \in f + 1..i - 1 : s[k].kind \notin Activations
             => s[f].msg = s[i].msg
    BY <1>1, <1>2, <1>3, <2>1 DEF Nested
  <2>3. \A f \in 1..i - 1 : f \in 1..n /\ \A k \in f + 1..i - 1 : k \in 1..n
    BY <2>1
  <2>4. \A f \in 1..i - 1 : t[f] = s[f] /\ \A k \in f + 1..i - 1 : t[k] = s[k]
    BY <1>1, <1>2, <2>3
  <2>5. i + 1 \in 1..n + 1
    BY <2>1
  <2> QED  BY <1>1, <1>2, <2>2, <2>4, <2>5
<1>4. Nested(t)
  BY <1>3 DEF Nested
<1>5. ASSUME NEW x, Live(s, x) PROVE Live(t, x)
  <2>1. PICK i \in 1..Len(s) : s[i].kind \in {"dispatch", "starting"} /\ s[i].msg = x
    BY <1>5 DEF Live
  <2>2. i \in 1..Len(t) /\ t[i] = s[i]
    BY <1>1
  <2> QED  BY <2>1, <2>2 DEF Live
<1> QED  BY <1>4, <1>5 DEF t

(* A call.  The frame that sends learns of the message.                    *)
LEMMA NestedCall ==
    ASSUME NEW s \in Seq(Entries), s # <<>>, s[1].kind \in Activations, Nested(s),
           NEW m \in AllMessages
    PROVE  LET t == setObjNotify(s, m) \o <<Entry("dispatch", m), Entry("frame", None)>>
           IN  /\ Nested(t) /\ Live(t, m)
               /\ \A x : Live(s, x) => Live(t, x)
<1> DEFINE q == setObjNotify(s, m)
           d == Entry("dispatch", m)
           e == Entry("frame", None)
           u == Append(q, d)
           t == Append(u, e)
           h == TopFrame(s)
<1>1. /\ q \in Seq(Entries) /\ Len(q) = Len(s) /\ Len(s) \in Nat
      /\ \A i \in 1..Len(s) : q[i].kind = s[i].kind
      /\ s[h].kind = "frame" => q[h].msg = m
      /\ Nested(q) /\ \A x : Live(s, x) <=> Live(q, x)
      /\ h \in 1..Len(s) /\ s[h].kind \in Activations
      /\ \A i \in h + 1..Len(s) : s[i].kind \notin Activations
  <2>1. h \in 1..Len(s) /\ s[h].kind \in Activations
        /\ \A i \in h + 1..Len(s) : s[i].kind \notin Activations
    BY UnwoundFacts
  <2>2. /\ q \in Seq(Entries) /\ Len(q) = Len(s)
        /\ \A i \in 1..Len(s) :
              /\ q[i].kind = s[i].kind
              /\ i = h => IF s[i].kind = "frame" THEN q[i].msg = m ELSE q[i] = s[i]
    BY NotifyFacts
  <2>3. Nested(q) /\ \A x : Live(s, x) <=> Live(q, x)
    BY NestedNotify
  <2> HIDE DEF q, h
  <2>4. s[h].kind = "frame" => q[h].msg = m
    BY <2>1, <2>2
  <2> QED  BY <2>1, <2>2, <2>3, <2>4, LenProperties
<1>2. /\ d \in Entries /\ d.kind = "dispatch" /\ d.msg = m
      /\ e \in Entries /\ e.kind = "frame" /\ e.msg = None
  BY EntryFacts
<1>3. t = q \o <<d, e>>
  <2> HIDE DEF q, d, e
  <2> QED  BY <1>1, <1>2, TwoOnTop
<1> HIDE DEF q, d, e, h
<1>4. PICK n \in Nat : n = Len(s)
  BY <1>1
<1>5. /\ t \in Seq(Entries) /\ Len(t) = n + 2 /\ t[n + 1] = d /\ t[n + 2] = e
      /\ \A i \in 1..n : t[i] = q[i]
  <2>0. q \in Seq(Entries) /\ Len(q) = n /\ d \in Entries
    BY <1>1, <1>2, <1>4
  <2> HIDE DEF t
  <2>1. /\ u \in Seq(Entries) /\ Len(u) = n + 1 /\ u[n + 1] = d
        /\ \A i \in 1..n : u[i] = q[i]
    BY <2>0, AppendProperties
  <2> HIDE DEF u
  <2>2. /\ t \in Seq(Entries) /\ Len(t) = n + 1 + 1 /\ t[n + 1 + 1] = e
        /\ \A i \in 1..n + 1 : t[i] = u[i]
    BY <1>2, <2>1, AppendProperties DEF t
  <2>3. n + 1 + 1 = n + 2 /\ n + 1 \in 1..n + 1 /\ \A i \in 1..n : i \in 1..n + 1
    OBVIOUS
  <2> HIDE DEF t
  <2> QED  BY <2>1, <2>2, <2>3
<1> HIDE DEF u, t
<1>6. ASSUME NEW i \in 1..Len(t), t[i].kind = "dispatch"
      PROVE  /\ i + 1 \in 1..Len(t) /\ t[i + 1].kind = "frame"
             /\ \A f \in 1..i - 1 :
                  /\ t[f].kind = "frame"
                  /\ \A k \in f + 1..i - 1 : t[k].kind \notin Activations
                  => t[f].msg = t[i].msg
  <2>1. i \in 1..n + 2 /\ (i \in 1..n \/ i = n + 1 \/ i = n + 2)
    BY <1>5, <1>6
  <2>2. CASE i = n + 2
    BY <1>2, <1>5, <1>6, <2>2
  <2>3. CASE i = n + 1
    <3>1. i + 1 = n + 2 /\ n + 2 \in 1..n + 2 /\ i - 1 = n
      BY <2>3
    <3>2. t[i] = d /\ t[i + 1] = e
      BY <1>5, <2>3, <3>1
    <3>3. ASSUME NEW f \in 1..n, t[f].kind = "frame",
                 \A k \in f + 1..n : t[k].kind \notin Activations
          PROVE  t[f].msg = m
      <4>1. ~(h \in f + 1..n)
        <5>1. h \in f + 1..n => t[h].kind \notin Activations
          BY <3>3
        <5>2. t[h].kind \in Activations
          BY <1>1, <1>4, <1>5
        <5> QED  BY <5>1, <5>2
      <4>2. ~(f \in h + 1..n)
        <5>1. t[f].kind = s[f].kind
          BY <1>1, <1>4, <1>5
        <5> QED  BY <1>1, <1>4, <3>3, <5>1 DEF Activations
      <4>3. f = h
        BY <1>1, <1>4, <4>1, <4>2
      <4> QED  BY <1>1, <1>4, <1>5, <3>3, <4>3
    <3> QED  BY <1>2, <1>5, <3>1, <3>2, <3>3
  <2>4. CASE i \in 1..n
    <3>1. /\ i + 1 \in 1..n /\ q[i + 1].kind = "frame" /\ t[i] = q[i]
          /\ \A f \in 1..i - 1 :
               /\ q[f].kind = "frame"
               /\ \A k \in f + 1..i - 1 : q[k].kind \notin Activations
               => q[f].msg = q[i].msg
      BY <1>1, <1>4, <1>5, <1>6, <2>4 DEF Nested
    <3>2. \A f \in 1..i - 1 : f \in 1..n /\ \A k \in f + 1..i - 1 : k \in 1..n
      BY <2>4
    <3>3. \A f \in 1..i - 1 : t[f] = q[f] /\ \A k \in f + 1..i - 1 : t[k] = q[k]
      BY <1>5, <3>2
    <3>4. i + 1 \in 1..n + 2
      BY <2>4
    <3> QED  BY <1>5, <3>1, <3>3, <3>4
  <2> QED  BY <2>1, <2>2, <2>3, <2>4
<1>7. Nested(t)
  BY <1>6 DEF Nested
<1>8. Live(t, m)
  <2>1. n + 1 \in 1..Len(t)
    BY <1>5
  <2> QED  BY <1>2, <1>5, <2>1 DEF Live
<1>9. ASSUME NEW x, Live(s, x) PROVE Live(t, x)
  <2>1. PICK i \in 1..n : q[i].kind \in {"dispatch", "starting"} /\ q[i].msg = x
    BY <1>1, <1>4, <1>9 DEF Live
  <2>2. i \in 1..Len(t) /\ t[i] = q[i]
    BY <1>5
  <2> QED  BY <2>1, <2>2 DEF Live
<1> QED  BY <1>3, <1>7, <1>8, <1>9 DEF q, d, e

LEMMA BasesKept ==
    ASSUME NEW f, NEW g, Grows(f, g), NEW s \in Seq(Entries), BasesOK(f, s)
    PROVE  BasesOK(g, s)
<1> SUFFICES ASSUME NEW i \in 1..Len(s), s[i].kind \in Bases
             PROVE  /\ g[s[i].msg].activated /\ g[s[i].msg].startActivity # None
                    /\ s[i].kind \in {"handling", "catching"} => Done(g[s[i].msg])
  BY DEF BasesOK
<1>1. s[i] \in Entries
  BY ElementOfSeq
<1>2. s[i].msg \in AllMessages
  BY <1>1 DEF Entries, FrameEntries, DispatchEntries, LoopEntries, Bases, Loops
<1>3. /\ f[s[i].msg].activated /\ f[s[i].msg].startActivity # None
      /\ s[i].kind \in {"handling", "catching"} => Done(f[s[i].msg])
  BY DEF BasesOK
<1> QED  BY <1>2, <1>3 DEF Grows, Done

LEMMA BasesPrefix ==
    ASSUME NEW f, NEW s, NEW t, BasesOK(f, s), Len(t) \in Nat, Len(s) \in Nat,
           Len(t) <= Len(s), \A i \in 1..Len(t) : t[i] = s[i]
    PROVE  BasesOK(f, t)
<1>1. \A i \in 1..Len(t) : i \in 1..Len(s)
  <2>1. PICK x \in Nat, y \in Nat : x = Len(t) /\ y = Len(s)
    OBVIOUS
  <2>2. \A i \in 1..x : i \in 1..y
    BY <2>1
  <2> QED  BY <2>1, <2>2
<1> QED  BY <1>1 DEF BasesOK

LEMMA BasesPush ==
    ASSUME NEW f, NEW s \in Seq(Entries), NEW e \in Entries, BasesOK(f, s), e.kind \notin Bases
    PROVE  BasesOK(f, Append(s, e))
<1> DEFINE t == Append(s, e)
<1>1. /\ Len(t) = Len(s) + 1 /\ t[Len(s) + 1] = e /\ Len(s) \in Nat
      /\ \A i \in 1..Len(s) : t[i] = s[i]
  BY AppendProperties, LenProperties
<1> HIDE DEF t
<1>2. \A i \in 1..Len(t) : i \in 1..Len(s) \/ i = Len(s) + 1
  BY <1>1
<1>3. BasesOK(f, t)
  BY <1>1, <1>2 DEF BasesOK
<1> QED  BY <1>3 DEF t

LEMMA BasesNotify ==
    ASSUME NEW f, NEW s \in Seq(Entries), s # <<>>, s[1].kind \in Activations,
           NEW m \in AllMessages \cup {None}, BasesOK(f, s)
    PROVE  BasesOK(f, setObjNotify(s, m))
<1> DEFINE t == setObjNotify(s, m)
<1>1. /\ Len(t) = Len(s)
      /\ \A i \in 1..Len(s) : /\ t[i].kind = s[i].kind
                              /\ t[i] # s[i] => t[i].kind = "frame"
  BY NotifyFacts
<1> HIDE DEF t
<1>2. BasesOK(f, t)
  BY <1>1 DEF BasesOK, Bases
<1> QED  BY <1>2 DEF t

(* The stack without its calls on top: no dispatch is among those.         *)
LEMMA UnwoundFlow ==
    ASSUME NEW s \in Seq(Entries), s # <<>>, s[1].kind \in Activations, Nested(s),
           NEW f, BasesOK(f, s)
    PROVE  /\ Nested(Unwound(s)) /\ BasesOK(f, Unwound(s)) /\ Unwound(s) # <<>>
           /\ \A x : Live(s, x) => Live(Unwound(s), x)
<1> DEFINE h == TopFrame(s)
           t == Unwound(s)
<1>1. /\ h \in 1..Len(s) /\ s[h].kind \in Activations
      /\ \A i \in h + 1..Len(s) : s[i].kind \notin Activations
      /\ t \in Seq(Entries) /\ Len(t) = h /\ \A i \in 1..h : t[i] = s[i]
      /\ Len(s) \in Nat
  BY UnwoundFacts, LenProperties
<1> HIDE DEF h, t
<1>2. h \in Nat /\ h # 0 /\ h <= Len(s) /\ h \in 1..h
  BY <1>1
<1>3. Nested(t)
  <2>1. t[h].kind # "dispatch"
    BY <1>1, <1>2 DEF Activations, Bases
  <2> QED  BY <1>1, <1>2, <2>1, NestedPrefix
<1>4. BasesOK(f, t)
  BY <1>1, <1>2, BasesPrefix
<1>5. ASSUME NEW x, Live(s, x) PROVE Live(t, x)
  <2>1. PICK i \in 1..Len(s) : s[i].kind \in {"dispatch", "starting"} /\ s[i].msg = x
    BY <1>5 DEF Live
  <2>2. i \in 1..h
    <3>1. CASE s[i].kind = "starting"
      <4>1. ~(i \in h + 1..Len(s))
        BY <1>1, <3>1 DEF Activations, Bases
      <4> QED  BY <1>1, <4>1
    <3>2. CASE s[i].kind = "dispatch"
      <4>1. i + 1 \in 1..Len(s) /\ s[i + 1].kind = "frame"
        BY <3>2 DEF Nested
      <4>2. ~(i + 1 \in h + 1..Len(s))
        BY <1>1, <4>1 DEF Activations
      <4> QED  BY <1>1, <4>1, <4>2
    <3> QED  BY <2>1, <3>1, <3>2
  <2> QED  BY <1>1, <2>1, <2>2 DEF Live
<1>6. t # <<>>
  BY <1>1, <1>2, EmptySeq
<1> QED  BY <1>3, <1>4, <1>5, <1>6 DEF t

(* What every step shows.                                                  *)
LEMMA FlowMoves ==
    ASSUME Inv, FlowInv, Grows(message, message'), Keeps(message, message', reused, reused'),
           NEW a \in Activities, NEW t, NEW p,
           stack' = [stack EXCEPT ![a] = t], mode' = [mode EXCEPT ![a] = p],
           lost \subseteq lost', Nested(t), BasesOK(message', t), p = "raise" => t # <<>>,
           \A x \in AllMessages \ (reused' \cup lost') :
             /\ message[x].startActivity = None /\ message'[x].startActivity # None
                  => Live(t, x)
             /\ Active(stack[a], mode[a], x) => Active(t, p, x) \/ Done(message'[x])
    PROVE  FlowInv'
<1>1. /\ stack \in [Activities -> Seq(Entries)] /\ mode \in [Activities -> Modes]
  BY DEF Inv, Typed
<1>2. /\ stack'[a] = t /\ mode'[a] = p
      /\ \A b \in Activities \ {a} : stack'[b] = stack[b] /\ mode'[b] = mode[b]
  BY <1>1
<1>3. ASSUME NEW b \in Activities
      PROVE  /\ Nested(stack'[b]) /\ BasesOK(message', stack'[b])
             /\ mode'[b] = "raise" => stack'[b] # <<>>
  <2>1. CASE b = a
    BY <1>2, <2>1
  <2>2. CASE b # a
    <3>1. /\ stack'[b] = stack[b] /\ mode'[b] = mode[b] /\ stack[b] \in Seq(Entries)
          /\ Nested(stack[b]) /\ BasesOK(message, stack[b])
          /\ mode[b] = "raise" => stack[b] # <<>>
      BY <1>1, <1>2, <2>2 DEF FlowInv
    <3> QED  BY <3>1, BasesKept
  <2> QED  BY <2>1, <2>2
<1>4. ASSUME NEW x \in AllMessages \ (reused' \cup lost'), message'[x].startActivity # None
      PROVE  Done(message'[x]) \/ \E b \in Activities : Active(stack'[b], mode'[b], x)
  <2>1. x \in AllMessages \ (reused \cup lost)
    BY DEF Keeps
  <2>2. CASE message[x].startActivity = None
    BY <1>2, <1>4, <2>2 DEF Active
  <2>3. CASE message[x].startActivity # None /\ Done(message[x])
    BY <2>3 DEF Keeps, RecordKeeps
  <2>4. CASE message[x].startActivity # None /\ ~Done(message[x])
    <3>1. PICK b \in Activities : Active(stack[b], mode[b], x)
      BY <2>1, <2>4 DEF FlowInv
    <3>2. CASE b = a
      BY <1>2, <3>1, <3>2
    <3>3. CASE b # a
      BY <1>2, <3>1, <3>3
    <3> QED  BY <3>2, <3>3
  <2> QED  BY <2>2, <2>3, <2>4
<1>5. FlowInv' =
        (/\ \A b \in Activities : /\ Nested(stack'[b]) /\ BasesOK(message', stack'[b])
                                  /\ mode'[b] = "raise" => stack'[b] # <<>>
         /\ \A x \in AllMessages \ (reused' \cup lost') :
              message'[x].startActivity # None =>
                  Done(message'[x]) \/ \E b \in Activities : Active(stack'[b], mode'[b], x))
  BY DEF FlowInv, Nested, BasesOK, Done, Active, Live
<1> QED  BY <1>3, <1>4, <1>5

(* SYNTAX comes up in a running activity.                                  *)
LEMMA FlowRaise ==
    ASSUME Inv, FlowInv, Grows(message, message'), Keeps(message, message', reused, reused'),
           NEW a \in Activities, mode[a] = "run", NEW s \in Seq(Entries), s # <<>>,
           s[1].kind \in Activations, Nested(s), BasesOK(message', s), RaiseFrom(a, s),
           \A x \in AllMessages : Live(stack[a], x) => Live(s, x),
           \A x \in AllMessages : message'[x].startActivity = message[x].startActivity
    PROVE  FlowInv'
<1>1. /\ stack' = [stack EXCEPT ![a] = Unwound(s)] /\ mode' = [mode EXCEPT ![a] = "raise"]
      /\ lost \subseteq lost'
  BY DEF RaiseFrom
<1>2. /\ Nested(Unwound(s)) /\ BasesOK(message', Unwound(s)) /\ Unwound(s) # <<>>
      /\ \A x : Live(s, x) => Live(Unwound(s), x)
  BY UnwoundFlow
<1> DEFINE t == Unwound(s)
           p == "raise"
<1>3. \A x \in AllMessages : Active(stack[a], mode[a], x) => Active(t, p, x)
  BY <1>2 DEF Active
<1> HIDE DEF p, t
<1>4. /\ stack' = [stack EXCEPT ![a] = t] /\ mode' = [mode EXCEPT ![a] = p]
      /\ Nested(t) /\ BasesOK(message', t) /\ t # <<>>
  BY <1>1, <1>2 DEF p, t
<1> QED  BY <1>1, <1>3, <1>4, FlowMoves

LEMMA FlowFacts ==
    ASSUME Inv, FlowInv, NEW a \in Activities
    PROVE  /\ stack[a] \in Seq(Entries) /\ Nested(stack[a]) /\ BasesOK(message, stack[a])
           /\ stack[a] # <<>> => stack[a][1].kind \in Activations
           /\ message \in [AllMessages -> Message]
           /\ stack \in [Activities -> Seq(Entries)] /\ mode \in [Activities -> Modes]
<1>1. StackOK(a, stack[a], message)
  BY StackFacts
<1> QED  BY <1>1, TopFacts DEF FlowInv, StackOK, Inv, Typed, MessageMaps

LEMMA FlowSend ==
    ASSUME Inv, FlowInv, Grows(message, message'), Keeps(message, message', reused, reused'),
           NEW a \in Activities, mode[a] = "run", NEW s \in Seq(Entries), s # <<>>,
           s[1].kind \in Activations, Nested(s), BasesOK(message, s),
           \A x \in AllMessages : Live(stack[a], x) => Live(s, x),
           NEW msgs \in [AllMessages -> Message],
           \A x \in AllMessages : msgs[x].startActivity = message[x].startActivity,
           NEW m \in AllMessages, send(a, s, msgs, m)
    PROVE  FlowInv'
<1> DEFINE c == Cleared(msgs[m])
<1>1. c \in Message /\ c.startActivity = message[m].startActivity
  BY ClearedFacts
<1>2. BasesOK(message', s)
  BY BasesKept
<1> HIDE DEF c
<1>3. CASE RaiseFrom(a, s) /\ message' = msgs
  BY <1>2, <1>3, FlowRaise
<1>4. CASE RaiseFrom(a, s) /\ message' = [msgs EXCEPT ![m] = c]
  <2>1. \A x \in AllMessages : message'[x].startActivity = message[x].startActivity
    BY <1>1, <1>4
  <2> QED  BY <1>2, <1>4, <2>1, FlowRaise
<1>5. CASE /\ message' = [msgs EXCEPT ![m] = [c EXCEPT !.startActivity = a]]
           /\ stack' = [stack EXCEPT ![a] = setObjNotify(s, m)
                            \o <<Entry("dispatch", m), Entry("frame", None)>>]
           /\ UNCHANGED <<mode, waitingObject, failed, lost>>
  <2> DEFINE q == setObjNotify(s, m)
             d == Entry("dispatch", m)
             e == Entry("frame", None)
             t == q \o <<d, e>>
             p == "run"
  <2>1. Nested(t) /\ Live(t, m) /\ \A x : Live(s, x) => Live(t, x)
    BY NestedCall
  <2>2. /\ q \in Seq(Entries) /\ BasesOK(message', q)
        /\ d \in Entries /\ d.kind = "dispatch" /\ e \in Entries /\ e.kind = "frame"
    BY <1>2, NotifyFacts, BasesNotify, EntryFacts
  <2> HIDE DEF q, d, e
  <2>3. /\ Append(q, d) \in Seq(Entries) /\ BasesOK(message', Append(q, d))
    BY <2>2, AppendProperties, BasesPush DEF Bases
  <2>4. BasesOK(message', t) /\ t \in Seq(Entries) /\ t # <<>>
    <3>1. t = Append(Append(q, d), e)
      BY <2>2, TwoOnTop
    <3>2. Append(Append(q, d), e) # <<>>
      BY <2>2, <2>3, AppendProperties
    <3> QED  BY <2>2, <2>3, <3>1, <3>2, AppendProperties, BasesPush DEF Bases
  <2>5. /\ stack' = [stack EXCEPT ![a] = t] /\ mode' = [mode EXCEPT ![a] = p]
        /\ lost \subseteq lost'
    <3>1. mode \in [Activities -> Modes]
      BY FlowFacts
    <3> QED  BY <1>5, <3>1 DEF q, d, e
  <2>6. \A x \in AllMessages :
           message[x].startActivity = None /\ message'[x].startActivity # None => x = m
    BY <1>5
  <2>7. \A x \in AllMessages : Active(stack[a], mode[a], x) => Active(t, p, x)
    BY <2>1 DEF Active
  <2> HIDE DEF t, p
  <2> QED  BY <2>1, <2>4, <2>5, <2>6, <2>7, FlowMoves
<1> QED  BY <1>3, <1>4, <1>5 DEF send, c

(* A party is told: what was noted, and what follows.                      *)
LEMMA NotedFacts ==
    ASSUME NEW a \in Activities, NEW s, NEW msgs \in [AllMessages -> Message],
           \A x \in AllMessages : msgs[x].startActivity = message[x].startActivity,
           NEW m \in AllMessages, NEW i \in 1..Len(msgs[m].parties),
           Tell(a, s, msgs, m, i)
    PROVE  \E noted \in [AllMessages -> Message] :
             /\ \A x \in AllMessages : noted[x].startActivity = message[x].startActivity
             /\ LET p == msgs[m].parties[i].party
                IN  /\ p \in AllMessages \cup Listeners
                    /\ IF p \in Listeners
                       THEN /\ message' = noted
                            /\ stack' = [stack EXCEPT ![a] = Append(s, Entry("frame", None))]
                            /\ UNCHANGED <<mode, waitingObject, history>>
                       ELSE send(a, s, noted, p)
<1> DEFINE p == msgs[m].parties[i]
           q == [p EXCEPT !.told = Min({@ + 1, 2})]
           ps == [msgs[m].parties EXCEPT ![i] = q]
           r == [msgs[m] EXCEPT !.parties = ps]
           noted == [msgs EXCEPT ![m].parties[i].told = Min({@ + 1, 2})]
<1>1. msgs[m] \in Message /\ msgs[m].parties \in Seq(Party)
  BY DEF Message
<1>2. p \in Party /\ p.told \in 0..2 /\ p.party \in AllMessages \cup Listeners
  BY <1>1, PartiesFacts
<1>3. q \in Party
  <2>1. PICK n \in 1..3 : n = p.told + 1
    BY <1>2
  <2>2. Min({n, 2}) \in 0..2
    BY MinTwo
  <2> QED  BY <1>2, <2>1, <2>2 DEF Party
<1>4. noted = [msgs EXCEPT ![m] = r]
  OBVIOUS
<1> HIDE DEF q
<1>5. ps \in Seq(Party)
  BY <1>1, <1>3, ExceptSeq
<1> HIDE DEF ps
<1>6. r \in Message /\ r.startActivity = msgs[m].startActivity
  BY <1>1, <1>5 DEF Message
<1> HIDE DEF r
<1>7. /\ IF p.party \in Listeners
         THEN /\ message' = noted
              /\ stack' = [stack EXCEPT ![a] = Append(s, Entry("frame", None))]
              /\ UNCHANGED <<mode, waitingObject, history>>
         ELSE send(a, s, noted, p.party)
  BY DEF Tell
<1> HIDE DEF noted
<1>8. /\ noted \in [AllMessages -> Message]
      /\ \A x \in AllMessages : noted[x].startActivity = message[x].startActivity
  BY <1>4, <1>6
<1> QED  BY <1>2, <1>7, <1>8

LEMMA FlowTell ==
    ASSUME Inv, FlowInv, Grows(message, message'), Keeps(message, message', reused, reused'),
           NEW a \in Activities, mode[a] = "run", NEW s \in Seq(Entries), s # <<>>,
           s[1].kind \in Activations, Nested(s), BasesOK(message, s),
           \A x \in AllMessages : Live(stack[a], x) => Live(s, x),
           NEW msgs \in [AllMessages -> Message],
           \A x \in AllMessages : msgs[x].startActivity = message[x].startActivity,
           NEW m \in AllMessages, NEW i \in 1..Len(msgs[m].parties),
           Tell(a, s, msgs, m, i)
    PROVE  FlowInv'
<1> DEFINE p == msgs[m].parties[i].party
<1>1. PICK noted \in [AllMessages -> Message] :
         /\ \A x \in AllMessages : noted[x].startActivity = message[x].startActivity
         /\ p \in AllMessages \cup Listeners
         /\ IF p \in Listeners
            THEN /\ message' = noted
                 /\ stack' = [stack EXCEPT ![a] = Append(s, Entry("frame", None))]
                 /\ UNCHANGED <<mode, waitingObject, history>>
            ELSE send(a, s, noted, p)
  BY NotedFacts
<1>2. CASE p \notin Listeners
  BY <1>1, <1>2, FlowSend
<1>3. CASE p \in Listeners
  <2> DEFINE e == Entry("frame", None)
             t == Append(s, e)
             k == "run"
  <2>1. /\ message' = noted /\ stack' = [stack EXCEPT ![a] = t] /\ lost' = lost
        /\ mode' = mode
    BY <1>1, <1>3 DEF history
  <2>2. e \in Entries /\ e.kind = "frame"
    BY EntryFacts
  <2> HIDE DEF e
  <2>3. Nested(t) /\ \A x : Live(s, x) => Live(t, x)
    BY <2>2, NestedPush
  <2>4. BasesOK(message', t)
    BY <2>2, BasesKept, BasesPush DEF Bases
  <2>5. mode' = [mode EXCEPT ![a] = k] /\ lost \subseteq lost'
    BY <2>1, FlowFacts
  <2>6. \A x \in AllMessages : Active(stack[a], mode[a], x) => Active(t, k, x)
    BY <2>3 DEF Active
  <2>7. \A x \in AllMessages : message'[x].startActivity = message[x].startActivity
    BY <1>1, <2>1
  <2>8. k = "raise" => t # <<>>
    OBVIOUS
  <2> HIDE DEF t, k
  <2> QED  BY <2>1, <2>3, <2>4, <2>5, <2>6, <2>7, <2>8, FlowMoves
<1> QED  BY <1>2, <1>3

-----------------------------------------------------------------------------
LEMMA FlowSending ==
    ASSUME Inv, FlowInv, Grows(message, message'), Keeps(message, message', reused, reused'),
           NEW a \in Activities, NEW m \in Created, sendMessage(a, m)
    PROVE  FlowInv'
<1>1. /\ send(a, stack[a], message, m) /\ stack[a] # <<>> /\ mode[a] = "run"
      /\ m \in AllMessages
  BY StackFacts DEF sendMessage, InRexx, Turn
<1> QED  BY <1>1, FlowFacts, FlowSend

LEMMA FlowNotStarted ==
    ASSUME Inv, FlowInv, Grows(message, message'), Keeps(message, message', reused, reused'),
           NEW a \in Activities, NEW m \in Created,
           NEW r \in {Pending(message[m]), Cleared(message[m])}, NotStarted(a, m, r)
    PROVE  FlowInv'
<1>1. /\ RaiseFrom(a, stack[a]) /\ stack[a] # <<>> /\ mode[a] = "run"
      /\ message' = message \/ message' = [message EXCEPT ![m] = r]
  BY StackFacts DEF NotStarted, InRexx, Turn
<1>2. BasesOK(message', stack[a])
  BY FlowFacts, BasesKept
<1>3. \A x \in AllMessages : message'[x].startActivity = message[x].startActivity
  <2>1. r.startActivity = message[m].startActivity /\ m \in AllMessages
    BY PendingFacts
  <2>2. message \in [AllMessages -> Message]
    BY FlowFacts
  <2> HIDE DEF Pending, Cleared
  <2> QED  BY <1>1, <2>1, <2>2
<1> QED  BY <1>1, <1>2, <1>3, FlowFacts, FlowRaise

(* b, which was idle, is given the message n.                              *)
LEMMA FlowStart ==
    ASSUME Inv, FlowInv, Grows(message, message'), Keeps(message, message', reused, reused'),
           NEW b \in Activities, stack[b] = <<>>, NEW n \in AllMessages,
           message'[n].activated, message'[n].startActivity = b,
           \A x \in AllMessages :
             x # n => message'[x].startActivity = message[x].startActivity,
           stack' = [stack EXCEPT ![b] = <<Entry("starting", n)>>],
           UNCHANGED <<mode, lost>>
    PROVE  FlowInv'
<1> DEFINE e == Entry("starting", n)
           t == <<e>>
           p == mode[b]
<1>1. e \in Entries /\ e.kind = "starting" /\ e.msg = n /\ b # None
  BY EntryFacts, MessageAssumption DEF Bases
<1>2. stack' = [stack EXCEPT ![b] = t]
  OBVIOUS
<1> HIDE DEF e
<1>3. Len(t) = 1 /\ t[1] = e /\ t # <<>> /\ 1..Len(t) = {1}
  OBVIOUS
<1> HIDE DEF t
<1>4. Nested(t)
  BY <1>1, <1>3 DEF Nested
<1>5. BasesOK(message', t)
  BY <1>1, <1>3 DEF BasesOK
<1>6. Live(t, n)
  BY <1>1, <1>3 DEF Live
<1>7. \A x : ~Active(stack[b], mode[b], x)
  <2>1. mode[b] # "raise"
    BY DEF FlowInv
  <2>2. \A x : ~Live(stack[b], x)
    <3>1. 1..Len(<<>>) = {}
      OBVIOUS
    <3> QED  BY <3>1 DEF Live
  <2> QED  BY <2>1, <2>2 DEF Active
<1>8. mode' = [mode EXCEPT ![b] = p]
  BY FlowFacts
<1>9. \A x \in AllMessages :
         message[x].startActivity = None /\ message'[x].startActivity # None => Live(t, x)
  BY <1>6
<1>10. \A x \in AllMessages :
          Active(stack[b], mode[b], x) => Active(t, p, x) \/ Done(message'[x])
  BY <1>7
<1>11. lost \subseteq lost'
  OBVIOUS
<1> HIDE DEF p
<1> QED  BY <1>2, <1>3, <1>4, <1>5, <1>8, <1>9, <1>10, <1>11, FlowMoves

LEMMA FlowStarting ==
    ASSUME Inv, FlowInv, Grows(message, message'), Keeps(message, message', reused, reused'),
           NEW a \in Activities, NEW m \in Created, start(a, m)
    PROVE  FlowInv'
<1>1. CASE NotStarted(a, m, Pending(message[m]))
  BY <1>1, FlowNotStarted
<1>2. ASSUME NEW b \in Activities, StartOn(b, m, [message EXCEPT ![m] = Pending(@)])
      PROVE  FlowInv'
  <2> DEFINE p == Pending(message[m])
             r == [p EXCEPT !.startActivity = b]
  <2>1. m \in AllMessages /\ message \in MessageMaps /\ p \in Message
    BY PendingFacts
  <2>2. p.activated
    <3>1. Cleared(message[m]) \in Message
      BY PendingFacts
    <3> QED  BY <3>1 DEF Pending, Message
  <2> HIDE DEF p
  <2>3. /\ message' = [message EXCEPT ![m] = r] /\ stack[b] = <<>>
        /\ stack' = [stack EXCEPT ![b] = <<Entry("starting", m)>>]
        /\ UNCHANGED <<mode, lost>>
    BY <1>2, <2>1 DEF StartOn, MessageMaps, p
  <2>4. r.activated /\ r.startActivity = b
    BY <2>1, <2>2 DEF Message
  <2> HIDE DEF r
  <2>5. /\ message'[m] = r
        /\ \A x \in AllMessages :
              x # m => message'[x].startActivity = message[x].startActivity
    BY <2>1, <2>3 DEF MessageMaps
  <2> QED  BY <2>1, <2>3, <2>4, <2>5, FlowStart
<1> QED  BY <1>1, <1>2 DEF start

LEMMA FlowReplying ==
    ASSUME Inv, FlowInv, Grows(message, message'), Keeps(message, message', reused, reused'),
           NEW a \in Activities, NEW m \in Created, reply(a, m)
    PROVE  FlowInv'
<1>1. CASE NotStarted(a, m, Cleared(message[m]))
  BY <1>1, FlowNotStarted
<1> DEFINE r == Cleared(message[m])
           copy == [NewMessage EXCEPT !.parties = r.parties]
<1>2. ASSUME NEW b \in Activities, NEW n \in Copies \ Created,
             StartOn(b, n, [message EXCEPT ![m] = r, ![n] = Pending(copy)])
      PROVE  FlowInv'
  <2> DEFINE k == Pending(copy)
             u == [k EXCEPT !.startActivity = b]
             g == [message EXCEPT ![m] = r]
  <2>1. /\ m \in AllMessages /\ message \in [AllMessages -> Message] /\ n \in AllMessages
        /\ r.startActivity = message[m].startActivity /\ n # m
    BY PendingFacts DEF AllMessages, MessageMaps
  <2>2. k.activated = TRUE /\ DOMAIN k = DOMAIN NewMessage
    BY DEF Pending, Cleared, NewMessage
  <2> HIDE DEF k, r
  <2>3. u.activated /\ u.startActivity = b
    BY <2>2 DEF NewMessage
  <2>4. /\ message' = [g EXCEPT ![n] = u] /\ stack[b] = <<>>
        /\ stack' = [stack EXCEPT ![b] = <<Entry("starting", n)>>]
        /\ UNCHANGED <<mode, lost>>
    BY <1>2, <2>1 DEF StartOn, k, r
  <2> HIDE DEF u
  <2>5. /\ message'[n] = u
        /\ \A x \in AllMessages :
              x # n => message'[x].startActivity = message[x].startActivity
    BY <2>1, <2>4
  <2> QED  BY <2>1, <2>3, <2>4, <2>5, FlowStart
<1> QED  BY <1>1, <1>2 DEF reply

LEMMA FlowRunStarted ==
    ASSUME Inv, FlowInv, Grows(message, message'), Keeps(message, message', reused, reused'),
           NEW a \in Activities, runStarted(a)
    PROVE  FlowInv'
<1> DEFINE m == Top(a).msg
           x == Entry("running", m)
           y == Entry("dispatch", m)
           z == Entry("frame", None)
           t == <<x, y, z>>
           p == mode[a]
<1>1. /\ Kind(stack[a]) = "starting" /\ stack[a] # <<>> /\ mode[a] = "run"
      /\ message' = [message EXCEPT ![m].startActivity = a]
      /\ stack' = [stack EXCEPT ![a] = t]
      /\ UNCHANGED <<mode, lost>>
  BY StackFacts DEF runStarted, Turn, history
<1>2. /\ Len(stack[a]) = 1 /\ stack[a][1] = Top(a) /\ Top(a).kind = "starting"
      /\ Top(a) \in Entries
  <2>1. /\ StackOK(a, stack[a], message) /\ Last(stack[a]) = stack[a][Len(stack[a])]
        /\ Kind(stack[a]) = Last(stack[a]).kind /\ Last(stack[a]) \in Entries
        /\ EntryOK(a, stack[a], Len(stack[a]), message)
    BY <1>1, StackFacts, TopFacts
  <2> QED  BY <1>1, <2>1 DEF EntryOK, Top
<1>3. m \in AllMessages
  BY <1>2 DEF Entries, FrameEntries, DispatchEntries, LoopEntries, Bases, Loops
<1>4. BasesOK(message', stack[a])
  BY FlowFacts, BasesKept
<1>5. message'[m].activated /\ message'[m].startActivity # None
  <2>1. 1 \in 1..Len(stack[a]) /\ stack[a][1].kind \in Bases
    BY <1>2 DEF Bases
  <2> QED  BY <1>2, <1>4, <2>1 DEF BasesOK
<1>6. /\ x.kind = "running" /\ x.msg = m /\ y.kind = "dispatch" /\ y.msg = m
      /\ z.kind = "frame"
  BY <1>3, EntryFacts DEF Bases
<1>7. \A w \in AllMessages :
         /\ message[w].startActivity = None /\ message'[w].startActivity # None => w = m
         /\ Active(stack[a], mode[a], w) => w = m
  <2>1. \A w \in AllMessages : w # m => message'[w] = message[w]
    BY <1>1, FlowFacts
  <2>2. 1..Len(stack[a]) = {1}
    BY <1>2
  <2> QED  BY <1>1, <1>2, <2>1, <2>2 DEF Active, Live
<1> HIDE DEF m, x, y, z
<1>8. Len(t) = 3 /\ t[1] = x /\ t[2] = y /\ t[3] = z
  OBVIOUS
<1> HIDE DEF t
<1>9. \A i \in 1..3 : i = 1 \/ i = 2 \/ i = 3
  OBVIOUS
<1>10. Nested(t)
  <2>1. 2 + 1 = 3 /\ 3 \in 1..3 /\ \A f \in 1..2 - 1 : f = 1
    OBVIOUS
  <2> QED  BY <1>6, <1>8, <1>9, <2>1 DEF Nested
<1>11. BasesOK(message', t)
  BY <1>5, <1>6, <1>8, <1>9 DEF BasesOK, Bases
<1>12. Live(t, m)
  <2>1. 2 \in 1..3
    OBVIOUS
  <2> QED  BY <1>6, <1>8, <2>1 DEF Live
<1>13. mode' = [mode EXCEPT ![a] = p] /\ p # "raise"
  BY <1>1, FlowFacts
<1> HIDE DEF p
<1> QED  BY <1>1, <1>7, <1>10, <1>11, <1>12, <1>13, FlowMoves DEF Active

(* The stack stays as it is; no message changes hands.                     *)
LEMMA FlowStill ==
    ASSUME Inv, FlowInv, Grows(message, message'), Keeps(message, message', reused, reused'),
           NEW a \in Activities, NEW p, p # "raise", mode' = [mode EXCEPT ![a] = p],
           stack' = stack, lost' = lost,
           \A x \in AllMessages : message'[x].startActivity = message[x].startActivity,
           mode[a] = "raise" => Last(stack[a]).msg = None
    PROVE  FlowInv'
<1> DEFINE t == stack[a]
<1>1. /\ stack' = [stack EXCEPT ![a] = t] /\ Nested(t) /\ BasesOK(message', t)
  BY FlowFacts, BasesKept
<1>2. \A x \in AllMessages : Active(stack[a], mode[a], x) => Active(t, p, x)
  <2>1. None \notin AllMessages
    BY MessageAssumption DEF AllMessages
  <2> QED  BY <2>1 DEF Active
<1> HIDE DEF t
<1> QED  BY <1>1, <1>2, FlowMoves

(* notify(): the messages with the party, and what follows.                *)
LEMMA AddedFacts ==
    ASSUME Inv, NEW a \in Activities, NEW m \in Created, NEW p \in Created \cup Listeners,
           notify(a, m, p)
    PROVE  /\ mode[a] = "run" /\ stack[a] # <<>> /\ m \in AllMessages
           /\ \E added \in [AllMessages -> Message] :
                /\ \A x \in AllMessages : added[x].startActivity = message[x].startActivity
                /\ \/ /\ message' = added
                      /\ UNCHANGED <<stack, mode, waitingObject, history>>
                   \/ /\ Len(added[m].parties) \in 1..Len(added[m].parties)
                      /\ Tell(a, stack[a], added, m, Len(added[m].parties))
<1> DEFINE old == message[m]
           late == isComplete(m) /\ ~old.notified
           q == [party |-> p, told |-> 0, late |-> late]
           ps == Append(old.parties, q)
           w == [old EXCEPT !.parties = ps]
           added == [message EXCEPT ![m] = w]
<1>1. /\ message \in [AllMessages -> Message] /\ m \in AllMessages /\ old \in Message
      /\ old.parties \in Seq(Party) /\ Len(old.parties) \in Nat
      /\ p \in AllMessages \cup Listeners
  BY StackFacts, PartiesSeq DEF MessageMaps
<1>2. stack[a] # <<>> /\ mode[a] = "run"
  BY StackFacts DEF notify, InRexx, Turn
<1>3. /\ old.notified => Tell(a, stack[a], added, m, Len(added[m].parties))
      /\ ~old.notified => message' = added /\ UNCHANGED <<stack, mode, waitingObject, history>>
  BY DEF notify
<1>4. q \in Party
  <2>1. late \in BOOLEAN
    BY <1>1 DEF Message
  <2> HIDE DEF late
  <2> QED  BY <1>1, <2>1 DEF Party
<1> HIDE DEF q, late
<1>5. ps \in Seq(Party) /\ Len(ps) = Len(old.parties) + 1
  BY <1>1, <1>4, AppendProperties
<1> HIDE DEF ps
<1>6. w \in Message /\ w.startActivity = old.startActivity /\ w.parties = ps
  BY <1>1, <1>5 DEF Message
<1> HIDE DEF w
<1>7. /\ added \in [AllMessages -> Message] /\ added[m] = w
      /\ \A x \in AllMessages : added[x].startActivity = message[x].startActivity
  BY <1>1, <1>6
<1> HIDE DEF added
<1>8. Len(added[m].parties) \in 1..Len(added[m].parties)
  BY <1>1, <1>5, <1>6, <1>7
<1> QED  BY <1>1, <1>2, <1>3, <1>7, <1>8

LEMMA FlowListening ==
    ASSUME Inv, FlowInv, Grows(message, message'), Keeps(message, message', reused, reused'),
           NEW a \in Activities, NEW m \in Created, NEW p \in Created \cup Listeners,
           notify(a, m, p)
    PROVE  FlowInv'
<1>1. mode[a] = "run" /\ stack[a] # <<>> /\ m \in AllMessages
  BY AddedFacts
<1>2. PICK added \in [AllMessages -> Message] :
         /\ \A x \in AllMessages : added[x].startActivity = message[x].startActivity
         /\ \/ /\ message' = added
               /\ UNCHANGED <<stack, mode, waitingObject, history>>
            \/ /\ Len(added[m].parties) \in 1..Len(added[m].parties)
               /\ Tell(a, stack[a], added, m, Len(added[m].parties))
  BY AddedFacts
<1>3. CASE /\ Len(added[m].parties) \in 1..Len(added[m].parties)
           /\ Tell(a, stack[a], added, m, Len(added[m].parties))
  BY <1>1, <1>2, <1>3, FlowFacts, FlowTell
<1>4. CASE message' = added /\ UNCHANGED <<stack, mode, waitingObject, history>>
  <2> DEFINE k == "run"
  <2>1. /\ mode' = [mode EXCEPT ![a] = k] /\ k # "raise"
    BY <1>1, <1>4, FlowFacts
  <2> HIDE DEF k
  <2> QED  BY <1>1, <1>2, <1>4, <2>1, FlowStill DEF history
<1> QED  BY <1>2, <1>3, <1>4

LEMMA FlowWaiting ==
    ASSUME Inv, FlowInv, Grows(message, message'), Keeps(message, message', reused, reused'),
           NEW a \in Activities, NEW m \in Created, wait(a, m)
    PROVE  FlowInv'
<1>1. stack[a] # <<>> /\ mode[a] = "run" /\ m \in AllMessages
  BY StackFacts DEF wait, InRexx, Turn
<1>2. CASE RaiseFrom(a, stack[a]) /\ message' = message
  <2>1. BasesOK(message', stack[a])
    BY FlowFacts, BasesKept
  <2> QED  BY <1>1, <1>2, <2>1, FlowFacts, FlowRaise
<1>3. ASSUME NEW p \in {"endless", "wait"}, mode' = [mode EXCEPT ![a] = p],
             UNCHANGED <<stack, history>>,
             \/ message' = message
             \/ message' = [message EXCEPT ![m].waiters = @ \cup {a}]
      PROVE  FlowInv'
  <2>1. \A x \in AllMessages : message'[x].startActivity = message[x].startActivity
    <3> DEFINE w == [message[m] EXCEPT !.waiters = @ \cup {a}]
    <3>1. message[m] \in Message /\ message \in [AllMessages -> Message]
      BY <1>1, FlowFacts
    <3>2. w.startActivity = message[m].startActivity
      BY <3>1 DEF Message
    <3>3. message' = message \/ message' = [message EXCEPT ![m] = w]
      BY <1>3
    <3> HIDE DEF w
    <3> QED  BY <1>1, <3>1, <3>2, <3>3
  <2> QED  BY <1>1, <1>3, <2>1, FlowStill DEF history
<1> QED  BY <1>2, <1>3 DEF wait

LEMMA FlowRaising ==
    ASSUME Inv, FlowInv, Grows(message, message'), Keeps(message, message', reused, reused'),
           NEW a \in Activities, raise(a) \/ trapped(a) \/ wake(a)
    PROVE  FlowInv'
<1>1. CASE raise(a)
  <2>1. /\ RaiseFrom(a, stack[a]) /\ message' = message /\ stack[a] # <<>> /\ mode[a] = "run"
    BY <1>1, StackFacts DEF raise, InRexx, Turn
  <2>2. BasesOK(message', stack[a])
    BY FlowFacts, BasesKept
  <2> QED  BY <2>1, <2>2, FlowFacts, FlowRaise
<1>2. CASE trapped(a) \/ wake(a)
  <2> DEFINE p == "run"
  <2>1. /\ mode' = [mode EXCEPT ![a] = p] /\ p # "raise"
        /\ stack' = stack /\ message' = message /\ lost' = lost
        /\ mode[a] = "raise" => Last(stack[a]).msg = None
    BY <1>2 DEF trapped, wake, history, Raising, Top
  <2> HIDE DEF p
  <2> QED  BY <2>1, FlowStill
<1> QED  BY <1>1, <1>2

(* A stack of which a part is left, and what is no longer in it.           *)
Gone(s, n, x) ==
    \E i \in n + 1..Len(s) : s[i].kind \in {"dispatch", "starting"} /\ s[i].msg = x

LEMMA CutLive ==
    ASSUME NEW s, NEW t, Len(t) \in Nat, Len(s) \in Nat, Len(t) <= Len(s),
           \A i \in 1..Len(t) : t[i] = s[i], NEW x, Live(s, x)
    PROVE  Live(t, x) \/ Gone(s, Len(t), x)
<1>1. PICK i \in 1..Len(s) : s[i].kind \in {"dispatch", "starting"} /\ s[i].msg = x
  BY DEF Live
<1>2. CASE i \in Len(t) + 1..Len(s)
  BY <1>1, <1>2 DEF Gone
<1>3. CASE i \notin Len(t) + 1..Len(s)
  <2>1. PICK n \in Nat, k \in Nat : n = Len(s) /\ k = Len(t)
    OBVIOUS
  <2>2. i \in 1..k
    BY <1>3, <2>1
  <2>3. t[i] = s[i]
    BY <2>1, <2>2
  <2> QED  BY <1>1, <2>1, <2>2, <2>3 DEF Live
<1> QED  BY <1>2, <1>3

LEMMA CutFlow ==
    ASSUME NEW f, NEW s, NEW t, Nested(s), BasesOK(f, s), Len(t) \in Nat, Len(s) \in Nat,
           Len(t) <= Len(s), \A i \in 1..Len(t) : t[i] = s[i],
           Len(t) # 0 => t[Len(t)].kind # "dispatch"
    PROVE  /\ Nested(t) /\ BasesOK(f, t)
           /\ \A x : Live(s, x) => Live(t, x) \/ Gone(s, Len(t), x)
<1>1. Nested(t)
  BY NestedPrefix
<1>2. BasesOK(f, t)
  BY BasesPrefix
<1>3. ASSUME NEW x, Live(s, x) PROVE Live(t, x) \/ Gone(s, Len(t), x)
  BY <1>3, CutLive
<1> QED  BY <1>1, <1>2, <1>3

(* sendNotification() of m, which is complete now.                         *)
LEMMA FlowNotifying ==
    ASSUME Inv, FlowInv, Grows(message, message'), Keeps(message, message', reused, reused'),
           NEW a \in Activities, NEW s \in Seq(Entries), s # <<>>,
           s[1].kind \in Activations, Nested(s), BasesOK(message', s),
           NEW kind \in Loops, NEW m \in AllMessages,
           NEW r \in {[message[m] EXCEPT !.returned = TRUE],
                      [message[m] EXCEPT !.raised = TRUE]},
           sendNotification(a, s, kind, m, r),
           mode' = [mode EXCEPT ![a] = "run"], lost' = lost,
           \A x \in AllMessages : Active(stack[a], mode[a], x) => x = m \/ Live(s, x)
    PROVE  FlowInv'
<1> DEFINE w == [r EXCEPT !.waiters = {}]
           n == Len(r.parties)
           q == setObjNotify(s, None)
           e == Loop(kind, m, n)
           t == Append(q, e)
           p == "run"
<1>1. /\ message \in [AllMessages -> Message] /\ message[m] \in Message
      /\ Len(message[m].parties) \in Nat
  BY FlowFacts, PartiesSeq DEF Inv, Typed
<1>2. /\ r.parties = message[m].parties /\ w.startActivity = message[m].startActivity
      /\ (w.returned \/ w.raised)
  BY <1>1 DEF Message
<1>3. message' = [message EXCEPT ![m] = w] /\ stack' = [stack EXCEPT ![a] = t]
  BY DEF sendNotification
<1> HIDE DEF w
<1>4. /\ Done(message'[m])
      /\ \A x \in AllMessages : message'[x].startActivity = message[x].startActivity
  BY <1>1, <1>2, <1>3 DEF Done
<1>5. e \in Entries /\ e.kind \in Loops
  BY <1>1, <1>2, EntryFacts
<1>6. /\ q \in Seq(Entries) /\ Nested(q) /\ BasesOK(message', q)
      /\ \A x : Live(s, x) => Live(q, x)
  BY NotifyFacts, NestedNotify, BasesNotify
<1> HIDE DEF q, e
<1>7. e.kind # "dispatch" /\ e.kind \notin Bases
  BY <1>5 DEF Loops, Bases
<1>8. /\ Nested(t) /\ BasesOK(message', t) /\ \A x : Live(q, x) => Live(t, x)
  BY <1>5, <1>6, <1>7, NestedPush, BasesPush
<1>9. p # "raise" /\ mode' = [mode EXCEPT ![a] = p]
  OBVIOUS
<1>10. \A x \in AllMessages :
          Active(stack[a], mode[a], x) => Active(t, p, x) \/ Done(message'[x])
  BY <1>4, <1>6, <1>8 DEF Active
<1> HIDE DEF t, p
<1> QED  BY <1>3, <1>4, <1>8, <1>9, <1>10, FlowMoves

LEMMA FlowReturning ==
    ASSUME Inv, FlowInv, Grows(message, message'), Keeps(message, message', reused, reused'),
           NEW a \in Activities, return(a)
    PROVE  FlowInv'
<1> DEFINE s == stack[a]
           u == Front(s)
           v == Front(u)
           m == Last(u).msg
<1>1. /\ s # <<>> /\ mode[a] = "run" /\ Kind(s) = "frame" /\ mode' = mode /\ lost' = lost
      /\ IF Kind(u) = "dispatch"
         THEN sendNotification(a, v, "notifying", m, [message[m] EXCEPT !.returned = TRUE])
         ELSE stack' = [stack EXCEPT ![a] = u] /\ UNCHANGED <<message, waitingObject>>
  BY StackFacts DEF return, InRexx, Turn, history
<1>2. StackOK(a, s, message) /\ Nested(s) /\ BasesOK(message', s)
  BY StackFacts, FlowFacts, BasesKept
<1>3. /\ s \in Seq(Entries) /\ Len(s) \in Nat /\ Len(s) >= 1
      /\ s[Len(s)].kind = "frame"
  BY <1>1, <1>2, TopFacts
<1>4. /\ StackOK(a, u, message)
      /\ Kind(u) = "dispatch" => Len(u) # 1
      /\ u \in Seq(Entries) /\ Len(u) = Len(s) - 1
      /\ \A i \in 1..Len(s) - 1 : u[i] = s[i]
  <2>1. /\ StackOK(a, u, message)
        /\ Kind(u) = "dispatch" => Len(u) # 1
    BY <1>1, <1>2, PopOK
  <2>2. /\ u \in Seq(Entries) /\ Len(u) = Len(s) - 1
        /\ \A i \in 1..Len(s) - 1 : u[i] = s[i]
    <3>1. s \in Seq(Entries) /\ s # <<>>
      BY <1>1, <1>3
    <3> HIDE DEF s
    <3> QED  BY <3>1, FrontFacts
  <2> HIDE DEF s, u
  <2> QED  BY <2>1, <2>2
<1>5. mode' = [mode EXCEPT ![a] = "run"]
  BY <1>1, FlowFacts
<1> HIDE DEF s, u
<1>6. PICK n \in Nat : n = Len(s) /\ n >= 1
  BY <1>3
<1>7. CASE Kind(u) = "dispatch"
  <2>1. u # <<>> /\ n >= 2
    <3>1. u # <<>>
      BY <1>7 DEF Kind
    <3>2. Len(u) # 0
      BY <1>4, <3>1, EmptySeq
    <3> QED  BY <1>4, <1>6, <3>1, <3>2
  <2>2. /\ Last(u) \in Entries /\ Last(u) = s[n - 1] /\ s[n - 1].kind = "dispatch"
        /\ m = s[n - 1].msg
    <3>1. Last(u) \in Entries /\ Last(u) = u[Len(u)] /\ Last(u).kind = "dispatch"
      BY <1>4, <1>7, <2>1, TopFacts
    <3>2. n - 1 \in 1..n - 1
      BY <2>1
    <3> QED  BY <1>4, <1>6, <3>1, <3>2
  <2>3. m \in AllMessages
    BY <2>2 DEF Entries, FrameEntries, DispatchEntries, LoopEntries, Loops
  <2>4. /\ v \in Seq(Entries) /\ Len(v) = n - 2 /\ \A i \in 1..n - 2 : v[i] = s[i]
        /\ v # <<>> /\ StackOK(a, v, message) /\ n - 2 # 0
    <3>1. /\ v \in Seq(Entries) /\ Len(v) = Len(u) - 1
          /\ \A i \in 1..Len(u) - 1 : v[i] = u[i]
          /\ StackOK(a, v, message)
      BY <1>4, <2>1, FrontFacts, PopOK
    <3> HIDE DEF v
    <3>2. Len(v) = n - 2 /\ n - 2 # 0
      BY <1>4, <1>6, <1>7, <2>1, <3>1
    <3>3. \A i \in 1..n - 2 : i \in 1..Len(u) - 1 /\ i \in 1..Len(s) - 1
      BY <1>4, <1>6
    <3>4. v # <<>>
      BY <3>1, <3>2, EmptySeq
    <3> QED  BY <1>4, <3>1, <3>2, <3>3, <3>4
  <2>5. sendNotification(a, v, "notifying", m, [message[m] EXCEPT !.returned = TRUE])
        /\ stack[a] = s
    BY <1>1, <1>7 DEF s, u
  <2> HIDE DEF v, m
  <2>6. v[n - 2].kind # "dispatch"
    <3>1. n - 2 \in 1..n /\ n - 2 + 1 = n - 1 /\ n - 2 \in 1..n - 2
      BY <2>1, <2>4
    <3>2. s[n - 2].kind = "dispatch" => s[n - 1].kind = "frame"
      BY <1>2, <1>6, <3>1 DEF Nested
    <3> QED  BY <2>2, <2>4, <3>1, <3>2
  <2>7. /\ Nested(v) /\ BasesOK(message', v)
        /\ \A x : Live(s, x) => Live(v, x) \/ Gone(s, n - 2, x)
    <3>1. Len(v) \in Nat /\ Len(v) <= Len(s)
      BY <1>6, <2>1, <2>4
    <3>2. /\ Nested(v) /\ BasesOK(message', v)
          /\ \A x : Live(s, x) => Live(v, x) \/ Gone(s, Len(v), x)
      BY <1>2, <1>3, <2>4, <2>6, <3>1, CutFlow
    <3> QED  BY <2>4, <3>2
  <2>8. \A i \in n - 2 + 1..n : i = n - 1 \/ i = n
    BY <2>1
  <2>9. \A x \in AllMessages : Active(stack[a], mode[a], x) => x = m \/ Live(v, x)
    BY <1>1, <1>3, <1>6, <2>2, <2>5, <2>7, <2>8 DEF Active, Gone
  <2>10. v[1].kind \in Activations /\ "notifying" \in Loops
    BY <2>4, TopFacts DEF Loops
  <2> QED  BY <1>1, <1>5, <2>3, <2>4, <2>5, <2>7, <2>9, <2>10, FlowNotifying
<1>8. CASE Kind(u) # "dispatch"
  <2> DEFINE p == "run"
  <2>1. /\ stack' = [stack EXCEPT ![a] = u] /\ message' = message /\ stack[a] = s
    BY <1>1, <1>8 DEF s, u
  <2>2. Len(u) # 0 => u[Len(u)].kind # "dispatch"
    <3>1. Len(u) # 0 => u # <<>>
      BY <1>4, EmptySeq
    <3> QED  BY <1>4, <1>8, <3>1, TopFacts
  <2>3. /\ Nested(u) /\ BasesOK(message', u)
        /\ \A x : Live(s, x) => Live(u, x) \/ Gone(s, n - 1, x)
    <3>1. Len(u) = n - 1 /\ Len(u) \in Nat /\ Len(u) <= Len(s)
      BY <1>4, <1>6
    <3>2. /\ Nested(u) /\ BasesOK(message', u)
          /\ \A x : Live(s, x) => Live(u, x) \/ Gone(s, Len(u), x)
      BY <1>2, <1>3, <1>4, <2>2, <3>1, CutFlow
    <3> QED  BY <3>1, <3>2
  <2>4. \A i \in n - 1 + 1..n : i = n
    BY <1>6
  <2>5. \A x \in AllMessages : Active(stack[a], mode[a], x) => Active(u, p, x)
    BY <1>1, <1>3, <1>6, <2>1, <2>3, <2>4 DEF Active, Gone
  <2>6. p # "raise" /\ mode' = [mode EXCEPT ![a] = p]
    BY <1>5
  <2> HIDE DEF p
  <2> QED  BY <1>1, <2>1, <2>3, <2>5, <2>6, FlowMoves
<1> QED  BY <1>7, <1>8

LEMMA FlowNext ==
    ASSUME Inv, FlowInv, Grows(message, message'), Keeps(message, message', reused, reused'),
           NEW a \in Activities, notifyNext(a)
    PROVE  FlowInv'
<1> DEFINE loop == Top(a)
           s == stack[a]
           n == Len(s)
           e == [loop EXCEPT !.next = loop.next + 1]
           t == [s EXCEPT ![n] = e]
<1>1. /\ s # <<>> /\ mode[a] = "run"
      /\ loop \in LoopEntries /\ loop = s[n] /\ loop.msg \in AllMessages
      /\ 1 <= loop.next /\ loop.count <= Len(message[loop.msg].parties)
      /\ Len(message[loop.msg].parties) \in Nat /\ n \in Nat /\ n > 1
  BY LoopFacts DEF notifyNext
<1>2. /\ loop.next <= loop.count /\ loop.next \in Nat /\ loop.count \in Nat
      /\ Tell(a, t, message, loop.msg, loop.next)
  BY <1>1 DEF notifyNext, LoopEntries
<1>3. /\ s \in Seq(Entries) /\ Nested(s) /\ BasesOK(message, s)
      /\ s[1].kind \in Activations
  BY <1>1, FlowFacts
<1>4. e \in Entries /\ e.kind = loop.kind /\ e.msg = loop.msg /\ e.kind \in Loops
  BY <1>1, <1>2 DEF LoopEntries, Entries
<1>5. loop.next \in 1..Len(message[loop.msg].parties)
  BY <1>1, <1>2
<1> HIDE DEF e
<1>6. /\ t \in Seq(Entries) /\ Len(t) = n
      /\ \A j \in 1..n : t[j] = IF j = n THEN e ELSE s[j]
  BY <1>1, <1>3, <1>4, ExceptSeq
<1> HIDE DEF t
<1>7. \A j \in 1..n : t[j].kind = s[j].kind /\ t[j].msg = s[j].msg
  BY <1>1, <1>4, <1>6
<1>8. t # <<>>
  BY <1>1, <1>6, EmptySeq
<1> HIDE DEF loop, s
<1>9. Nested(t)
  <2> SUFFICES ASSUME NEW i \in 1..n, t[i].kind = "dispatch"
      PROVE  /\ i + 1 \in 1..n /\ t[i + 1].kind = "frame"
             /\ \A f \in 1..i - 1 :
                  /\ t[f].kind = "frame"
                  /\ \A k \in f + 1..i - 1 : t[k].kind \notin Activations
                  => t[f].msg = t[i].msg
    BY <1>6 DEF Nested
  <2>1. /\ i + 1 \in 1..n /\ s[i + 1].kind = "frame"
        /\ \A f \in 1..i - 1 :
             /\ s[f].kind = "frame"
             /\ \A k \in f + 1..i - 1 : s[k].kind \notin Activations
             => s[f].msg = s[i].msg
    BY <1>3, <1>7 DEF Nested
  <2>2. \A f \in 1..i - 1 : f \in 1..n /\ \A k \in f + 1..i - 1 : k \in 1..n
    BY <1>1
  <2> QED  BY <1>7, <2>1, <2>2
<1>10. BasesOK(message, t)
  BY <1>3, <1>6, <1>7 DEF BasesOK
<1>11. \A x \in AllMessages : Live(s, x) => Live(t, x)
  BY <1>6, <1>7 DEF Live
<1>12. t[1].kind \in Activations
  <2>1. 1 \in 1..n
    BY <1>1
  <2> QED  BY <1>3, <1>7, <2>1
<1> QED  BY <1>1, <1>2, <1>5, <1>6, <1>8, <1>9, <1>10, <1>11, <1>12, FlowFacts, FlowTell DEF s

LEMMA FlowEverybody ==
    ASSUME Inv, FlowInv, Grows(message, message'), Keeps(message, message', reused, reused'),
           NEW a \in Activities, setAllNotified(a)
    PROVE  FlowInv'
<1> DEFINE s == stack[a]
           u == Front(s)
           m == Top(a).msg
           w == [message[m] EXCEPT !.notified = TRUE]
           t == IF Kind(u) \in Bases THEN <<>> ELSE u
           p == IF Top(a).kind = "reporting" /\ Kind(u) = "frame" THEN "raise" ELSE "run"
<1>1. /\ s # <<>> /\ mode[a] = "run" /\ Top(a) \in LoopEntries /\ Top(a) = s[Len(s)]
      /\ m \in AllMessages /\ Len(s) \in Nat /\ Len(s) > 1
  BY LoopFacts DEF setAllNotified
<1>2. /\ message' = [message EXCEPT ![m] = w] /\ stack' = [stack EXCEPT ![a] = t]
      /\ mode' = [mode EXCEPT ![a] = p] /\ lost' = lost
  BY DEF setAllNotified, history
<1>3. \A x \in AllMessages : message'[x].startActivity = message[x].startActivity
  <2>1. message[m] \in Message /\ message \in [AllMessages -> Message]
    BY <1>1, FlowFacts
  <2>2. w.startActivity = message[m].startActivity
    BY <2>1 DEF Message
  <2> HIDE DEF w
  <2> QED  BY <1>1, <1>2, <2>1, <2>2
<1>4. StackOK(a, s, message) /\ Nested(s) /\ BasesOK(message', s) /\ s \in Seq(Entries)
  BY StackFacts, FlowFacts, BasesKept
<1>5. s[Len(s)].kind \in Loops
  BY <1>1 DEF LoopEntries
<1>6. /\ u \in Seq(Entries) /\ Len(u) = Len(s) - 1
      /\ \A i \in 1..Len(s) - 1 : u[i] = s[i]
  BY <1>1, <1>4, FrontFacts
<1>7. StackOK(a, u, message) /\ Kind(u) # "starting" /\ u # <<>>
  BY <1>1, <1>4, <1>6, PopOK, EmptySeq
<1>8. /\ Kind(u) = u[Len(u)].kind /\ EntryOK(a, u, Len(u), message)
  BY <1>7, TopFacts
<1> HIDE DEF s, u, m, w
<1>9. PICK n \in Nat : n = Len(s) /\ n > 1 /\ Len(u) = n - 1
  BY <1>1, <1>6
<1>10. u[Len(u)].kind # "dispatch"
  <2>1. n - 1 \in 1..n /\ n - 1 + 1 = n /\ n - 1 \in 1..n - 1
    BY <1>9
  <2>2. s[n - 1].kind = "dispatch" => s[n].kind = "frame"
    BY <1>4, <1>9, <2>1 DEF Nested
  <2> QED  BY <1>5, <1>6, <1>9, <2>1, <2>2 DEF Loops
<1>11. /\ Nested(u) /\ BasesOK(message', u)
       /\ \A x : Live(s, x) => Live(u, x) \/ Gone(s, n - 1, x)
  <2>1. Len(u) \in Nat /\ Len(u) <= Len(s)
    BY <1>9
  <2>2. /\ Nested(u) /\ BasesOK(message', u)
        /\ \A x : Live(s, x) => Live(u, x) \/ Gone(s, Len(u), x)
    BY <1>1, <1>4, <1>6, <1>10, <2>1, CutFlow
  <2> QED  BY <1>9, <2>2
<1>12. \A i \in n - 1 + 1..n : i = n
  BY <1>9
<1>13. \A x : Live(s, x) => Live(u, x)
  BY <1>5, <1>9, <1>11, <1>12 DEF Loops, Gone
<1>14. CASE Kind(u) \in Bases
  <2>1. t = <<>> /\ p = "run"
    BY <1>14 DEF Bases
  <2>2. Len(u) = 1
    BY <1>8, <1>14 DEF EntryOK
  <2>3. \A x : ~Live(u, x)
    <3>1. 1..Len(u) = {1} /\ u[1].kind \in Bases \ {"starting"}
      BY <1>7, <1>8, <1>14, <2>2
    <3> QED  BY <3>1 DEF Live, Bases
  <2>4. Nested(t) /\ BasesOK(message', t)
    <3>1. 1..Len(<<>>) = {}
      OBVIOUS
    <3> QED  BY <2>1, <3>1 DEF Nested, BasesOK
  <2>5. \A x \in AllMessages : ~Active(stack[a], mode[a], x)
    BY <1>1, <1>13, <2>3 DEF Active, s
  <2>6. p # "raise"
    BY <2>1
  <2> HIDE DEF t, p
  <2> QED  BY <1>2, <1>3, <2>4, <2>5, <2>6, FlowMoves
<1>15. CASE Kind(u) \notin Bases
  <2>1. t = u
    BY <1>15
  <2>2. \A x \in AllMessages : Active(stack[a], mode[a], x) => Active(u, p, x)
    BY <1>1, <1>13 DEF Active, s
  <2> HIDE DEF t, p
  <2> QED  BY <1>2, <1>3, <1>7, <1>11, <2>1, <2>2, FlowMoves
<1> QED  BY <1>14, <1>15

LEMMA FlowTrapping ==
    ASSUME Inv, FlowInv, Grows(message, message'), Keeps(message, message', reused, reused'),
           NEW a \in Activities, trapNotifies(a)
    PROVE  FlowInv'
<1> DEFINE s == stack[a]
           m == Top(a).msg
<1>1. /\ s # <<>> /\ m # None /\ m = Last(s).msg /\ error(a, s, m)
  BY StackFacts DEF trapNotifies, Raising, Top
<1>2. StackOK(a, s, message) /\ Nested(s) /\ BasesOK(message', s)
  BY StackFacts, FlowFacts, BasesKept
<1>3. s \in Seq(Entries) /\ Last(s) \in Entries /\ s[1].kind \in Activations
  BY <1>1, <1>2, TopFacts
<1>4. m \in AllMessages
  BY <1>1, <1>3 DEF Entries, FrameEntries, DispatchEntries, LoopEntries
<1>5. /\ sendNotification(a, s, "reporting", m, [message[m] EXCEPT !.raised = TRUE])
      /\ mode' = [mode EXCEPT ![a] = "run"] /\ lost' = lost /\ "reporting" \in Loops
  BY <1>1 DEF error, history, Loops
<1>6. \A x \in AllMessages : Active(stack[a], mode[a], x) => x = m \/ Live(s, x)
  BY <1>1 DEF Active
<1> HIDE DEF s, m
<1> QED  BY <1>1, <1>2, <1>3, <1>4, <1>5, <1>6, FlowNotifying

(* The top frame of s goes, and the calls below it.                        *)
LEMMA PopFlow ==
    ASSUME NEW a, NEW f, NEW g, NEW s, StackOK(a, s, g), Nested(s), BasesOK(f, s),
           Kind(s) = "frame", s # <<>>, Front(s) # <<>>
    PROVE  LET u == Front(s)
               t == Unwound(u)
           IN  /\ Nested(t) /\ BasesOK(f, t) /\ t # <<>>
               /\ \A x : Live(s, x) =>
                    \/ Live(t, x)
                    \/ /\ \E e \in CallsAbove(u) : e.kind = "dispatch" /\ e.msg = x
                       /\ Last(t).kind = "frame" => Last(t).msg = x
<1> DEFINE u == Front(s)
           t == Unwound(u)
           h == TopFrame(u)
<1>1. /\ s \in Seq(Entries) /\ Len(s) \in Nat /\ s[Len(s)].kind = "frame"
  BY TopFacts
<1>2. /\ StackOK(a, u, g) /\ u \in Seq(Entries) /\ Len(u) = Len(s) - 1
      /\ \A i \in 1..Len(s) - 1 : u[i] = s[i]
  BY <1>1, PopOK, FrontFacts
<1>3. u[1].kind \in Activations
  BY <1>2, TopFacts
<1>4. /\ h \in 1..Len(u) /\ u[h].kind \in Activations
      /\ \A i \in h + 1..Len(u) : u[i].kind \notin Activations
      /\ t \in Seq(Entries) /\ Len(t) = h /\ \A i \in 1..h : t[i] = u[i]
      /\ Last(t) = u[h]
  BY <1>2, <1>3, UnwoundFacts
<1>5. ASSUME NEW i \in h + 1..Len(u) PROVE u[i] \in CallsAbove(u)
  BY DEF CallsAbove
<1> HIDE DEF h, t, u
<1>6. PICK n \in Nat : n = Len(u) /\ Len(s) = n + 1
  BY <1>1, <1>2, <1>4
<1>7. /\ h \in Nat /\ h # 0 /\ h <= n /\ h \in 1..h
  BY <1>4, <1>6
<1>8. /\ Nested(t) /\ BasesOK(f, t) /\ t # <<>>
      /\ \A x : Live(s, x) => Live(t, x) \/ Gone(s, h, x)
  <2>1. Len(t) \in Nat /\ Len(t) <= Len(s)
    BY <1>4, <1>6, <1>7
  <2>2. \A i \in 1..Len(t) : t[i] = s[i]
    <3>1. \A i \in 1..h : i \in 1..Len(s) - 1
      BY <1>6, <1>7
    <3> QED  BY <1>2, <1>4, <3>1
  <2>3. t[Len(t)].kind # "dispatch"
    BY <1>4, <1>7 DEF Activations, Bases
  <2>4. /\ Nested(t) /\ BasesOK(f, t)
        /\ \A x : Live(s, x) => Live(t, x) \/ Gone(s, Len(t), x)
    BY <1>1, <2>1, <2>2, <2>3, CutFlow
  <2>5. t # <<>>
    BY <1>4, <1>7, EmptySeq
  <2> QED  BY <1>4, <2>4, <2>5
<1>9. ASSUME NEW x, Gone(s, h, x)
      PROVE  /\ \E e \in CallsAbove(u) : e.kind = "dispatch" /\ e.msg = x
             /\ Last(t).kind = "frame" => Last(t).msg = x
  <2>1. PICK i \in h + 1..n + 1 : s[i].kind \in {"dispatch", "starting"} /\ s[i].msg = x
    BY <1>6, <1>9 DEF Gone
  <2>2. i \in h + 1..n
    <3>1. i # n + 1
      BY <1>1, <1>6, <2>1
    <3> QED  BY <1>7, <2>1, <3>1
  <2>3. i \in 1..Len(s) - 1 /\ i \in 1..Len(s) /\ h \in 1..i - 1 /\ h \in 1..Len(s) - 1
    BY <1>6, <1>7, <2>2
  <2>4. u[i] = s[i] /\ u[h] = s[h] /\ s[i].kind = "dispatch"
    BY <1>2, <1>4, <1>6, <2>1, <2>2, <2>3 DEF Activations, Bases
  <2>5. u[i] \in CallsAbove(u)
    BY <1>5, <1>6, <2>2
  <2>6. s[h].kind = "frame" => s[h].msg = x
    <3>1. \A k \in h + 1..i - 1 : k \in h + 1..n /\ k \in 1..Len(s) - 1
      BY <1>6, <1>7, <2>2
    <3>2. \A k \in h + 1..i - 1 : s[k].kind \notin Activations
      BY <1>2, <1>4, <1>6, <3>1
    <3>3. /\ s[h].kind = "frame"
          /\ \A k \in h + 1..i - 1 : s[k].kind \notin Activations
          => s[h].msg = s[i].msg
      BY <2>3, <2>4 DEF Nested
    <3> QED  BY <2>1, <3>2, <3>3
  <2> QED  BY <1>4, <2>1, <2>4, <2>5, <2>6
<1> QED  BY <1>8, <1>9 DEF u, t

LEMMA FlowUntrapped ==
    ASSUME Inv, FlowInv, Grows(message, message'), Keeps(message, message', reused, reused'),
           NEW a \in Activities, untrapped(a)
    PROVE  FlowInv'
<1> DEFINE s == stack[a]
           u == Front(s)
<1>1. /\ s # <<>> /\ mode[a] = "raise" /\ Kind(s) = "frame" /\ Last(s).msg = None
      /\ message' = message
      /\ IF TopFrame(u) = 0
         THEN /\ stack' = [stack EXCEPT ![a] = <<>>]
              /\ mode' = [mode EXCEPT ![a] = "run"] /\ lost' = lost
         ELSE RaiseFrom(a, u)
  BY StackFacts DEF untrapped, Raising, Top
<1>2. StackOK(a, s, message) /\ Nested(s) /\ BasesOK(message', s)
  BY StackFacts, FlowFacts, BasesKept
<1>3. None \notin AllMessages
  BY MessageAssumption DEF AllMessages
<1>4. s \in Seq(Entries) /\ s[Len(s)].kind = "frame"
  BY <1>1, <1>2, TopFacts
<1>5. CASE TopFrame(u) = 0
  <2> DEFINE t == <<>>
             p == "run"
  <2>1. u = <<>>
    <3>1. StackOK(a, u, message)
      BY <1>1, <1>2, PopOK
    <3> HIDE DEF u
    <3>2. u # <<>> => TopFrame(u) \in 1..Len(u)
      BY <3>1, TopFacts, UnwoundFacts
    <3>3. ~(0 \in 1..Len(u))
      BY <3>1, LenProperties DEF StackOK
    <3> QED  BY <1>5, <3>2, <3>3
  <2>2. Len(s) = 1
    BY <1>1, <1>4, <2>1, FrontFacts
  <2>3. \A x \in AllMessages : ~Active(stack[a], mode[a], x)
    <3>1. 1..Len(s) = {1}
      BY <2>2
    <3> QED  BY <1>1, <1>3, <1>4, <2>2, <3>1 DEF Active, Live
  <2>4. Nested(t) /\ BasesOK(message', t)
    <3>1. 1..Len(<<>>) = {}
      OBVIOUS
    <3> QED  BY <3>1 DEF Nested, BasesOK
  <2>5. /\ stack' = [stack EXCEPT ![a] = t] /\ mode' = [mode EXCEPT ![a] = p]
        /\ p # "raise" /\ lost \subseteq lost'
    BY <1>1, <1>5
  <2> HIDE DEF t, p
  <2> QED  BY <1>1, <2>3, <2>4, <2>5, FlowMoves
<1>6. CASE TopFrame(u) # 0
  <2> DEFINE t == Unwound(u)
             p == "raise"
  <2>1. /\ Nested(t) /\ BasesOK(message', t) /\ t # <<>>
        /\ \A x : Live(s, x) =>
                    \/ Live(t, x)
                    \/ /\ \E e \in CallsAbove(u) : e.kind = "dispatch" /\ e.msg = x
                       /\ Last(t).kind = "frame" => Last(t).msg = x
    <3>1. u # <<>>
      BY <1>6, NothingBelow
    <3> QED  BY <1>1, <1>2, <3>1, PopFlow
  <2>2. /\ stack' = [stack EXCEPT ![a] = t] /\ mode' = [mode EXCEPT ![a] = p]
        /\ lost' = IF Last(t).kind = "frame" THEN lost
                   ELSE lost \cup ({e.msg : e \in {e \in CallsAbove(u) :
                                                     e.kind \in {"dispatch"}}}
                                   \ {Last(t).msg})
    BY <1>1, <1>6 DEF RaiseFrom
  <2> HIDE DEF t, u
  <2>3. lost \subseteq lost'
    BY <2>2
  <2>4. ASSUME NEW x \in AllMessages \ (reused' \cup lost'), Active(stack[a], mode[a], x)
        PROVE  Active(t, p, x)
    <3>1. Live(s, x)
      BY <1>1, <1>3, <2>4 DEF Active
    <3>2. CASE Live(t, x)
      BY <3>2 DEF Active
    <3>3. ASSUME NEW e \in CallsAbove(u), e.kind = "dispatch", e.msg = x,
                 Last(t).kind = "frame" => Last(t).msg = x
          PROVE  Active(t, p, x)
      <4>1. Last(t).msg = x
        BY <2>2, <3>3
      <4> QED  BY <4>1 DEF Active
    <3> QED  BY <2>1, <3>1, <3>2, <3>3
  <2> HIDE DEF p
  <2> QED  BY <1>1, <2>1, <2>2, <2>3, <2>4, FlowMoves
<1> QED  BY <1>5, <1>6

LEMMA FlowSignal ==
    ASSUME Inv, FlowInv, Grows(message, message'), Keeps(message, message', reused, reused'),
           NEW a \in Activities, signalUser(a)
    PROVE  FlowInv'
<1> DEFINE s == stack[a]
           u == Front(s)
           t == Unwound(u)
           p == "run"
<1>1. /\ s # <<>> /\ mode[a] = "run" /\ Kind(s) = "frame" /\ Kind(t) = "frame"
      /\ stack' = [stack EXCEPT ![a] = t]
      /\ lost' = lost \cup {e.msg : e \in {e \in CallsAbove(u) : e.kind = "dispatch"}}
      /\ message' = message /\ mode' = mode
  BY StackFacts DEF signalUser, InRexx, Turn
<1>2. StackOK(a, s, message) /\ Nested(s) /\ BasesOK(message', s)
  BY StackFacts, FlowFacts, BasesKept
<1>3. /\ Nested(t) /\ BasesOK(message', t) /\ t # <<>>
      /\ \A x : Live(s, x) =>
                  Live(t, x) \/ \E e \in CallsAbove(u) : e.kind = "dispatch" /\ e.msg = x
  <2>1. u # <<>>
    BY <1>1, NothingBelow
  <2> QED  BY <1>1, <1>2, <2>1, PopFlow
<1>4. mode' = [mode EXCEPT ![a] = p] /\ p # "raise"
  BY <1>1, FlowFacts
<1> HIDE DEF t, u
<1>5. ASSUME NEW x \in AllMessages \ (reused' \cup lost'), Active(stack[a], mode[a], x)
      PROVE  Active(t, p, x)
  <2>1. Live(s, x)
    BY <1>1, <1>5 DEF Active
  <2>2. ~\E e \in CallsAbove(u) : e.kind = "dispatch" /\ e.msg = x
    BY <1>1
  <2> QED  BY <1>3, <2>1, <2>2 DEF Active
<1> HIDE DEF p
<1> QED  BY <1>1, <1>3, <1>4, <1>5, FlowMoves

LEMMA FlowHandling ==
    ASSUME Inv, FlowInv, Grows(message, message'), Keeps(message, message', reused, reused'),
           NEW a \in Activities, handleError(a)
    PROVE  FlowInv'
<1> DEFINE s == stack[a]
           m == Last(s).msg
<1>1. /\ mode[a] = "raise" /\ s # <<>>
      /\ \/ Kind(s) = "running" /\ error(a, <<Entry("handling", m)>>, m)
         \/ Kind(s) = "handling" /\ error(a, <<Entry("catching", m)>>, m)
         \/ /\ Kind(s) = "catching"
            /\ stack' = [stack EXCEPT ![a] = <<>>]
            /\ mode' = [mode EXCEPT ![a] = "run"]
            /\ UNCHANGED <<message, waitingObject, history>>
  BY StackFacts DEF handleError, Top
<1>2. StackOK(a, s, message) /\ BasesOK(message', s)
  BY StackFacts, FlowFacts, BasesKept
<1>3. /\ Kind(s) = Last(s).kind /\ Last(s) \in Entries /\ Last(s) = s[Len(s)]
      /\ Len(s) \in Nat /\ Len(s) >= 1 /\ EntryOK(a, s, Len(s), message)
  BY <1>1, <1>2, TopFacts
<1>4. /\ Kind(s) \in {"running", "handling", "catching"}
      /\ Kind(s) \in Bases /\ Kind(s) \notin {"dispatch", "starting"}
  BY <1>1 DEF Bases
<1>5. Len(s) = 1 /\ s[1] = Last(s) /\ m \in AllMessages
  BY <1>3, <1>4 DEF EntryOK, Entries, FrameEntries, DispatchEntries, LoopEntries, Loops, Bases
<1>6. /\ message'[m].activated /\ message'[m].startActivity # None
      /\ Kind(s) = "catching" => Done(message'[m])
  <2>1. 1 \in 1..Len(s)
    BY <1>5
  <2> QED  BY <1>2, <1>3, <1>4, <1>5, <2>1 DEF BasesOK
<1>7. \A x \in AllMessages : Active(stack[a], mode[a], x) => x = m
  <2>1. 1..Len(s) = {1}
    BY <1>5
  <2> QED  BY <1>3, <1>4, <1>5, <2>1 DEF Active, Live
<1> HIDE DEF s, m
<1>8. ASSUME NEW k \in {"handling", "catching"}, error(a, <<Entry(k, m)>>, m)
      PROVE  FlowInv'
  <2> DEFINE e == Entry(k, m)
             t == <<e>>
             r == [message[m] EXCEPT !.raised = TRUE]
  <2>1. e \in Entries /\ e.kind = k /\ e.msg = m
    BY <1>5, EntryFacts DEF Bases
  <2>2. /\ sendNotification(a, t, "reporting", m, r)
        /\ mode' = [mode EXCEPT ![a] = "run"] /\ lost' = lost /\ "reporting" \in Loops
    BY <1>8 DEF error, history, Loops
  <2> HIDE DEF e
  <2>3. t \in Seq(Entries) /\ t # <<>> /\ t[1] = e /\ 1..Len(t) = {1}
    BY <2>1
  <2> HIDE DEF t
  <2>4. Nested(t) /\ t[1].kind \in Activations
    BY <1>8, <2>1, <2>3 DEF Nested, Activations, Bases
  <2>5. Done(message'[m])
    <3>1. message[m] \in Message /\ message \in [AllMessages -> Message]
      BY <1>5, FlowFacts
    <3> DEFINE w == [r EXCEPT !.waiters = {}]
    <3>2. w.raised
      BY <3>1 DEF Message
    <3>3. message' = [message EXCEPT ![m] = w]
      BY <2>2 DEF sendNotification
    <3> HIDE DEF w
    <3> QED  BY <1>5, <3>1, <3>2, <3>3 DEF Done
  <2>6. BasesOK(message', t)
    BY <1>6, <2>1, <2>3, <2>5 DEF BasesOK
  <2> QED  BY <1>5, <1>7, <2>2, <2>3, <2>4, <2>6, FlowNotifying
<1>9. CASE /\ Kind(s) = "catching" /\ stack' = [stack EXCEPT ![a] = <<>>]
           /\ mode' = [mode EXCEPT ![a] = "run"]
           /\ UNCHANGED <<message, waitingObject, history>>
  <2> DEFINE t == <<>>
             p == "run"
  <2>1. Nested(t) /\ BasesOK(message', t)
    <3>1. 1..Len(<<>>) = {}
      OBVIOUS
    <3> QED  BY <3>1 DEF Nested, BasesOK
  <2>2. /\ stack' = [stack EXCEPT ![a] = t] /\ mode' = [mode EXCEPT ![a] = p]
        /\ p # "raise" /\ message' = message /\ lost' = lost /\ Done(message'[m])
    BY <1>6, <1>9 DEF history
  <2> HIDE DEF t, p
  <2>3. \A x \in AllMessages : Active(stack[a], mode[a], x) => Done(message'[x])
    BY <1>7, <2>2
  <2> QED  BY <2>1, <2>2, <2>3, FlowMoves
<1> QED  BY <1>1, <1>8, <1>9

LEMMA FlowInit == Init => FlowInv
<1> SUFFICES ASSUME Init PROVE FlowInv
  OBVIOUS
<1>1. PICK a \in Activities :
         stack = [b \in Activities |-> IF b = a THEN <<Entry("frame", None)>> ELSE <<>>]
  BY DEF Init
<1>2. ASSUME NEW b \in Activities PROVE Nested(stack[b]) /\ BasesOK(message, stack[b])
  <2> DEFINE e == Entry("frame", None)
             t == <<e>>
  <2>1. e.kind = "frame"
    BY EntryFacts
  <2> HIDE DEF e
  <2>2. 1..Len(t) = {1} /\ t[1] = e /\ 1..Len(<<>>) = {}
    OBVIOUS
  <2>3. stack[b] = t \/ stack[b] = <<>>
    BY <1>1 DEF e
  <2> HIDE DEF t
  <2> QED  BY <2>1, <2>2, <2>3 DEF Nested, BasesOK, Bases
<1>3. \A m \in AllMessages : message[m].startActivity = None
  BY DEF Init, NewMessage
<1>4. \A b \in Activities : mode[b] = "run"
  BY DEF Init
<1> QED  BY <1>2, <1>3, <1>4 DEF FlowInv

LEMMA FlowStays == Inv /\ ToldInv /\ FlowInv /\ [Next]_vars => FlowInv'
<1> SUFFICES ASSUME Inv, ToldInv, FlowInv, [Next]_vars PROVE FlowInv'
  OBVIOUS
<1>1. Grows(message, message') /\ Keeps(message, message', reused, reused')
  BY InvNext, ToldStays DEF Stepped, ToldStepped
<1>2. CASE UNCHANGED vars
  <2>1. /\ message' = message /\ stack' = stack /\ mode' = mode
        /\ reused' = reused /\ lost' = lost
    BY <1>2 DEF vars
  <2>2. \A b \in Activities : /\ Nested(stack'[b]) /\ BasesOK(message', stack'[b])
                              /\ mode'[b] = "raise" => stack'[b] # <<>>
    BY <2>1 DEF FlowInv
  <2>3. \A m \in AllMessages \ (reused' \cup lost') :
            message'[m].startActivity # None =>
              Done(message'[m]) \/ \E b \in Activities : Active(stack'[b], mode'[b], m)
    BY <2>1 DEF FlowInv
  <2> QED  BY <2>2, <2>3 DEF FlowInv
<1>3. ASSUME NEW a \in Activities, Use(a) PROVE FlowInv'
  <2>1. PICK m \in Created :
            \/ sendMessage(a, m) \/ start(a, m) \/ reply(a, m) \/ wait(a, m)
            \/ \E p \in Created \cup Listeners : notify(a, m, p)
    BY <1>3 DEF Use
  <2> QED
    BY <1>1, <2>1, FlowSending, FlowStarting, FlowReplying, FlowWaiting, FlowListening
<1>4. ASSUME NEW a \in Activities, Complete(a) PROVE FlowInv'
  BY <1>1, <1>4, FlowReturning, FlowNext, FlowEverybody DEF Complete
<1>5. ASSUME NEW a \in Activities, Fail(a) PROVE FlowInv'
  BY <1>1, <1>5, FlowRaising, FlowTrapping, FlowUntrapped, FlowHandling, FlowSignal DEF Fail
<1>6. ASSUME NEW a \in Activities, runStarted(a) \/ wake(a) PROVE FlowInv'
  BY <1>1, <1>6, FlowRunStarted, FlowRaising
<1> QED  BY <1>2, <1>3, <1>4, <1>5, <1>6 DEF Next

(* A message that was dispatched is complete, still on a stack, or in the  *)
(* hands of the frame that raises the error - but for those that a         *)
(* condition other than SYNTAX unwound, that ran at the base of a thread   *)
(* as a party, or that are used again.                                     *)
THEOREM DispatchesComplete == Spec => []DispatchCompletes
<1>1. Inv /\ FlowInv => DispatchCompletes
  <2> SUFFICES ASSUME Inv, FlowInv, NEW m \in AllMessages \ (reused \cup lost),
                      message[m].startActivity # None
               PROVE  isComplete(m) \/ InProgress(m)
    BY DEF DispatchCompletes
  <2>1. CASE Done(message[m])
    BY <2>1 DEF Done, isComplete
  <2>2. ASSUME NEW a \in Activities, Active(stack[a], mode[a], m)
        PROVE  InProgress(m)
    <3>1. stack[a] \in Seq(Entries)
      BY FlowFacts
    <3>2. DOMAIN stack[a] = 1..Len(stack[a])
      BY <3>1, LenProperties
    <3> QED  BY <2>2, <3>2 DEF Active, Live, InProgress, ToSet, Top
  <2> QED  BY <2>1, <2>2 DEF FlowInv
<1>2. Init => Inv /\ ToldInv /\ FlowInv
  BY InvInit, ToldInit, FlowInit
<1>3. Inv /\ ToldInv /\ FlowInv /\ [Next]_vars => (Inv /\ ToldInv /\ FlowInv)'
  BY InvNext, ToldStays, FlowStays DEF Stepped, ToldStepped
<1> QED  BY <1>1, <1>2, <1>3, PTL DEF Spec

-----------------------------------------------------------------------------
(***************************************************************************)
(* Who waits for whom.                                                     *)
(***************************************************************************)
(* A function on 0..n that starts with x and goes on with NextOwner.       *)
Follows(g, x, n) == /\ g[0] = x
                    /\ \A i \in 1..n : g[i] = NextOwner(g[i - 1])

LEMMA ChainExists ==
    ASSUME NEW x, NEW n \in Nat
    PROVE  \E g : g = [i \in 0..n |-> g[i]] /\ Follows(g, x, n)
<1> DEFINE Has(k) == \E g : g = [i \in 0..k |-> g[i]] /\ Follows(g, x, k)
           T == {k \in Nat : ~Has(k)}
<1> SUFFICES ASSUME T # {} PROVE FALSE
  BY DEF Follows
<1>1. PICK k \in T : \A j \in T : k <= j
  BY LeastExists
<1>2. Has(0)
  <2> DEFINE g == [i \in 0..0 |-> x]
  <2>1. g[0] = x /\ g = [i \in 0..0 |-> g[i]] /\ \A i \in 1..0 : g[i] = NextOwner(g[i - 1])
    OBVIOUS
  <2> QED  BY <2>1 DEF Follows
<1>3. k \in Nat /\ k # 0 /\ ~Has(k)
  BY <1>1, <1>2
<1>4. Has(k - 1)
  <2>1. k - 1 \in Nat /\ ~(k <= k - 1)
    BY <1>3
  <2> HIDE DEF Has
  <2> QED  BY <1>1, <2>1
<1>5. PICK g : g = [i \in 0..k - 1 |-> g[i]] /\ Follows(g, x, k - 1)
  BY <1>4
<1> DEFINE h == [i \in 0..k |-> IF i = k THEN NextOwner(g[k - 1]) ELSE g[i]]
<1>6. h = [i \in 0..k |-> h[i]] /\ h[0] = x
  BY <1>3, <1>5 DEF Follows
<1>7. ASSUME NEW i \in 1..k PROVE h[i] = NextOwner(h[i - 1])
  <2>1. i - 1 \in 0..k /\ i - 1 # k /\ i \in 0..k /\ h[i - 1] = g[i - 1]
    BY <1>3
  <2>2. CASE i = k
    BY <2>1, <2>2
  <2>3. CASE i # k
    <3>1. i \in 1..k - 1
      BY <1>3, <2>3
    <3>2. g[i] = NextOwner(g[i - 1])
      BY <1>5, <3>1 DEF Follows
    <3> QED  BY <2>1, <2>3, <3>2
  <2> QED  BY <2>2, <2>3
<1>8. Has(k)
  <2> HIDE DEF h
  <2> QED  BY <1>6, <1>7 DEF Follows
<1> QED  BY <1>3, <1>8

LEMMA OwnersFacts ==
    ASSUME NEW m
    PROVE  /\ Cardinality(Activities) \in Nat
           /\ Follows(Owners(m), message[m].startActivity, Cardinality(Activities))
<1> DEFINE N == Cardinality(Activities)
           x == message[m].startActivity
           F(g) == [n \in 0..N |-> IF n = 0 THEN x ELSE NextOwner(g[n - 1])]
<1>1. N \in Nat
  BY MessageAssumption, FS_CardinalityType
<1>2. Owners(m) = CHOOSE g : g = F(g)
  BY DEF Owners
<1> HIDE DEF N, x
<1>3. PICK g : g = [i \in 0..N |-> g[i]] /\ Follows(g, x, N)
  BY <1>1, ChainExists
<1>4. g = F(g)
  <2>1. \A n \in 0..N : g[n] = IF n = 0 THEN x ELSE NextOwner(g[n - 1])
    <3>1. \A n \in 0..N : n = 0 \/ n \in 1..N
      BY <1>1
    <3> QED  BY <1>3, <3>1 DEF Follows
  <2> QED  BY <1>3, <2>1
<1>5. PICK o : o = Owners(m) /\ o = F(o)
  BY <1>2, <1>4
<1>6. Follows(o, x, N)
  <2>1. 0 \in 0..N /\ \A n \in 1..N : n \in 0..N /\ n # 0
    BY <1>1
  <2> QED  BY <1>5, <2>1 DEF Follows
<1> QED  BY <1>1, <1>5, <1>6 DEF N, x

LEMMA UpTo ==
    ASSUME NEW n \in Nat, NEW P \in SUBSET (0..n), 0 \in P,
           \A i \in 1..n : i - 1 \in P => i \in P
    PROVE  P = 0..n
<1> DEFINE T == (0..n) \ P
<1> SUFFICES ASSUME T # {} PROVE FALSE
  OBVIOUS
<1>1. T \in SUBSET Nat
  OBVIOUS
<1>2. PICK k \in T : \A j \in T : k <= j
  BY <1>1, LeastExists
<1>3. k \in 1..n /\ k \in Int /\ k \notin P
  BY <1>2
<1>4. k - 1 \in 0..n /\ ~(k <= k - 1)
  BY <1>3
<1>5. k - 1 \in P
  BY <1>2, <1>4
<1> QED  BY <1>3, <1>5

(* The owners that come before a given one.                                *)
LEMMA ChainFacts ==
    ASSUME Inv, NEW m \in AllMessages, NEW n \in 0..Cardinality(Activities),
           Owners(m)[n] # None
    PROVE  /\ \A i \in 0..n : Owners(m)[i] \in Activities
           /\ Owners(m)[0] = message[m].startActivity
           /\ \A i \in 0..n - 1 :
                LET a == Owners(m)[i]
                IN  /\ waitingObject[a] # None
                    /\ message[waitingObject[a]].startActivity = Owners(m)[i + 1]
<1> DEFINE N == Cardinality(Activities)
           o == Owners(m)
<1>1. /\ N \in Nat /\ o[0] = message[m].startActivity
      /\ \A i \in 1..N : o[i] = NextOwner(o[i - 1])
  BY OwnersFacts DEF Follows
<1>2. n \in Nat /\ n \in 0..N /\ o[n] # None
  BY <1>1
<1> HIDE DEF o, N
<1> DEFINE P == {i \in 0..n : o[n - i] # None}
<1>3. P = 0..n
  <2>1. 0 \in P
    BY <1>2
  <2>2. ASSUME NEW i \in 1..n, i - 1 \in P PROVE i \in P
    <3>1. n - (i - 1) \in 1..N /\ n - (i - 1) - 1 = n - i /\ i \in 0..n
      BY <1>1, <1>2
    <3>2. o[n - (i - 1)] = NextOwner(o[n - i]) /\ o[n - (i - 1)] # None
      BY <1>1, <2>2, <3>1
    <3> QED  BY <3>1, <3>2 DEF NextOwner
  <2> HIDE DEF P
  <2>3. P \in SUBSET (0..n)
    BY DEF P
  <2> QED  BY <1>2, <2>1, <2>2, <2>3, UpTo
<1>4. \A i \in 0..n : o[i] # None
  <2> SUFFICES ASSUME NEW i \in 0..n PROVE o[i] # None
    OBVIOUS
  <2>1. n - i \in 0..n /\ n - (n - i) = i
    BY <1>2
  <2>2. n - i \in P
    BY <1>3, <2>1
  <2> QED  BY <2>1, <2>2
<1>5. ASSUME NEW i \in 0..n - 1
      PROVE  /\ waitingObject[o[i]] # None
             /\ message[waitingObject[o[i]]].startActivity = o[i + 1]
  <2>1. i + 1 \in 1..N /\ i + 1 - 1 = i /\ i + 1 \in 0..n
    BY <1>1, <1>2
  <2>2. o[i + 1] = NextOwner(o[i]) /\ o[i + 1] # None
    BY <1>1, <1>4, <2>1
  <2> QED  BY <2>2 DEF NextOwner
<1>6. ASSUME NEW x \in AllMessages, message[x].startActivity # None
      PROVE  message[x].startActivity \in Activities
  <2>1. message[x] \in Message
    BY PartiesSeq DEF Inv, Typed
  <2> QED  BY <1>6, <2>1 DEF Message
<1> DEFINE Q == {i \in 0..n : o[i] \in Activities}
<1>7. Q = 0..n
  <2>1. 0 \in Q
    BY <1>1, <1>2, <1>4, <1>6
  <2>2. ASSUME NEW i \in 1..n, i - 1 \in Q PROVE i \in Q
    <3>1. i - 1 \in 0..n - 1 /\ i - 1 + 1 = i /\ i \in 0..n
      BY <1>2
    <3> DEFINE a == o[i - 1]
    <3>2. a \in Activities
      BY <2>2
    <3>3. /\ waitingObject[a] # None
          /\ message[waitingObject[a]].startActivity = o[i]
      BY <1>5, <3>1
    <3> HIDE DEF a
    <3>4. waitingObject[a] \in AllMessages
      BY <3>2, <3>3 DEF Inv, Typed
    <3>5. o[i] \in Activities
      BY <1>4, <1>6, <3>1, <3>3, <3>4
    <3> QED  BY <3>1, <3>5
  <2> HIDE DEF Q
  <2>3. Q \in SUBSET (0..n)
    BY DEF Q
  <2> QED  BY <1>2, <2>1, <2>2, <2>3, UpTo
<1>8. \A i \in 0..n : o[i] \in Activities
  BY <1>7
<1> QED  BY <1>1, <1>5, <1>8 DEF o

Closed(S) == \A a \in S : /\ waitingObject[a] # None
                          /\ message[waitingObject[a]].startActivity \in S
NoCircle == \A S \in SUBSET Activities : S # {} /\ Closed(S) => \E b \in S : Waits(b, b)
Sleeping == \A a \in Activities :
                waitingObject[a] # None => mode[a] = "wait" /\ stack[a] # <<>>
Stuck == \A a \in Activities :
             mode[a] = "endless" => /\ \A b \in Activities \ {a} : ~Busy(b)
                                    /\ \E b \in Activities : Waits(b, b)
CalmInv == NoCircle /\ Sleeping /\ Stuck

(* The owners of a message lead back to the activity that waits for it.    *)
LEMMA CircleHasSelf ==
    ASSUME Inv, NoCircle, NEW a \in Activities, InCircle(a)
    PROVE  \E b \in Activities : Waits(b, b)
<1> DEFINE m == waitingObject[a]
           o == Owners(m)
<1>1. CASE Waits(a, a)
  BY <1>1
<1>2. ASSUME m # None, NEW n \in 1..Cardinality(Activities), o[n] = a
      PROVE  \E b \in Activities : Waits(b, b)
  <2>1. m \in AllMessages /\ a # None
    BY <1>2, MessageAssumption DEF Inv, Typed
  <2>2. n \in 0..Cardinality(Activities) /\ n \in Nat /\ n >= 1
    BY OwnersFacts
  <2>3. /\ \A i \in 0..n : o[i] \in Activities
        /\ o[0] = message[m].startActivity
        /\ \A i \in 0..n - 1 :
             /\ waitingObject[o[i]] # None
             /\ message[waitingObject[o[i]]].startActivity = o[i + 1]
    BY <1>2, <2>1, <2>2, ChainFacts
  <2> HIDE DEF o
  <2> DEFINE S == {o[i] : i \in 0..n}
  <2>4. S \in SUBSET Activities /\ S # {} /\ o[0] \in S
    BY <2>2, <2>3
  <2>5. Closed(S)
    <3> SUFFICES ASSUME NEW i \in 0..n
                 PROVE  /\ waitingObject[o[i]] # None
                        /\ message[waitingObject[o[i]]].startActivity \in S
      BY DEF Closed
    <3>1. CASE i = n
      BY <1>2, <2>3, <2>4, <3>1
    <3>2. CASE i # n
      <4>1. i \in 0..n - 1 /\ i + 1 \in 0..n
        BY <2>2, <3>2
      <4> QED  BY <2>3, <4>1
    <3> QED  BY <3>1, <3>2
  <2> HIDE DEF S
  <2> QED  BY <2>4, <2>5 DEF NoCircle
<1> QED  BY <1>1, <1>2 DEF InCircle

(* More owners than activities: one comes twice.                           *)
LEMMA EndlessHasSelf ==
    ASSUME Inv, NoCircle, NEW m \in AllMessages, Endless(m)
    PROVE  \E b \in Activities : Waits(b, b)
<1> DEFINE N == Cardinality(Activities)
           o == Owners(m)
<1>1. N \in Nat /\ o[N] # None /\ N \in 0..N
  BY OwnersFacts DEF Endless
<1>2. /\ \A i \in 0..N : o[i] \in Activities
      /\ \A i \in 0..N - 1 :
           /\ waitingObject[o[i]] # None
           /\ message[waitingObject[o[i]]].startActivity = o[i + 1]
  BY <1>1, ChainFacts
<1>3. IsFiniteSet(0..N) /\ Cardinality(0..N) = N + 1
  BY <1>1, FS_Interval
<1> HIDE DEF o
<1>4. PICK x \in 0..N, y \in 0..N : x # y /\ o[x] = o[y]
  <2> DEFINE g == [i \in 0..N |-> o[i]]
  <2>1. g \in [0..N -> Activities]
    BY <1>2
  <2>2. IsFiniteSet(Activities) /\ Cardinality(Activities) < Cardinality(0..N)
    BY <1>1, <1>3, MessageAssumption
  <2>3. \E x, y \in 0..N : x # y /\ g[x] = g[y]
    <3> HIDE DEF g, N
    <3> QED  BY <1>3, <2>1, <2>2, FS_PigeonHole
  <2> QED  BY <2>3
<1> HIDE DEF N
<1>5. ASSUME NEW p \in 0..N, NEW q \in 0..N, p < q, o[p] = o[q]
      PROVE  \E b \in Activities : Waits(b, b)
  <2> DEFINE S == {o[i] : i \in p..q}
  <2>1. S \in SUBSET Activities /\ S # {} /\ p \in p..q /\ p + 1 \in p..q
    <3>1. \A i \in p..q : i \in 0..N
      BY <1>1
    <3>2. p \in p..q /\ p + 1 \in p..q
      BY <1>1, <1>5
    <3> QED  BY <1>2, <3>1, <3>2
  <2>2. Closed(S)
    <3>1. ASSUME NEW i \in p..q, i # q
          PROVE  /\ waitingObject[o[i]] # None
                 /\ message[waitingObject[o[i]]].startActivity \in S
      <4>1. i \in 0..N - 1 /\ i + 1 \in p..q
        BY <1>1, <3>1
      <4> QED  BY <1>2, <4>1
    <3>2. p # q
      BY <1>1, <1>5
    <3>3. \A i \in p..q : /\ waitingObject[o[i]] # None
                          /\ message[waitingObject[o[i]]].startActivity \in S
      BY <1>5, <2>1, <3>1, <3>2
    <3> HIDE DEF S
    <3>4. \A a \in S : \E i \in p..q : a = o[i]
      BY DEF S
    <3> QED  BY <3>3, <3>4 DEF Closed
  <2> HIDE DEF S
  <2> QED  BY <2>1, <2>2 DEF NoCircle
<1>6. x < y \/ y < x
  BY <1>1, <1>4
<1> QED  BY <1>4, <1>5, <1>6

(* A wait that is let through.                                             *)
LEMMA WaitKeepsNoCircle ==
    ASSUME Inv, NoCircle, NEW a \in Activities, NEW m \in AllMessages,
           ~checkDeadLock(m, a), ~Endless(m), waitingObject[a] = None,
           waitingObject' = [waitingObject EXCEPT ![a] = m],
           \A x \in AllMessages : message'[x].startActivity = message[x].startActivity
    PROVE  NoCircle'
<1>1. /\ waitingObject'[a] = m
      /\ \A b \in Activities \ {a} : waitingObject'[b] = waitingObject[b]
      /\ \A b \in Activities : waitingObject[b] # None => waitingObject[b] \in AllMessages
      /\ None \notin Activities /\ m # None
  BY MessageAssumption DEF Inv, Typed, AllMessages
<1> DEFINE Link(b, c) == /\ waitingObject'[b] # None
                         /\ message'[waitingObject'[b]].startActivity = c
<1>2. SUFFICES ASSUME NEW S \in SUBSET Activities, S # {},
                      \A b \in S : \E c \in S : Link(b, c)
               PROVE  \E b \in S : Link(b, b)
  <2>1. NoCircle' = \A S \in SUBSET Activities :
            S # {} /\ (\A b \in S : \E c \in S : Link(b, c)) => \E b \in S : Link(b, b)
    BY DEF NoCircle, Closed, Waits
  <2> QED  BY <1>2, <2>1
<1>3. \A b \in Activities \ {a} : \A c :
         Link(b, c) <=> /\ waitingObject[b] # None
                        /\ message[waitingObject[b]].startActivity = c
  BY <1>1
<1>4. \A c : Link(a, c) <=> message[m].startActivity = c
  BY <1>1
<1> HIDE DEF Link
<1>5. CASE a \notin S
  <2>1. Closed(S)
    BY <1>2, <1>3, <1>5 DEF Closed
  <2>2. PICK b \in S : Waits(b, b)
    BY <1>2, <2>1 DEF NoCircle
  <2> QED  BY <1>3, <1>5, <2>2 DEF Waits
<1>6. CASE a \in S /\ message[m].startActivity = a
  BY <1>4, <1>6
<1>7. CASE a \in S /\ message[m].startActivity # a
  <2> DEFINE N == Cardinality(Activities)
             o == Owners(m)
             P == {i \in 0..N : o[i] \in S \ {a}}
  <2>1. /\ N \in Nat /\ o[0] = message[m].startActivity
        /\ \A i \in 1..N : o[i] = NextOwner(o[i - 1])
    BY OwnersFacts DEF Follows
  <2>2. o[N] = None /\ \A i \in 1..N : o[i] # a
    BY DEF Endless, checkDeadLock
  <2> HIDE DEF o, N
  <2>3. 0 \in P
    BY <1>2, <1>4, <1>7, <2>1
  <2>4. ASSUME NEW i \in 1..N, i - 1 \in P PROVE i \in P
    <3> DEFINE b == o[i - 1]
    <3>1. b \in S \ {a}
      BY <2>4
    <3>2. o[i] = NextOwner(b) /\ o[i] # a /\ i \in 0..N
      BY <2>1, <2>2
    <3> HIDE DEF b
    <3>3. PICK c \in S : Link(b, c)
      BY <1>2, <3>1
    <3>4. waitingObject[b] # None /\ message[waitingObject[b]].startActivity = c /\ b # None
      BY <1>1, <1>3, <3>1, <3>3
    <3>5. o[i] = c
      BY <3>2, <3>4 DEF NextOwner
    <3> QED  BY <3>2, <3>3, <3>5
  <2>5. P = 0..N
    <3> HIDE DEF P
    <3>1. P \in SUBSET (0..N)
      BY DEF P
    <3> QED  BY <2>1, <2>3, <2>4, <3>1, UpTo
  <2>6. N \in P
    BY <2>1, <2>5
  <2> QED  BY <1>1, <2>2, <2>6
<1> QED  BY <1>5, <1>6, <1>7

(* What every step but a new wait shows.                                   *)
Calm ==
    /\ \A b \in Activities :
         /\ waitingObject'[b] # None =>
              waitingObject'[b] = waitingObject[b] /\ mode'[b] = mode[b] /\ stack'[b] # <<>>
         /\ mode'[b] # "endless"
    /\ \A x \in AllMessages :
         \/ message'[x].startActivity = message[x].startActivity
         \/ waitingObject[message'[x].startActivity] = None
            /\ message'[x].startActivity \in Activities

LEMMA CalmStep ==
    ASSUME Inv, CalmInv, Calm
    PROVE  CalmInv'
<1>1. \A b \in Activities : waitingObject[b] # None => waitingObject[b] \in AllMessages
  BY DEF Inv, Typed
<1> DEFINE Link(b, c) == /\ waitingObject'[b] # None
                         /\ message'[waitingObject'[b]].startActivity = c
<1>2. ASSUME NEW b \in Activities, NEW c \in Activities, Link(b, c),
             waitingObject'[c] # None
      PROVE  /\ waitingObject[b] # None
             /\ message[waitingObject[b]].startActivity = c
  <2>1. /\ waitingObject[b] = waitingObject'[b] /\ waitingObject[b] \in AllMessages
        /\ waitingObject[c] # None
    BY <1>1, <1>2 DEF Calm
  <2> QED  BY <1>2, <2>1 DEF Calm
<1>3. ASSUME NEW S \in SUBSET Activities, S # {},
             \A b \in S : \E c \in S : Link(b, c)
      PROVE  \E b \in S : Link(b, b)
  <2>1. \A b \in S : waitingObject'[b] # None
    BY <1>3
  <2>2. Closed(S)
    BY <1>2, <1>3, <2>1 DEF Closed
  <2>3. PICK b \in S : Waits(b, b)
    BY <1>3, <2>2 DEF CalmInv, NoCircle
  <2>4. PICK c \in S : Link(b, c)
    BY <1>3
  <2>5. message[waitingObject[b]].startActivity = c
    BY <1>2, <2>1, <2>4
  <2> QED  BY <2>3, <2>4, <2>5 DEF Waits
<1>4. NoCircle'
  BY <1>3 DEF NoCircle, Closed, Waits
<1>5. Sleeping' /\ Stuck'
  BY DEF Calm, CalmInv, Sleeping, Stuck
<1> QED  BY <1>4, <1>5 DEF CalmInv

(* One activity has a new stack.                                           *)
LEMMA CalmMoves ==
    ASSUME Inv, CalmInv, \A b \in Activities : mode[b] # "endless",
           NEW a \in Activities, waitingObject[a] = None, NEW t, NEW p, p # "endless",
           stack' = [stack EXCEPT ![a] = t], mode' = [mode EXCEPT ![a] = p],
           \A b \in Activities : waitingObject'[b] # None => waitingObject'[b] = waitingObject[b],
           \A x \in AllMessages : \/ message'[x].startActivity = message[x].startActivity
                                  \/ message'[x].startActivity = a
    PROVE  CalmInv'
<1>1. stack \in [Activities -> Seq(Entries)] /\ mode \in [Activities -> Modes]
  BY DEF Inv, Typed
<1>2. ASSUME NEW b \in Activities
      PROVE  /\ waitingObject'[b] # None =>
                  waitingObject'[b] = waitingObject[b] /\ mode'[b] = mode[b] /\ stack'[b] # <<>>
             /\ mode'[b] # "endless"
  <2>1. CASE b = a
    BY <1>1, <2>1
  <2>2. CASE b # a
    BY <1>1, <2>2 DEF CalmInv, Sleeping
  <2> QED  BY <2>1, <2>2
<1>3. Calm
  BY <1>2 DEF Calm
<1> QED  BY <1>3, CalmStep

Awake(a) == /\ \A b \in Activities : mode[b] # "endless"
            /\ waitingObject[a] = None

LEMMA CalmRaise ==
    ASSUME Inv, CalmInv, NEW a \in Activities, Awake(a), NEW s, RaiseFrom(a, s),
           \A x \in AllMessages : message'[x].startActivity = message[x].startActivity
    PROVE  CalmInv'
<1> DEFINE p == "raise"
<1>1. /\ stack' = [stack EXCEPT ![a] = Unwound(s)] /\ mode' = [mode EXCEPT ![a] = p]
      /\ waitingObject' = waitingObject /\ p # "endless"
  BY DEF RaiseFrom
<1> HIDE DEF p
<1> QED  BY <1>1, CalmMoves DEF Awake

LEMMA CalmSend ==
    ASSUME Inv, CalmInv, NEW a \in Activities, Awake(a), mode[a] = "run", NEW s,
           NEW msgs \in [AllMessages -> Message],
           \A x \in AllMessages : msgs[x].startActivity = message[x].startActivity,
           NEW m \in AllMessages, send(a, s, msgs, m)
    PROVE  CalmInv'
<1> DEFINE c == Cleared(msgs[m])
           t == setObjNotify(s, m) \o <<Entry("dispatch", m), Entry("frame", None)>>
           p == "run"
<1>1. c \in Message /\ c.startActivity = message[m].startActivity
  BY ClearedFacts
<1>2. mode \in [Activities -> Modes]
  BY DEF Inv, Typed
<1>3. \/ RaiseFrom(a, s) /\ message' = msgs
      \/ RaiseFrom(a, s) /\ message' = [msgs EXCEPT ![m] = c]
      \/ /\ message' = [msgs EXCEPT ![m] = [c EXCEPT !.startActivity = a]]
         /\ stack' = [stack EXCEPT ![a] = t] /\ mode' = mode
         /\ waitingObject' = waitingObject
  BY DEF send
<1> HIDE DEF c, t
<1>4. CASE RaiseFrom(a, s) /\ message' = msgs
  BY <1>4, CalmRaise
<1>5. CASE RaiseFrom(a, s) /\ message' = [msgs EXCEPT ![m] = c]
  <2>1. \A x \in AllMessages : message'[x].startActivity = message[x].startActivity
    BY <1>1, <1>5
  <2> QED  BY <1>5, <2>1, CalmRaise
<1>6. CASE /\ message' = [msgs EXCEPT ![m] = [c EXCEPT !.startActivity = a]]
           /\ stack' = [stack EXCEPT ![a] = t] /\ mode' = mode
           /\ waitingObject' = waitingObject
  <2>1. mode' = [mode EXCEPT ![a] = p] /\ p # "endless"
    BY <1>2, <1>6
  <2>2. \A x \in AllMessages : \/ message'[x].startActivity = message[x].startActivity
                               \/ message'[x].startActivity = a
    BY <1>1, <1>6 DEF Message
  <2> HIDE DEF p
  <2> QED  BY <1>6, <2>1, <2>2, CalmMoves DEF Awake
<1> QED  BY <1>3, <1>4, <1>5, <1>6

LEMMA CalmTell ==
    ASSUME Inv, CalmInv, NEW a \in Activities, Awake(a), mode[a] = "run", NEW s,
           NEW msgs \in [AllMessages -> Message],
           \A x \in AllMessages : msgs[x].startActivity = message[x].startActivity,
           NEW m \in AllMessages, NEW i \in 1..Len(msgs[m].parties),
           Tell(a, s, msgs, m, i)
    PROVE  CalmInv'
<1>1. PICK noted \in [AllMessages -> Message] :
         /\ \A x \in AllMessages : noted[x].startActivity = message[x].startActivity
         /\ LET p == msgs[m].parties[i].party
            IN  /\ p \in AllMessages \cup Listeners
                /\ IF p \in Listeners
                   THEN /\ message' = noted
                        /\ stack' = [stack EXCEPT ![a] = Append(s, Entry("frame", None))]
                        /\ UNCHANGED <<mode, waitingObject, history>>
                   ELSE send(a, s, noted, p)
  BY NotedFacts
<1> DEFINE p == msgs[m].parties[i].party
<1>2. CASE p \notin Listeners
  BY <1>1, <1>2, CalmSend
<1>3. CASE p \in Listeners
  <2> DEFINE t == Append(s, Entry("frame", None))
             k == "run"
  <2>1. /\ message' = noted /\ stack' = [stack EXCEPT ![a] = t]
        /\ mode' = mode /\ waitingObject' = waitingObject
    BY <1>1, <1>3
  <2>2. mode' = [mode EXCEPT ![a] = k] /\ k # "endless"
    BY <2>1 DEF Inv, Typed
  <2> HIDE DEF t, k
  <2> QED  BY <1>1, <2>1, <2>2, CalmMoves DEF Awake
<1> QED  BY <1>2, <1>3

(* sendNotification() wakes, and no message changes hands.                 *)
LEMMA CalmNotifying ==
    ASSUME Inv, CalmInv, NEW a \in Activities, Awake(a), NEW s, NEW kind,
           NEW m \in AllMessages, NEW r \in Message,
           r.startActivity = message[m].startActivity,
           sendNotification(a, s, kind, m, r), NEW p, p # "endless",
           mode' = [mode EXCEPT ![a] = p]
    PROVE  CalmInv'
<1> DEFINE w == [r EXCEPT !.waiters = {}]
           t == Append(setObjNotify(s, None), Loop(kind, m, Len(r.parties)))
<1>1. /\ waitingObject' = [b \in Activities |->
                             IF b \in r.waiters THEN None ELSE waitingObject[b]]
      /\ message' = [message EXCEPT ![m] = w] /\ stack' = [stack EXCEPT ![a] = t]
  BY DEF sendNotification
<1>2. w.startActivity = message[m].startActivity
  BY DEF Message
<1> HIDE DEF w, t
<1>3. \A x \in AllMessages : message'[x].startActivity = message[x].startActivity
  <2>1. message \in [AllMessages -> Message]
    BY DEF Inv, Typed, MessageMaps
  <2> QED  BY <1>1, <1>2, <2>1
<1> QED  BY <1>1, <1>3, CalmMoves DEF Awake

(* b, which was idle, is given a message.                                  *)
LEMMA CalmStart ==
    ASSUME Inv, CalmInv, \A b \in Activities : mode[b] # "endless",
           NEW b \in Activities, stack[b] = <<>>, NEW n,
           \A x \in AllMessages : \/ message'[x].startActivity = message[x].startActivity
                                  \/ message'[x].startActivity = b,
           stack' = [stack EXCEPT ![b] = <<Entry("starting", n)>>],
           UNCHANGED <<mode, waitingObject>>
    PROVE  CalmInv'
<1> DEFINE t == <<Entry("starting", n)>>
           p == mode[b]
<1>1. waitingObject[b] = None
  BY DEF CalmInv, Sleeping
<1>2. /\ stack' = [stack EXCEPT ![b] = t] /\ mode' = [mode EXCEPT ![b] = p]
      /\ p # "endless"
  BY DEF Inv, Typed
<1> HIDE DEF t, p
<1> QED  BY <1>1, <1>2, CalmMoves

LEMMA CalmSending ==
    ASSUME Inv, CalmInv, NEW a \in Activities, Awake(a), NEW m \in Created,
           \/ sendMessage(a, m)
           \/ \E r \in {Pending(message[m]), Cleared(message[m])} : NotStarted(a, m, r)
    PROVE  CalmInv'
<1>1. m \in AllMessages /\ message \in [AllMessages -> Message]
  BY StackFacts DEF MessageMaps
<1>2. CASE sendMessage(a, m)
  BY <1>1, <1>2, CalmSend DEF sendMessage, InRexx, Turn
<1>3. ASSUME NEW r \in {Pending(message[m]), Cleared(message[m])}, NotStarted(a, m, r)
      PROVE  CalmInv'
  <2>1. RaiseFrom(a, stack[a]) /\ (message' = message \/ message' = [message EXCEPT ![m] = r])
    BY <1>3 DEF NotStarted
  <2>2. r.startActivity = message[m].startActivity
    BY PendingFacts
  <2> HIDE DEF Pending, Cleared
  <2>3. \A x \in AllMessages : message'[x].startActivity = message[x].startActivity
    BY <1>1, <2>1, <2>2
  <2> QED  BY <2>1, <2>3, CalmRaise
<1> QED  BY <1>2, <1>3

LEMMA CalmStarting ==
    ASSUME Inv, CalmInv, NEW a \in Activities, Awake(a), NEW m \in Created, start(a, m)
    PROVE  CalmInv'
<1>1. CASE NotStarted(a, m, Pending(message[m]))
  BY <1>1, CalmSending
<1>2. ASSUME NEW b \in Activities, StartOn(b, m, [message EXCEPT ![m] = Pending(@)])
      PROVE  CalmInv'
  <2> DEFINE p == Pending(message[m])
             r == [p EXCEPT !.startActivity = b]
  <2>1. m \in AllMessages /\ message \in [AllMessages -> Message] /\ p \in Message
    BY PendingFacts DEF MessageMaps
  <2> HIDE DEF p
  <2>2. /\ message' = [message EXCEPT ![m] = r] /\ stack[b] = <<>>
        /\ stack' = [stack EXCEPT ![b] = <<Entry("starting", m)>>]
        /\ UNCHANGED <<mode, waitingObject>>
    BY <1>2, <2>1 DEF StartOn, p
  <2>3. r.startActivity = b
    BY <2>1 DEF Message
  <2> HIDE DEF r
  <2>4. \A x \in AllMessages : \/ message'[x].startActivity = message[x].startActivity
                               \/ message'[x].startActivity = b
    BY <2>1, <2>2, <2>3
  <2> QED  BY <2>2, <2>4, CalmStart DEF Awake
<1> QED  BY <1>1, <1>2 DEF start

LEMMA CalmReplying ==
    ASSUME Inv, CalmInv, NEW a \in Activities, Awake(a), NEW m \in Created, reply(a, m)
    PROVE  CalmInv'
<1>1. CASE NotStarted(a, m, Cleared(message[m]))
  BY <1>1, CalmSending
<1> DEFINE r == Cleared(message[m])
           copy == [NewMessage EXCEPT !.parties = r.parties]
<1>2. ASSUME NEW b \in Activities, NEW n \in Copies \ Created,
             StartOn(b, n, [message EXCEPT ![m] = r, ![n] = Pending(copy)])
      PROVE  CalmInv'
  <2> DEFINE k == Pending(copy)
             u == [k EXCEPT !.startActivity = b]
             g == [message EXCEPT ![m] = r]
  <2>1. /\ m \in AllMessages /\ message \in [AllMessages -> Message] /\ n \in AllMessages
        /\ r.startActivity = message[m].startActivity /\ n # m
    BY PendingFacts DEF AllMessages, MessageMaps
  <2>2. DOMAIN k = DOMAIN NewMessage
    BY DEF Pending, Cleared, NewMessage
  <2> HIDE DEF k, r
  <2>3. u.startActivity = b
    BY <2>2 DEF NewMessage
  <2>4. /\ message' = [g EXCEPT ![n] = u] /\ stack[b] = <<>>
        /\ stack' = [stack EXCEPT ![b] = <<Entry("starting", n)>>]
        /\ UNCHANGED <<mode, waitingObject>>
    BY <1>2, <2>1 DEF StartOn, k, r
  <2> HIDE DEF u
  <2>5. \A x \in AllMessages : \/ message'[x].startActivity = message[x].startActivity
                               \/ message'[x].startActivity = b
    BY <2>1, <2>3, <2>4
  <2> QED  BY <2>4, <2>5, CalmStart DEF Awake
<1> QED  BY <1>1, <1>2 DEF reply

LEMMA CalmListening ==
    ASSUME Inv, CalmInv, NEW a \in Activities, Awake(a), NEW m \in Created,
           NEW p \in Created \cup Listeners, notify(a, m, p)
    PROVE  CalmInv'
<1>1. mode[a] = "run" /\ m \in AllMessages
  BY AddedFacts
<1>2. PICK added \in [AllMessages -> Message] :
         /\ \A x \in AllMessages : added[x].startActivity = message[x].startActivity
         /\ \/ /\ message' = added
               /\ UNCHANGED <<stack, mode, waitingObject, history>>
            \/ /\ Len(added[m].parties) \in 1..Len(added[m].parties)
               /\ Tell(a, stack[a], added, m, Len(added[m].parties))
  BY AddedFacts
<1>3. CASE /\ Len(added[m].parties) \in 1..Len(added[m].parties)
           /\ Tell(a, stack[a], added, m, Len(added[m].parties))
  BY <1>1, <1>2, <1>3, CalmTell
<1>4. CASE message' = added /\ UNCHANGED <<stack, mode, waitingObject, history>>
  <2> DEFINE k == "run"
             t == stack[a]
  <2>1. /\ mode' = [mode EXCEPT ![a] = k] /\ k # "endless"
        /\ stack' = [stack EXCEPT ![a] = t] /\ waitingObject' = waitingObject
    BY <1>1, <1>4 DEF Inv, Typed
  <2> HIDE DEF k, t
  <2> QED  BY <1>2, <1>4, <2>1, CalmMoves DEF Awake
<1> QED  BY <1>2, <1>3, <1>4

LEMMA CalmWaiting ==
    ASSUME Inv, CalmInv, NEW a \in Activities, Awake(a), NEW m \in Created, wait(a, m)
    PROVE  CalmInv'
<1>1. /\ m \in AllMessages /\ message \in [AllMessages -> Message] /\ message[m] \in Message
      /\ mode[a] = "run" /\ stack[a] # <<>> /\ mode \in [Activities -> Modes]
      /\ waitingObject \in [Activities -> AllMessages \cup {None}]
      /\ \A b \in Activities \ {a} : ~Busy(b)
  BY StackFacts DEF wait, InRexx, Turn, MessageMaps, Inv, Typed
<1>2. CASE RaiseFrom(a, stack[a]) /\ message' = message
  BY <1>2, CalmRaise
<1>3. CASE /\ Endless(m) /\ mode' = [mode EXCEPT ![a] = "endless"]
           /\ UNCHANGED <<message, stack, waitingObject, history>>
  <2>1. PICK b \in Activities : Waits(b, b)
    BY <1>1, <1>3, EndlessHasSelf DEF CalmInv
  <2>2. Waits(b, b)'
    BY <1>3, <2>1 DEF Waits
  <2>3. \A c \in Activities \ {a} : mode'[c] = mode[c] /\ mode[c] # "endless"
    BY <1>1, <1>3 DEF Awake
  <2>4. \A c \in Activities \ {a} : ~Busy(c)'
    BY <1>1, <1>3, <2>3 DEF Busy
  <2>5. Stuck'
    BY <2>2, <2>3, <2>4 DEF Stuck
  <2>6. Sleeping' /\ NoCircle'
    <3>1. \A c \in Activities : waitingObject[c] # None => c # a
      BY DEF Awake
    <3> QED  BY <1>3, <2>3, <3>1 DEF Sleeping, CalmInv, NoCircle, Closed, Waits
  <2> QED  BY <2>5, <2>6 DEF CalmInv
<1>4. CASE /\ ~checkDeadLock(m, a) /\ ~Endless(m)
           /\ message' = [message EXCEPT ![m].waiters = @ \cup {a}]
           /\ waitingObject' = [waitingObject EXCEPT ![a] = m]
           /\ mode' = [mode EXCEPT ![a] = "wait"]
           /\ UNCHANGED <<stack, history>>
  <2>1. \A x \in AllMessages : message'[x].startActivity = message[x].startActivity
    <3> DEFINE w == [message[m] EXCEPT !.waiters = @ \cup {a}]
    <3>1. w.startActivity = message[m].startActivity /\ message' = [message EXCEPT ![m] = w]
      BY <1>1, <1>4 DEF Message
    <3> HIDE DEF w
    <3> QED  BY <1>1, <3>1
  <2>2. NoCircle'
    BY <1>1, <1>4, <2>1, WaitKeepsNoCircle DEF CalmInv, Awake
  <2>3. Stuck' /\ Sleeping'
    <3>1. mode'[a] = "wait" /\ \A b \in Activities \ {a} : mode'[b] = mode[b]
      BY <1>1, <1>4
    <3>2. \A b \in Activities \ {a} : waitingObject'[b] = waitingObject[b]
      BY <1>1, <1>4
    <3>3. \A b \in Activities : mode'[b] # "endless"
      BY <3>1 DEF Awake
    <3>4. \A b \in Activities : waitingObject'[b] # None
                                  => mode'[b] = "wait" /\ stack'[b] # <<>>
      BY <1>1, <1>4, <3>1, <3>2 DEF CalmInv, Sleeping
    <3> QED  BY <3>3, <3>4 DEF Stuck, Sleeping
  <2> QED  BY <2>2, <2>3 DEF CalmInv
<1> QED  BY <1>2, <1>3, <1>4 DEF wait

LEMMA CalmReturning ==
    ASSUME Inv, CalmInv, NEW a \in Activities, Awake(a), return(a)
    PROVE  CalmInv'
<1> DEFINE s == Front(stack[a])
           m == Last(s).msg
           p == "run"
<1>1. /\ stack[a] # <<>> /\ mode' = [mode EXCEPT ![a] = p] /\ p # "endless"
      /\ IF Kind(s) = "dispatch"
         THEN sendNotification(a, Front(s), "notifying", m,
                               [message[m] EXCEPT !.returned = TRUE])
         ELSE stack' = [stack EXCEPT ![a] = s] /\ UNCHANGED <<message, waitingObject>>
  BY StackFacts DEF return, InRexx, Turn, Inv, Typed
<1>2. StackOK(a, stack[a], message)
  BY StackFacts
<1>3. /\ s # <<>> => Last(s) \in Entries /\ Last(s).kind = Kind(s)
  BY <1>1, <1>2, PopOK
<1> HIDE DEF s, p
<1>4. CASE Kind(s) = "dispatch"
  <2> DEFINE r == [message[m] EXCEPT !.returned = TRUE]
  <2>1. s # <<>>
    BY <1>4 DEF Kind
  <2>2. m \in AllMessages
    BY <1>3, <1>4, <2>1 DEF Entries, FrameEntries, DispatchEntries, LoopEntries, Loops
  <2>3. r \in Message /\ r.startActivity = message[m].startActivity
    <3>1. message[m] \in Message
      BY <2>2, PartiesSeq DEF Inv, Typed
    <3> QED  BY <3>1 DEF Message
  <2>4. sendNotification(a, Front(s), "notifying", m, r)
    BY <1>1, <1>4
  <2> HIDE DEF r, m
  <2> QED  BY <1>1, <2>2, <2>3, <2>4, CalmNotifying
<1>5. CASE Kind(s) # "dispatch"
  BY <1>1, <1>5, CalmMoves DEF Awake
<1> QED  BY <1>4, <1>5

LEMMA CalmTelling ==
    ASSUME Inv, CalmInv, NEW a \in Activities, Awake(a), notifyNext(a) \/ setAllNotified(a)
    PROVE  CalmInv'
<1> DEFINE m == Top(a).msg
           s == Front(stack[a])
           t == IF Kind(s) \in Bases THEN <<>> ELSE s
           p == IF Top(a).kind = "reporting" /\ Kind(s) = "frame" THEN "raise" ELSE "run"
           w == [message[m] EXCEPT !.notified = TRUE]
<1>1. /\ mode[a] = "run" /\ Top(a) \in LoopEntries /\ m \in AllMessages
      /\ message \in [AllMessages -> Message] /\ 1 <= Top(a).next
      /\ Top(a).count <= Len(message[m].parties) /\ Len(message[m].parties) \in Nat
  BY LoopFacts DEF notifyNext, setAllNotified, MessageMaps
<1>2. CASE notifyNext(a)
  <2>1. /\ Top(a).next <= Top(a).count
        /\ Tell(a, [stack[a] EXCEPT ![Len(stack[a])].next = @ + 1], message, m, Top(a).next)
    BY <1>2 DEF notifyNext
  <2>2. Top(a).next \in Nat /\ Top(a).count \in Nat
    BY <1>1 DEF LoopEntries
  <2>3. Top(a).next \in 1..Len(message[m].parties)
    BY <1>1, <2>1, <2>2
  <2> QED  BY <1>1, <2>1, <2>3, CalmTell
<1>3. CASE setAllNotified(a)
  <2>1. /\ message' = [message EXCEPT ![m] = w] /\ stack' = [stack EXCEPT ![a] = t]
        /\ mode' = [mode EXCEPT ![a] = p] /\ waitingObject' = waitingObject
        /\ p # "endless"
    BY <1>3 DEF setAllNotified, history
  <2>2. w.startActivity = message[m].startActivity
    BY <1>1 DEF Message
  <2> HIDE DEF t, p, w
  <2>3. \A x \in AllMessages : message'[x].startActivity = message[x].startActivity
    BY <1>1, <2>1, <2>2
  <2> QED  BY <2>1, <2>3, CalmMoves DEF Awake
<1> QED  BY <1>2, <1>3

LEMMA CalmRunning ==
    ASSUME Inv, CalmInv, NEW a \in Activities, Awake(a),
           wake(a) \/ trapped(a) \/ signalUser(a) \/ runStarted(a)
    PROVE  CalmInv'
<1>1. /\ stack \in [Activities -> Seq(Entries)] /\ mode \in [Activities -> Modes]
      /\ message \in [AllMessages -> Message]
  BY DEF Inv, Typed, MessageMaps
<1> DEFINE p == "run"
<1>2. /\ mode' = [mode EXCEPT ![a] = p] /\ p # "endless" /\ waitingObject' = waitingObject
      /\ \A x \in AllMessages : \/ message'[x].startActivity = message[x].startActivity
                                \/ message'[x].startActivity = a
  BY <1>1 DEF wake, trapped, signalUser, runStarted, InRexx, Turn, history, Message
<1>3. \E t : stack' = [stack EXCEPT ![a] = t]
  <2>1. stack' = stack => stack' = [stack EXCEPT ![a] = stack[a]]
    BY <1>1
  <2> QED  BY <2>1 DEF wake, trapped, signalUser, runStarted
<1> HIDE DEF p
<1> QED  BY <1>2, <1>3, CalmMoves DEF Awake

LEMMA CalmFailing ==
    ASSUME Inv, CalmInv, NEW a \in Activities, Awake(a),
           raise(a) \/ trapNotifies(a) \/ untrapped(a) \/ handleError(a)
    PROVE  CalmInv'
<1> DEFINE m == Top(a).msg
           p == "run"
<1>1. CASE raise(a)
  BY <1>1, CalmRaise DEF raise
<1>2. ASSUME NEW s, error(a, s, m), stack[a] # <<>>, m # None
      PROVE  CalmInv'
  <2> DEFINE r == [message[m] EXCEPT !.raised = TRUE]
  <2>1. Last(stack[a]) \in Entries
    BY <1>2, StackFacts, TopFacts
  <2>2. m \in AllMessages
    BY <1>2, <2>1 DEF Top, Entries, FrameEntries, DispatchEntries, LoopEntries
  <2>3. r \in Message /\ r.startActivity = message[m].startActivity
    <3>1. message[m] \in Message
      BY <2>2, PartiesSeq DEF Inv, Typed
    <3> QED  BY <3>1 DEF Message
  <2>4. /\ sendNotification(a, s, "reporting", m, r)
        /\ mode' = [mode EXCEPT ![a] = p] /\ p # "endless"
    BY <1>2 DEF error
  <2> HIDE DEF r, m, p
  <2> QED  BY <2>2, <2>3, <2>4, CalmNotifying
<1>3. CASE trapNotifies(a)
  BY <1>2, <1>3, StackFacts DEF trapNotifies, Raising
<1>4. ASSUME stack' = [stack EXCEPT ![a] = <<>>], mode' = [mode EXCEPT ![a] = "run"],
             UNCHANGED <<message, waitingObject>>
      PROVE  CalmInv'
  <2> DEFINE t == <<>>
  <2>1. /\ stack' = [stack EXCEPT ![a] = t] /\ mode' = [mode EXCEPT ![a] = p]
        /\ p # "endless"
    BY <1>4
  <2> HIDE DEF t, p
  <2> QED  BY <1>4, <2>1, CalmMoves DEF Awake
<1>5. CASE untrapped(a)
  <2>1. CASE RaiseFrom(a, Front(stack[a])) /\ message' = message
    BY <2>1, CalmRaise
  <2> QED  BY <1>4, <1>5, <2>1 DEF untrapped
<1>6. CASE handleError(a)
  <2>1. ASSUME NEW s, error(a, s, m), Kind(stack[a]) \in {"running", "handling"}
        PROVE  CalmInv'
    <3>1. stack[a] # <<>>
      BY <2>1, StackFacts
    <3>2. Last(stack[a]) \in Entries /\ Last(stack[a]).kind \in {"running", "handling"}
      BY <2>1, <3>1, StackFacts, TopFacts
    <3>3. m # None
      BY <3>2, MessageAssumption
         DEF Top, Entries, FrameEntries, DispatchEntries, LoopEntries, Loops, AllMessages
    <3> QED  BY <1>2, <2>1, <3>1, <3>3
  <2> QED  BY <1>4, <1>6, <2>1 DEF handleError
<1> QED  BY <1>1, <1>3, <1>5, <1>6

(* While an activity recurses nothing happens at all.                      *)
LEMMA EndlessStops ==
    ASSUME Inv, CalmInv, Next
    PROVE  \A b \in Activities : mode[b] # "endless"
<1> SUFFICES ASSUME NEW b \in Activities, mode[b] = "endless" PROVE FALSE
  OBVIOUS
<1>1. Busy(b) /\ \A c \in Activities \ {b} : ~Busy(c)
  BY DEF CalmInv, Stuck, Busy
<1>2. ASSUME NEW c \in Activities, Turn(c) PROVE FALSE
  BY <1>1, <1>2 DEF Turn
<1>3. ASSUME NEW c \in Activities, mode[c] = "raise" PROVE FALSE
  BY <1>1, <1>3 DEF Busy
<1>4. ASSUME NEW c \in Activities, InCode(c, {"notifying", "reporting"}) PROVE FALSE
  BY <1>1, <1>4 DEF InCode, Busy
<1>5. ASSUME NEW c \in Activities, wake(c) PROVE FALSE
  BY <1>1, <1>5 DEF wake
<1>6. ASSUME NEW c \in Activities, Use(c) \/ runStarted(c) \/ return(c) \/ raise(c) \/ signalUser(c)
      PROVE  FALSE
  <2>1. Turn(c)
    BY <1>6 DEF Use, sendMessage, start, reply, wait, notify, NotStarted, runStarted,
                return, raise, signalUser, InRexx
  <2> QED  BY <1>2, <2>1
<1>7. ASSUME NEW c \in Activities,
             trapNotifies(c) \/ trapped(c) \/ untrapped(c) \/ handleError(c)
      PROVE  FALSE
  BY <1>3, <1>7 DEF trapNotifies, trapped, untrapped, handleError, Raising
<1>8. ASSUME NEW c \in Activities, notifyNext(c) \/ setAllNotified(c) PROVE FALSE
  BY <1>4, <1>8 DEF notifyNext, setAllNotified
<1> QED  BY <1>5, <1>6, <1>7, <1>8 DEF Next, Complete, Fail

LEMMA ActsAwake ==
    ASSUME Inv, CalmInv, Next
    PROVE  \E a \in Activities :
             /\ Awake(a)
             /\ Use(a) \/ runStarted(a) \/ wake(a) \/ Complete(a) \/ Fail(a)
<1>1. PICK a \in Activities :
         Use(a) \/ runStarted(a) \/ wake(a) \/ Complete(a) \/ Fail(a)
  BY DEF Next
<1>2. CASE wake(a)
  BY <1>1, <1>2, EndlessStops DEF wake, Awake
<1>3. CASE ~wake(a)
  <2>1. CASE Use(a)
    <3>1. mode[a] = "run"
      BY <2>1 DEF Use, sendMessage, start, reply, wait, notify, NotStarted, InRexx, Turn
    <3> QED  BY <1>1, <3>1, EndlessStops DEF Awake, CalmInv, Sleeping
  <2>2. CASE runStarted(a) \/ Complete(a) \/ Fail(a)
    <3>1. mode[a] \in {"run", "raise"}
      BY <2>2 DEF Complete, Fail, runStarted, return, notifyNext, setAllNotified, raise,
                  trapNotifies, trapped, untrapped, handleError, signalUser, Raising,
                  InCode, InRexx, Turn
    <3> QED  BY <1>1, <3>1, EndlessStops DEF Awake, CalmInv, Sleeping
  <2> QED  BY <1>1, <1>3, <2>1, <2>2
<1> QED  BY <1>2, <1>3

LEMMA WaitStays == Inv /\ CalmInv /\ [Next]_vars => CalmInv'
<1> SUFFICES ASSUME Inv, CalmInv, [Next]_vars PROVE CalmInv'
  OBVIOUS
<1>1. CASE UNCHANGED vars
  BY <1>1 DEF vars, CalmInv, NoCircle, Closed, Waits, Sleeping, Stuck, Busy
<1>2. CASE Next
  <2>1. PICK a \in Activities :
           /\ Awake(a)
           /\ Use(a) \/ runStarted(a) \/ wake(a) \/ Complete(a) \/ Fail(a)
    BY <1>2, ActsAwake
  <2>2. CASE Use(a)
    <3>1. PICK m \in Created :
            \/ sendMessage(a, m) \/ start(a, m) \/ reply(a, m) \/ wait(a, m)
            \/ \E p \in Created \cup Listeners : notify(a, m, p)
      BY <2>2 DEF Use
    <3> QED
      BY <2>1, <3>1, CalmSending, CalmStarting, CalmReplying, CalmWaiting, CalmListening
  <2>3. CASE runStarted(a) \/ wake(a)
    BY <2>1, <2>3, CalmRunning
  <2>4. CASE Complete(a)
    BY <2>1, <2>4, CalmReturning, CalmTelling DEF Complete
  <2>5. CASE Fail(a)
    BY <2>1, <2>5, CalmRunning, CalmFailing DEF Fail
  <2> QED  BY <2>1, <2>2, <2>3, <2>4, <2>5
<1> QED  BY <1>1, <1>2

(* When activities wait for each other in a circle, or the search for one  *)
(* does not end, some activity waits for a message of its own: that is the *)
(* one wait the check of wait() lets through.                              *)
THEOREM OnlySelfWaitsSlip == Spec => []OnlySelfWaits
<1>1. Inv /\ CalmInv => OnlySelfWaits
  BY CircleHasSelf DEF OnlySelfWaits, CalmInv, Stuck
<1>2. Init => Inv /\ CalmInv
  <2> SUFFICES ASSUME Init PROVE CalmInv
    BY InvInit
  <2>1. \A a \in Activities : waitingObject[a] = None /\ mode[a] = "run"
    BY DEF Init
  <2> QED  BY <2>1 DEF CalmInv, NoCircle, Closed, Sleeping, Stuck
<1>3. Inv /\ CalmInv /\ [Next]_vars => (Inv /\ CalmInv)'
  BY InvNext, WaitStays DEF Stepped
<1> QED  BY <1>1, <1>2, <1>3, PTL DEF Spec
=====
