----------------------------- MODULE RexxMailbox -----------------------------
(* What the external data queues of Rexx promise their users: a queue is a *)
(* mailbox.  An item is put at either end, the first one is taken by one   *)
(* client and is gone from the queue, and nothing is taken out of order.   *)
(* RexxQueue, the queue manager of the rxapi server, implements it.        *)
EXTENDS Sequences

CONSTANTS
    Names,      \* the names of named queues
    Sessions,   \* the session identifiers; a session queue opens by itself
    Clients,    \* those who pull
    Items,      \* the lines that are queued
    None        \* no item, no queue

VARIABLES
    mail,       \* the items of each queue, first one first; None: no queue
    hand        \* the item each client pulled last

Keys == Names \cup Sessions

MailboxInit ==
    /\ mail = [k \in Keys |-> None]
    /\ hand = [c \in Clients |-> None]

(* The items of a queue; a session queue that is missing is as good as     *)
(* empty.                                                                  *)
Available(k) == mail[k] # None \/ k \in Sessions
Contents(k) == IF mail[k] = None THEN <<>> ELSE mail[k]

Open(k) ==
    /\ mail[k] = None
    /\ mail' = [mail EXCEPT ![k] = <<>>]
    /\ UNCHANGED hand

Put(k, i) ==
    /\ Available(k)
    /\ mail' \in {[mail EXCEPT ![k] = Append(Contents(k), i)],
                  [mail EXCEPT ![k] = <<i>> \o Contents(k)]}
    /\ UNCHANGED hand

(* A client drops what it had and turns to a queue.                        *)
Turn(c, k) ==
    /\ Available(k)
    /\ mail' = [mail EXCEPT ![k] = Contents(k)]
    /\ hand' = [hand EXCEPT ![c] = None]

Take(c, k) ==
    /\ Contents(k) # <<>>
    /\ hand' = [hand EXCEPT ![c] = Head(mail[k])]
    /\ mail' = [mail EXCEPT ![k] = Tail(@)]

Clear(k) ==
    /\ Available(k)
    /\ mail' = [mail EXCEPT ![k] = <<>>]
    /\ UNCHANGED hand

Close(k) ==
    /\ mail[k] # None
    /\ mail' = [mail EXCEPT ![k] = None]
    /\ UNCHANGED hand

MailboxNext ==
    \E k \in Keys :
        \/ Open(k) \/ Clear(k) \/ Close(k)
        \/ \E i \in Items : Put(k, i)
        \/ \E c \in Clients : Turn(c, k) \/ Take(c, k)

MailboxSpec == MailboxInit /\ [][MailboxNext]_<<mail, hand>>
=============================================================================
