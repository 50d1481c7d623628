------------------------------- MODULE Inbox --------------------------------
(***************************************************************************)
(* What the inbound path promises a mailbox, with no queue, no workers, no *)
(* retries and no crashes in it: a message that was accepted may be filed, *)
(* once per ingest key, and a filed message may be announced, once.        *)
(* Ingest.tla implements this.                                             *)
(***************************************************************************)
EXTENDS Naturals, Sequences

CONSTANTS Messages, IngestIds, NoId, IdOf

VARIABLES
    accepted,  \* the messages the webhook answered 202 for
    inbox      \* the filed messages, in order, with their announcements

Init == accepted = {} /\ inbox = << >>

\* Two messages with the same ingest key are the same message to the inbox.
SameMail(m, n) == IdOf[m] # NoId /\ IdOf[m] = IdOf[n]

Accept(m) ==
    /\ accepted' = accepted \cup {m}
    /\ UNCHANGED inbox

File(m) ==
    /\ m \in accepted
    /\ \A i \in 1..Len(inbox) : ~ SameMail(m, inbox[i].msg)
    /\ inbox' = Append(inbox, [msg |-> m, pushes |-> 0])
    /\ UNCHANGED accepted

Announce(i) ==
    /\ inbox[i].pushes = 0
    /\ inbox' = [inbox EXCEPT ![i].pushes = 1]
    /\ UNCHANGED accepted

Next ==
    \/ \E m \in Messages : Accept(m) \/ File(m)
    \/ \E i \in 1..Len(inbox) : Announce(i)

Spec == Init /\ [][Next]_<<accepted, inbox>>
=============================================================================
