------------------------------- MODULE Ingest -------------------------------
(***************************************************************************)
(* The inbound path: the Cloudflare Email Worker, the signed webhook, the  *)
(* Redis queue, and the StoreIncomingEmail job that files the message.     *)
(*                                                                         *)
(* A delivery is one invocation of the Worker's email() handler; the same  *)
(* message may be delivered more than once.  The webhook turns an accepted *)
(* delivery into one job.  Queue workers take jobs at least once: a        *)
(* reservation expires after retry_after (90 s) although a job may run for *)
(* --timeout=120 s, so an entry can be taken again while its first holder  *)
(* is still running, and a dead worker's entry comes back by itself.       *)
(*                                                                         *)
(* No operation of the application deletes a CloudflareAccount or an Email *)
(* row, so the job's account is always found and filed rows stay.  The     *)
(* calendar import that runs between the last attachment and the push      *)
(* touches only `events`, and nothing it throws leaves it: its state is    *)
(* modelled in Calendar.tla.  Redis is taken to have memory to spare: under *)
(* allkeys-lru it could evict the queue's own keys.                        *)
(***************************************************************************)
EXTENDS Naturals, Sequences, FiniteSets

CONSTANTS
    Deliveries,       \* invocations of the Email Worker
    Messages,         \* distinct e-mails
    MsgOf,            \* [Deliveries -> Messages]
    IngestIds,        \* the (account, Message-ID, recipient) triples
    NoId,             \* the message has no Message-ID header
    IdOf,             \* [Messages -> IngestIds \cup {NoId}]
    AttachmentCount,  \* [Messages -> Nat]
    Hosted,           \* messages whose recipient is a mailbox of the account
    Workers,          \* queue:work processes
    MaxTries,         \* queue:work --tries
    FallbackForward,  \* is FALLBACK_FORWARD_TO configured?
    NoEntry

ASSUME IngestAssumption ==
    /\ MsgOf \in [Deliveries -> Messages]
    /\ NoId \notin IngestIds
    /\ IdOf \in [Messages -> IngestIds \cup {NoId}]
    /\ AttachmentCount \in [Messages -> Nat]
    /\ Hosted \subseteq Messages
    /\ MaxTries \in Nat \ {0}
    /\ FallbackForward \in BOOLEAN
    /\ NoEntry \notin [job : Deliveries, attempts : Nat]

VARIABLES
    edge,      \* where each invocation of email() is
    enqueued,  \* deliveries for which the webhook dispatched a job
    ready,     \* queue entries waiting in Redis
    reserved,  \* queue entries handed to a worker and not yet deleted
    failed,    \* jobs in failed_jobs
    pc,        \* where each queue worker is inside handle()
    entry,     \* the queue entry each worker holds
    row,       \* the emails row the worker's attempt created, 0 if none
    next,      \* the attachment the worker's loop is at
    emails     \* the emails table, in id order

edgeVars  == <<edge, enqueued>>
queueVars == <<ready, reserved, failed>>
localVars == <<pc, entry, row, next>>
vars == <<edge, enqueued, ready, reserved, failed, pc, entry, row, next, emails>>

EdgeStates == {"arrived", "accepted", "forwarded", "dropped"}
PcStates   == {"idle", "check", "create", "attach", "notify", "ack"}
Entries    == [job : Deliveries, attempts : 0..MaxTries + 1]

\* An emails row: its message, which of the payload's attachments have an
\* attachments row (in creation order), and the web pushes sent for it.
EmailRows == [msg : Messages, attachments : Seq(Nat), pushes : Nat]

Rows == 1..Len(emails)
Msg(w) == MsgOf[entry[w].job]

-----------------------------------------------------------------------------
(* The ingest key and the lookup by it *)

\* sha256(account | message_id ?? uuid | to).  The uuid drawn for a message
\* without a Message-ID is new at every attempt, so it equals no stored key:
\* that case is NoId, and ExistsByKey never matches it.
IngestKey(m) == IdOf[m]

\* Email::where('ingest_key', $ingestKey)->exists()
ExistsByKey(m) ==
    /\ IngestKey(m) # NoId
    /\ \E i \in Rows : IngestKey(emails[i].msg) = IngestKey(m)

\* The unique index on emails.ingest_key refuses the insertion.  The mutated
\* form is a table without the index.
NoUniqueIndex(m) == FALSE
UniqueViolation(m) == ExistsByKey(m)

-----------------------------------------------------------------------------
(* The Email Worker and the webhook *)

Init ==
    /\ edge = [d \in Deliveries |-> "arrived"]
    /\ enqueued = {}
    /\ ready = {} /\ reserved = {} /\ failed = {}
    /\ pc = [w \in Workers |-> "idle"]
    /\ entry = [w \in Workers |-> NoEntry]
    /\ row = [w \in Workers |-> 0]
    /\ next = [w \in Workers |-> 1]
    /\ emails = << >>

\* How email() ends once anything in its try block failed: the message is
\* forwarded when an address is configured, and is otherwise (or when that
\* fails too) accepted and dropped.  It never throws, so nothing bounces.
CatchOutcomes == IF FallbackForward THEN {"forwarded", "dropped"} ELSE {"dropped"}

\* The request passes the header, account and signature checks and one job is
\* dispatched.  The 202 may still be lost on its way back to the Worker.
WebhookAccepts(d) ==
    /\ edge[d] = "arrived"
    /\ enqueued' = enqueued \cup {d}
    /\ ready' = ready \cup {[job |-> d, attempts |-> 0]}
    /\ \E to \in {"accepted"} \cup CatchOutcomes : edge' = [edge EXCEPT ![d] = to]
    /\ UNCHANGED <<reserved, failed, localVars, emails>>

\* buildPayload threw, the request never arrived, or it was answered 400, 401
\* or 500 before the dispatch.
WebhookRefuses(d) ==
    /\ edge[d] = "arrived"
    /\ \E to \in CatchOutcomes : edge' = [edge EXCEPT ![d] = to]
    /\ UNCHANGED <<enqueued, queueVars, localVars, emails>>

-----------------------------------------------------------------------------
(* The queue *)

\* The worker process goes back to its loop (or a new process takes its place).
Rest(w) ==
    /\ pc' = [pc EXCEPT ![w] = "idle"]
    /\ entry' = [entry EXCEPT ![w] = NoEntry]
    /\ row' = [row EXCEPT ![w] = 0]
    /\ next' = [next EXCEPT ![w] = 1]

\* The mutated form is a queue:work without --tries.
NoTriesLimit(e) == FALSE
TriedTooOften(e) == e.attempts > MaxTries

\* Popping counts the attempt; an entry that was tried too often already goes
\* to failed_jobs without running.
Pop(w) ==
    /\ pc[w] = "idle"
    /\ \E e \in ready :
        LET taken == [e EXCEPT !.attempts = @ + 1] IN
        /\ ready' = ready \ {e}
        /\ \/ /\ TriedTooOften(taken)
              /\ failed' = failed \cup {e.job}
              /\ UNCHANGED <<reserved, pc, entry>>
           \/ /\ ~ TriedTooOften(taken)
              /\ reserved' = reserved \cup {taken}
              /\ pc' = [pc EXCEPT ![w] = "check"]
              /\ entry' = [entry EXCEPT ![w] = taken]
              /\ UNCHANGED failed
    /\ UNCHANGED <<edgeVars, row, next, emails>>

\* retry_after has passed since the entry was reserved.
Expire ==
    /\ \E e \in reserved :
        /\ reserved' = reserved \ {e}
        /\ ready' = ready \cup {e}
    /\ UNCHANGED <<edgeVars, failed, localVars, emails>>

\* An exception leaves handle(): an attempt before the last is released, the
\* last one is recorded in failed_jobs.
Throw(w) ==
    /\ reserved' = reserved \ {entry[w]}
    /\ IF entry[w].attempts < MaxTries
       THEN ready' = ready \cup {entry[w]} /\ UNCHANGED failed
       ELSE failed' = failed \cup {entry[w].job} /\ UNCHANGED ready
    /\ Rest(w)

-----------------------------------------------------------------------------
(* StoreIncomingEmail::handle *)

\* Mutated form of CheckExists: the early return is missing, the job goes on
\* with the row it found.
CheckFallsThrough(w) ==
    /\ pc[w] = "check"
    /\ \/ /\ ~ ExistsByKey(Msg(w))
          /\ pc' = [pc EXCEPT ![w] = "create"]
          /\ UNCHANGED row
       \/ \E i \in Rows :
          /\ ExistsByKey(Msg(w))
          /\ IngestKey(emails[i].msg) = IngestKey(Msg(w))
          /\ row' = [row EXCEPT ![w] = i]
          /\ pc' = [pc EXCEPT ![w] =
                IF AttachmentCount[Msg(w)] > 0 THEN "attach" ELSE "notify"]
    /\ UNCHANGED <<edgeVars, queueVars, entry, next, emails>>

CheckExists(w) ==
    /\ pc[w] = "check"
    /\ pc' = [pc EXCEPT ![w] = IF ExistsByKey(Msg(w)) THEN "ack" ELSE "create"]
    /\ UNCHANGED <<edgeVars, queueVars, entry, row, next, emails>>

\* Mutated form of AfterAttachment: the push goes out before the attachments.
NotifyFirst(m, n) == IF m \in Hosted THEN "notify" ELSE "ack"

\* Where handle() is once attachment n of the loop is the next one to store.
\* Only a resolved mailbox is notified.
AfterAttachment(m, n) ==
    IF n <= AttachmentCount[m] THEN "attach"
    ELSE IF m \in Hosted THEN "notify" ELSE "ack"

\* Email::create.  The lookup may be out of date by now: then the unique index
\* throws.
CreateEmail(w) ==
    /\ pc[w] = "create"
    /\ \/ /\ UniqueViolation(Msg(w))
          /\ Throw(w)
          /\ UNCHANGED emails
       \/ /\ ~ UniqueViolation(Msg(w))
          /\ emails' = Append(emails, [msg |-> Msg(w), attachments |-> << >>, pushes |-> 0])
          /\ row' = [row EXCEPT ![w] = Len(emails) + 1]
          /\ pc' = [pc EXCEPT ![w] = AfterAttachment(Msg(w), 1)]
          /\ UNCHANGED <<queueVars, entry, next>>
    /\ UNCHANGED edgeVars

\* One round of the loop of storeAttachments.  The row is created whether or
\* not a file was written: a disk with 'throw' => false returns false, and an
\* attachment over the inline limit has no content.
StoreAttachment(w) ==
    /\ pc[w] = "attach"
    /\ emails' = [emails EXCEPT ![row[w]].attachments = Append(@, next[w])]
    /\ next' = [next EXCEPT ![w] = @ + 1]
    /\ pc' = [pc EXCEPT ![w] = AfterAttachment(Msg(w), next[w] + 1)]
    /\ UNCHANGED <<edgeVars, queueVars, entry, row>>

\* The push is sent when the mailbox has a subscription; what notify throws is
\* caught, and handle() returns either way.
Notify(w) ==
    /\ pc[w] = "notify"
    /\ \/ emails' = [emails EXCEPT ![row[w]].pushes = @ + 1]
       \/ UNCHANGED emails
    /\ pc' = [pc EXCEPT ![w] = "ack"]
    /\ UNCHANGED <<edgeVars, queueVars, entry, row, next>>

\* handle() returned: the worker deletes the entry it holds.  When that entry
\* has expired meanwhile there is nothing to delete.
Ack(w) ==
    /\ pc[w] = "ack"
    /\ reserved' = reserved \ {entry[w]}
    /\ Rest(w)
    /\ UNCHANGED <<edgeVars, ready, failed, emails>>

-----------------------------------------------------------------------------
(* Faults *)

\* Mutated form of HandleThrows: handle() catches everything, and the worker
\* deletes the entry as if the job had succeeded.
HandleSwallows(w) ==
    /\ pc[w] \in {"check", "create", "attach", "notify"}
    /\ reserved' = reserved \ {entry[w]}
    /\ Rest(w)
    /\ UNCHANGED <<edgeVars, ready, failed, emails>>

\* A database or storage error thrown out of handle().
HandleThrows(w) ==
    /\ pc[w] \in {"check", "create", "attach", "notify"}
    /\ Throw(w)
    /\ UNCHANGED <<edgeVars, emails>>

\* The process dies anywhere in handle(), or before it deletes the entry.
Crash(w) ==
    /\ pc[w] # "idle"
    /\ Rest(w)
    /\ UNCHANGED <<edgeVars, queueVars, emails>>

\* --timeout kills the process; the last attempt is recorded as failed first.
Timeout(w) ==
    /\ pc[w] # "idle"
    /\ entry[w].attempts >= MaxTries
    /\ failed' = failed \cup {entry[w].job}
    /\ reserved' = reserved \ {entry[w]}
    /\ Rest(w)
    /\ UNCHANGED <<edgeVars, ready, emails>>

-----------------------------------------------------------------------------

EdgeStep(d) == WebhookAccepts(d) \/ WebhookRefuses(d)

WorkerStep(w) ==
    \/ Pop(w) \/ CheckExists(w) \/ CreateEmail(w) \/ StoreAttachment(w)
    \/ Notify(w) \/ Ack(w)

Fault(w) == HandleThrows(w) \/ Crash(w) \/ Timeout(w)

Next ==
    \/ \E d \in Deliveries : EdgeStep(d)
    \/ \E w \in Workers : WorkerStep(w) \/ Fault(w)
    \/ Expire

Spec == Init /\ [][Next]_vars

\* The shell loop around queue:work restarts the process, Redis migrates
\* expired reservations, and the runtime drives each email() to its end.
FairSpec ==
    /\ Spec
    /\ \A d \in Deliveries : WF_vars(EdgeStep(d))
    /\ \A w \in Workers : WF_vars(WorkerStep(w))
    /\ WF_vars(Expire)

-----------------------------------------------------------------------------
(* Properties *)

TypeOK ==
    /\ edge \in [Deliveries -> EdgeStates]
    /\ enqueued \subseteq Deliveries
    /\ ready \subseteq Entries
    /\ reserved \subseteq Entries
    /\ failed \subseteq Deliveries
    /\ pc \in [Workers -> PcStates]
    /\ entry \in [Workers -> Entries \cup {NoEntry}]
    /\ row \in [Workers -> Nat]
    /\ next \in [Workers -> Nat \ {0}]
    /\ emails \in Seq(EmailRows)

\* A row files message m: its own, or one with the same ingest key, which is
\* what the early return takes for the same message.
Files(i, m) ==
    \/ emails[i].msg = m
    \/ IngestKey(m) # NoId /\ IngestKey(emails[i].msg) = IngestKey(m)

Filed(m) == \E i \in Rows : Files(i, m)

InQueue(d) == \E e \in ready \cup reserved : e.job = d

\* However deliveries, retries, expired reservations and crashes interleave, an
\* ingest key is filed at most once: the check is not atomic with the insert,
\* so this rests on the unique index.  (StoreIncomingEmail: "retries never
\* duplicate", for the messages that carry a Message-ID.)
OneRowPerIngestKey ==
    \A i, j \in Rows :
        IngestKey(emails[i].msg) = IngestKey(emails[j].msg) =>
            i = j \/ IngestKey(emails[i].msg) = NoId

\* Only the attempt that created an emails row ever adds attachments to it, so
\* no attachment is listed twice or out of order, however often the job runs.
AttachmentsOnceInOrder ==
    \A i \in Rows : LET a == emails[i].attachments IN
        /\ Len(a) <= AttachmentCount[emails[i].msg]
        /\ \A n \in 1..Len(a) : a[n] = n

\* "You have new mail" is pushed at most once per stored e-mail, and only once
\* every attachment of it can be opened.
AnnouncedOnceWhenComplete ==
    \A i \in Rows :
        /\ emails[i].pushes <= 1
        /\ emails[i].pushes = 1 =>
              Len(emails[i].attachments) = AttachmentCount[emails[i].msg]

\* A delivery the webhook answered 202 for is filed, listed in failed_jobs, or
\* still held by the queue: nothing the workers do makes it vanish.
AcceptedIsAccountedFor ==
    \A d \in enqueued : InQueue(d) \/ d \in failed \/ Filed(MsgOf[d])

\* Every accepted delivery is eventually filed or shows up in failed_jobs.
AcceptedMailSettles ==
    \A d \in Deliveries :
        d \in enqueued ~> (d \in failed \/ Filed(MsgOf[d]))

\* The docblock's claim without the restriction: no message has two rows.
RetriesNeverDuplicate ==
    \A i, j \in Rows : emails[i].msg = emails[j].msg => i = j

\* What a job that is no longer in the queue, running or failed leaves behind:
\* rows with all of their attachments.
SettledMailIsComplete ==
    \A d \in enqueued :
        (~ InQueue(d) /\ d \notin failed /\ \A w \in Workers : pc[w] = "idle") =>
            \E i \in Rows :
                /\ Files(i, MsgOf[d])
                /\ Len(emails[i].attachments) = AttachmentCount[emails[i].msg]

-----------------------------------------------------------------------------
(* What the inbox is promised: see Inbox.tla. *)

Promise == INSTANCE Inbox WITH
    accepted <- {MsgOf[d] : d \in enqueued},
    inbox <- [i \in Rows |-> [msg |-> emails[i].msg, pushes |-> emails[i].pushes]]

ImplementsInbox == Promise!Spec
=============================================================================
