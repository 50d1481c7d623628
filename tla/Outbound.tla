------------------------------ MODULE Outbound ------------------------------
(***************************************************************************)
(* Outbound mail: the composer, POST /api/mailbox/send, EmailSender with   *)
(* its two drivers, and the Cloudflare HTTP client that repeats a failed   *)
(* call.                                                                   *)
(*                                                                         *)
(* A composer (a Compose.vue tab, or a mail client behind the SMTP bridge) *)
(* holds one message.  Each press of Send is one request; there is no      *)
(* idempotency key, so a second press is a new request even while the      *)
(* first one, whose answer got lost, still runs on the server.             *)
(***************************************************************************)
EXTENDS Naturals, FiniteSets

CONSTANTS
    Composers,     \* messages being sent
    Attachments,   \* attachments of each message
    Tries,         \* attempts of one HTTP call: retry(3, 200)
    MaxPresses     \* bound: times a composer presses Send

ASSUME OutboundAssumption ==
    /\ Attachments \in Nat
    /\ Tries \in Nat \ {0}
    /\ MaxPresses \in Nat

Requests == Composers \X (1..MaxPresses)
C(q) == q[1]
Drivers == {"api", "smtp"}

\* The recipient lists of an Email Sending answer; the empty set is a success
\* that accepted no recipient.
Buckets == {"permanent_bounces", "delivered", "queued"}
Statuses == {"delivered", "queued", "bounced", "failed"}
None == "none"

VARIABLES
    oversized, \* composers whose message exceeds cloudflare.sending.max_bytes
    tab,       \* the composer: "idle", "busy", or what it was told last
    presses,   \* times the composer pressed Send
    stage,     \* where each request is on the server
    driver,    \* the sending driver each request found in its account
    attempt,   \* attempts its HTTP call has made
    accepted,  \* calls for which the provider took the message
    answer,    \* buckets of the answer the client got from the provider
    result,    \* SendResult::status
    sent,      \* status of the request's sent_emails row
    copies     \* attachments of that row: how many are stored, how many got lost

vars == <<oversized, tab, presses, stage, driver, attempt, accepted, answer, result, sent, copies>>
callVars == <<driver, attempt, accepted, answer, result>>

Running == {"check", "call", "record", "copy"}
Ended   == {"created", "toobig", "gaveup", "unrecorded", "killed"}
Stages  == {"none"} \cup Running \cup Ended

Init ==
    /\ oversized \in SUBSET Composers
    /\ tab = [c \in Composers |-> "idle"]
    /\ presses = [c \in Composers |-> 0]
    /\ stage = [q \in Requests |-> "none"]
    /\ driver = [q \in Requests |-> None]
    /\ attempt = [q \in Requests |-> 0]
    /\ accepted = [q \in Requests |-> 0]
    /\ answer = [q \in Requests |-> {}]
    /\ result = [q \in Requests |-> None]
    /\ sent = [q \in Requests |-> None]
    /\ copies = [q \in Requests |-> [stored |-> 0, lost |-> 0]]

-----------------------------------------------------------------------------
(* The composer *)

\* The Send button is disabled while a request is pending; after "sent" the
\* view is left.
PressSend(c) ==
    /\ tab[c] \in {"idle", "error"}
    /\ presses[c] < MaxPresses
    /\ tab' = [tab EXCEPT ![c] = "busy"]
    /\ presses' = [presses EXCEPT ![c] = @ + 1]
    /\ stage' = [stage EXCEPT ![<<c, presses[c] + 1>>] = "check"]
    /\ UNCHANGED <<oversized, callVars, sent, copies>>

Current(c) == <<c, presses[c]>>

\* 201 means sent, whatever the status in it says; anything else is an error.
HearAnswer(c) ==
    /\ tab[c] = "busy"
    /\ stage[Current(c)] \in Ended
    /\ tab' = [tab EXCEPT ![c] = IF stage[Current(c)] = "created" THEN "sent" ELSE "error"]
    /\ UNCHANGED <<oversized, presses, stage, callVars, sent, copies>>

\* The connection to the server breaks; the server does not notice.
LoseAnswer(c) ==
    /\ tab[c] = "busy"
    /\ tab' = [tab EXCEPT ![c] = "error"]
    /\ UNCHANGED <<oversized, presses, stage, callVars, sent, copies>>

-----------------------------------------------------------------------------
(* EmailSender::send *)

\* normalize and assertWithinSizeLimit, whose exception becomes a 500; then
\* driverFor reads the account's sending driver, which Settings may have
\* changed since the last press.
CheckSize(q) ==
    /\ stage[q] = "check"
    /\ \/ /\ C(q) \in oversized
          /\ stage' = [stage EXCEPT ![q] = "toobig"]
          /\ UNCHANGED driver
       \/ /\ C(q) \notin oversized
          /\ stage' = [stage EXCEPT ![q] = "call"]
          /\ \E d \in Drivers : driver' = [driver EXCEPT ![q] = d]
    /\ UNCHANGED <<oversized, tab, presses, attempt, accepted, answer, result, sent, copies>>

\* Mutated form of StatusOf: success without any recipient counts as queued.
StatusOfOptimist(b) ==
    IF "permanent_bounces" \in b THEN "bounced"
    ELSE IF "delivered" \in b THEN "delivered" ELSE "queued"

\* ApiMailSender::send on a successful answer.
StatusOf(b) ==
    IF "permanent_bounces" \in b THEN "bounced"
    ELSE IF "delivered" \in b THEN "delivered"
    ELSE IF "queued" \in b THEN "queued" ELSE "failed"

\* The mutated form allows one attempt too many.
OneMoreTry(k) == k <= Tries
MayRetry(k) == k < Tries

\* The call ends with a SendResult, and the request goes on to the row.
Settle(q, status, b) ==
    /\ result' = [result EXCEPT ![q] = status]
    /\ answer' = [answer EXCEPT ![q] = b]
    /\ stage' = [stage EXCEPT ![q] = "record"]

Count(q) == attempt' = [attempt EXCEPT ![q] = @ + 1]
Took(q) == accepted' = [accepted EXCEPT ![q] = @ + 1]

\* A 2xx answer with "success": true.
ApiAnswers(q) ==
    /\ stage[q] = "call" /\ driver[q] = "api"
    /\ \E b \in SUBSET Buckets :
        /\ Settle(q, StatusOf(b), b)
        /\ IF b = {} THEN UNCHANGED accepted ELSE Took(q)
    /\ Count(q)
    /\ UNCHANGED <<oversized, tab, presses, driver, sent, copies>>

\* A non-2xx answer is tried again; the last one, or a 2xx with
\* "success": false, is a CloudflareException, which becomes "failed".
ApiRefuses(q) ==
    /\ stage[q] = "call" /\ driver[q] = "api"
    /\ \/ MayRetry(attempt[q] + 1) /\ UNCHANGED <<result, answer, stage>>
       \/ Settle(q, "failed", {})
    /\ Count(q)
    /\ UNCHANGED <<oversized, tab, presses, driver, accepted, sent, copies>>

\* The connection breaks before or after the provider took the message.  The
\* ConnectionException of the last attempt is caught by nobody: a 500.
ApiUnreachable(q) ==
    /\ stage[q] = "call" /\ driver[q] = "api"
    /\ Took(q) \/ UNCHANGED accepted
    /\ stage' = [stage EXCEPT ![q] = IF MayRetry(attempt[q] + 1) THEN "call" ELSE "gaveup"]
    /\ Count(q)
    /\ UNCHANGED <<oversized, tab, presses, driver, answer, result, sent, copies>>

\* SmtpMailSender::send: one attempt, whose every Throwable is a "failed".
SmtpSends(q) ==
    /\ stage[q] = "call" /\ driver[q] = "smtp"
    /\ \/ Settle(q, "queued", {}) /\ Took(q)
       \/ Settle(q, "failed", {}) /\ (Took(q) \/ UNCHANGED accepted)
    /\ Count(q)
    /\ UNCHANGED <<oversized, tab, presses, driver, sent, copies>>

\* Mutated form of Record: the database error is caught and only logged.
RecordOrLog(q) ==
    /\ stage[q] = "record"
    /\ \/ sent' = [sent EXCEPT ![q] = result[q]]
       \/ UNCHANGED sent
    /\ stage' = [stage EXCEPT ![q] = "created"]
    /\ UNCHANGED <<oversized, tab, presses, callVars, copies>>

\* SentEmail::create; a database error is a 500.
Record(q) ==
    /\ stage[q] = "record"
    /\ \/ /\ sent' = [sent EXCEPT ![q] = result[q]]
          /\ stage' = [stage EXCEPT ![q] = IF Attachments > 0 THEN "copy" ELSE "created"]
       \/ /\ stage' = [stage EXCEPT ![q] = "unrecorded"]
          /\ UNCHANGED sent
    /\ UNCHANGED <<oversized, tab, presses, callVars, copies>>

\* Mutated form of StoreCopy: the copy is tried until the disk takes it, which
\* it never does.
StoreCopyUntilTaken(q) ==
    /\ stage[q] = "copy"
    /\ UNCHANGED vars

\* Attachments storeSentAttachments has gone through.
Tried(q) == copies[q].stored + copies[q].lost

\* One round of storeSentAttachments.  Whatever it throws is caught, so the
\* loop goes through all of them and the request ends as 201.
StoreCopy(q) ==
    /\ stage[q] = "copy"
    /\ \/ copies' = [copies EXCEPT ![q].stored = @ + 1]
       \/ copies' = [copies EXCEPT ![q].lost = @ + 1]
    /\ stage' = [stage EXCEPT ![q] = IF Tried(q) + 1 < Attachments THEN "copy" ELSE "created"]
    /\ UNCHANGED <<oversized, tab, presses, callVars, sent>>

\* php-fpm kills the request, or the container is replaced.
Kill(q) ==
    /\ stage[q] \in Running
    /\ stage' = [stage EXCEPT ![q] = "killed"]
    /\ UNCHANGED <<oversized, tab, presses, callVars, sent, copies>>

-----------------------------------------------------------------------------

ServerStep(q) ==
    \/ CheckSize(q) \/ ApiAnswers(q) \/ ApiRefuses(q) \/ ApiUnreachable(q)
    \/ SmtpSends(q) \/ Record(q) \/ StoreCopy(q)

Next ==
    \/ \E c \in Composers : PressSend(c) \/ HearAnswer(c) \/ LoseAnswer(c)
    \/ \E q \in Requests : ServerStep(q) \/ Kill(q)

Spec == Init /\ [][Next]_vars

\* PHP runs a request to its end, every call has a 30 s timeout, and axios
\* reports an answer that arrived.
FairSpec ==
    /\ Spec
    /\ \A q \in Requests : WF_vars(ServerStep(q))
    /\ \A c \in Composers : WF_vars(HearAnswer(c))

-----------------------------------------------------------------------------
(* Properties *)

TypeOK ==
    /\ oversized \subseteq Composers
    /\ tab \in [Composers -> {"idle", "busy", "sent", "error"}]
    /\ presses \in [Composers -> 0..MaxPresses]
    /\ stage \in [Requests -> Stages]
    /\ driver \in [Requests -> Drivers \cup {None}]
    /\ attempt \in [Requests -> 0..Tries]
    /\ accepted \in [Requests -> 0..Tries]
    /\ answer \in [Requests -> SUBSET Buckets]
    /\ result \in [Requests -> Statuses \cup {None}]
    /\ sent \in [Requests -> Statuses \cup {None}]
    /\ copies \in [Requests -> [stored : 0..Attachments, lost : 0..Attachments]]

\* The Sent view never claims more than happened: a row that is not "failed"
\* belongs to a request for which the provider took the message, and a bounce
\* the provider reported is not hidden by a recipient that went through.
HonestStatus ==
    \A q \in Requests : sent[q] \in Statuses =>
        /\ sent[q] # "failed" => accepted[q] > 0
        /\ "permanent_bounces" \in answer[q] <=> sent[q] = "bounced"

\* A composer that was told "sent" finds the message in the Sent view, with all
\* its attachments but those whose copy failed, even if its earlier presses ended
\* badly; and once a message has its row, no failing copy makes its answer an
\* error, after which it would be sent again.
SentIsRecorded ==
    /\ \A c \in Composers : tab[c] = "sent" =>
          /\ sent[Current(c)] \in Statuses
          /\ Tried(Current(c)) = Attachments
    /\ \A q \in Requests : sent[q] \in Statuses => stage[q] \in {"copy", "created", "killed"}

\* Every press of Send comes to an end.
EveryPressEnds ==
    \A q \in Requests : stage[q] = "check" ~> stage[q] \in Ended

\* What EmailSender's docblock says of a request that was not killed: it
\* dispatches, and records a row with the resulting status.
DispatchedIsRecorded ==
    \A q \in Requests :
        stage[q] = "gaveup" /\ accepted[q] > 0 => sent[q] # None
=============================================================================
