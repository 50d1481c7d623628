----------------------------- MODULE MailList ------------------------------
(***************************************************************************)
(* One folder of the portal: the list a Mailbox view shows, the list it    *)
(* has cached for each account, its loads and polls, the actions on rows,  *)
(* the conversation in its reading pane, and the mails at the server.      *)
(*                                                                         *)
(* A view shows one folder for its whole life.  Loads, polls and calls are *)
(* sent, served and heard in steps of their own.  known[m] is the row      *)
(* object of a mail, which the list and the cache share; a call whose      *)
(* object has been replaced meanwhile no longer reaches a row.  The order  *)
(* of a list is that of age wherever the view makes one.                   *)
(***************************************************************************)
EXTENDS Naturals, FiniteSetsExt

CONSTANTS
    Mails,      \* numbered by age: a larger number is newer
    Accounts,   \* addresses signed in
    AccountOf,  \* AccountOf[m]: the mailbox that has m
    ThreadOf,   \* ThreadOf[m]: its conversation
    Beginnings, \* a folder, the account in view, what the server has at first
    Elsewheres, \* what another device may make of a mail
    Fetches,    \* loads and polls that can be under way at once
    Calls,      \* actions that can be under way at once
    MaxActs,    \* bound: actions of the user
    MaxAsks,    \* bound: refreshes and polls
    MaxElse     \* bound: arrivals, and changes made on other devices

Folders == {"inbox", "starred", "trash"}
Flags == {"read", "starred"}
Content(box, flags) == [box |-> box, flags |-> flags]
Contents == [box : {"inbox", "trash"}, flags : SUBSET Flags]
NotYet == Content("none", {})

ASSUME MailListAssumption ==
    /\ Mails \subseteq Nat \ {0} /\ IsFiniteSet(Mails)
    /\ AccountOf \in [Mails -> Accounts]
    /\ DOMAIN ThreadOf = Mails
    /\ Elsewheres \subseteq Contents
    /\ Beginnings \subseteq Folders \X Accounts \X [Mails -> Contents \cup {NotYet}]

VARIABLES
    srv,        \* the server's mails: box ("none" before arrival), read, starred
    folder,     \* the view's folder: inbox, starred or trash
    active,     \* the account in view
    unreadOnly, \* the filter
    list,       \* emails: what the view has rows for
    known,      \* what the row object of a mail says
    cache,      \* listCache of this folder: the last list of each account
    fetches,    \* loads and polls under way
    calls,      \* actions under way
    offer,      \* the toast with an undo: a box for each mail, and its author
    pane,       \* the conversation in the reading pane
    of,         \* history: the account whose list was shown last
    excused,    \* history: mails whose rows may be out of date
    acts, asks, else  \* bounds

vars == <<srv, folder, active, unreadOnly, list, known, cache, fetches, calls,
          offer, pane, of, excused, acts, asks, else>>

NoCache == [some |-> FALSE, mails |-> {}]
NoFetch == [st |-> "none", poll |-> FALSE, key |-> 0, cached |-> FALSE, snap |-> <<>>, clean |-> {}]
NoCall == [op |-> "none", ms |-> {}, todo |-> {}, failed |-> FALSE, got |-> {}, alive |-> FALSE, row |-> 0, boxes |-> <<>>]
NoPane == [selected |-> 0, mails |-> {}]
NoOffer == [boxes |-> <<>>, reader |-> FALSE]

Init ==
    /\ \E b \in Beginnings : folder = b[1] /\ active = b[2] /\ srv = b[3]
    /\ unreadOnly = FALSE
    /\ list = {}
    /\ known = srv
    /\ cache = [k \in Accounts |-> NoCache]
    /\ \E f \in Fetches :
        fetches = [[g \in Fetches |-> NoFetch] EXCEPT ![f] = [NoFetch EXCEPT !.st = "sent", !.key = active]]
    /\ calls = [c \in Calls |-> NoCall]
    /\ offer = NoOffer
    /\ pane = NoPane
    /\ of = active
    /\ excused = Mails
    /\ acts = 0
    /\ asks = 0
    /\ else = 0

\* index: the inbox is everything that is not in the trash.
InFolder(content) ==
    /\ (folder = "trash") <=> (content.box = "trash")
    /\ content.box # "none"
    /\ folder = "starred" => "starred" \in content.flags

visible == IF unreadOnly THEN {m \in list : "read" \notin known[m].flags} ELSE list
SameThread(m, x) == ThreadOf[x] = ThreadOf[m] /\ AccountOf[x] = AccountOf[m]

\* The conversation of a row, as far as the list shows it; its newest mail is
\* the one that stands for it.
threadInfo(m) == {x \in visible : SameThread(m, x)}
rows == {m \in visible : \A x \in threadInfo(m) : x <= m}

Busy == UNION {calls[c].ms : c \in Calls}
Asking == {"open", "again", "reopen"}
FromReader == Asking \cup {"changed", "close", "closeTrash"}

\* Mutated form of Unmounted: a closed conversation still reports.
UnmountedNever(cs) == cs

\* With the pane goes its component, and what its calls would have told the list;
\* the row it showed is what it will ask for again.
Unmounted(cs) ==
    [c \in Calls |-> IF cs[c].op \in FromReader /\ cs[c].alive
                     THEN [cs[c] EXCEPT !.alive = FALSE, !.row = pane.selected] ELSE cs[c]]

-----------------------------------------------------------------------------
(* Loads and polls *)

\* load: the cached list is shown at once, and the server asked.
Load(f, k, fs, old, ex) ==
    /\ fs[f] = NoFetch
    /\ fetches' = [fs EXCEPT ![f] = [NoFetch EXCEPT !.st = "sent", !.key = k, !.cached = cache[k].some]]
    /\ IF cache[k].mails # {}
       THEN list' = cache[k].mails /\ of' = k /\ excused' = Mails
       ELSE list' = old /\ of' = of /\ excused' = ex

\* What makes the view ask by itself: the timer, a push, coming back to it.
Occasion == asks < MaxAsks /\ asks' = asks + 1

\* The list is pulled down.
Refresh(f) ==
    /\ Occasion
    /\ Load(f, active, fetches, list, excused)
    /\ UNCHANGED <<srv, folder, active, unreadOnly, known, cache, calls, offer, pane, acts, else>>

Poll(f) ==
    /\ Occasion
    /\ fetches[f] = NoFetch
    /\ fetches' = [fetches EXCEPT ![f] = [NoFetch EXCEPT !.st = "sent", !.poll = TRUE, !.key = active]]
    /\ UNCHANGED <<srv, folder, active, unreadOnly, list, known, cache, calls, offer, pane, of, excused, acts, else>>

ServeFetch(f) ==
    /\ fetches[f].st = "sent"
    /\ LET found == {m \in Mails : AccountOf[m] = fetches[f].key /\ InFolder(srv[m])} IN
       fetches' = [fetches EXCEPT ![f].st = "ok", ![f].snap = [m \in found |-> srv[m]],
                                  ![f].clean = Mails \ Busy]
    /\ UNCHANGED <<srv, folder, active, unreadOnly, list, known, cache, calls, offer, pane, of, excused, acts, asks, else>>

\* New row objects take the place of those a call may still hold.
Renew(ms, snap) ==
    /\ known' = [m \in Mails |-> IF m \in ms THEN snap[m] ELSE known[m]]
    /\ calls' = [c \in Calls |-> IF calls[c].op \in Flags /\ calls[c].ms \cap ms # {}
                                 THEN [calls[c] EXCEPT !.alive = FALSE] ELSE calls[c]]

\* Mutated form of cacheAs: the key is made when the answer is there.
cacheAsNow(k) == active

\* The key a list is cached under was made before the server was asked.
cacheAs(k) == k

HearLoad(f) ==
    LET r == fetches[f] IN
    /\ r.st # "none" /\ ~r.poll
    /\ \/ /\ r.st = "ok"
          /\ list' = DOMAIN r.snap
          /\ Renew(DOMAIN r.snap, r.snap)
          /\ cache' = [cache EXCEPT ![cacheAs(r.key)] = [some |-> TRUE, mails |-> DOMAIN r.snap]]
          /\ of' = r.key
          /\ excused' = Mails \ r.clean
       \/ \* the call failed
          /\ list' = IF r.cached THEN list ELSE {}
          /\ excused' = IF r.cached THEN excused ELSE Mails
          /\ UNCHANGED <<known, calls, cache, of>>
    /\ fetches' = [fetches EXCEPT ![f] = NoFetch]
    /\ UNCHANGED <<srv, folder, active, unreadOnly, offer, pane, acts, asks, else>>

\* What of a poll's answer the list does not show when it is heard.
additions(snap) == DOMAIN snap \ list

HearPoll(f) ==
    LET r == fetches[f]
        new == additions(r.snap) IN
    /\ r.poll
    /\ \/ /\ r.st = "ok"
          /\ list' = list \cup new
          /\ Renew(new, r.snap)
          /\ excused' = (excused \ (new \cap r.clean)) \cup (new \ r.clean)
       \/ UNCHANGED <<list, known, calls, excused>>
    /\ fetches' = [fetches EXCEPT ![f] = NoFetch]
    /\ UNCHANGED <<srv, folder, active, unreadOnly, cache, offer, pane, of, acts, asks, else>>

\* Picking another account clears the pane and the checks, and loads.
pickAccount(f, a) ==
    /\ acts < MaxActs /\ acts' = acts + 1
    /\ a # active
    /\ active' = a
    /\ pane' = NoPane
    /\ calls' = Unmounted(calls)
    /\ Load(f, a, fetches, list, excused)
    /\ UNCHANGED <<srv, folder, unreadOnly, known, cache, offer, asks, else>>

Filter ==
    /\ acts < MaxActs /\ acts' = acts + 1
    /\ unreadOnly' = ~unreadOnly
    /\ UNCHANGED <<srv, folder, active, list, known, cache, fetches, calls, offer, pane, of, excused, asks, else>>

-----------------------------------------------------------------------------
(* Actions on rows: what they send *)

\* A change <<m, field, value>> as the server makes it.  Opening a conversation
\* marks its mails read, except in the trash.
Applied(p) ==
    [m \in Mails |->
        LET s == srv[m] IN
        CASE p[2] = "thread" /\ SameThread(p[1], m) /\ s.box = "inbox" -> Content(s.box, s.flags \cup {"read"})
          [] p[2] = "box" /\ m = p[1] -> Content(p[3], s.flags)
          [] p[2] \in Flags /\ m = p[1] -> Content(s.box, IF p[3] THEN s.flags \cup {p[2]} ELSE s.flags \ {p[2]})
          [] OTHER -> s]

Put(ms, field, v) == {<<m, field, v>> : m \in ms}
Flag(ms, field, v) ==
    [m \in Mails |-> IF m \notin ms THEN known[m]
                     ELSE Content(known[m].box, IF v THEN known[m].flags \cup {field} ELSE known[m].flags \ {field})]

\* A call starts: what a fetch saw of its mails is out of date, and a mail with
\* another call under way is excused.
Send(c, op, ms, todo, boxes, cs) ==
    /\ acts' = acts + 1
    /\ calls[c] = NoCall
    /\ calls' = [cs EXCEPT ![c] = [NoCall EXCEPT !.op = op, !.ms = ms, !.todo = todo, !.alive = TRUE, !.boxes = boxes]]
    /\ fetches' = [f \in Fetches |-> [fetches[f] EXCEPT !.clean = @ \ ms]]
    /\ excused' = excused \cup (ms \cap Busy)
    /\ UNCHANGED <<srv, folder, active, unreadOnly, cache, of, asks, else>>

\* toggleStar, toggleRead: the row changes at once.
Toggle(c, m, field) ==
    LET v == field \notin known[m].flags IN
    /\ m \in rows
    /\ known' = Flag({m}, field, v)
    /\ Send(c, field, {m}, Put({m}, field, v), <<>>, calls)
    /\ UNCHANGED <<list, offer, pane>>

Target == IF folder = "trash" THEN "inbox" ELSE "trash"
Boxes(ms) == [m \in ms |-> known[m].box]

\* Trashing a row, or restoring one: all of its conversation that is visible.
Trash(c, m) ==
    LET ms == threadInfo(m)
        closes == pane.selected \in ms IN
    /\ m \in rows
    /\ list' = list \ ms
    /\ pane' = IF closes THEN NoPane ELSE pane
    /\ Send(c, "trash", ms, Put(ms, "box", Target), Boxes(ms), IF closes THEN Unmounted(calls) ELSE calls)
    /\ UNCHANGED <<known, offer>>

\* The bulk bar: what is checked and still in the list.
BulkFlag(c, ms, field, v) ==
    /\ ms # {}
    /\ known' = Flag(ms, field, v)
    /\ Send(c, "bulk", ms, Put(ms, field, v), <<>>, calls)
    /\ UNCHANGED <<list, offer, pane>>

BulkTrash(c, ms) ==
    /\ ms # {}
    /\ list' = list \ ms
    /\ Send(c, "bulkTrash", ms, Put(ms, "box", Target), Boxes(ms), calls)
    /\ UNCHANGED <<known, offer, pane>>

\* Opening a row marks its conversation read and brings it to the pane, which
\* asks the server for it unless it shows that row already: then the rows that
\* were not read say so without a call.  The server marks read what it sends,
\* which is nothing of the trash.
Open(c, m) ==
    /\ m \in rows
    /\ known' = Flag(threadInfo(m), "read", TRUE)
    /\ IF pane.selected = m
       THEN /\ acts' = acts + 1
            /\ excused' = excused \cup {x \in threadInfo(m) : "read" \notin known[x].flags}
            /\ UNCHANGED <<srv, folder, active, unreadOnly, cache, of, asks, else, pane, calls, fetches>>
       ELSE /\ pane' = [NoPane EXCEPT !.selected = m]
            /\ Send(c, "open", {x \in Mails : SameThread(m, x)}, {<<m, "thread", TRUE>>}, <<>>, calls)
    /\ UNCHANGED <<list, offer>>

\* The toast's undo; without it the toast goes.
Undo(c) ==
    LET back == offer.boxes IN
    /\ offer # NoOffer
    /\ offer' = NoOffer
    /\ Send(c, IF offer.reader THEN "rest" ELSE "undo", DOMAIN back, {<<m, "box", back[m]>> : m \in DOMAIN back},
            <<>>, calls)
    /\ UNCHANGED <<list, known, pane>>

Expire ==
    /\ offer # NoOffer
    /\ offer' = NoOffer
    /\ UNCHANGED <<srv, folder, active, unreadOnly, list, known, cache, fetches, calls, pane, of, excused, acts, asks, else>>

\* The buttons of the conversation, which act on the mails it has loaded.
latest == Max(pane.mails)

ConversationStar(c, v) ==
    /\ pane.mails # {}
    /\ Send(c, "changed", {latest}, {<<latest, "starred", v>>}, <<>>, calls)
    /\ UNCHANGED <<list, known, offer, pane>>

ConversationUnread(c) ==
    /\ pane.mails # {}
    /\ Send(c, "close", {latest}, {<<latest, "read", FALSE>>}, <<>>, calls)
    /\ UNCHANGED <<list, known, offer, pane>>

ConversationTrash(c) ==
    /\ pane.mails # {}
    /\ Send(c, "closeTrash", pane.mails, Put(pane.mails, "box", "trash"), [m \in pane.mails |-> "inbox"], calls)
    /\ UNCHANGED <<list, known, offer, pane>>

ClosePane ==
    /\ pane # NoPane
    /\ pane' = NoPane
    /\ calls' = Unmounted(calls)
    /\ UNCHANGED <<srv, folder, active, unreadOnly, list, known, cache, fetches, offer, of, excused, acts, asks, else>>

-----------------------------------------------------------------------------
(* The server's work, and what the view makes of its answers *)

\* The conversation of a mail, without what is in the trash.
thread(m) == {x \in Mails : SameThread(m, x) /\ srv[x].box = "inbox"}

\* A change is made or not, and the answer to one made may be lost.
ServeCall(c, p, done, ok) ==
    /\ p \in calls[c].todo
    /\ ok => done
    /\ srv' = IF done THEN Applied(p) ELSE srv
    /\ calls' = [calls EXCEPT ![c].todo = @ \ {p},
                              ![c].failed = @ \/ ~ok,
                              ![c].got = IF p[2] = "thread" /\ ok THEN thread(p[1]) ELSE @]
    /\ excused' = IF done /\ ~ok THEN excused \cup calls[c].ms ELSE excused
    /\ UNCHANGED <<folder, active, unreadOnly, list, known, cache, fetches, offer, pane, of, acts, asks, else>>

\* Mutated form of restored: the row of a failed toggle is left as it is.
restoredNever(call) == FALSE

\* Whether a toggle is taken back: its call failed, and its row is still there.
restored(call) == call.failed /\ call.alive

HearToggle(c) ==
    LET call == calls[c]
        m == CHOOSE x \in call.ms : TRUE IN
    /\ call.op \in Flags /\ call.todo = {}
    /\ known' = IF restored(call) THEN Flag({m}, call.op, call.op \notin known[m].flags) ELSE known
    /\ list' = IF call.op = "starred" /\ folder = "starred" /\ call.alive /\ "starred" \notin known'[m].flags
               THEN list \ {m} ELSE list
    /\ calls' = [calls EXCEPT ![c] = NoCall]
    /\ UNCHANGED <<srv, folder, active, unreadOnly, cache, fetches, offer, pane, of, excused, acts, asks, else>>

Uncertain(call) == IF call.failed THEN excused \cup call.ms ELSE excused

\* All was moved: the toast offers the way back.  A bulk move does whatever failed.
HearMoved(c) ==
    LET call == calls[c] IN
    /\ call.todo = {}
    /\ call.op = "bulkTrash" \/ (call.op = "trash" /\ ~call.failed)
    /\ offer' = [boxes |-> call.boxes, reader |-> FALSE]
    /\ excused' = Uncertain(call)
    /\ calls' = [calls EXCEPT ![c] = NoCall]
    /\ UNCHANGED <<srv, folder, active, unreadOnly, list, known, cache, fetches, pane, of, acts, asks, else>>

\* The first failure brings the list back while the rest is still under way.
HearNotMoved(c, f) ==
    LET call == calls[c] IN
    /\ call.op = "trash" /\ call.failed
    /\ Load(f, active, fetches, list, Uncertain(call))
    /\ calls' = [calls EXCEPT ![c].op = "rest"]
    /\ UNCHANGED <<srv, folder, active, unreadOnly, known, cache, offer, pane, acts, asks, else>>

HearRest(c) ==
    LET call == calls[c] IN
    /\ call.op \in {"rest", "bulk"} /\ call.todo = {}
    /\ excused' = IF call.op = "rest" THEN excused \cup call.ms ELSE Uncertain(call)
    /\ calls' = [calls EXCEPT ![c] = NoCall]
    /\ UNCHANGED <<srv, folder, active, unreadOnly, list, known, cache, fetches, offer, pane, of, acts, asks, else>>

HearUndone(c, f) ==
    LET call == calls[c] IN
    /\ call.op = "undo" /\ call.todo = {}
    /\ Load(f, active, fetches, list, excused \cup call.ms)
    /\ calls' = [calls EXCEPT ![c] = NoCall]
    /\ UNCHANGED <<srv, folder, active, unreadOnly, known, cache, offer, pane, acts, asks, else>>

\* The conversation's answer, to the pane as it is now; nothing, if the second
\* call for it failed too.  Rows marked read in the trash are not read at the
\* server, and those of a second call were perhaps not marked.
HearThread(c) ==
    LET call == calls[c] IN
    /\ call.todo = {}
    /\ call.op = "reopen" \/ (call.op = "open" /\ ~call.failed)
    /\ pane' = IF call.alive THEN [pane EXCEPT !.mails = call.got] ELSE pane
    /\ excused' = IF call.op = "reopen" \/ folder = "trash" THEN excused \cup call.ms ELSE excused
    /\ calls' = [calls EXCEPT ![c] = NoCall]
    /\ UNCHANGED <<srv, folder, active, unreadOnly, list, known, cache, fetches, offer, of, acts, asks, else>>

\* The call failed: after a while there is another.
HearNoThread(c) ==
    LET call == calls[c] IN
    /\ call.op = "open" /\ call.todo = {} /\ call.failed
    /\ calls' = [calls EXCEPT ![c].op = "again", ![c].ms = {}]
    /\ excused' = excused \cup call.ms
    /\ UNCHANGED <<srv, folder, active, unreadOnly, list, known, cache, fetches, offer, pane, of, acts, asks, else>>

\* The row a conversation would ask for now.
askedRow(call) == IF call.alive THEN pane.selected ELSE call.row

\* The second call is for the row the pane shows by now, whose mails it takes off
\* the screen; a pane that is gone asks for the last row it had.
RetryThread(c) ==
    LET m == askedRow(calls[c])
        ms == {x \in Mails : SameThread(m, x)} IN
    /\ calls[c].op = "again"
    /\ calls' = [calls EXCEPT ![c].op = "reopen", ![c].ms = ms, ![c].todo = {<<m, "thread", TRUE>>}, ![c].failed = FALSE]
    /\ fetches' = [f \in Fetches |-> [fetches[f] EXCEPT !.clean = @ \ ms]]
    /\ excused' = excused \cup (ms \cap Busy)
    /\ pane' = IF calls[c].alive THEN [pane EXCEPT !.mails = {}] ELSE pane
    /\ UNCHANGED <<srv, folder, active, unreadOnly, list, known, cache, offer, of, acts, asks, else>>

\* The conversation tells the list to load, and closes the pane, unless its
\* component is gone.
HearReader(c, f) ==
    LET call == calls[c]
        closes == call.alive /\ call.op # "changed"
        over == [calls EXCEPT ![c] = NoCall] IN
    /\ call.op \in {"changed", "close", "closeTrash"} /\ call.todo = {}
    /\ IF call.alive THEN Load(f, active, fetches, list, excused \cup call.ms)
                      ELSE excused' = excused \cup call.ms /\ UNCHANGED <<fetches, list, of>>
    /\ pane' = IF closes THEN NoPane ELSE pane
    /\ calls' = IF closes THEN Unmounted(over) ELSE over
    /\ offer' = IF call.op = "closeTrash" THEN [boxes |-> call.boxes, reader |-> TRUE] ELSE offer
    /\ UNCHANGED <<srv, folder, active, unreadOnly, known, cache, acts, asks, else>>

-----------------------------------------------------------------------------
(* The world *)

\* A mail arrives, or another device changes one.
Elsewhere(m, content) ==
    /\ else < MaxElse /\ else' = else + 1
    /\ content # srv[m]
    /\ srv[m] = NotYet => content = Content("inbox", {})
    /\ srv' = [srv EXCEPT ![m] = content]
    /\ excused' = excused \cup {m}
    /\ fetches' = [f \in Fetches |-> [fetches[f] EXCEPT !.clean = @ \ {m}]]
    /\ UNCHANGED <<folder, active, unreadOnly, list, known, cache, calls, offer, pane, of, acts, asks>>

\* The user acts on mails; Send and Open count it.
Acting(c) ==
    /\ acts < MaxActs
    /\ \/ \E m \in Mails : Trash(c, m) \/ Open(c, m) \/ \E field \in Flags : Toggle(c, m, field)
       \/ \E ms \in SUBSET list : BulkTrash(c, ms) \/ BulkFlag(c, ms, "starred", TRUE)
                                   \/ \E v \in BOOLEAN : BulkFlag(c, ms, "read", v)
       \/ \E v \in BOOLEAN : ConversationStar(c, v)
       \/ Undo(c) \/ ConversationUnread(c) \/ ConversationTrash(c)

Answered(c) ==
    \/ \E p \in calls[c].todo, done, ok \in BOOLEAN : ServeCall(c, p, done, ok)
    \/ HearToggle(c) \/ HearMoved(c) \/ HearRest(c) \/ HearThread(c) \/ HearNoThread(c) \/ RetryThread(c)
    \/ \E f \in Fetches : HearNotMoved(c, f) \/ HearUndone(c, f) \/ HearReader(c, f)

Next ==
    \/ \E f \in Fetches : Refresh(f) \/ Poll(f) \/ ServeFetch(f) \/ HearLoad(f) \/ HearPoll(f)
                          \/ \E a \in Accounts : pickAccount(f, a)
    \/ \E c \in Calls : Acting(c) \/ Answered(c)
    \/ Filter \/ Expire \/ ClosePane
    \/ \E m \in Mails, content \in Elsewheres : Elsewhere(m, content)

Spec == Init /\ [][Next]_vars

-----------------------------------------------------------------------------
(* Properties *)

TypeOK ==
    /\ srv \in [Mails -> Contents \cup {NotYet}]
    /\ active \in Accounts /\ of \in Accounts
    /\ list \subseteq Mails
    /\ \A k \in Accounts : cache[k].mails # {} => cache[k].some
    /\ \A f \in Fetches : DOMAIN fetches[f].snap \subseteq Mails /\ fetches[f].clean \subseteq Mails
    /\ \A c \in Calls : calls[c].ms \subseteq Mails /\ {p[1] : p \in calls[c].todo} \subseteq calls[c].ms
    /\ pane.mails # {} => pane.selected \in Mails
    /\ DOMAIN offer.boxes \subseteq Mails

\* What is cached for an account is that account's, whichever account was in
\* view when the answer came (keyOf, "keyed by account + folder").
CacheIsOfItsKey == \A k \in Accounts, m \in Mails : m \in cache[k].mails => AccountOf[m] = k

\* Once nothing is under way for a mail, it has a row exactly when the folder has
\* it, and the row says what the server says: a failed change has been taken
\* back, and one that was made has not.  The exceptions, until a load or a poll
\* has brought the mail's row anew:
\*   - a list not loaded yet, the cached one, and the empty one of a failed load;
\*   - a row that came with an answer from before a change of its mail, or from
\*     while a call for it was under way;
\*   - a mail with two calls at once, and one whose change was made and the answer
\*     lost;
\*   - a bulk change or a move that failed, an undo, what the buttons of the pane do;
\*   - a conversation opened in the trash, one whose call failed or was repeated,
\*     and the unread rows of one opened that the pane shows already: all are
\*     marked read, and perhaps not at the server;
\*   - a mail that arrived or was changed on another device.
RowsAgree ==
    \A m \in Mails \ (excused \cup Busy) :
        /\ m \in list => InFolder(srv[m]) /\ known[m].flags = srv[m].flags
        /\ InFolder(srv[m]) /\ AccountOf[m] = of => m \in list

\* What the code says of a conversation: "All messages in the same conversation
\* as $email", so the mail that was opened is among them.
OpenedIsShown ==
    [][\A c \in Calls, m \in Mails :
        LET p == <<m, "thread", TRUE>> IN
        p \in calls[c].todo /\ p \notin calls'[c].todo /\ ~calls'[c].failed => m \in calls'[c].got]_vars

=============================================================================
