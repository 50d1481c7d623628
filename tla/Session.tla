------------------------------ MODULE Session ------------------------------
(***************************************************************************)
(* The portal's accounts: the list of accounts of each window (an address  *)
(* with a bearer token each), the copy of the list in localStorage that    *)
(* the windows share and the next launch reads, the unread counts, the     *)
(* badge on the application's icon, and signing in and out.                *)
(*                                                                         *)
(* A token stands for the account object made when it was issued.  Calls   *)
(* are sent, answered by the server and heard by the window in steps of    *)
(* their own, so answers arrive late and in any order.                     *)
(***************************************************************************)
EXTENDS Naturals, FiniteSetsExt

CONSTANTS
    Emails,     \* addresses of the mailboxes
    Tabs,       \* windows of the portal
    Syncs,      \* refreshes of the counts a window can have under way
    MaxLogins,  \* bound: MaxLogins[e]: tokens issued to an address
    Counts,     \* Counts[e]: how many unread mails a mailbox may have
    None        \* null

Tokens == UNION {{e} \X (1..MaxLogins[e]) : e \in Emails}
AnyCount == UNION {Counts[e] : e \in Emails}
EmailOf(tok) == tok[1]

ASSUME SessionAssumption ==
    /\ IsFiniteSet(Emails) /\ IsFiniteSet(Tabs)
    /\ MaxLogins \in [Emails -> Nat] /\ Counts \in [Emails -> SUBSET Nat]
    /\ None \notin Emails

VARIABLES
    live,      \* tokens the server accepts
    unread,    \* unread mails of each mailbox
    badge,     \* the number on the application's icon
    stored,    \* localStorage: the tokens of the list (its counts are any)
    page,      \* the windows
    sync,      \* refreshUnread calls under way in each window
    logout,    \* the sign-out under way in each window
    issued     \* bound: tokens issued to each address

server == <<live, unread, issued>>
vars == <<server, badge, stored, page, sync, logout>>

Closed == [open |-> FALSE, visible |-> FALSE, accounts |-> {}, loaded |-> FALSE, timer |-> FALSE]
NoSync == [on |-> FALSE, badge |-> FALSE, asked |-> {}, answers |-> {}]

Init ==
    /\ live = {}
    /\ unread \in {u \in [Emails -> AnyCount] : \A e \in Emails : u[e] \in Counts[e]}
    /\ badge = 0
    /\ stored = {}
    /\ page = [t \in Tabs |-> Closed]
    /\ sync = [t \in Tabs |-> [s \in Syncs |-> NoSync]]
    /\ logout = [t \in Tabs |-> None]
    /\ issued = [e \in Emails |-> 0]

\* Account objects, and the lists of them (whose order nothing here reads).
AccountObjects == UNION {[token : {tok}, unread : Counts[EmailOf(tok)]] : tok \in Tokens}
Account(tok, n) == [token |-> tok, unread |-> n]
Held(list) == {a.token : a \in list}
Addresses(list) == {EmailOf(tok) : tok \in Held(list)}
accountByEmail(list, e) == CHOOSE tok \in Held(list) : EmailOf(tok) = e
totalUnread(list) == MapThenSumSet(LAMBDA a : a.unread, list)

removed(list, e) == {a \in list : EmailOf(a.token) # e}
Counted(list, tok, n) == {IF a.token = tok THEN Account(tok, n) ELSE a : a \in list}

\* The window's list goes to localStorage.
persist(list) == stored' = Held(list)

\* The watcher of totalUnread: a change reaches the badge once counts have
\* been loaded.
Show(t, list) ==
    /\ page' = [page EXCEPT ![t].accounts = list]
    /\ badge' = IF page[t].loaded /\ totalUnread(list) # totalUnread(page[t].accounts)
                THEN totalUnread(list) ELSE badge

-----------------------------------------------------------------------------
(* Unread counts *)

\* A call of refreshUnread asks for every account of the list.
Asking(list, sync_) == [on |-> TRUE, badge |-> sync_, asked |-> Held(list), answers |-> {}]
Ask(t, s, list, sync_) == sync' = [sync EXCEPT ![t][s] = Asking(list, sync_)]
Free(t, s) == ~sync[t][s].on

\* The timer of 30 seconds, the window coming back, a message from the service
\* worker (badge) or an action on a mail (no badge).
refreshUnread(t, s, sync_) ==
    /\ page[t].open
    /\ Free(t, s)
    /\ Ask(t, s, page[t].accounts, sync_)
    /\ UNCHANGED <<server, badge, stored, page, logout>>

\* The timer runs in a window that had accounts when it was launched, and asks
\* while the window is visible.
Tick(t, s) ==
    /\ page[t].timer
    /\ page[t].visible
    /\ page[t].accounts # {}
    /\ refreshUnread(t, s, TRUE)

\* The window is brought to the front.
onVisible(t, s) ==
    /\ page[t].open
    /\ ~page[t].visible
    /\ Free(t, s)
    /\ page' = [page EXCEPT ![t].visible = TRUE]
    /\ IF page[t].accounts = {} THEN UNCHANGED sync ELSE Ask(t, s, page[t].accounts, TRUE)
    /\ UNCHANGED <<server, badge, stored, logout>>

\* The window goes to the background, where its calls and answers go on.
Hide(t) ==
    /\ page[t].open
    /\ page' = [page EXCEPT ![t].visible = FALSE]
    /\ UNCHANGED <<server, badge, stored, sync, logout>>

AfterAction(t, s) == page[t].accounts # {} /\ refreshUnread(t, s, FALSE)

\* The server answers one call.
Answer(t, s, tok) ==
    /\ tok \in sync[t][s].asked
    /\ LET ans == IF tok \in live
                  THEN [token |-> tok, kind |-> "ok", unread |-> unread[EmailOf(tok)]]
                  ELSE [token |-> tok, kind |-> "refused", unread |-> 0] IN
       sync' = [sync EXCEPT ![t][s].asked = @ \ {tok}, ![t][s].answers = @ \cup {ans}]
    /\ UNCHANGED <<server, badge, stored, page, logout>>

\* A call fails, or its answer is an error that is no refusal: the window makes
\* nothing of it.
Fails(t, s, tok) ==
    /\ tok \in sync[t][s].asked
    /\ sync' = [sync EXCEPT ![t][s].asked = @ \ {tok}]
    /\ UNCHANGED <<server, badge, stored, page, logout>>

\* Mutated form of heard: a refused token changes nothing.
heardIgnoringRefusal(list, ans) ==
    IF ans.kind = "ok" THEN Counted(list, ans.token, ans.unread) ELSE list

\* Mutated form of heard: a refused token signs every account out.
heardEmptying(list, ans) ==
    IF ans.kind = "ok" THEN Counted(list, ans.token, ans.unread) ELSE {}

\* What the window makes of an answer: the count goes to the object that asked,
\* and a 401 removes whatever account has that object's address.
heard(list, ans) ==
    IF ans.kind = "ok" THEN Counted(list, ans.token, ans.unread) ELSE removed(list, EmailOf(ans.token))

\* Mutated form of Hear: what it removes is stored with the last answer only.
HearUnstored(t, s, ans) ==
    /\ ans \in sync[t][s].answers
    /\ sync[t][s].asked # {} \/ sync[t][s].answers # {ans}
    /\ Show(t, heard(page[t].accounts, ans))
    /\ sync' = [sync EXCEPT ![t][s].answers = @ \ {ans}]
    /\ UNCHANGED <<server, stored, logout>>

Hear(t, s, ans) ==
    LET list == heard(page[t].accounts, ans) IN
    /\ ans \in sync[t][s].answers
    /\ sync[t][s].asked # {} \/ sync[t][s].answers # {ans}
    /\ Show(t, list)
    /\ IF ans.kind = "refused" THEN persist(list) ELSE UNCHANGED stored
    /\ sync' = [sync EXCEPT ![t][s].answers = @ \ {ans}]
    /\ UNCHANGED <<server, logout>>

\* Mutated form of Settle: the badge is left to the watcher.
SettleUnbadged(t, s, list) ==
    /\ persist(list)
    /\ page' = [page EXCEPT ![t].accounts = list, ![t].loaded = @ \/ sync[t][s].badge]
    /\ badge' = IF totalUnread(list) # totalUnread(page[t].accounts) THEN totalUnread(list) ELSE badge
    /\ sync' = [sync EXCEPT ![t][s] = NoSync]

\* The last answer is in: the list is stored and, for syncUnread, the badge set.
Settle(t, s, list) ==
    /\ persist(list)
    /\ IF sync[t][s].badge
       THEN /\ page' = [page EXCEPT ![t].accounts = list, ![t].loaded = TRUE]
            /\ badge' = totalUnread(list)
       ELSE Show(t, list)
    /\ sync' = [sync EXCEPT ![t][s] = NoSync]

HearLast(t, s) ==
    /\ sync[t][s].on
    /\ sync[t][s].asked = {}
    /\ \/ \E ans \in sync[t][s].answers : sync[t][s].answers = {ans} /\ Settle(t, s, heard(page[t].accounts, ans))
       \/ sync[t][s].answers = {} /\ Settle(t, s, page[t].accounts)
    /\ UNCHANGED <<server, logout>>

-----------------------------------------------------------------------------
(* Launching, signing in and out *)

\* The store reads localStorage; a signed-in window syncs and starts its timer.
Launch(t) ==
    /\ ~page[t].open
    /\ \E list \in SUBSET {a \in AccountObjects : a.token \in stored} :
          /\ Held(list) = stored /\ \A a, b \in list : a.token = b.token => a = b
          /\ page' = [page EXCEPT ![t] = [open |-> TRUE, visible |-> TRUE, accounts |-> list,
                                          loaded |-> FALSE, timer |-> list # {}]]
          /\ IF list = {} THEN UNCHANGED sync ELSE \E s \in Syncs : Free(t, s) /\ Ask(t, s, list, TRUE)
    /\ UNCHANGED <<server, badge, stored, logout>>

Close(t) ==
    /\ page[t].open
    /\ page' = [page EXCEPT ![t] = Closed]
    /\ sync' = [sync EXCEPT ![t] = [s \in Syncs |-> NoSync]]
    /\ logout' = [logout EXCEPT ![t] = None]
    /\ UNCHANGED <<server, badge, stored>>

\* Mutated form of login: the account is added beside one with its address.
loginAdding(list, tok) == list \cup {Account(tok, unread[EmailOf(tok)])}

\* login: the new token's account takes the place of one with its address.
login(list, tok) == removed(list, EmailOf(tok)) \cup {Account(tok, unread[EmailOf(tok)])}

\* A sign-in, when its answer arrives.
submit(t, e) ==
    LET tok == <<e, issued[e] + 1>>
        list == login(page[t].accounts, tok) IN
    /\ page[t].open
    /\ issued[e] < MaxLogins[e]
    /\ issued' = [issued EXCEPT ![e] = @ + 1]
    /\ live' = live \cup {tok}
    /\ Show(t, list)
    /\ persist(list)
    /\ UNCHANGED <<unread, sync, logout>>

signOut(t, e) ==
    /\ logout[t] = None
    /\ e \in Addresses(page[t].accounts)
    /\ logout' = [logout EXCEPT ![t] = accountByEmail(page[t].accounts, e)]
    /\ UNCHANGED <<server, badge, stored, page, sync>>

\* The server deletes the token.
LogoutServed(t) ==
    /\ logout[t] \in live
    /\ live' = live \ {logout[t]}
    /\ UNCHANGED <<unread, issued, badge, stored, page, sync, logout>>

\* Whether the call was answered or failed, the account with that address goes.
LogoutHeard(t) ==
    /\ logout[t] # None
    /\ LET list == removed(page[t].accounts, EmailOf(logout[t])) IN Show(t, list) /\ persist(list)
    /\ logout' = [logout EXCEPT ![t] = None]
    /\ UNCHANGED <<server, sync>>

-----------------------------------------------------------------------------
(* The world *)

Unread(e, n) ==
    /\ n # unread[e]
    /\ unread' = [unread EXCEPT ![e] = n]
    /\ UNCHANGED <<live, issued, badge, stored, page, sync, logout>>

\* A token goes at the server: revoked, or the mailbox deleted.
Revoke(tok) ==
    /\ tok \in live
    /\ live' = live \ {tok}
    /\ UNCHANGED <<unread, issued, badge, stored, page, sync, logout>>

\* A window hears of new mail from the service worker.
onSwMessage(t, s) ==
    IF page[t].open THEN [sync[t] EXCEPT ![s] = Asking(page[t].accounts, TRUE)] ELSE sync[t]

\* The service worker shows one mailbox's count and tells every window.
Push(e) ==
    /\ badge' = unread[e]
    /\ \E pick \in [Tabs -> Syncs] :
          /\ \A t \in Tabs : page[t].open => Free(t, pick[t])
          /\ sync' = [t \in Tabs |-> onSwMessage(t, pick[t])]
    /\ UNCHANGED <<server, stored, page, logout>>

Sync(t, s) ==
    \/ HearLast(t, s)
    \/ \E tok \in Tokens : Answer(t, s, tok) \/ Fails(t, s, tok)
    \/ \E ans \in sync[t][s].answers : Hear(t, s, ans)

Next ==
    \/ \E t \in Tabs, s \in Syncs : Tick(t, s) \/ onVisible(t, s) \/ AfterAction(t, s) \/ Sync(t, s)
    \/ \E t \in Tabs : Launch(t) \/ Close(t) \/ Hide(t) \/ LogoutServed(t) \/ LogoutHeard(t)
    \/ \E t \in Tabs, e \in Emails : submit(t, e) \/ signOut(t, e)
    \/ \E e \in Emails : Push(e) \/ \E n \in Counts[e] : Unread(e, n)
    \/ \E tok \in Tokens : Revoke(tok)

Spec == Init /\ [][Next]_vars

\* The timer of a visible window fires, every call ends, and calls made again
\* and again are answered some time.  Nobody has to bring a window to the front.
FairSpec ==
    /\ Spec
    /\ \A t \in Tabs : WF_vars(\E s \in Syncs : Tick(t, s))
    /\ \A t \in Tabs, s \in Syncs : WF_vars(Sync(t, s))
    /\ \A t \in Tabs, tok \in Tokens : SF_vars(\E s \in Syncs : Answer(t, s, tok))
-----------------------------------------------------------------------------
(* Properties *)

\* Every variable has its type; a list has one account of an address.
TypeOK ==
    /\ live \subseteq Tokens
    /\ \A e \in Emails : unread[e] \in Counts[e]
    /\ issued \in [Emails -> Nat]
    /\ badge \in Nat
    /\ stored \subseteq Tokens
    /\ \A t \in Tabs :
          /\ page[t].accounts \subseteq AccountObjects
          /\ \A a, b \in page[t].accounts : EmailOf(a.token) = EmailOf(b.token) => a = b
    /\ \A t \in Tabs, s \in Syncs :
          /\ sync[t][s].asked \subseteq Tokens
          /\ \A ans \in sync[t][s].answers : ans.token \in Tokens /\ ans.unread \in AnyCount \cup {0}

\* "Every logged-in mailbox is one entry in accounts": nothing takes an account
\* out of an open window's list but its user signing that address out or in
\* again, or the server having dropped a token of that address - never a failed
\* call, and never another address's trouble.
VanishRightly ==
    [][\A t \in Tabs : page[t].open /\ page'[t].open =>
          \A tok \in Held(page[t].accounts) \ Held(page'[t].accounts) :
             \/ logout[t] # None /\ logout'[t] = None /\ EmailOf(logout[t]) = EmailOf(tok)
             \/ issued'[EmailOf(tok)] # issued[EmailOf(tok)]
             \/ \E s \in Syncs : \E ans \in sync[t][s].answers :
                   ans.kind = "refused" /\ EmailOf(ans.token) = EmailOf(tok) /\ ans.token \notin live]_vars

\* With one window, what the next launch reads is what the window shows,
\* wherever the window is closed: an account signed out or refused does not
\* come back, and one signed in is not lost.
NextLaunchAgrees ==
    Cardinality(Tabs) = 1 => \A t \in Tabs : page[t].open =>
        stored = Held(page[t].accounts)

\* A window that was launched with accounts and is, or comes back, on the
\* screen again and again.
Seen(t) == <>[](page[t].timer) /\ []<>(page[t].visible)

\* Once a window does nothing but count, on its timer and when it is brought to
\* the front, the badge shows the unread mails of its accounts, whatever pushes
\* beside refreshes under way and late answers had put there.
Counting(t) == Hide(t) \/ \E s \in Syncs : Tick(t, s) \/ onVisible(t, s) \/ Sync(t, s)
BadgeSettles ==
    \A t \in Tabs : Seen(t) /\ <>[][Counting(t)]_vars
        => <>[](badge = MapThenSumSet(LAMBDA e : unread[e], Addresses(page[t].accounts)))

\* An account whose token the server has dropped leaves a window that is seen.
DeadTokensGo ==
    \A t \in Tabs : Seen(t) => []<>(Held(page[t].accounts) \subseteq live)

=============================================================================
