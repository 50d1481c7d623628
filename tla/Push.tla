------------------------------- MODULE Push --------------------------------
(***************************************************************************)
(* Web push on one device: the permission, the browser's subscription, its *)
(* registration under each mailbox that is signed in, the notifications    *)
(* the service worker shows and what a tap on one does, and the test in    *)
(* Settings.                                                               *)
(*                                                                         *)
(* An endpoint is "cur", the one the browser holds, "old", one this device *)
(* held before, or "other", another device's.                              *)
(***************************************************************************)
EXTENDS Naturals, FiniteSets

CONSTANTS
    Accounts, \* mailboxes
    Others,   \* mailboxes that another device is registered for
    Runs,     \* runs of subscribeForAccounts that can be under way at once
    Readable, \* whether the browser tells the key its subscription was made with
    MaxKeys,  \* bound: VAPID keys, which are numbered
    MaxFails, \* bound: calls that fail, and endpoints that expire
    MaxUsers  \* bound: sign-ins, sign-outs, prompts, tests

None == "none"
UNIFIED == "all" \* the view of all accounts

ASSUME PushAssumption ==
    /\ None \notin Accounts /\ Readable \in BOOLEAN
    /\ MaxKeys \in Nat \ {0} /\ MaxFails \in Nat /\ MaxUsers \in Nat

VARIABLES
    key,        \* the server's VAPID key
    rows,       \* rows[a]: the endpoints registered for mailbox a
    subKey,     \* the key the browser's subscription was made with; 0 is none
    permission, \* Notification.permission
    page,       \* the portal: open, its key, its accounts, the one in view and
                \* the one the browser has stored as that, the permission it
                \* believes in, the mail it shows, and whether it was opened at it
    runs,       \* runs under way
    tray,       \* mailboxes with a notification on the screen
    fails, users \* bounds

vars == <<key, rows, subKey, permission, page, runs, tray, fails, users>>
server == <<key, rows>>
device == <<subKey, permission, tray>>

NoRun == [st |-> "none", accounts |-> {}, live |-> FALSE, endpoint |-> None, test |-> None]
Permissions == {"default", "granted", "denied"}

Init ==
    /\ key = 1
    /\ rows = [a \in Accounts |-> IF a \in Others THEN {"other"} ELSE {}]
    /\ subKey = 0
    /\ permission = "default"
    /\ page = [open |-> TRUE, key |-> 1, accounts |-> {}, active |-> None, stored |-> None, believes |-> "default", mail |-> None,
               cold |-> FALSE]
    /\ runs = [r \in Runs |-> NoRun]
    /\ tray = {}
    /\ fails = 0 /\ users = 0

Fail == fails < MaxFails /\ fails' = fails + 1
User == users < MaxUsers /\ users' = users + 1

\* The browser's subscription is gone: its endpoint is one of the old ones.
Aged(endpoints) == IF "cur" \in endpoints THEN (endpoints \ {"cur"}) \cup {"old"} ELSE endpoints
Unsubscribed ==
    /\ subKey' = 0
    /\ rows' = [a \in Accounts |-> Aged(rows[a])]

AgedRuns == [r \in Runs |-> IF runs[r].endpoint = "cur" THEN [runs[r] EXCEPT !.endpoint = "old"] ELSE runs[r]]

-----------------------------------------------------------------------------
(* subscribeForAccounts *)

\* enablePushIfGranted: a run starts if the permission is there.  It keeps the
\* array of accounts it was given, into which a sign-in pushes.
Enable(r, p, test) ==
    IF permission' = "granted" /\ p.accounts # {}
    THEN /\ runs[r] = NoRun
         /\ runs' = [runs EXCEPT ![r] = [st |-> "get", accounts |-> p.accounts, live |-> TRUE, endpoint |-> None, test |-> test]]
    ELSE UNCHANGED runs

\* Mutated form of MatchesKey: a subscription is used whatever its key.
MatchesAnyKey == TRUE

\* subscriptionMatchesKey: a key that cannot be read is taken for the right one.
MatchesKey == ~Readable \/ subKey = page.key

GetSubscription(r) ==
    /\ runs[r].st = "get"
    /\ runs' = [runs EXCEPT ![r].st = IF subKey = 0 THEN "subscribe" ELSE IF MatchesKey THEN "post" ELSE "unsubscribe",
                            ![r].endpoint = IF subKey = 0 THEN None ELSE "cur"]
    /\ UNCHANGED <<server, device, page, fails, users>>

\* The subscription with another key is dropped, or that fails, or it was
\* dropped by another run already; then the browser may drop the new one.
Unsubscribe(r) ==
    /\ runs[r].st = "unsubscribe"
    /\ \/ /\ subKey # 0
          /\ Unsubscribed
          /\ runs' = [AgedRuns EXCEPT ![r].st = "subscribe"]
          /\ UNCHANGED fails
       \/ /\ Fail \/ (runs[r].endpoint = "old" /\ UNCHANGED fails)
          /\ runs' = [runs EXCEPT ![r].st = "subscribe"]
          /\ UNCHANGED <<subKey, rows>>
    /\ UNCHANGED <<key, permission, page, tray, users>>

\* subscribe gives the subscription there is, if it has this key, throws if it
\* has another, and else makes one.
Subscribe(r) ==
    /\ runs[r].st = "subscribe"
    /\ \/ /\ subKey \in {0, page.key} /\ permission = "granted"
          /\ subKey' = page.key
          /\ runs' = [runs EXCEPT ![r].st = "post", ![r].endpoint = "cur"]
          /\ UNCHANGED fails
       \/ /\ runs' = [runs EXCEPT ![r] = NoRun]
          /\ IF subKey \in {0, page.key} /\ permission = "granted" THEN Fail ELSE UNCHANGED fails
          /\ UNCHANGED subKey
    /\ UNCHANGED <<server, permission, tray, page, users>>

\* Mutated form of Registered: the endpoint goes over to the mailbox that
\* registers it last.
RegisteredAlone(a, endpoint) ==
    [b \in Accounts |-> IF b = a THEN rows[b] \cup {endpoint} ELSE rows[b] \ {endpoint}]

\* PushController::subscribe: this mailbox's row of the endpoint.  (updateOrCreate
\* looks and then inserts: two at once can make two such rows, which are one here.)
Registered(a, endpoint) == [rows EXCEPT ![a] = @ \cup {endpoint}]

\* The endpoint is registered with each account's token; a failure is ignored.
Post(r, a) ==
    /\ runs[r].st = "post"
    /\ a \in runs[r].accounts
    /\ \/ a \in page.accounts /\ rows' = Registered(a, runs[r].endpoint) /\ UNCHANGED fails
       \/ a \in page.accounts /\ Fail /\ UNCHANGED rows
       \/ a \notin page.accounts /\ UNCHANGED <<rows, fails>> \* its token is dead
    /\ runs' = [runs EXCEPT ![r].accounts = @ \ {a}]
    /\ UNCHANGED <<key, device, page, users>>

Finish(r) ==
    /\ runs[r].st = "post" /\ runs[r].accounts = {}
    /\ runs' = [runs EXCEPT ![r] = IF runs[r].test = None THEN NoRun ELSE [@ EXCEPT !.st = "test"]]
    /\ UNCHANGED <<server, device, page, fails, users>>

Run(r) == GetSubscription(r) \/ Unsubscribe(r) \/ Subscribe(r) \/ Finish(r) \/ \E a \in Accounts : Post(r, a)

-----------------------------------------------------------------------------
(* The portal *)

\* The app comes to the front: the permission is looked up, and with accounts
\* signed in the subscription is refreshed.
onVisible(r) ==
    /\ page.open
    /\ page' = [page EXCEPT !.believes = permission]
    /\ UNCHANGED <<server, device, fails, users>>
    /\ Enable(r, page, None)

\* Mutated form of nextActive: the account in view stays.
nextActiveNot(left, a) == {page.active}

\* removeByEmail: another account comes into view when the one in view goes.
nextActive(left, a) == IF page.active # a THEN {page.active} ELSE IF left = {} THEN {None} ELSE left

\* persist: what is in view is stored, but that nothing is, is not.
Persisted(active) == [page EXCEPT !.active = active, !.stored = IF active = None THEN @ ELSE active]

\* setActive
setActive(a) == [page EXCEPT !.active = a, !.stored = a]

\* An account is picked in the account sheet, or all of them.
pickAccount(a) ==
    /\ User
    /\ page.open
    /\ a \in page.accounts \/ (a = UNIFIED /\ Cardinality(page.accounts) > 1)
    /\ a # page.active
    /\ page' = setActive(a)
    /\ UNCHANGED <<server, device, runs, fails>>

\* The number of accounts changed.  Signing in pushes into the array, signing
\* out makes a new one, deletes the token and leaves the rows.
SignIn(r, a) ==
    /\ User
    /\ page.open /\ a \notin page.accounts /\ runs[r] = NoRun
    /\ page' = [Persisted(a) EXCEPT !.accounts = @ \cup {a}]
    /\ LET pushed == [q \in Runs |-> IF runs[q].live /\ runs[q].st # "post" THEN [runs[q] EXCEPT !.accounts = @ \cup {a}] ELSE runs[q]] IN
       runs' = IF permission # "granted" THEN pushed
               ELSE [pushed EXCEPT ![r] = [NoRun EXCEPT !.st = "get", !.accounts = page'.accounts, !.live = TRUE]]
    /\ UNCHANGED <<server, device, fails>>

SignOut(r, a) ==
    /\ User
    /\ page.open /\ a \in page.accounts /\ runs[r] = NoRun
    /\ LET left == page.accounts \ {a} IN
       /\ \E active \in nextActive(left, a) : page' = [Persisted(active) EXCEPT !.accounts = left]
       /\ LET kept == [q \in Runs |-> [runs[q] EXCEPT !.live = FALSE]] IN
          runs' = IF permission # "granted" \/ left = {} THEN kept
                  ELSE [kept EXCEPT ![r] = [NoRun EXCEPT !.st = "get", !.accounts = left, !.live = TRUE]]
    /\ UNCHANGED <<server, device, fails>>

\* requestAndSubscribe: the browser asks, but only once.
requestAndSubscribe(r, answer, test) ==
    /\ permission' = IF permission = "default" THEN answer ELSE permission
    /\ page' = [page EXCEPT !.believes = permission']
    /\ Enable(r, page, test)

\* The banner and the account sheet offer it while the page believes that
\* nobody was asked.
CanPrompt == page.open /\ page.believes = "default" /\ page.accounts # {}

Prompt(r, answer) ==
    /\ User
    /\ CanPrompt
    /\ UNCHANGED <<server, subKey, tray, fails>>
    /\ requestAndSubscribe(r, answer, None)

\* testPush in Settings: the browser asks if it has not yet, then a run, and the
\* test at the server after it.
TestPush(r, a, answer) ==
    /\ User
    /\ page.open /\ a \in page.accounts
    /\ UNCHANGED <<server, subKey, tray, fails>>
    /\ IF permission = "default" THEN requestAndSubscribe(r, answer, a)
       ELSE UNCHANGED <<permission, page>> /\ Enable(r, page, a)

\* PushController::test, a push for mailbox a: this device shows it if it can be
\* reached, and endpoints the push service has retired are dropped.
Test(r) ==
    LET a == runs[r].test IN
    /\ runs[r].st = "test"
    /\ tray' = IF "cur" \in rows[a] /\ subKey = key THEN tray \cup {a} ELSE tray
    /\ rows' = [rows EXCEPT ![a] = @ \ {"old"}]
    /\ runs' = [runs EXCEPT ![r] = NoRun]
    /\ UNCHANGED <<key, subKey, permission, page, fails, users>>

\* The portal is closed, and started again, with a shell whose key may be old
\* and with what is stored in view: a signed-out account's address, if it was the
\* last.
Close ==
    /\ page.open
    /\ page' = [page EXCEPT !.open = FALSE, !.mail = None, !.cold = FALSE]
    /\ runs' = [r \in Runs |-> NoRun]
    /\ UNCHANGED <<server, device, fails, users>>

Opened(k, mail) == [page EXCEPT !.open = TRUE, !.key = k, !.active = page.stored, !.believes = permission, !.mail = mail]

Launch(r, k) ==
    /\ ~page.open
    /\ k \in page.key..key
    /\ page' = Opened(k, None)
    /\ UNCHANGED <<server, device, fails, users>>
    /\ Enable(r, page, None)

-----------------------------------------------------------------------------
(* Notifications *)

\* A mail for a: its endpoints are tried; this device shows it if it can be
\* reached, and what is retired is dropped.
Notify(a) ==
    /\ rows' = [rows EXCEPT ![a] = @ \ {"old"}]
    /\ tray' = IF "cur" \in rows[a] /\ subKey = key THEN tray \cup {a} ELSE tray
    /\ UNCHANGED <<key, subKey, permission, page, runs, fails, users>>

\* openFromNotification: the mail's account comes into view if it is signed in.
openFromNotification(a) == [(IF a \in page.accounts THEN setActive(a) ELSE page) EXCEPT !.mail = a]

\* notificationclick: an open portal shows the mail; else a window is opened at
\* the mail.
Click(r, a) ==
    /\ a \in tray
    /\ tray' = tray \ {a}
    /\ UNCHANGED <<server, subKey, permission, fails, users>>
    /\ IF page.open
       THEN page' = openFromNotification(a) /\ UNCHANGED runs
       ELSE /\ \E k \in page.key..key : page' = [Opened(k, a) EXCEPT !.cold = TRUE]
            /\ Enable(r, page, None)

\* Leaving the mail.  A window that was opened at it has nothing to go back to:
\* it goes to the mail's own inbox, if its account is signed in.
CloseMail ==
    /\ page.mail # None
    /\ page' = [(IF page.cold /\ page.mail \in page.accounts THEN setActive(page.mail) ELSE page)
                   EXCEPT !.mail = None, !.cold = FALSE]
    /\ UNCHANGED <<server, device, runs, fails, users>>

-----------------------------------------------------------------------------
(* The world *)

Rotate ==
    /\ key < MaxKeys
    /\ key' = key + 1
    /\ UNCHANGED <<rows, device, page, runs, fails, users>>

\* The push service retires the endpoint, and the browser forgets it.
Expire ==
    /\ subKey # 0
    /\ Fail
    /\ Unsubscribed
    /\ runs' = AgedRuns
    /\ UNCHANGED <<key, permission, page, tray, users>>

\* The permission is changed in the browser's settings.
SetPermission(p) ==
    /\ User
    /\ p # permission
    /\ permission' = p
    /\ IF p = "granted" THEN UNCHANGED <<subKey, rows, runs>> ELSE Unsubscribed /\ runs' = AgedRuns
    /\ UNCHANGED <<key, page, tray, fails>>

Visible == \E r \in Runs : onVisible(r)

Next ==
    \/ Visible \/ Close \/ CloseMail \/ Rotate \/ Expire
    \/ \E r \in Runs : Run(r) \/ Test(r)
    \/ \E a \in Accounts \cup {UNIFIED} : pickAccount(a)
    \/ \E r \in Runs, a \in Accounts : SignIn(r, a) \/ SignOut(r, a) \/ Click(r, a)
                                       \/ \E answer \in Permissions : TestPush(r, a, answer)
    \/ \E r \in Runs, p \in {"granted", "denied"} : Prompt(r, p)
    \/ \E r \in Runs, k \in 1..MaxKeys : Launch(r, k)
    \/ \E a \in Accounts : Notify(a)
    \/ \E p \in Permissions : SetPermission(p)

Spec == Init /\ [][Next]_vars

\* A page that is open runs its code to the end, and the server answers.
FairSpec == Spec /\ \A r \in Runs : WF_vars(Run(r)) /\ WF_vars(Test(r))

-----------------------------------------------------------------------------
(* Properties *)

TypeOK ==
    /\ key \in 1..MaxKeys /\ subKey \in 0..key
    /\ rows \in [Accounts -> SUBSET {"cur", "old", "other"}]
    /\ subKey = 0 => \A a \in Accounts : "cur" \notin rows[a]
    /\ permission \in Permissions
    /\ page.accounts \subseteq Accounts
    /\ {page.active, page.stored} \subseteq Accounts \cup {None, UNIFIED}
    /\ page.accounts # {} => page.active \in page.accounts \cup {UNIFIED} /\ page.stored = page.active
    /\ \A r \in Runs : runs[r].endpoint = "cur" => subKey # 0
    /\ tray \subseteq Accounts

\* Registering this device for one mailbox takes it from no other: a row that
\* goes is of an endpoint that is dead.
StarvesNobody ==
    [][\A a \in Accounts : rows[a] \ rows'[a] \subseteq (IF subKey' = 0 THEN {"cur", "old"} ELSE {"old"})]_vars

Reachable == \A a \in page.accounts : "cur" \in rows[a] /\ subKey = key

\* However keys rotate, endpoints expire, runs overlap and calls fail: once that
\* is over, an app that is brought to the front again and again, with the
\* permission given and the current key, ends up registered for every account
\* that is signed in.  This is false in a browser that does not tell the key of
\* its subscription: one made with an old key is then kept for good (push.js:95).
ReopenedAnywhere ==
    (<>[](page.open /\ permission = "granted" /\ page.key = key) /\ []<><<Visible>>_vars) => <>[]Reachable

\* The same in a browser that tells it.
ReopenedIsReachable == Readable => ReopenedAnywhere

=============================================================================
