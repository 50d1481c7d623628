----------------------------- MODULE Push_proofs -----------------------------
(***************************************************************************)
(* Proofs about push on a device, for any mailboxes, runs, keys, failures  *)
(* and user actions.                                                       *)
(***************************************************************************)
EXTENDS Push, TLAPS

RunType == [st : {"none", "get", "unsubscribe", "subscribe", "post", "test"}, accounts : SUBSET Accounts,
            live : BOOLEAN, endpoint : {None, "cur", "old"}, test : Accounts \cup {None}]
Views == Accounts \cup {None, UNIFIED}
PageType == [open : BOOLEAN, key : Nat, accounts : SUBSET Accounts, active : Views, stored : Views,
             believes : Permissions, mail : Accounts \cup {None}, cold : BOOLEAN]

\* With an account signed in, what is in view is one of them or all, and is stored.
InView(p) == p.accounts # {} => p.active \in p.accounts \cup {UNIFIED} /\ p.stored = p.active

(***************************************************************************)
(* A run that registers an endpoint has one; a run knows the browser's     *)
(* endpoint only while there is a subscription; a run that tests tests for *)
(* a mailbox.                                                              *)
(***************************************************************************)
RunOK(run) ==
    /\ run \in RunType
    /\ run.st = "post" => run.endpoint # None
    /\ run.st = "test" => run.test \in Accounts

PageOK == page \in PageType /\ page.key \in 1..key /\ InView(page)

RunsOK ==
    /\ runs \in [Runs -> RunType]
    /\ \A r \in Runs : RunOK(runs[r])
    /\ \A r \in Runs : runs[r].endpoint = "cur" => subKey # 0

RowsOK ==
    /\ key \in 1..MaxKeys /\ subKey \in 0..key
    /\ rows \in [Accounts -> SUBSET {"cur", "old", "other"}]
    /\ subKey = 0 => \A a \in Accounts : "cur" \notin rows[a]
    /\ permission \in Permissions
    /\ tray \subseteq Accounts

TypeInv == RowsOK /\ PageOK /\ RunsOK

-----------------------------------------------------------------------------
(* Type correctness *)

LEMMA InitTyped == Init => TypeInv
  <1> SUFFICES ASSUME Init PROVE TypeInv
    OBVIOUS
  <1>1. RowsOK
    BY PushAssumption DEF Init, RowsOK, Permissions
  <1>2. PageOK
    BY DEF Init, PageOK, PageType, Views, InView, Permissions
  <1>3. RunsOK
    BY DEF Init, RunsOK, RunOK, RunType, NoRun, None
  <1> QED
    BY <1>1, <1>2, <1>3 DEF TypeInv

LEMMA PageKept == PageOK /\ UNCHANGED <<page, key>> => PageOK'
  BY DEF PageOK

LEMMA RunsKept == RunsOK /\ UNCHANGED <<runs, subKey>> => RunsOK'
  BY DEF RunsOK

LEMMA RowsKept == RowsOK /\ UNCHANGED <<server, device>> => RowsOK'
  BY DEF RowsOK, server, device

\* A step that changes one run, and the subscription only for a live one.
LEMMA RunTyped ==
    ASSUME RunsOK, NEW r \in Runs, NEW run, RunOK(run), run.endpoint = "cur" => subKey' # 0,
           runs' = [runs EXCEPT ![r] = run], subKey # 0 => subKey' # 0
    PROVE  RunsOK'
  BY DEF RunsOK, RunOK

LEMMA NoRunOK == RunOK(NoRun) /\ NoRun.endpoint # "cur"
  BY DEF RunOK, RunType, NoRun, None

LEMMA EnableTyped ==
    ASSUME RunsOK, NEW r \in Runs, NEW p, p.accounts \subseteq Accounts, NEW test \in Accounts \cup {None},
           Enable(r, p, test), UNCHANGED subKey
    PROVE  RunsOK'
  <1> DEFINE run == [st |-> "get", accounts |-> p.accounts, live |-> TRUE, endpoint |-> None, test |-> test]
  <1>1. RunOK(run) /\ run.endpoint # "cur"
    BY DEF RunOK, RunType, None
  <1>2. UNCHANGED runs \/ runs' = [runs EXCEPT ![r] = run]
    BY DEF Enable
  <1> HIDE DEF run
  <1> QED
    BY <1>1, <1>2, RunTyped, RunsKept

\* The subscription goes, and no run takes its endpoint for the browser's.
LEMMA UnsubscribedTyped ==
    ASSUME TypeInv, Unsubscribed, runs' = AgedRuns, UNCHANGED <<key, tray>>, permission' \in Permissions
    PROVE  RowsOK' /\ RunsOK'
  <1>1. RowsOK'
    BY DEF TypeInv, RowsOK, Unsubscribed, Aged
  <1>2. \A r \in Runs : RunOK(runs'[r]) /\ runs'[r].endpoint # "cur"
    BY DEF TypeInv, RunsOK, RunOK, RunType, AgedRuns, None
  <1>3. runs' \in [Runs -> RunType]
    BY <1>2 DEF AgedRuns, RunOK
  <1> QED
    BY <1>1, <1>2, <1>3 DEF RunsOK

LEMMA GetSubscriptionTyped ==
    ASSUME TypeInv, NEW r \in Runs, GetSubscription(r)
    PROVE  TypeInv'
  <1> DEFINE run == [runs[r] EXCEPT
                        !.st = IF subKey = 0 THEN "subscribe" ELSE IF MatchesKey THEN "post" ELSE "unsubscribe",
                        !.endpoint = IF subKey = 0 THEN None ELSE "cur"]
  <1>1. RunOK(run) /\ (run.endpoint = "cur" => subKey # 0)
    BY DEF TypeInv, RunsOK, RunOK, RunType, None
  <1>2. runs' = [runs EXCEPT ![r] = run] /\ UNCHANGED <<server, device, page>>
    BY DEF GetSubscription
  <1> HIDE DEF run
  <1>3. RunsOK'
    BY <1>1, <1>2, RunTyped DEF TypeInv, device
  <1> QED
    BY <1>2, <1>3, RowsKept, PageKept DEF TypeInv, server

LEMMA UnsubscribeTyped ==
    ASSUME TypeInv, NEW r \in Runs, Unsubscribe(r)
    PROVE  TypeInv'
  <1>0. PageOK'
    BY PageKept DEF Unsubscribe, TypeInv
  <1>1. CASE Unsubscribed /\ runs' = [AgedRuns EXCEPT ![r].st = "subscribe"]
    <2>1. RowsOK'
      BY <1>1 DEF Unsubscribe, TypeInv, RowsOK, Unsubscribed, Aged
    <2>2. \A q \in Runs : RunOK(AgedRuns[q]) /\ AgedRuns[q].endpoint # "cur"
      BY DEF TypeInv, RunsOK, RunOK, RunType, AgedRuns, None
    <2>3. DOMAIN AgedRuns = Runs
      BY DEF AgedRuns
    <2>4. RunOK([AgedRuns[r] EXCEPT !.st = "subscribe"]) /\ [AgedRuns[r] EXCEPT !.st = "subscribe"].endpoint # "cur"
      BY <2>2 DEF RunOK, RunType
    <2>5. \A q \in Runs : RunOK(runs'[q]) /\ runs'[q].endpoint # "cur"
      BY <1>1, <2>2, <2>3, <2>4
    <2>6. runs' \in [Runs -> RunType]
      BY <1>1, <2>3, <2>5 DEF RunOK, AgedRuns
    <2> QED
      BY <1>0, <2>1, <2>5, <2>6 DEF TypeInv, RunsOK
  <1>2. CASE UNCHANGED <<subKey, rows>> /\ runs' = [runs EXCEPT ![r].st = "subscribe"]
    <2>1. RunOK([runs[r] EXCEPT !.st = "subscribe"])
      BY DEF TypeInv, RunsOK, RunOK, RunType
    <2>2. [runs[r] EXCEPT !.st = "subscribe"].endpoint = runs[r].endpoint
      BY DEF TypeInv, RunsOK, RunType
    <2>3. RunsOK'
      BY <1>2, <2>1, <2>2, RunTyped DEF TypeInv, RunsOK
    <2> QED
      BY <1>0, <1>2, <2>3, RowsKept DEF Unsubscribe, TypeInv, server, device
  <1> QED
    BY <1>1, <1>2 DEF Unsubscribe

LEMMA SubscribeTyped ==
    ASSUME TypeInv, NEW r \in Runs, Subscribe(r)
    PROVE  TypeInv'
  <1>0. PageOK'
    BY PageKept DEF Subscribe, TypeInv, server
  <1>1. CASE subKey' = page.key /\ runs' = [runs EXCEPT ![r].st = "post", ![r].endpoint = "cur"]
    <2> DEFINE run == [runs[r] EXCEPT !.st = "post", !.endpoint = "cur"]
    <2>1. RunOK(run)
      BY DEF TypeInv, RunsOK, RunOK, RunType, None
    <2>2. runs' = [runs EXCEPT ![r] = run]
      BY <1>1
    <2>3. subKey' \in 1..key
      BY <1>1 DEF TypeInv, PageOK
    <2>4. key \in Nat
      BY PushAssumption DEF TypeInv, RowsOK
    <2>5. subKey' # 0 /\ subKey' \in 0..key
      BY <2>3, <2>4
    <2> HIDE DEF run
    <2>6. RunsOK'
      BY <2>1, <2>2, <2>5, RunTyped DEF TypeInv
    <2>7. RowsOK'
      BY <2>5 DEF Subscribe, TypeInv, RowsOK, server
    <2> QED
      BY <1>0, <2>6, <2>7 DEF TypeInv
  <1>2. CASE UNCHANGED subKey /\ runs' = [runs EXCEPT ![r] = NoRun]
    <2>1. RunsOK'
      BY <1>2, NoRunOK, RunTyped DEF TypeInv
    <2> QED
      BY <1>0, <1>2, <2>1, RowsKept DEF Subscribe, TypeInv, device
  <1> QED
    BY <1>1, <1>2 DEF Subscribe

LEMMA PostTyped ==
    ASSUME TypeInv, NEW r \in Runs, NEW a \in Accounts, Post(r, a)
    PROVE  TypeInv'
  <1> DEFINE run == [runs[r] EXCEPT !.accounts = @ \ {a}]
  <1>1. RunOK(run) /\ run.endpoint = runs[r].endpoint
    BY DEF TypeInv, RunsOK, RunOK, RunType
  <1>2. runs' = [runs EXCEPT ![r] = run] /\ UNCHANGED <<key, device, page>>
    BY DEF Post
  <1> HIDE DEF run
  <1>3. RunsOK'
    BY <1>1, <1>2, RunTyped DEF TypeInv, RunsOK, device
  <1>4. runs[r].endpoint \in {"cur", "old"} /\ (runs[r].endpoint = "cur" => subKey # 0)
    BY DEF Post, TypeInv, RunsOK, RunOK, RunType
  <1>5. rows' = [rows EXCEPT ![a] = @ \cup {runs[r].endpoint}] \/ UNCHANGED rows
    BY DEF Post, Registered
  <1>6. rows' \in [Accounts -> SUBSET {"cur", "old", "other"}]
    BY <1>4, <1>5 DEF TypeInv, RowsOK
  <1>7. subKey = 0 => \A b \in Accounts : "cur" \notin rows'[b]
    BY <1>4, <1>5 DEF TypeInv, RowsOK
  <1>8. RowsOK'
    BY <1>2, <1>6, <1>7 DEF TypeInv, RowsOK, device
  <1> QED
    BY <1>2, <1>3, <1>8, PageKept DEF TypeInv

LEMMA FinishTyped ==
    ASSUME TypeInv, NEW r \in Runs, Finish(r)
    PROVE  TypeInv'
  <1> DEFINE run == IF runs[r].test = None THEN NoRun ELSE [runs[r] EXCEPT !.st = "test"]
  <1>1. RunOK(run) /\ run.endpoint \in {None, runs[r].endpoint}
    BY NoRunOK DEF TypeInv, RunsOK, RunOK, RunType, NoRun
  <1>2. runs' = [runs EXCEPT ![r] = run] /\ UNCHANGED <<server, device, page>>
    BY DEF Finish
  <1> HIDE DEF run
  <1>3. RunsOK'
    BY <1>1, <1>2, RunTyped DEF TypeInv, RunsOK, device, None
  <1> QED
    BY <1>2, <1>3, RowsKept, PageKept DEF TypeInv, server

\* What a push for a mailbox leaves of its rows.
LEMMA PushedTyped ==
    ASSUME TypeInv, NEW a \in Accounts, rows' = [rows EXCEPT ![a] = @ \ {"old"}],
           tray' = IF "cur" \in rows[a] /\ subKey = key THEN tray \cup {a} ELSE tray,
           UNCHANGED <<key, subKey, permission>>
    PROVE  RowsOK'
  BY DEF TypeInv, RowsOK

LEMMA TestTyped ==
    ASSUME TypeInv, NEW r \in Runs, Test(r)
    PROVE  TypeInv'
  <1>1. RunsOK'
    BY NoRunOK, RunTyped DEF Test, TypeInv
  <1>2. runs[r].test \in Accounts
    BY DEF Test, TypeInv, RunsOK, RunOK
  <1> QED
    BY <1>1, <1>2, PushedTyped, PageKept DEF Test, TypeInv

\* What is put in view with an account signed in is stored, too.
LEMMA PersistedOK ==
    ASSUME PageOK, NEW accounts \in SUBSET Accounts,
           NEW active \in Accounts \cup {None, UNIFIED}, accounts # {} => active \in accounts \cup {UNIFIED}
    PROVE  LET p == [Persisted(active) EXCEPT !.accounts = accounts] IN
           p \in PageType /\ p.key = page.key /\ p.accounts = accounts /\ InView(p)
  <1> DEFINE q == Persisted(active)
             p == [q EXCEPT !.accounts = accounts]
  <1>1. q \in PageType /\ q.key = page.key /\ q.active = active
    BY DEF Persisted, PageOK, PageType, Views
  <1>2. active # None => q.stored = active
    BY DEF Persisted, PageOK, PageType
  <1> HIDE DEF q
  <1>3. p \in PageType /\ p.key = page.key /\ p.active = active /\ p.stored = q.stored /\ p.accounts = accounts
    BY <1>1 DEF PageType
  <1>4. accounts # {} => active # None
    BY PushAssumption DEF None, UNIFIED
  <1>5. InView(p)
    BY <1>2, <1>3, <1>4 DEF InView
  <1> QED
    BY <1>3, <1>5 DEF q

\* setActive of a view the page offers.
LEMMA SetActiveOK ==
    ASSUME PageOK, NEW a \in page.accounts \cup {UNIFIED}
    PROVE  setActive(a) \in PageType /\ setActive(a).key = page.key /\ InView(setActive(a))
  BY DEF setActive, PageOK, PageType, Views, InView

LEMMA SignInTyped ==
    ASSUME TypeInv, NEW r \in Runs, NEW a \in Accounts, SignIn(r, a)
    PROVE  TypeInv'
  <1> DEFINE pushed == [q \in Runs |-> IF runs[q].live /\ runs[q].st # "post"
                                       THEN [runs[q] EXCEPT !.accounts = @ \cup {a}] ELSE runs[q]]
             run == [NoRun EXCEPT !.st = "get", !.accounts = page'.accounts, !.live = TRUE]
  <1>1. page' = [Persisted(a) EXCEPT !.accounts = page.accounts \cup {a}]
    BY DEF SignIn, Persisted, TypeInv, PageOK, PageType
  <1>2. PageOK'
    <2>1. page.accounts \cup {a} \in SUBSET Accounts
      BY DEF TypeInv, PageOK, PageType
    <2>2. page' \in PageType /\ page'.key = page.key /\ InView(page')
      BY <1>1, <2>1, PersistedOK DEF TypeInv
    <2> QED
      BY <2>2 DEF SignIn, server, TypeInv, PageOK, InView
  <1>3. \A q \in Runs : RunOK(pushed[q]) /\ pushed[q].endpoint = runs[q].endpoint
    BY DEF TypeInv, RunsOK, RunOK, RunType
  <1>4. RunOK(run) /\ run.endpoint # "cur"
    BY <1>2 DEF PageOK, PageType, RunOK, RunType, NoRun, None
  <1>5. runs' = pushed \/ runs' = [pushed EXCEPT ![r] = run]
    BY DEF SignIn
  <1>6. DOMAIN pushed = Runs /\ DOMAIN runs' = Runs
    BY <1>5
  <1>7. \A q \in Runs : runs'[q] \in {pushed[q], run}
    BY <1>5, <1>6
  <1>8. runs' = [q \in Runs |-> runs'[q]]
    BY <1>5
  <1> HIDE DEF pushed, run
  <1>9. RunsOK'
    <2>1. \A q \in Runs : RunOK(runs'[q])
      BY <1>4, <1>3, <1>7
    <2>2. runs' \in [Runs -> RunType]
      BY <2>1, <1>8 DEF RunOK
    <2>3. \A q \in Runs : runs'[q].endpoint = "cur" => runs[q].endpoint = "cur"
      BY <1>4, <1>3, <1>7
    <2> QED
      BY <2>1, <2>2, <2>3 DEF SignIn, device, TypeInv, RunsOK
  <1> QED
    BY <1>2, <1>9, RowsKept DEF SignIn, TypeInv

LEMMA SignOutTyped ==
    ASSUME TypeInv, NEW r \in Runs, NEW a \in Accounts, SignOut(r, a)
    PROVE  TypeInv'
  <1> DEFINE left == page.accounts \ {a}
             kept == [q \in Runs |-> [runs[q] EXCEPT !.live = FALSE]]
             run == [NoRun EXCEPT !.st = "get", !.accounts = left, !.live = TRUE]
  <1>1. PICK active \in nextActive(left, a) : page' = [Persisted(active) EXCEPT !.accounts = left]
    BY DEF SignOut
  <1>2. left \subseteq Accounts
    BY DEF TypeInv, PageOK, PageType
  <1>3. active \in Views /\ (left # {} => active \in left \cup {UNIFIED})
    <2>1. page.accounts # {}
      BY DEF SignOut
    <2> QED
      BY <1>2, <2>1 DEF nextActive, TypeInv, PageOK, PageType, Views, InView
  <1>4. RunOK(run) /\ run.endpoint # "cur"
    BY <1>2 DEF RunOK, RunType, NoRun, None
  <1>5. \A q \in Runs : RunOK(kept[q]) /\ kept[q].endpoint = runs[q].endpoint
    BY DEF TypeInv, RunsOK, RunOK, RunType
  <1>6. runs' = kept \/ runs' = [kept EXCEPT ![r] = run]
    BY DEF SignOut
  <1>7. runs' = [q \in Runs |-> runs'[q]]
    BY <1>6
  <1>8. \A q \in Runs : runs'[q] \in {kept[q], run}
    BY <1>6
  <1> HIDE DEF left, kept, run
  <1>9. PageOK'
    <2>1. page' \in PageType /\ page'.key = page.key /\ InView(page')
      BY <1>1, <1>2, <1>3, PersistedOK DEF TypeInv, Views
    <2> QED
      BY <2>1 DEF SignOut, server, TypeInv, PageOK, InView
  <1>10. RunsOK'
    <2>1. \A q \in Runs : RunOK(runs'[q])
      BY <1>4, <1>5, <1>8
    <2>2. runs' \in [Runs -> RunType]
      BY <2>1, <1>7 DEF RunOK
    <2>3. \A q \in Runs : runs'[q].endpoint = "cur" => runs[q].endpoint = "cur"
      BY <1>4, <1>5, <1>8
    <2> QED
      BY <2>1, <2>2, <2>3 DEF SignOut, device, TypeInv, RunsOK
  <1> QED
    BY <1>9, <1>10, RowsKept DEF SignOut, TypeInv

LEMMA VisibleTyped ==
    ASSUME TypeInv, NEW r \in Runs, onVisible(r)
    PROVE  TypeInv'
  <1>1. PageOK'
    BY DEF onVisible, server, TypeInv, RowsOK, PageOK, PageType, InView
  <1>2. RunsOK'
    BY EnableTyped DEF onVisible, device, TypeInv, PageOK, PageType
  <1> QED
    BY <1>1, <1>2, RowsKept DEF onVisible, TypeInv

LEMMA RequestTyped ==
    ASSUME TypeInv, NEW r \in Runs, NEW answer \in Permissions, NEW test \in Accounts \cup {None},
           requestAndSubscribe(r, answer, test), UNCHANGED <<server, subKey, tray>>
    PROVE  TypeInv'
  <1>1. permission' \in Permissions
    BY DEF requestAndSubscribe, TypeInv, RowsOK
  <1>2. PageOK'
    BY <1>1 DEF requestAndSubscribe, server, TypeInv, PageOK, PageType, InView
  <1>3. RunsOK'
    BY EnableTyped DEF requestAndSubscribe, TypeInv, PageOK, PageType
  <1>4. RowsOK'
    BY <1>1 DEF server, TypeInv, RowsOK
  <1> QED
    BY <1>2, <1>3, <1>4 DEF TypeInv

LEMMA PromptsTyped ==
    ASSUME TypeInv, NEW r \in Runs, NEW a \in Accounts, NEW answer \in Permissions,
           Prompt(r, answer) \/ TestPush(r, a, answer)
    PROVE  TypeInv'
  <1>1. CASE Prompt(r, answer)
    BY <1>1, RequestTyped DEF Prompt
  <1>2. CASE TestPush(r, a, answer) /\ permission = "default"
    BY <1>2, RequestTyped DEF TestPush
  <1>3. CASE TestPush(r, a, answer) /\ permission # "default"
    <2>1. RunsOK'
      BY <1>3, EnableTyped DEF TestPush, TypeInv, PageOK, PageType
    <2> QED
      BY <1>3, <2>1, RowsKept, PageKept DEF TestPush, TypeInv, server, device
  <1> QED
    BY <1>1, <1>2, <1>3

LEMMA CloseTyped ==
    ASSUME TypeInv, Close
    PROVE  TypeInv'
  <1>1. PageOK'
    BY DEF Close, server, TypeInv, PageOK, PageType, InView
  <1>2. RunsOK'
    BY NoRunOK DEF Close, RunsOK, RunOK
  <1> QED
    BY <1>1, <1>2, RowsKept DEF Close, TypeInv

LEMMA OpenedOK ==
    ASSUME TypeInv, NEW k \in page.key..key, NEW mail \in Accounts \cup {None}
    PROVE  Opened(k, mail) \in PageType /\ Opened(k, mail).key \in 1..key /\ InView(Opened(k, mail))
  <1>1. key \in Nat
    BY PushAssumption DEF TypeInv, RowsOK
  <1>2. k \in Nat /\ k \in 1..key
    BY <1>1 DEF TypeInv, PageOK, PageType
  <1>3. Opened(k, mail) \in PageType
    BY <1>2 DEF Opened, TypeInv, RowsOK, PageOK, PageType
  <1>4. Opened(k, mail).key = k /\ Opened(k, mail).active = page.stored /\ Opened(k, mail).stored = page.stored
        /\ Opened(k, mail).accounts = page.accounts
    BY DEF Opened, TypeInv, PageOK, PageType
  <1> QED
    BY <1>2, <1>3, <1>4 DEF TypeInv, PageOK, InView

LEMMA PickTyped ==
    ASSUME TypeInv, NEW a \in Accounts \cup {UNIFIED}, pickAccount(a)
    PROVE  TypeInv'
  <1>1. PageOK'
    <2>1. a \in page.accounts \cup {UNIFIED} /\ page' = setActive(a)
      BY DEF pickAccount
    <2> QED
      BY <2>1, SetActiveOK DEF pickAccount, server, TypeInv, PageOK, InView
  <1> QED
    BY <1>1, RowsKept, RunsKept DEF pickAccount, device, TypeInv

LEMMA LaunchTyped ==
    ASSUME TypeInv, NEW r \in Runs, NEW k \in 1..MaxKeys, Launch(r, k)
    PROVE  TypeInv'
  <1>2. PageOK'
    <2>1. k \in page.key..key /\ page' = Opened(k, None)
      BY DEF Launch
    <2>2. page' \in PageType /\ page'.key \in 1..key /\ InView(page')
      BY <2>1, OpenedOK
    <2> QED
      BY <2>2 DEF Launch, server, PageOK, InView
  <1>3. RunsOK'
    BY EnableTyped DEF Launch, device, TypeInv, PageOK, PageType
  <1> QED
    BY <1>2, <1>3, RowsKept DEF Launch, TypeInv

LEMMA NotifyTyped ==
    ASSUME TypeInv, NEW a \in Accounts, Notify(a)
    PROVE  TypeInv'
  BY PushedTyped, PageKept, RunsKept DEF Notify, TypeInv

LEMMA ClickTyped ==
    ASSUME TypeInv, NEW r \in Runs, NEW a \in Accounts, Click(r, a)
    PROVE  TypeInv'
  <1>1. RowsOK'
    BY DEF Click, server, TypeInv, RowsOK
  <1>2. PageOK'
    <2>4. CASE page.open
      <3> DEFINE p == IF a \in page.accounts THEN setActive(a) ELSE page
      <3>1. p \in PageType /\ p.key = page.key /\ InView(p)
        BY SetActiveOK DEF TypeInv, PageOK
      <3>2. page' = [p EXCEPT !.mail = a]
        BY <2>4 DEF Click, openFromNotification
      <3> HIDE DEF p
      <3>3. page' \in PageType /\ page'.key = page.key /\ InView(page')
        BY <3>1, <3>2 DEF PageType, InView
      <3> QED
        BY <3>3 DEF Click, server, TypeInv, PageOK, InView
    <2>5. CASE ~ page.open
      <3>1. PICK k \in page.key..key : page' = [Opened(k, a) EXCEPT !.cold = TRUE]
        BY <2>5 DEF Click
      <3> DEFINE p == Opened(k, a)
      <3>2. p \in PageType /\ p.key \in 1..key /\ InView(p)
        BY OpenedOK
      <3> HIDE DEF p
      <3>3. page' = [p EXCEPT !.cold = TRUE]
        BY <3>1 DEF p
      <3>4. page' \in PageType /\ page'.key \in 1..key /\ InView(page')
        BY <3>2, <3>3 DEF PageType, InView
      <3> QED
        BY <3>4 DEF Click, server, PageOK, InView
    <2> QED
      BY <2>4, <2>5
  <1>3. RunsOK'
    BY EnableTyped, RunsKept DEF Click, TypeInv, PageOK, PageType
  <1> QED
    BY <1>1, <1>2, <1>3 DEF TypeInv

LEMMA CloseMailTyped ==
    ASSUME TypeInv, CloseMail
    PROVE  TypeInv'
  <1>1. PageOK'
    <2> DEFINE p == IF page.cold /\ page.mail \in page.accounts THEN setActive(page.mail) ELSE page
    <2>1. p \in PageType /\ p.key = page.key /\ InView(p)
      BY SetActiveOK DEF TypeInv, PageOK
    <2>2. page' = [p EXCEPT !.mail = None, !.cold = FALSE]
      BY DEF CloseMail
    <2> HIDE DEF p
    <2>3. page' \in PageType /\ page'.key = page.key /\ InView(page')
      BY <2>1, <2>2 DEF PageType, InView
    <2> QED
      BY <2>3 DEF CloseMail, server, TypeInv, PageOK, InView
  <1> QED
    BY <1>1, RowsKept, RunsKept DEF CloseMail, device, TypeInv

LEMMA WorldTyped ==
    ASSUME TypeInv, Rotate \/ Expire \/ \E p \in Permissions : SetPermission(p)
    PROVE  TypeInv'
  <1>1. CASE Rotate
    <2>1. key' \in 1..MaxKeys /\ key' = key + 1 /\ key \in Nat
      BY <1>1, PushAssumption DEF Rotate, TypeInv, RowsOK
    <2>2. RowsOK' /\ PageOK'
      BY <1>1, <2>1 DEF Rotate, device, TypeInv, RowsOK, PageOK
    <2> QED
      BY <1>1, <2>2, RunsKept DEF Rotate, device, TypeInv
  <1>2. CASE Expire
    BY <1>2, UnsubscribedTyped, PageKept DEF Expire, TypeInv, RowsOK
  <1>3. ASSUME NEW p \in Permissions, SetPermission(p)
        PROVE  TypeInv'
    <2>1. PageOK'
      BY <1>3, PageKept DEF SetPermission, TypeInv
    <2>2. CASE p = "granted"
      BY <1>3, <2>1, <2>2, RunsKept DEF SetPermission, TypeInv, RowsOK
    <2>3. CASE p # "granted"
      BY <1>3, <2>1, <2>3, UnsubscribedTyped DEF SetPermission, TypeInv
    <2> QED
      BY <2>2, <2>3
  <1> QED
    BY <1>1, <1>2, <1>3

LEMMA StepTyped == TypeInv /\ [Next]_vars => TypeInv'
  <1> SUFFICES ASSUME TypeInv, [Next]_vars PROVE TypeInv'
    OBVIOUS
  <1>1. ASSUME NEW r \in Runs, Run(r) \/ Test(r) \/ onVisible(r)
        PROVE  TypeInv'
    BY <1>1, GetSubscriptionTyped, UnsubscribeTyped, SubscribeTyped, FinishTyped, PostTyped, TestTyped,
       VisibleTyped DEF Run
  <1>2. ASSUME NEW r \in Runs, NEW a \in Accounts, SignIn(r, a) \/ SignOut(r, a) \/ Click(r, a)
        PROVE  TypeInv'
    BY <1>2, SignInTyped, SignOutTyped, ClickTyped
  <1>3. ASSUME NEW r \in Runs, NEW a \in Accounts, NEW answer \in Permissions, TestPush(r, a, answer)
        PROVE  TypeInv'
    BY <1>3, PromptsTyped
  <1>4. ASSUME NEW r \in Runs, NEW answer \in {"granted", "denied"}, Prompt(r, answer)
        PROVE  TypeInv'
    <2>1. answer \in Permissions
      BY DEF Permissions
    <2> QED
      BY <1>4, <2>1, RequestTyped DEF Prompt
  <1>5. ASSUME NEW r \in Runs, NEW k \in 1..MaxKeys, Launch(r, k)
        PROVE  TypeInv'
    BY <1>5, LaunchTyped
  <1>6. ASSUME NEW a \in Accounts, Notify(a)
        PROVE  TypeInv'
    BY <1>6, NotifyTyped
  <1>10. ASSUME NEW a \in Accounts \cup {UNIFIED}, pickAccount(a)
        PROVE  TypeInv'
    BY <1>10, PickTyped
  <1>7. CASE Close \/ CloseMail
    BY <1>7, CloseTyped, CloseMailTyped
  <1>8. CASE Rotate \/ Expire \/ \E p \in Permissions : SetPermission(p)
    BY <1>8, WorldTyped
  <1>9. CASE UNCHANGED vars
    BY <1>9, RowsKept, PageKept, RunsKept DEF vars, server, device, TypeInv
  <1> QED
    BY <1>1, <1>2, <1>3, <1>4, <1>5, <1>6, <1>7, <1>8, <1>9, <1>10 DEF Next, Visible

LEMMA TypeInvAlways == Spec => []TypeInv
  BY InitTyped, StepTyped, PTL DEF Spec

\* For any mailboxes, runs and numbers of keys and failures every variable keeps
\* its type; among that, no mailbox is registered under the browser's endpoint,
\* and no run takes an endpoint for the browser's, when there is none; and while
\* an account is signed in, what is in view is one of them or all of them, and
\* stored.  (Once the last is signed out, a launch puts its address in view.)
THEOREM TypeCorrect == Spec => []TypeOK
  <1>1. TypeInv => TypeOK
    BY DEF TypeInv, RowsOK, PageOK, PageType, Views, InView, RunsOK, TypeOK
  <1> QED
    BY <1>1, TypeInvAlways, PTL

-----------------------------------------------------------------------------
(* Registering takes nothing from others *)

OnlyDead ==
    \A a \in Accounts : rows[a] \ rows'[a] \subseteq (IF subKey' = 0 THEN {"cur", "old"} ELSE {"old"})

LEMMA DropsOnlyDead ==
    ASSUME TypeInv, \/ Unsubscribed
                    \/ \E a \in Accounts : rows' = [rows EXCEPT ![a] = @ \ {"old"}]
                    \/ \E a \in Accounts, e \in {"cur", "old"} : rows' = [rows EXCEPT ![a] = @ \cup {e}]
                    \/ UNCHANGED rows
    PROVE  OnlyDead
  BY DEF TypeInv, RowsOK, OnlyDead, Unsubscribed, Aged

LEMMA StepDropsOnlyDead == TypeInv /\ [Next]_vars => OnlyDead
  <1> SUFFICES ASSUME TypeInv, [Next]_vars PROVE OnlyDead
    OBVIOUS
  <1>1. ASSUME NEW r \in Runs, Run(r)
        PROVE  OnlyDead
    <2>1. CASE GetSubscription(r) \/ Subscribe(r) \/ Finish(r)
      BY <2>1, DropsOnlyDead DEF GetSubscription, Subscribe, Finish, server
    <2>2. CASE Unsubscribe(r)
      BY <2>2, DropsOnlyDead DEF Unsubscribe
    <2>3. ASSUME NEW a \in Accounts, Post(r, a)
          PROVE  OnlyDead
      <3>1. runs[r].endpoint \in {"cur", "old"}
        BY <2>3 DEF Post, TypeInv, RunsOK, RunOK, RunType
      <3> QED
        BY <2>3, <3>1, DropsOnlyDead DEF Post, Registered
    <2> QED
      BY <1>1, <2>1, <2>2, <2>3 DEF Run
  <1>2. ASSUME NEW r \in Runs, Test(r)
        PROVE  OnlyDead
    <2>1. runs[r].test \in Accounts
      BY <1>2 DEF Test, TypeInv, RunsOK, RunOK
    <2> QED
      BY <1>2, <2>1, DropsOnlyDead DEF Test
  <1>3. ASSUME NEW a \in Accounts, Notify(a)
        PROVE  OnlyDead
    BY <1>3, DropsOnlyDead DEF Notify
  <1>4. ASSUME NEW p \in Permissions, SetPermission(p)
        PROVE  OnlyDead
    BY <1>4, DropsOnlyDead DEF SetPermission
  <1>5. CASE Expire \/ Rotate \/ UNCHANGED vars
    BY <1>5, DropsOnlyDead DEF Expire, Rotate, vars
  <1>6. CASE Visible \/ Close \/ CloseMail \/ \E a \in Accounts \cup {UNIFIED} : pickAccount(a)
    BY <1>6, DropsOnlyDead DEF Visible, onVisible, Close, CloseMail, pickAccount, server
  <1>7. ASSUME NEW r \in Runs, NEW a \in Accounts,
               SignIn(r, a) \/ SignOut(r, a) \/ Click(r, a) \/ \E answer \in Permissions : TestPush(r, a, answer)
        PROVE  OnlyDead
    BY <1>7, DropsOnlyDead DEF SignIn, SignOut, Click, TestPush, server
  <1>8. ASSUME NEW r \in Runs,
               (\E p \in {"granted", "denied"} : Prompt(r, p)) \/ (\E k \in 1..MaxKeys : Launch(r, k))
        PROVE  OnlyDead
    BY <1>8, DropsOnlyDead DEF Prompt, Launch, server
  <1> QED
    BY <1>1, <1>2, <1>3, <1>4, <1>5, <1>6, <1>7, <1>8 DEF Next

\* Registering this device for a mailbox never takes it from another: in every
\* order of runs, sign-ins, failures and rotations a row goes only when its
\* endpoint is dead.
THEOREM NobodyStarves == Spec => StarvesNobody
  <1>1. TypeInv /\ [Next]_vars => [OnlyDead]_vars
    BY StepDropsOnlyDead
  <1> QED
    BY <1>1, TypeInvAlways, PTL DEF Spec, StarvesNobody, OnlyDead

=============================================================================
