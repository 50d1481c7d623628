-------------------------- MODULE MailList_proofs --------------------------
(***************************************************************************)
(* Proofs about the cached lists of a folder, for any mails, accounts,     *)
(* loads and polls under way, and actions of the user.                     *)
(***************************************************************************)
EXTENDS MailList, FiniteSetTheorems, WellFoundedInduction, TLAPS

(***************************************************************************)
(* What a fetch has found belongs to the account it was sent for, which is *)
(* not the account in view by the time it is heard.  The contents of the   *)
(* mails do not matter here, so a fetch is known by its fields alone.      *)
(***************************************************************************)
FetchOK(r) ==
    /\ DOMAIN r = {"st", "poll", "key", "cached", "snap", "clean"}
    /\ r.st # "none" => r.key \in Accounts
    /\ r.st = "ok" => \A m \in DOMAIN r.snap : m \in Mails /\ AccountOf[m] = r.key

FetchesOK == DOMAIN fetches = Fetches /\ \A f \in Fetches : FetchOK(fetches[f])

CacheOK ==
    /\ cache \in [Accounts -> [some : BOOLEAN, mails : SUBSET Mails]]
    /\ \A k \in Accounts : \A m \in cache[k].mails : AccountOf[m] = k

KeyInv == active \in Accounts /\ FetchesOK /\ CacheOK

-----------------------------------------------------------------------------

LEMMA NoFetchOK == FetchOK(NoFetch)
  BY DEF FetchOK, NoFetch

LEMMA InitKeyed == Init => KeyInv
  <1> SUFFICES ASSUME Init PROVE KeyInv
    OBVIOUS
  <1>1. active \in Accounts
    BY MailListAssumption DEF Init
  <1>2. FetchesOK
    <2>1. PICK f \in Fetches :
              fetches = [[g \in Fetches |-> NoFetch] EXCEPT ![f] = [NoFetch EXCEPT !.st = "sent", !.key = active]]
      BY DEF Init
    <2> DEFINE r == [NoFetch EXCEPT !.st = "sent", !.key = active]
    <2>2. FetchOK(r)
      BY <1>1 DEF FetchOK, NoFetch
    <2> HIDE DEF r
    <2>3. fetches = [[g \in Fetches |-> NoFetch] EXCEPT ![f] = r]
      BY <2>1 DEF r
    <2> QED
      BY <2>2, <2>3, NoFetchOK DEF FetchesOK
  <1>3. CacheOK
    BY DEF Init, CacheOK, NoCache
  <1> QED
    BY <1>1, <1>2, <1>3 DEF KeyInv

LEMMA FetchesKept == FetchesOK /\ UNCHANGED fetches => FetchesOK'
  BY DEF FetchesOK

LEMMA CacheKept == CacheOK /\ UNCHANGED cache => CacheOK'
  BY DEF CacheOK

\* A step that changes one fetch.
LEMMA FetchStep ==
    ASSUME FetchesOK, NEW f \in Fetches, NEW r, FetchOK(r), fetches' = [fetches EXCEPT ![f] = r]
    PROVE  FetchesOK'
  BY DEF FetchesOK

\* A step that only casts doubt on what the fetches have seen.
LEMMA DoubtStep ==
    ASSUME FetchesOK, NEW ms, fetches' = [f \in Fetches |-> [fetches[f] EXCEPT !.clean = @ \ ms]]
    PROVE  FetchesOK'
  <1>1. \A f \in Fetches : FetchOK([fetches[f] EXCEPT !.clean = @ \ ms])
    BY DEF FetchesOK, FetchOK
  <1> QED
    BY <1>1 DEF FetchesOK

LEMMA LoadStep ==
    ASSUME KeyInv, NEW f \in Fetches, NEW k \in Accounts, NEW old, NEW ex, Load(f, k, fetches, old, ex)
    PROVE  FetchesOK'
  <1> DEFINE r == [NoFetch EXCEPT !.st = "sent", !.key = k, !.cached = cache[k].some]
  <1>1. FetchOK(r)
    BY DEF FetchOK, NoFetch
  <1>2. fetches' = [fetches EXCEPT ![f] = r]
    BY DEF Load
  <1> HIDE DEF r
  <1> QED
    BY <1>1, <1>2, FetchStep DEF KeyInv

LEMMA ServeFetchStep == ASSUME KeyInv, NEW f \in Fetches, ServeFetch(f) PROVE KeyInv'
  <1> DEFINE found == {m \in Mails : AccountOf[m] = fetches[f].key /\ InFolder(srv[m])}
             snap == [m \in found |-> srv[m]]
             r == [fetches[f] EXCEPT !.st = "ok", !.snap = snap, !.clean = Mails \ Busy]
  <1>1. DOMAIN snap = found /\ \A m \in found : m \in Mails /\ AccountOf[m] = fetches[f].key
    OBVIOUS
  <1>2. FetchOK(fetches[f]) /\ fetches[f].st = "sent"
    BY DEF KeyInv, FetchesOK, ServeFetch
  <1>3. fetches' = [fetches EXCEPT ![f].st = "ok", ![f].snap = snap, ![f].clean = Mails \ Busy]
    BY DEF ServeFetch
  <1> HIDE DEF found, snap
  <1>4. FetchOK(r)
    BY <1>1, <1>2 DEF FetchOK
  <1>5. fetches' = [fetches EXCEPT ![f] = r]
    BY <1>2, <1>3 DEF KeyInv, FetchesOK, FetchOK
  <1> HIDE DEF r
  <1>6. FetchesOK'
    BY <1>4, <1>5, FetchStep DEF KeyInv
  <1> QED
    BY <1>6, CacheKept DEF KeyInv, ServeFetch

LEMMA HearLoadStep == ASSUME KeyInv, NEW f \in Fetches, HearLoad(f) PROVE KeyInv'
  <1> DEFINE r == fetches[f]
  <1>1. FetchesOK'
    BY NoFetchOK, FetchStep DEF KeyInv, HearLoad
  <1>2. CASE r.st = "ok" /\ cache' = [cache EXCEPT ![r.key] = [some |-> TRUE, mails |-> DOMAIN r.snap]]
    <2>1. r.key \in Accounts /\ \A m \in DOMAIN r.snap : m \in Mails /\ AccountOf[m] = r.key
      BY <1>2 DEF KeyInv, FetchesOK, FetchOK
    <2> HIDE DEF r
    <2>2. CacheOK'
      BY <1>2, <2>1 DEF KeyInv, CacheOK
    <2> QED
      BY <1>1, <2>2 DEF KeyInv, HearLoad
  <1>3. CASE UNCHANGED cache
    BY <1>1, <1>3, CacheKept DEF KeyInv, HearLoad
  <1> QED
    BY <1>2, <1>3 DEF HearLoad, cacheAs

LEMMA HearPollStep == ASSUME KeyInv, NEW f \in Fetches, HearPoll(f) PROVE KeyInv'
  BY NoFetchOK, FetchStep, CacheKept DEF KeyInv, HearPoll

LEMMA PollStep == ASSUME KeyInv, NEW f \in Fetches, Poll(f) PROVE KeyInv'
  <1> DEFINE r == [NoFetch EXCEPT !.st = "sent", !.poll = TRUE, !.key = active]
  <1>1. FetchOK(r)
    BY DEF FetchOK, NoFetch, KeyInv
  <1>2. fetches' = [fetches EXCEPT ![f] = r]
    BY DEF Poll
  <1> HIDE DEF r
  <1> QED
    BY <1>1, <1>2, FetchStep, CacheKept DEF KeyInv, Poll

\* A step that loads the list of the account in view, or that of another.
LEMMA LoadsKeyed ==
    ASSUME KeyInv, NEW f \in Fetches, NEW k \in Accounts, NEW old, NEW ex, Load(f, k, fetches, old, ex),
           active' \in Accounts, UNCHANGED cache
    PROVE  KeyInv'
  BY LoadStep, CacheKept DEF KeyInv

LEMMA SendKeyed ==
    ASSUME KeyInv, NEW c, NEW op, NEW ms, NEW todo, NEW boxes, NEW cs, Send(c, op, ms, todo, boxes, cs)
    PROVE  KeyInv'
  BY DoubtStep, CacheKept DEF KeyInv, Send

LEMMA Untouched == KeyInv /\ UNCHANGED <<active, cache, fetches>> => KeyInv'
  BY FetchesKept, CacheKept DEF KeyInv

LEMMA ActingStep == ASSUME KeyInv, NEW c \in Calls, Acting(c) PROVE KeyInv'
  <1>1. ASSUME NEW m, Trash(c, m)
        PROVE  KeyInv'
    BY <1>1, SendKeyed DEF Trash
  <1>2. ASSUME NEW m, Open(c, m)
        PROVE  KeyInv'
    BY <1>2, SendKeyed, Untouched DEF Open
  <1>3. ASSUME NEW m, NEW field, Toggle(c, m, field)
        PROVE  KeyInv'
    BY <1>3, SendKeyed DEF Toggle
  <1>4. ASSUME NEW ms, BulkTrash(c, ms)
        PROVE  KeyInv'
    BY <1>4, SendKeyed DEF BulkTrash
  <1>5. ASSUME NEW ms, NEW field, NEW v, BulkFlag(c, ms, field, v)
        PROVE  KeyInv'
    BY <1>5, SendKeyed DEF BulkFlag
  <1>6. ASSUME NEW v, ConversationStar(c, v)
        PROVE  KeyInv'
    BY <1>6, SendKeyed DEF ConversationStar
  <1>7. CASE Undo(c)
    BY <1>7, SendKeyed DEF Undo
  <1>8. CASE ConversationUnread(c) \/ ConversationTrash(c)
    BY <1>8, SendKeyed DEF ConversationUnread, ConversationTrash
  <1> QED
    BY <1>1, <1>2, <1>3, <1>4, <1>5, <1>6, <1>7, <1>8 DEF Acting

LEMMA AnsweredStep == ASSUME KeyInv, NEW c \in Calls, Answered(c) PROVE KeyInv'
  <1>0. active \in Accounts
    BY DEF KeyInv
  <1>1. ASSUME NEW p, NEW done, NEW ok, ServeCall(c, p, done, ok)
        PROVE  KeyInv'
    BY <1>1, Untouched DEF ServeCall
  <1>2. CASE HearToggle(c) \/ HearMoved(c) \/ HearRest(c) \/ HearThread(c) \/ HearNoThread(c)
    BY <1>2, Untouched DEF HearToggle, HearMoved, HearRest, HearThread, HearNoThread
  <1>6. CASE RetryThread(c)
    <2> DEFINE ms == {x \in Mails : SameThread(askedRow(calls[c]), x)}
    <2>1. fetches' = [f \in Fetches |-> [fetches[f] EXCEPT !.clean = @ \ ms]] /\ UNCHANGED <<active, cache>>
      BY <1>6 DEF RetryThread
    <2> HIDE DEF ms
    <2> QED
      BY <2>1, DoubtStep, CacheKept DEF KeyInv
  <1>3. ASSUME NEW f \in Fetches, HearNotMoved(c, f)
        PROVE  KeyInv'
    BY <1>0, <1>3, LoadsKeyed DEF HearNotMoved
  <1>4. ASSUME NEW f \in Fetches, HearUndone(c, f)
        PROVE  KeyInv'
    BY <1>0, <1>4, LoadsKeyed DEF HearUndone
  <1>5. ASSUME NEW f \in Fetches, HearReader(c, f)
        PROVE  KeyInv'
    <2>1. CASE calls[c].alive
      BY <1>0, <1>5, <2>1, LoadsKeyed DEF HearReader
    <2>2. CASE ~calls[c].alive
      BY <1>5, <2>2, Untouched DEF HearReader
    <2> QED
      BY <2>1, <2>2
  <1> QED
    BY <1>1, <1>2, <1>3, <1>4, <1>5, <1>6 DEF Answered

LEMMA NextKeyed == KeyInv /\ [Next]_vars => KeyInv'
  <1> SUFFICES ASSUME KeyInv, [Next]_vars PROVE KeyInv'
    OBVIOUS
  <1>1. ASSUME NEW f \in Fetches, Refresh(f)
        PROVE  KeyInv'
    BY <1>1, LoadsKeyed DEF Refresh, KeyInv
  <1>2. ASSUME NEW f \in Fetches, NEW a \in Accounts, pickAccount(f, a)
        PROVE  KeyInv'
    BY <1>2, LoadsKeyed DEF pickAccount
  <1>3. CASE Filter \/ Expire \/ ClosePane \/ UNCHANGED vars
    BY <1>3, Untouched DEF Filter, Expire, ClosePane, vars
  <1>4. ASSUME NEW m, NEW content, Elsewhere(m, content)
        PROVE  KeyInv'
    BY <1>4, DoubtStep, CacheKept DEF KeyInv, Elsewhere
  <1> QED
    BY <1>1, <1>2, <1>3, <1>4, PollStep, ServeFetchStep, HearLoadStep, HearPollStep, ActingStep, AnsweredStep
       DEF Next

\* Whatever account is in view when a load is answered, and however many are
\* under way, the list kept for an account holds that account's mails only.
THEOREM CacheIsItsOwn == Spec => []CacheIsOfItsKey
  <1>1. KeyInv => CacheIsOfItsKey
    BY DEF KeyInv, CacheOK, CacheIsOfItsKey
  <1> QED
    BY <1>1, InitKeyed, NextKeyed, PTL DEF Spec

-----------------------------------------------------------------------------
(* Types *)

Boxed == {"inbox", "trash"}
Arrived == {m \in Mails : srv[m] \in Contents}
Met == {m \in Mails : known[m].box \in Boxed}

BoxesOK(b) == DOMAIN b \subseteq Mails /\ \A m \in DOMAIN b : b[m] \in Boxed

SnapOK(r, A) ==
    /\ r.clean \subseteq Mails
    /\ DOMAIN r.snap \subseteq A /\ \A m \in DOMAIN r.snap : r.snap[m] \in Contents

CallOK(r, A) ==
    /\ DOMAIN r = {"op", "ms", "todo", "failed", "got", "alive", "row", "boxes"}
    /\ r.ms \subseteq Mails /\ r.got \subseteq A
    /\ r.op \in Flags => r.ms # {}
    /\ r.op = "again" => r.ms = {}
    /\ r.op \in Asking /\ ~r.alive => r.row \in Mails
    /\ BoxesOK(r.boxes)
    /\ \A p \in r.todo : /\ p[1] \in r.ms
                         /\ p[2] \in Flags => p[1] \in A
                         /\ p[2] = "box" => p[3] \in Boxed
                         /\ p[2] = "thread" => \A x \in Mails : SameThread(p[1], x) => x \in r.ms

CallsFine(cs, A) == DOMAIN cs = Calls /\ \A c \in Calls : CallOK(cs[c], A)

PaneFine(p, cs, A) ==
    /\ p \in [selected : Mails \cup {0}, mails : SUBSET A]
    /\ p.mails # {} => p.selected \in Mails
    /\ \A c \in Calls : cs[c].op \in Asking /\ cs[c].alive => p.selected \in Mails

ContentsOK ==
    /\ srv \in [Mails -> Contents \cup {NotYet}]
    /\ known \in [Mails -> [box : Boxed \cup {"none"}, flags : SUBSET Flags]]
ListsOK ==
    /\ of \in Accounts
    /\ list \subseteq Arrived /\ list \subseteq Met
    /\ \A k \in Accounts : /\ cache[k].mails \subseteq Arrived /\ cache[k].mails \subseteq Met
                           /\ cache[k].mails # {} => cache[k].some
SnapsOK == \A f \in Fetches : SnapOK(fetches[f], Arrived)

(***************************************************************************)
(* A flag can only be changed of a mail that has arrived, as the rows, the *)
(* answers and the conversation in the pane are: a mail arrives once, and  *)
(* what the view met as a row it knows the box of.  A conversation that    *)
(* can still be told to the pane has a pane with a mail selected; another, *)
(* the row of the pane it was asked from, should it ask again.             *)
(***************************************************************************)
TypeInv ==
    /\ ContentsOK /\ ListsOK /\ SnapsOK
    /\ CallsFine(calls, Arrived) /\ PaneFine(pane, calls, Arrived)
    /\ BoxesOK(offer.boxes)

Grow == Arrived \subseteq Arrived' /\ Met \subseteq Met'

-----------------------------------------------------------------------------

LEMMA SnapGrown == ASSUME NEW r, NEW A, NEW B, A \subseteq B, SnapOK(r, A) PROVE SnapOK(r, B)
  BY DEF SnapOK

LEMMA CallsGrown == ASSUME NEW cs, NEW A, NEW B, A \subseteq B, CallsFine(cs, A) PROVE CallsFine(cs, B)
  BY DEF CallsFine, CallOK

LEMMA PaneGrown == ASSUME NEW p, NEW cs, NEW A, NEW B, A \subseteq B, PaneFine(p, cs, A) PROVE PaneFine(p, cs, B)
  BY DEF PaneFine

LEMMA ListsGrown == ListsOK /\ Grow /\ UNCHANGED <<of, list, cache>> => ListsOK'
  BY DEF ListsOK, Grow

LEMMA SnapsGrown == SnapsOK /\ Grow /\ UNCHANGED fetches => SnapsOK'
  BY SnapGrown DEF SnapsOK, Grow

LEMMA SameContents == ContentsOK /\ UNCHANGED <<srv, known>> => ContentsOK' /\ Grow /\ Arrived' = Arrived /\ Met' = Met
  BY DEF ContentsOK, Grow, Arrived, Met

LEMMA NoCallTyped == ASSUME NEW A PROVE CallOK(NoCall, A)
  BY DEF CallOK, NoCall, BoxesOK, Flags, Asking

LEMMA NoPaneTyped == ASSUME NEW A, NEW cs, \A c \in Calls : cs[c].op \in Asking => ~cs[c].alive
                     PROVE  PaneFine(NoPane, cs, A)
  BY DEF PaneFine, NoPane

LEMMA UnmountedTyped ==
    ASSUME NEW cs, NEW A, CallsFine(cs, A), PaneFine(pane, cs, A)
    PROVE  /\ CallsFine(Unmounted(cs), A)
           /\ \A c \in Calls : Unmounted(cs)[c].op \in Asking => ~Unmounted(cs)[c].alive
  <1>1. ASSUME NEW c \in Calls
        PROVE  /\ CallOK(Unmounted(cs)[c], A)
               /\ Unmounted(cs)[c].op \in Asking => ~Unmounted(cs)[c].alive
    <2> DEFINE gone == [cs[c] EXCEPT !.alive = FALSE, !.row = pane.selected]
    <2>1. CallOK(cs[c], A)
      BY DEF CallsFine
    <2>2. CASE cs[c].op \in FromReader /\ cs[c].alive
      <3>1. Unmounted(cs)[c] = gone
        BY <2>2 DEF Unmounted
      <3>2. cs[c].op \in Asking => pane.selected \in Mails
        BY <2>2 DEF PaneFine
      <3>3. CallOK(gone, A) /\ gone.alive = FALSE
        BY <2>1, <3>2 DEF CallOK
      <3> QED
        BY <3>1, <3>3
    <2>3. CASE ~(cs[c].op \in FromReader /\ cs[c].alive)
      <3>1. Unmounted(cs)[c] = cs[c]
        BY <2>3 DEF Unmounted
      <3> QED
        BY <2>1, <2>3, <3>1 DEF FromReader
    <2> QED
      BY <2>2, <2>3
  <1> QED
    BY <1>1 DEF CallsFine, Unmounted

\* One call more, and one less.
LEMMA OneCall ==
    ASSUME NEW cs, NEW A, CallsFine(cs, A), NEW c \in Calls, NEW r, CallOK(r, A)
    PROVE  CallsFine([cs EXCEPT ![c] = r], A)
  BY DEF CallsFine

LEMMA PaneForgets ==
    ASSUME NEW p, NEW cs, NEW A, PaneFine(p, cs, A), CallsFine(cs, A), NEW c \in Calls, NEW r, r.op \in Asking /\ r.alive => p.selected \in Mails
    PROVE  PaneFine(p, [cs EXCEPT ![c] = r], A)
  BY DEF PaneFine, CallsFine

LEMMA InitTyped == Init => TypeInv
  <1> SUFFICES ASSUME Init PROVE TypeInv
    OBVIOUS
  <1>1. folder \in Folders /\ active \in Accounts /\ srv \in [Mails -> Contents \cup {NotYet}] /\ known = srv
    BY MailListAssumption DEF Init
  <1>2. ContentsOK
    BY <1>1 DEF ContentsOK, Contents, NotYet, Content, Boxed
  <1>3. ListsOK
    BY <1>1 DEF Init, ListsOK, NoCache
  <1>4. SnapsOK
    <2>1. PICK f \in Fetches :
              fetches = [[g \in Fetches |-> NoFetch] EXCEPT ![f] = [NoFetch EXCEPT !.st = "sent", !.key = active]]
      BY DEF Init
    <2> DEFINE r == [NoFetch EXCEPT !.st = "sent", !.key = active]
    <2>2. SnapOK(r, Arrived) /\ SnapOK(NoFetch, Arrived)
      BY DEF SnapOK, NoFetch
    <2> HIDE DEF r
    <2>3. fetches = [[g \in Fetches |-> NoFetch] EXCEPT ![f] = r]
      BY <2>1 DEF r
    <2> QED
      BY <2>2, <2>3 DEF SnapsOK
  <1>5. CallsFine(calls, Arrived) /\ PaneFine(pane, calls, Arrived) /\ BoxesOK(offer.boxes)
    <2>1. CallsFine(calls, Arrived)
      BY NoCallTyped DEF CallsFine, Init
    <2>2. PaneFine(NoPane, calls, Arrived)
      BY NoPaneTyped DEF Init, NoCall
    <2> QED
      BY <2>1, <2>2 DEF Init, NoOffer, BoxesOK
  <1> QED
    BY <1>2, <1>3, <1>4, <1>5 DEF TypeInv

-----------------------------------------------------------------------------
(* Types: loads and polls *)

LEMMA SnapStep ==
    ASSUME SnapsOK, NEW f \in Fetches, NEW r, SnapOK(r, Arrived), DOMAIN fetches = Fetches,
           fetches' = [fetches EXCEPT ![f] = r], Grow
    PROVE  SnapsOK'
  <1>1. \A g \in Fetches : SnapOK(fetches'[g], Arrived)
    BY DEF SnapsOK
  <1>2. \A g \in Fetches : SnapOK(fetches'[g], Arrived')
    BY <1>1, SnapGrown DEF Grow
  <1> QED
    BY <1>2 DEF SnapsOK

LEMMA NoSnap == ASSUME NEW A PROVE SnapOK(NoFetch, A)
  BY DEF SnapOK, NoFetch

LEMMA LoadTyped ==
    ASSUME KeyInv, SnapsOK, ListsOK, Grow, NEW f \in Fetches, NEW k \in Accounts, NEW ex,
           Load(f, k, fetches, list, ex), UNCHANGED cache
    PROVE  SnapsOK' /\ ListsOK'
  <1> DEFINE r == [NoFetch EXCEPT !.st = "sent", !.key = k, !.cached = cache[k].some]
  <1>1. SnapOK(r, Arrived)
    BY DEF SnapOK, NoFetch
  <1>2. fetches' = [fetches EXCEPT ![f] = r]
    BY DEF Load
  <1> HIDE DEF r
  <1>3. SnapsOK'
    BY <1>1, <1>2, SnapStep DEF KeyInv, FetchesOK
  <1>4. of' \in Accounts /\ (list' = list \/ list' = cache[k].mails)
    BY DEF Load, ListsOK
  <1>5. ListsOK'
    BY <1>4 DEF ListsOK, Grow
  <1> QED
    BY <1>3, <1>5

\* A step of the lists alone.
LEMMA Steady ==
    ASSUME TypeInv, SnapsOK', ListsOK', UNCHANGED <<srv, known, calls, offer, pane>>
    PROVE  TypeInv'
  BY SameContents DEF TypeInv

LEMMA RefreshTyped == ASSUME KeyInv, TypeInv, NEW f \in Fetches, Refresh(f) PROVE TypeInv'
  BY LoadTyped, SameContents, Steady DEF Refresh, TypeInv, KeyInv

LEMMA PollTyped == ASSUME KeyInv, TypeInv, NEW f \in Fetches, Poll(f) PROVE TypeInv'
  <1> DEFINE r == [NoFetch EXCEPT !.st = "sent", !.poll = TRUE, !.key = active]
  <1>1. SnapOK(r, Arrived)
    BY DEF SnapOK, NoFetch
  <1>2. fetches' = [fetches EXCEPT ![f] = r]
    BY DEF Poll
  <1> HIDE DEF r
  <1>3. Grow /\ ListsOK'
    BY SameContents, ListsGrown DEF Poll, TypeInv
  <1>4. SnapsOK'
    BY <1>1, <1>2, <1>3, SnapStep DEF KeyInv, FetchesOK, TypeInv
  <1> QED
    BY <1>3, <1>4, Steady DEF Poll

LEMMA ServeFetchTyped == ASSUME KeyInv, TypeInv, NEW f \in Fetches, ServeFetch(f) PROVE TypeInv'
  <1> DEFINE found == {m \in Mails : AccountOf[m] = fetches[f].key /\ InFolder(srv[m])}
             snap == [m \in found |-> srv[m]]
             r == [fetches[f] EXCEPT !.st = "ok", !.snap = snap, !.clean = Mails \ Busy]
  <1>1. DOMAIN snap = found /\ found \subseteq Mails /\ \A m \in found : snap[m] = srv[m] /\ srv[m].box # "none"
    BY DEF InFolder
  <1>2. \A m \in Mails : srv[m].box # "none" => srv[m] \in Contents
    BY DEF TypeInv, ContentsOK, NotYet, Content
  <1>3. fetches' = [fetches EXCEPT ![f].st = "ok", ![f].snap = snap, ![f].clean = Mails \ Busy]
    BY DEF ServeFetch
  <1> HIDE DEF snap
  <1>4. SnapOK(r, Arrived)
    BY <1>1, <1>2 DEF KeyInv, FetchesOK, FetchOK, SnapOK, Arrived
  <1>5. fetches' = [fetches EXCEPT ![f] = r]
    BY <1>3 DEF KeyInv, FetchesOK, FetchOK
  <1> HIDE DEF r
  <1>6. Grow /\ ListsOK'
    BY SameContents, ListsGrown DEF ServeFetch, TypeInv
  <1>7. SnapsOK'
    BY <1>4, <1>5, <1>6, SnapStep DEF KeyInv, FetchesOK, TypeInv
  <1> QED
    BY <1>6, <1>7, Steady DEF ServeFetch

\* New row objects say what a snapshot says.
LEMMA RenewTyped ==
    ASSUME TypeInv, NEW ms, NEW r, SnapOK(r, Arrived), ms \subseteq DOMAIN r.snap, Renew(ms, r.snap), UNCHANGED srv
    PROVE  /\ ContentsOK' /\ Grow /\ Arrived' = Arrived /\ ms \subseteq Met'
           /\ CallsFine(calls', Arrived) /\ \A c \in Calls : calls'[c].op = calls[c].op /\ (calls'[c].alive => calls[c].alive)
  <1>1. \A m \in ms : m \in Mails /\ r.snap[m] \in Contents
    BY DEF SnapOK, Arrived
  <1>2. known' = [m \in Mails |-> IF m \in ms THEN r.snap[m] ELSE known[m]]
    BY DEF Renew
  <1>3. \A s \in Contents : s \in [box : Boxed \cup {"none"}, flags : SUBSET Flags] /\ s.box \in Boxed
    BY DEF Contents, Boxed
  <1>4. known' \in [Mails -> [box : Boxed \cup {"none"}, flags : SUBSET Flags]]
    BY <1>1, <1>2, <1>3 DEF TypeInv, ContentsOK
  <1>5. Met \subseteq Met' /\ ms \subseteq Met'
    BY <1>1, <1>2, <1>3 DEF Met
  <1>6. CallsFine(calls', Arrived) /\ \A c \in Calls : calls'[c].op = calls[c].op /\ (calls'[c].alive => calls[c].alive)
    BY DEF Renew, TypeInv, CallsFine, CallOK, Flags, Asking
  <1> QED
    BY <1>4, <1>5, <1>6 DEF TypeInv, ContentsOK, Grow, Arrived

\* A step that brings news about rows.
LEMMA NewsTyped ==
    ASSUME TypeInv, NEW ms, NEW r, SnapOK(r, Arrived), ms \subseteq DOMAIN r.snap, Renew(ms, r.snap), SnapsOK', ListsOK',
           UNCHANGED <<srv, offer, pane>>
    PROVE  TypeInv'
  <1>1. /\ ContentsOK' /\ Arrived' = Arrived
        /\ CallsFine(calls', Arrived) /\ \A c \in Calls : calls'[c].op = calls[c].op /\ (calls'[c].alive => calls[c].alive)
    BY RenewTyped
  <1>2. PaneFine(pane', calls', Arrived)
    BY <1>1 DEF TypeInv, PaneFine
  <1> QED
    BY <1>1, <1>2 DEF TypeInv

LEMMA HearLoadTyped == ASSUME KeyInv, TypeInv, NEW f \in Fetches, HearLoad(f) PROVE TypeInv'
  <1> DEFINE r == fetches[f]
             ms == DOMAIN r.snap
  <1>1. SnapOK(r, Arrived) /\ fetches' = [fetches EXCEPT ![f] = NoFetch] /\ DOMAIN fetches = Fetches
    BY DEF TypeInv, SnapsOK, HearLoad, KeyInv, FetchesOK
  <1>2. CASE /\ r.st = "ok" /\ list' = ms /\ Renew(ms, r.snap)
             /\ cache' = [cache EXCEPT ![r.key] = [some |-> TRUE, mails |-> ms]]
             /\ of' = r.key
    <2>1. r.key \in Accounts
      BY <1>2 DEF KeyInv, FetchesOK, FetchOK
    <2> HIDE DEF r
    <2>2. UNCHANGED srv /\ UNCHANGED <<offer, pane>>
      BY DEF HearLoad
    <2>3. Grow /\ Arrived' = Arrived /\ ms \subseteq Met'
      BY <1>1, <1>2, <2>2, RenewTyped
    <2>4. ms \subseteq Arrived
      BY <1>1 DEF SnapOK
    <2>5. ListsOK'
      BY <1>2, <2>1, <2>3, <2>4 DEF TypeInv, ListsOK, Grow, KeyInv, CacheOK
    <2>6. SnapsOK'
      BY <1>1, <2>3, NoSnap, SnapStep DEF TypeInv
    <2> QED
      BY <1>1, <1>2, <2>2, <2>5, <2>6, NewsTyped
  <1>3. CASE (list' = list \/ list' = {}) /\ UNCHANGED <<known, calls, cache, of>>
    <2>1. Grow /\ UNCHANGED <<srv, offer, pane>>
      BY <1>3, SameContents DEF HearLoad, TypeInv
    <2>2. SnapsOK'
      BY <1>1, <2>1, NoSnap, SnapStep DEF TypeInv
    <2>3. ListsOK'
      BY <1>3, <2>1 DEF TypeInv, ListsOK, Grow
    <2> QED
      BY <1>3, <2>1, <2>2, <2>3, Steady
  <1> QED
    BY <1>2, <1>3 DEF HearLoad, cacheAs

LEMMA HearPollTyped == ASSUME KeyInv, TypeInv, NEW f \in Fetches, HearPoll(f) PROVE TypeInv'
  <1> DEFINE r == fetches[f]
             ms == additions(r.snap)
  <1>1. /\ SnapOK(r, Arrived) /\ fetches' = [fetches EXCEPT ![f] = NoFetch] /\ DOMAIN fetches = Fetches
        /\ UNCHANGED <<srv, offer, pane, cache, of>>
    BY DEF TypeInv, SnapsOK, HearPoll, KeyInv, FetchesOK
  <1>2. CASE list' = list \cup ms /\ Renew(ms, r.snap)
    <2>1. ms \subseteq DOMAIN r.snap
      BY DEF additions
    <2> HIDE DEF ms, r
    <2>2. Grow /\ Arrived' = Arrived /\ ms \subseteq Met'
      BY <1>1, <1>2, <2>1, RenewTyped
    <2>3. ms \subseteq Arrived
      BY <1>1, <2>1 DEF SnapOK
    <2>4. ListsOK'
      BY <1>1, <1>2, <2>2, <2>3 DEF TypeInv, ListsOK, Grow
    <2>5. SnapsOK'
      BY <1>1, <2>2, NoSnap, SnapStep DEF TypeInv
    <2> QED
      BY <1>1, <1>2, <2>1, <2>4, <2>5, NewsTyped
  <1>3. CASE UNCHANGED <<list, known, calls>>
    <2>1. Grow
      BY <1>1, <1>3, SameContents DEF TypeInv
    <2>2. SnapsOK'
      BY <1>1, <2>1, NoSnap, SnapStep DEF TypeInv
    <2>3. ListsOK'
      BY <1>1, <1>3, <2>1, ListsGrown DEF TypeInv
    <2> QED
      BY <1>1, <1>3, <2>2, <2>3, Steady
  <1> QED
    BY <1>2, <1>3 DEF HearPoll

-----------------------------------------------------------------------------
(* Types: what the user does *)

LEMMA pickAccountTyped == ASSUME KeyInv, TypeInv, NEW f \in Fetches, NEW a \in Accounts, pickAccount(f, a) PROVE TypeInv'
  <1>1. ContentsOK' /\ Grow /\ Arrived' = Arrived
    BY SameContents DEF pickAccount, TypeInv
  <1>2. SnapsOK' /\ ListsOK'
    BY <1>1, LoadTyped DEF pickAccount, TypeInv
  <1>3. /\ CallsFine(Unmounted(calls), Arrived)
        /\ \A c \in Calls : Unmounted(calls)[c].op \in Asking => ~Unmounted(calls)[c].alive
    BY UnmountedTyped DEF TypeInv
  <1>4. PaneFine(NoPane, Unmounted(calls), Arrived)
    BY <1>3, NoPaneTyped
  <1>5. CallsFine(calls', Arrived) /\ PaneFine(pane', calls', Arrived) /\ UNCHANGED offer
    BY <1>3, <1>4 DEF pickAccount
  <1> QED
    BY <1>1, <1>2, <1>5 DEF TypeInv

LEMMA ClosePaneTyped == ASSUME TypeInv, ClosePane PROVE TypeInv'
  <1>1. ContentsOK' /\ Grow /\ Arrived' = Arrived
    BY SameContents DEF ClosePane, TypeInv
  <1>2. SnapsOK' /\ ListsOK'
    BY <1>1, ListsGrown, SnapsGrown DEF ClosePane, TypeInv
  <1>3. /\ CallsFine(Unmounted(calls), Arrived)
        /\ \A c \in Calls : Unmounted(calls)[c].op \in Asking => ~Unmounted(calls)[c].alive
    BY UnmountedTyped DEF TypeInv
  <1>4. PaneFine(NoPane, Unmounted(calls), Arrived)
    BY <1>3, NoPaneTyped
  <1>5. CallsFine(calls', Arrived) /\ PaneFine(pane', calls', Arrived) /\ UNCHANGED offer
    BY <1>3, <1>4 DEF ClosePane
  <1> QED
    BY <1>1, <1>2, <1>5 DEF TypeInv

LEMMA IdleTyped ==
    ASSUME TypeInv, UNCHANGED <<srv, known, list, of, cache, fetches, calls, pane>>, offer' = offer \/ offer' = NoOffer
    PROVE  TypeInv'
  <1>1. ContentsOK' /\ Grow /\ Arrived' = Arrived
    BY SameContents DEF TypeInv
  <1>2. SnapsOK' /\ ListsOK'
    BY <1>1, ListsGrown, SnapsGrown DEF TypeInv
  <1>3. BoxesOK(NoOffer.boxes)
    BY DEF NoOffer, BoxesOK
  <1> QED
    BY <1>1, <1>2, <1>3 DEF TypeInv

\* The row objects the user touches say something else.
LEMMA FlagTyped ==
    ASSUME ContentsOK, NEW ms, NEW field \in Flags, NEW v, known' = Flag(ms, field, v), UNCHANGED srv
    PROVE  ContentsOK' /\ Grow /\ Arrived' = Arrived /\ Met' = Met
  <1> DEFINE more(m) == Content(known[m].box, known[m].flags \cup {field})
             less(m) == Content(known[m].box, known[m].flags \ {field})
             Says == [box : Boxed \cup {"none"}, flags : SUBSET Flags]
  <1>1. \A m \in Mails : /\ more(m) \in Says /\ more(m).box = known[m].box
                         /\ less(m) \in Says /\ less(m).box = known[m].box
    BY DEF ContentsOK, Content
  <1>2. \A m \in Mails : known'[m] \in {known[m], more(m), less(m)}
    BY DEF Flag, Content
  <1>3. known' = [m \in Mails |-> known'[m]] /\ known = [m \in Mails |-> known[m]] /\ \A m \in Mails : known[m] \in Says
    BY DEF Flag, ContentsOK
  <1> HIDE DEF more, less
  <1>4. known' \in [Mails -> Says]
    BY <1>1, <1>2, <1>3
  <1>5. \A m \in Mails : known'[m].box = known[m].box
    BY <1>1, <1>2
  <1>6. Met' = Met
    BY <1>5 DEF Met
  <1> QED
    BY <1>4, <1>6 DEF ContentsOK, Grow, Arrived

\* A call is sent.
LEMMA SendTyped ==
    ASSUME KeyInv, TypeInv, ContentsOK', Grow, Arrived' = Arrived, NEW c \in Calls, NEW op, NEW ms, NEW todo, NEW boxes,
           NEW cs, CallsFine(cs, Arrived), Send(c, op, ms, todo, boxes, cs),
           ms \subseteq Mails, op \in Flags => ms # {}, BoxesOK(boxes),
           \A p \in todo : /\ p[1] \in ms
                           /\ p[2] \in Flags => p[1] \in Arrived
                           /\ p[2] = "box" => p[3] \in Boxed
                           /\ p[2] = "thread" => \A x \in Mails : SameThread(p[1], x) => x \in ms,
           PaneFine(pane', cs, Arrived), op # "again", op \in Asking => pane'.selected \in Mails, list' \subseteq list,
           UNCHANGED srv,
           BoxesOK(offer'.boxes)
    PROVE  TypeInv'
  <1> DEFINE r == [NoCall EXCEPT !.op = op, !.ms = ms, !.todo = todo, !.alive = TRUE, !.boxes = boxes]
  <1>1. CallOK(r, Arrived) /\ r.op = op
    BY DEF CallOK, NoCall
  <1>2. calls' = [cs EXCEPT ![c] = r] /\ UNCHANGED <<cache, of>>
    BY DEF Send
  <1> HIDE DEF r
  <1>3. CallsFine(calls', Arrived)
    BY <1>1, <1>2, OneCall
  <1>4. PaneFine(pane', calls', Arrived)
    BY <1>1, <1>2, PaneForgets
  <1>5. fetches' = [f \in Fetches |-> [fetches[f] EXCEPT !.clean = @ \ ms]]
    BY DEF Send
  <1>6. SnapsOK'
    <2>1. \A f \in Fetches : SnapOK([fetches[f] EXCEPT !.clean = @ \ ms], Arrived)
      BY DEF KeyInv, FetchesOK, FetchOK, TypeInv, SnapsOK, SnapOK
    <2> QED
      BY <1>5, <2>1 DEF SnapsOK
  <1>7. ListsOK'
    BY <1>2 DEF TypeInv, ListsOK, Grow
  <1> QED
    BY <1>3, <1>4, <1>6, <1>7 DEF TypeInv

LEMMA RowsListed == /\ rows \subseteq list /\ \A m : threadInfo(m) \subseteq list
                    /\ \A m \in rows : m \in threadInfo(m)
  BY DEF rows, threadInfo, visible, SameThread

LEMMA ListedMet == ASSUME TypeInv, NEW ms, ms \subseteq list
                   PROVE  ms \subseteq Mails /\ ms \subseteq Arrived /\ BoxesOK(Boxes(ms))
  BY DEF TypeInv, ListsOK, Arrived, Met, BoxesOK, Boxes

LEMMA NoBoxes == BoxesOK(<<>>)
  BY DEF BoxesOK

LEMMA ToggleTyped ==
    ASSUME KeyInv, TypeInv, NEW c \in Calls, NEW m \in Mails, NEW field \in Flags, Toggle(c, m, field)
    PROVE  TypeInv'
  <1> DEFINE v == field \notin known[m].flags
             todo == Put({m}, field, v)
  <1>1. m \in Arrived
    BY RowsListed, ListedMet DEF Toggle
  <1>2. ContentsOK' /\ Grow /\ Arrived' = Arrived
    BY FlagTyped DEF Toggle, Send, TypeInv
  <1>3. \A p \in todo : /\ p[1] \in {m}
                        /\ p[2] \in Flags => p[1] \in Arrived
                        /\ p[2] = "box" => p[3] \in Boxed
                        /\ p[2] = "thread" => \A x \in Mails : SameThread(p[1], x) => x \in {m}
    BY <1>1 DEF Put, Flags
  <1>4. Send(c, field, {m}, todo, <<>>, calls) /\ UNCHANGED <<list, offer, pane>>
    BY DEF Toggle
  <1> HIDE DEF todo, v
  <1>5. field # "again" /\ field \notin Asking /\ UNCHANGED srv /\ {m} \subseteq Mails /\ {m} # {}
    BY <1>4 DEF Flags, Asking, Send
  <1>6. CallsFine(calls, Arrived) /\ PaneFine(pane', calls, Arrived) /\ BoxesOK(offer'.boxes)
    BY <1>4 DEF TypeInv
  <1> QED
    BY ONLY KeyInv, TypeInv, <1>2, <1>3, <1>4, <1>5, <1>6, NoBoxes, SendTyped, list' \subseteq list, c \in Calls

LEMMA BulkFlagTyped ==
    ASSUME KeyInv, TypeInv, NEW c \in Calls, NEW ms, ms \subseteq list, NEW field \in Flags, NEW v, BulkFlag(c, ms, field, v)
    PROVE  TypeInv'
  <1> DEFINE todo == Put(ms, field, v)
  <1>1. ms \subseteq Mails /\ ms \subseteq Arrived
    BY ListedMet
  <1>2. ContentsOK' /\ Grow /\ Arrived' = Arrived
    BY FlagTyped DEF BulkFlag, Send, TypeInv
  <1>3. \A p \in todo : /\ p[1] \in ms
                        /\ p[2] \in Flags => p[1] \in Arrived
                        /\ p[2] = "box" => p[3] \in Boxed
                        /\ p[2] = "thread" => \A x \in Mails : SameThread(p[1], x) => x \in ms
    BY <1>1 DEF Put, Flags
  <1>4. Send(c, "bulk", ms, todo, <<>>, calls) /\ UNCHANGED <<list, offer, pane>>
    BY DEF BulkFlag
  <1> HIDE DEF todo
  <1>5. UNCHANGED srv /\ "bulk" \notin Flags /\ "bulk" # "again" /\ "bulk" \notin Asking
    BY <1>4 DEF Send, Flags, Asking
  <1>6. CallsFine(calls, Arrived) /\ PaneFine(pane', calls, Arrived) /\ BoxesOK(offer'.boxes)
    BY <1>4 DEF TypeInv
  <1>7. list' \subseteq list
    BY <1>4
  <1> QED
    BY ONLY KeyInv, TypeInv, <1>1, <1>2, <1>3, <1>4, <1>5, <1>6, <1>7, NoBoxes, SendTyped, c \in Calls

\* Calls that move mails from one box to another.
LEMMA MoveTyped ==
    ASSUME KeyInv, TypeInv, NEW c \in Calls, NEW op \in {"trash", "bulkTrash", "closeTrash"}, NEW ms, ms \subseteq Mails,
           NEW box \in Boxed, NEW boxes, BoxesOK(boxes), NEW cs, CallsFine(cs, Arrived), PaneFine(pane', cs, Arrived),
           Send(c, op, ms, Put(ms, "box", box), boxes, cs), list' \subseteq list, UNCHANGED <<known, offer>>
    PROVE  TypeInv'
  <1> DEFINE todo == Put(ms, "box", box)
  <1>1. \A p \in todo : /\ p[1] \in ms
                        /\ p[2] \in Flags => p[1] \in Arrived
                        /\ p[2] = "box" => p[3] \in Boxed
                        /\ p[2] = "thread" => \A x \in Mails : SameThread(p[1], x) => x \in ms
    BY DEF Put, Flags
  <1> HIDE DEF todo
  <1>2. UNCHANGED srv /\ op # "again" /\ op \notin Asking /\ op \notin Flags /\ BoxesOK(offer'.boxes)
    BY DEF Send, TypeInv, Flags, Asking
  <1>3. ContentsOK' /\ Grow /\ Arrived' = Arrived
    BY <1>2, SameContents DEF TypeInv
  <1>4. Send(c, op, ms, todo, boxes, cs)
    BY DEF todo
  <1> QED
    BY ONLY KeyInv, TypeInv, <1>1, <1>2, <1>3, <1>4, SendTyped, c \in Calls, list' \subseteq list, BoxesOK(boxes),
       ms \subseteq Mails, CallsFine(cs, Arrived), PaneFine(pane', cs, Arrived)

LEMMA TargetBoxed == Target \in Boxed
  BY DEF Target, Boxed

LEMMA TrashTyped == ASSUME KeyInv, TypeInv, NEW c \in Calls, NEW m \in Mails, Trash(c, m) PROVE TypeInv'
  <1> DEFINE ms == threadInfo(m)
             closes == pane.selected \in ms
             cs == IF closes THEN Unmounted(calls) ELSE calls
  <1>1. ms \subseteq Mails /\ BoxesOK(Boxes(ms))
    BY RowsListed, ListedMet
  <1>2. CallsFine(cs, Arrived) /\ PaneFine(pane', cs, Arrived)
    BY UnmountedTyped, NoPaneTyped DEF Trash, TypeInv
  <1>3. Send(c, "trash", ms, Put(ms, "box", Target), Boxes(ms), cs) /\ list' \subseteq list /\ UNCHANGED <<known, offer>>
    BY DEF Trash
  <1> HIDE DEF ms, cs
  <1> QED
    BY <1>1, <1>2, <1>3, MoveTyped, TargetBoxed

LEMMA BulkTrashTyped ==
    ASSUME KeyInv, TypeInv, NEW c \in Calls, NEW ms, ms \subseteq list, BulkTrash(c, ms)
    PROVE  TypeInv'
  <1>1. ms \subseteq Mails /\ BoxesOK(Boxes(ms))
    BY ListedMet
  <1>2. CallsFine(calls, Arrived) /\ PaneFine(pane', calls, Arrived)
    BY DEF BulkTrash, TypeInv
  <1>3. /\ Send(c, "bulkTrash", ms, Put(ms, "box", Target), Boxes(ms), calls) /\ list' \subseteq list
        /\ UNCHANGED <<known, offer>>
    BY DEF BulkTrash
  <1> QED
    BY <1>1, <1>2, <1>3, MoveTyped, TargetBoxed

LEMMA ConversationTrashTyped == ASSUME KeyInv, TypeInv, NEW c \in Calls, ConversationTrash(c) PROVE TypeInv'
  <1> DEFINE boxes == [m \in pane.mails |-> "inbox"]
  <1>1. pane.mails \subseteq Mails
    BY DEF TypeInv, PaneFine, Arrived
  <1>2. BoxesOK(boxes)
    BY <1>1 DEF BoxesOK, Boxed
  <1>3. CallsFine(calls, Arrived) /\ PaneFine(pane', calls, Arrived)
    BY DEF ConversationTrash, TypeInv
  <1>4. /\ Send(c, "closeTrash", pane.mails, Put(pane.mails, "box", "trash"), boxes, calls) /\ list' \subseteq list
        /\ UNCHANGED <<known, offer>>
    BY DEF ConversationTrash
  <1> HIDE DEF boxes
  <1> QED
    BY <1>1, <1>2, <1>3, <1>4, MoveTyped DEF Boxed

LEMMA OpenTyped == ASSUME KeyInv, TypeInv, NEW c \in Calls, NEW m \in Mails, Open(c, m) PROVE TypeInv'
  <1> DEFINE ms == {x \in Mails : SameThread(m, x)}
             todo == {<<m, "thread", TRUE>>}
  <1>1. UNCHANGED <<srv, list, offer>> /\ UNCHANGED <<cache, of>>
    BY DEF Open, Send
  <1>2. ContentsOK' /\ Grow /\ Arrived' = Arrived
    BY <1>1, FlagTyped DEF Open, TypeInv, Flags
  <1>3. CASE pane.selected = m
    <2>1. UNCHANGED <<pane, calls, fetches>>
      BY <1>3 DEF Open
    <2>2. SnapsOK' /\ ListsOK'
      BY <1>1, <1>2, <2>1, ListsGrown, SnapsGrown DEF TypeInv
    <2> QED
      BY <1>1, <1>2, <2>1, <2>2 DEF TypeInv
  <1>4. CASE pane.selected # m
    <2>1. /\ pane' = [NoPane EXCEPT !.selected = m]
          /\ Send(c, "open", ms, todo, <<>>, calls)
      BY <1>4 DEF Open
    <2>2. \A p \in todo : /\ p[1] \in ms
                          /\ p[2] \in Flags => p[1] \in Arrived
                          /\ p[2] = "box" => p[3] \in Boxed
                          /\ p[2] = "thread" => \A x \in Mails : SameThread(p[1], x) => x \in ms
      BY DEF Flags, SameThread
    <2>3. CallsFine(calls, Arrived) /\ PaneFine(pane', calls, Arrived) /\ pane'.selected \in Mails
      BY <2>1 DEF TypeInv, PaneFine, NoPane
    <2>4. list' \subseteq list /\ BoxesOK(offer'.boxes) /\ UNCHANGED srv /\ ms \subseteq Mails /\ "open" \notin Flags /\ "open" # "again"
      BY <1>1 DEF TypeInv, Flags
    <2> HIDE DEF ms, todo
    <2> QED
      BY ONLY KeyInv, TypeInv, <1>2, <2>1, <2>2, <2>3, <2>4, NoBoxes, SendTyped, c \in Calls
  <1> QED
    BY <1>3, <1>4

LEMMA UndoTyped == ASSUME KeyInv, TypeInv, NEW c \in Calls, Undo(c) PROVE TypeInv'
  <1> DEFINE back == offer.boxes
             ms == DOMAIN back
             op == IF offer.reader THEN "rest" ELSE "undo"
             todo == {<<m, "box", back[m]>> : m \in DOMAIN back}
  <1>1. BoxesOK(back)
    BY DEF TypeInv
  <1>2. \A p \in todo : /\ p[1] \in ms
                        /\ p[2] \in Flags => p[1] \in Arrived
                        /\ p[2] = "box" => p[3] \in Boxed
                        /\ p[2] = "thread" => \A x \in Mails : SameThread(p[1], x) => x \in ms
    BY <1>1 DEF Flags, BoxesOK
  <1>3. Send(c, op, ms, todo, <<>>, calls) /\ UNCHANGED <<list, known, pane>> /\ offer' = NoOffer
    BY DEF Undo
  <1>4. ms \subseteq Mails /\ op # "again" /\ op \notin Asking /\ op \notin Flags
    BY <1>1 DEF BoxesOK, Flags, Asking
  <1> HIDE DEF todo, op, ms, back
  <1>5. ContentsOK' /\ Grow /\ Arrived' = Arrived /\ UNCHANGED srv
    BY <1>3, SameContents DEF Send, TypeInv
  <1>6. /\ CallsFine(calls, Arrived) /\ PaneFine(pane', calls, Arrived) /\ BoxesOK(offer'.boxes)
        /\ list' \subseteq list
    BY <1>3, NoBoxes DEF TypeInv, NoOffer
  <1> QED
    BY ONLY KeyInv, TypeInv, <1>2, <1>3, <1>4, <1>5, <1>6, NoBoxes, SendTyped, c \in Calls

\* The greatest of finitely many numbers is one of them: the least of the sets
\* whose numbers none of the others exceeds has no two.
LEMMA GreatestIs ==
    ASSUME NEW S, S \subseteq Nat, IsFiniteSet(S), S # {}
    PROVE  Max(S) \in S
  <1> DEFINE Tops == {T \in SUBSET S : T # {} /\ \A m \in T, n \in S : n \notin T => m >= n}
  <1>1. S \in Tops
    OBVIOUS
  <1>2. Tops \subseteq FiniteSubsetsOf(S)
    <2>1. Tops \subseteq SUBSET S
      OBVIOUS
    <2> HIDE DEF Tops
    <2> QED
      BY <2>1, FS_FiniteSubsetsOfFinite
  <1>3. PICK T \in Tops : \A U \in Tops : ~ (<<U, T>> \in StrictSubsetOrdering(S))
    <2> HIDE DEF Tops
    <2> QED
      BY <1>1, <1>2, FS_StrictSubsetOrderingWellFounded, WFMin
  <1>4. PICK m \in T : TRUE
    OBVIOUS
  <1> DEFINE U == {n \in T : n > m}
  <1>5. U = {}
    <2>1. SUFFICES ASSUME U # {} PROVE FALSE
      OBVIOUS
    <2>2. T \in SUBSET S /\ U \in SUBSET S /\ U \subseteq T /\ U # T
      <3>1. m \in T /\ m \notin U /\ T \in SUBSET S
        BY <1>3, <1>4
      <3> QED
        BY <3>1
    <2>3. \A x \in U, n \in S : n \notin U => x >= n
      <3>1. ASSUME NEW x \in U, NEW n \in S, n \notin U
            PROVE  x >= n
        <4>1. x \in Nat /\ n \in Nat /\ m \in Nat /\ x > m /\ x \in T
          BY <2>2, <1>4
        <4>2. CASE n \in T
          BY <3>1, <4>1, <4>2
        <4>3. CASE n \notin T
          BY <1>3, <4>1, <4>3
        <4> QED
          BY <4>2, <4>3
      <3> QED
        BY <3>1
    <2> HIDE DEF U
    <2>5. U \in Tops
      BY <2>1, <2>2, <2>3
    <2>6. <<U, T>> \in (SUBSET S) \X (SUBSET S) /\ <<U, T>>[1] \subseteq <<U, T>>[2] /\ <<U, T>>[1] # <<U, T>>[2]
      BY <2>2
    <2>4. <<U, T>> \in StrictSubsetOrdering(S)
      BY ONLY <2>6 DEF StrictSubsetOrdering
    <2> QED
      BY <1>3, <2>4, <2>5
  <1>6. m \in S /\ \A n \in S : m >= n
    BY <1>3, <1>4, <1>5
  <1> QED
    BY <1>6 DEF Max

LEMMA LatestIs == ASSUME TypeInv, pane.mails # {} PROVE latest \in pane.mails /\ latest \in Mails /\ latest \in Arrived
  <1>1. pane.mails \subseteq Arrived /\ Arrived \subseteq Mails
    BY DEF TypeInv, PaneFine, Arrived
  <1>2. Mails \subseteq Nat /\ IsFiniteSet(Mails)
    BY MailListAssumption
  <1>3. pane.mails \subseteq Nat /\ IsFiniteSet(pane.mails)
    BY <1>1, <1>2, FS_Subset
  <1>4. latest \in pane.mails
    BY <1>3, GreatestIs DEF latest
  <1> QED
    BY <1>1, <1>4

LEMMA ReaderTyped ==
    ASSUME KeyInv, TypeInv, NEW c \in Calls, NEW op \in {"changed", "close"}, NEW field \in Flags, NEW v, pane.mails # {},
           Send(c, op, {latest}, {<<latest, field, v>>}, <<>>, calls), UNCHANGED <<list, known, offer, pane>>
    PROVE  TypeInv'
  <1> DEFINE m == latest
             todo == {<<m, field, v>>}
  <1>1. m \in Mails /\ m \in Arrived
    BY LatestIs
  <1> HIDE DEF m
  <1>2. \A p \in todo : /\ p[1] \in {m}
                        /\ p[2] \in Flags => p[1] \in Arrived
                        /\ p[2] = "box" => p[3] \in Boxed
                        /\ p[2] = "thread" => \A x \in Mails : SameThread(p[1], x) => x \in {m}
    BY <1>1 DEF Flags
  <1>3. Send(c, op, {m}, todo, <<>>, calls) /\ list' = list
    BY DEF m
  <1> HIDE DEF todo
  <1>4. op # "again" /\ op \notin Asking /\ UNCHANGED srv /\ {m} \subseteq Mails /\ {m} # {}
    BY <1>1, <1>3 DEF Send, Asking
  <1>5. CallsFine(calls, Arrived) /\ PaneFine(pane', calls, Arrived) /\ BoxesOK(offer'.boxes)
    BY DEF TypeInv
  <1>6. ContentsOK' /\ Grow /\ Arrived' = Arrived
    BY <1>4, SameContents DEF TypeInv
  <1> QED
    BY ONLY KeyInv, TypeInv, <1>2, <1>3, <1>4, <1>5, <1>6, NoBoxes, SendTyped, list' \subseteq list, c \in Calls

LEMMA ActingTyped == ASSUME KeyInv, TypeInv, NEW c \in Calls, Acting(c) PROVE TypeInv'
  <1>1. ASSUME NEW v, ConversationStar(c, v)
        PROVE  TypeInv'
    BY <1>1, ReaderTyped DEF ConversationStar, Flags
  <1>2. CASE ConversationUnread(c)
    BY <1>2, ReaderTyped DEF ConversationUnread, Flags
  <1>3. ASSUME NEW ms \in SUBSET list, BulkFlag(c, ms, "starred", TRUE) \/ \E v \in BOOLEAN : BulkFlag(c, ms, "read", v)
        PROVE  TypeInv'
    BY <1>3, BulkFlagTyped DEF Flags
  <1> QED
    BY <1>1, <1>2, <1>3, ToggleTyped, TrashTyped, OpenTyped, BulkTrashTyped, UndoTyped, ConversationTrashTyped DEF Acting

-----------------------------------------------------------------------------
(* Types: what is answered *)

\* What a change makes of a mail.  One that has not arrived can only be moved.
LEMMA AppliedTyped ==
    ASSUME ContentsOK, NEW r, CallOK(r, Arrived), NEW p \in r.todo, NEW m \in Mails
    PROVE  /\ Applied(p)[m] \in Contents \cup {NotYet}
           /\ srv[m] \in Contents => Applied(p)[m] \in Contents
  <1> DEFINE s == srv[m]
  <1>1. s \in Contents \cup {NotYet}
    BY DEF ContentsOK
  <1>2. s.flags \subseteq Flags
    BY <1>1 DEF Contents, NotYet, Content
  <1>3. CASE p[2] = "thread" /\ SameThread(p[1], m) /\ s.box = "inbox"
    <2>1. Applied(p)[m] = Content(s.box, s.flags \cup {"read"})
      BY <1>3 DEF Applied, Flags
    <2> HIDE DEF s
    <2> QED
      BY <1>2, <1>3, <2>1 DEF Content, Contents, Flags
  <1>4. CASE p[2] = "box" /\ m = p[1]
    <2>1. Applied(p)[m] = Content(p[3], s.flags) /\ p[3] \in Boxed
      BY <1>4 DEF Applied, CallOK, Flags
    <2> HIDE DEF s
    <2> QED
      BY <1>2, <2>1 DEF Content, Contents, Boxed
  <1>5. CASE p[2] \in Flags /\ m = p[1]
    <2>1. \/ Applied(p)[m] = Content(s.box, s.flags \cup {p[2]})
          \/ Applied(p)[m] = Content(s.box, s.flags \ {p[2]})
      BY <1>5 DEF Applied, Flags
    <2>2. s \in Contents
      BY <1>5 DEF CallOK, Arrived
    <2> HIDE DEF s
    <2> QED
      BY <1>2, <1>5, <2>1, <2>2 DEF Content, Contents
  <1>6. CASE Applied(p)[m] = s
    BY <1>1, <1>6
  <1> QED
    BY <1>3, <1>4, <1>5, <1>6 DEF Applied

\* With a call answered the calls are fine that are left, and so is the pane.
LEMMA CallOver ==
    ASSUME TypeInv, NEW c \in Calls
    PROVE  LET over == [calls EXCEPT ![c] = NoCall] IN CallsFine(over, Arrived) /\ PaneFine(pane, over, Arrived)
  <1>1. CallOK(NoCall, Arrived) /\ NoCall.op \notin Asking
    BY NoCallTyped DEF NoCall, Asking
  <1> QED
    BY <1>1, OneCall, PaneForgets DEF TypeInv

LEMMA ServeCallTyped ==
    ASSUME KeyInv, TypeInv, NEW c \in Calls, NEW p \in calls[c].todo, NEW done \in BOOLEAN, NEW ok \in BOOLEAN, ServeCall(c, p, done, ok)
    PROVE  TypeInv'
  <1> DEFINE new == IF p[2] = "thread" /\ ok THEN thread(p[1]) ELSE calls[c].got
             r == [calls[c] EXCEPT !.todo = @ \ {p}, !.failed = @ \/ ~ok, !.got = new]
  <1>1. CallOK(calls[c], Arrived) /\ CallsFine(calls, Arrived) /\ ContentsOK
    BY DEF TypeInv, CallsFine
  <1>2. ContentsOK' /\ Grow
    <2>1. \A m \in Mails : /\ Applied(p)[m] \in Contents \cup {NotYet}
                           /\ srv[m] \in Contents => Applied(p)[m] \in Contents
      BY <1>1, AppliedTyped
    <2>2. Applied(p) = [m \in Mails |-> Applied(p)[m]]
      BY DEF Applied
    <2>3. srv' = Applied(p) \/ srv' = srv
      BY DEF ServeCall
    <2>4. srv' \in [Mails -> Contents \cup {NotYet}] /\ Arrived \subseteq Arrived'
      BY <1>1, <2>1, <2>2, <2>3 DEF ContentsOK, Arrived
    <2>5. Met' = Met
      BY DEF ServeCall, Met
    <2> QED
      BY <1>1, <2>4, <2>5 DEF ServeCall, ContentsOK, Grow
  <1>3. new \subseteq Arrived
    BY <1>1 DEF thread, Arrived, TypeInv, ContentsOK, CallOK, NotYet, Content
  <1>4. calls' = [calls EXCEPT ![c] = r]
    BY <1>1 DEF ServeCall, CallOK, CallsFine
  <1> HIDE DEF new
  <1>5. CallOK(r, Arrived) /\ r.op = calls[c].op /\ r.alive = calls[c].alive
    BY <1>1, <1>3 DEF CallOK
  <1> HIDE DEF r
  <1>6. CallsFine(calls', Arrived) /\ PaneFine(pane, calls', Arrived)
    BY <1>1, <1>4, <1>5, OneCall DEF TypeInv, PaneFine, CallsFine
  <1>7. CallsFine(calls', Arrived') /\ PaneFine(pane, calls', Arrived')
    BY <1>2, <1>6, CallsGrown, PaneGrown DEF Grow
  <1>8. SnapsOK' /\ ListsOK'
    BY <1>2, ListsGrown, SnapsGrown DEF ServeCall, TypeInv
  <1> QED
    BY <1>2, <1>7, <1>8 DEF ServeCall, TypeInv

LEMMA HearToggleTyped == ASSUME KeyInv, TypeInv, NEW c \in Calls, HearToggle(c) PROVE TypeInv'
  <1> DEFINE m == CHOOSE x \in calls[c].ms : TRUE
             field == calls[c].op
             v == field \notin known[m].flags
  <1>1. field \in Flags /\ UNCHANGED srv
    BY DEF HearToggle
  <1>2. known' = known \/ known' = Flag({m}, field, v)
    BY DEF HearToggle
  <1> HIDE DEF field, v
  <1>3. ContentsOK' /\ Grow /\ Arrived' = Arrived
    BY <1>1, <1>2, FlagTyped, SameContents DEF TypeInv
  <1>4. CallsFine(calls', Arrived) /\ PaneFine(pane', calls', Arrived)
    BY CallOver DEF HearToggle
  <1>5. list' \subseteq list
    BY DEF HearToggle
  <1>6. ListsOK'
    BY <1>3, <1>5 DEF TypeInv, ListsOK, Grow, HearToggle
  <1>7. SnapsOK'
    BY <1>3, SnapsGrown DEF TypeInv, HearToggle
  <1> QED
    BY <1>3, <1>4, <1>6, <1>7 DEF HearToggle, TypeInv

\* An answer that changes the offer, or the mails in the pane, at most.
LEMMA AnswerTyped ==
    ASSUME KeyInv, TypeInv, NEW c \in Calls, calls' = [calls EXCEPT ![c] = NoCall], UNCHANGED <<srv, known>>,
           SnapsOK', ListsOK', BoxesOK(offer'.boxes),
           \/ pane' = pane
           \/ pane' = [pane EXCEPT !.mails = calls[c].got] /\ calls[c].op \in Asking /\ calls[c].alive
    PROVE  TypeInv'
  <1>1. ContentsOK' /\ Arrived' = Arrived
    BY SameContents DEF TypeInv
  <1>2. CallsFine(calls', Arrived) /\ PaneFine(pane, calls', Arrived)
    BY CallOver
  <1>3. calls[c].got \subseteq Arrived
    BY DEF TypeInv, CallsFine, CallOK
  <1>4. PaneFine(pane', calls', Arrived)
    BY <1>2, <1>3 DEF PaneFine, TypeInv
  <1> QED
    BY <1>1, <1>2, <1>4 DEF TypeInv

LEMMA HearOneTyped ==
    ASSUME KeyInv, TypeInv, NEW c \in Calls, HearMoved(c) \/ HearRest(c) \/ HearThread(c)
    PROVE  TypeInv'
  <1>1. UNCHANGED <<srv, known, list, of, cache, fetches>> /\ calls' = [calls EXCEPT ![c] = NoCall]
    BY DEF HearMoved, HearRest, HearThread
  <1>2. SnapsOK' /\ ListsOK'
    BY <1>1, SameContents, ListsGrown, SnapsGrown DEF TypeInv
  <1>3. BoxesOK(calls[c].boxes) /\ BoxesOK(offer.boxes)
    BY DEF TypeInv, CallsFine, CallOK
  <1>4. BoxesOK(offer'.boxes)
    BY <1>3 DEF HearMoved, HearRest, HearThread
  <1>5. \/ pane' = pane
        \/ pane' = [pane EXCEPT !.mails = calls[c].got] /\ calls[c].op \in Asking /\ calls[c].alive
    <2>1. CASE HearMoved(c) \/ HearRest(c)
      BY <2>1 DEF HearMoved, HearRest
    <2>2. CASE HearThread(c)
      BY <2>2 DEF HearThread, Asking
    <2> QED
      BY <2>1, <2>2
  <1> QED
    BY <1>1, <1>2, <1>4, <1>5, AnswerTyped

LEMMA HearNoThreadTyped == ASSUME KeyInv, TypeInv, NEW c \in Calls, HearNoThread(c) PROVE TypeInv'
  <1> DEFINE r == [calls[c] EXCEPT !.op = "again", !.ms = {}]
  <1>1. CallOK(calls[c], Arrived) /\ calls[c].op \in Asking /\ calls[c].todo = {}
    BY DEF HearNoThread, TypeInv, CallsFine, Asking
  <1>2. calls' = [calls EXCEPT ![c] = r]
    BY <1>1 DEF HearNoThread, TypeInv, CallsFine, CallOK
  <1>3. CallOK(r, Arrived) /\ (r.alive => calls[c].alive)
    BY <1>1 DEF CallOK, Flags
  <1> HIDE DEF r
  <1>4. r.alive => pane.selected \in Mails
    BY <1>1, <1>3 DEF TypeInv, PaneFine
  <1>5. CallsFine(calls', Arrived) /\ PaneFine(pane, calls', Arrived)
    BY <1>2, <1>3, <1>4, OneCall, PaneForgets DEF TypeInv
  <1>6. ContentsOK' /\ Grow /\ Arrived' = Arrived
    BY SameContents DEF HearNoThread, TypeInv
  <1>7. SnapsOK' /\ ListsOK'
    BY <1>6, ListsGrown, SnapsGrown DEF HearNoThread, TypeInv
  <1> QED
    BY <1>5, <1>6, <1>7 DEF HearNoThread, TypeInv

LEMMA RetryTyped == ASSUME KeyInv, TypeInv, NEW c \in Calls, RetryThread(c) PROVE TypeInv'
  <1> DEFINE m == askedRow(calls[c])
             ms == {x \in Mails : SameThread(m, x)}
             todo == {<<m, "thread", TRUE>>}
             r == [calls[c] EXCEPT !.op = "reopen", !.ms = ms, !.todo = todo, !.failed = FALSE]
  <1>1. CallOK(calls[c], Arrived) /\ calls[c].op \in Asking
    BY DEF RetryThread, TypeInv, CallsFine, Asking
  <1>2. m \in Mails
    <2>1. calls[c].alive => pane.selected \in Mails
      BY <1>1 DEF TypeInv, PaneFine
    <2> QED
      BY <1>1, <2>1 DEF askedRow, CallOK
  <1>3. calls' = [calls EXCEPT ![c] = r]
    BY <1>1 DEF RetryThread, TypeInv, CallsFine, CallOK
  <1>4. \A p \in todo : /\ p[1] \in ms
                        /\ p[2] \in Flags => p[1] \in Arrived
                        /\ p[2] = "box" => p[3] \in Boxed
                        /\ p[2] = "thread" => \A x \in Mails : SameThread(p[1], x) => x \in ms
    BY <1>2 DEF Flags, SameThread
  <1>5. ms \subseteq Mails /\ fetches' = [f \in Fetches |-> [fetches[f] EXCEPT !.clean = @ \ ms]]
    BY DEF RetryThread
  <1> HIDE DEF ms, todo, m
  <1>6. CallOK(r, Arrived) /\ r.alive = calls[c].alive
    BY <1>1, <1>4, <1>5 DEF CallOK, Flags
  <1> HIDE DEF r
  <1>7. CallsFine(calls', Arrived) /\ PaneFine(pane, calls', Arrived)
    <2>1. r.alive => pane.selected \in Mails
      BY <1>1, <1>6 DEF TypeInv, PaneFine
    <2> QED
      BY <1>3, <1>6, <2>1, OneCall, PaneForgets DEF TypeInv
  <1>8. PaneFine(pane', calls', Arrived)
    BY <1>7 DEF RetryThread, PaneFine
  <1>9. ContentsOK' /\ Grow /\ Arrived' = Arrived
    BY SameContents DEF RetryThread, TypeInv
  <1>10. SnapsOK'
    <2>1. \A f \in Fetches : SnapOK([fetches[f] EXCEPT !.clean = @ \ ms], Arrived)
      BY DEF KeyInv, FetchesOK, FetchOK, TypeInv, SnapsOK, SnapOK
    <2> QED
      BY <1>5, <1>9, <2>1 DEF SnapsOK
  <1>11. ListsOK'
    BY <1>9, ListsGrown DEF RetryThread, TypeInv
  <1> QED
    BY <1>7, <1>8, <1>9, <1>10, <1>11 DEF RetryThread, TypeInv

LEMMA HearNotMovedTyped ==
    ASSUME KeyInv, TypeInv, NEW c \in Calls, NEW f \in Fetches, HearNotMoved(c, f)
    PROVE  TypeInv'
  <1>1. ContentsOK' /\ Grow /\ Arrived' = Arrived /\ UNCHANGED <<offer, pane, cache>>
    BY SameContents DEF HearNotMoved, TypeInv
  <1>2. SnapsOK' /\ ListsOK'
    BY <1>1, LoadTyped DEF HearNotMoved, TypeInv, KeyInv
  <1> DEFINE r == [calls[c] EXCEPT !.op = "rest"]
  <1>3. calls' = [calls EXCEPT ![c] = r]
    BY DEF HearNotMoved, TypeInv, CallsFine
  <1>4. CallOK(r, Arrived) /\ r.op \notin Asking
    BY DEF TypeInv, CallsFine, CallOK, Flags, Asking
  <1> HIDE DEF r
  <1>5. CallsFine(calls', Arrived) /\ PaneFine(pane, calls', Arrived)
    BY <1>3, <1>4, OneCall, PaneForgets DEF TypeInv
  <1> QED
    BY <1>1, <1>2, <1>5 DEF TypeInv

LEMMA HearUndoneTyped ==
    ASSUME KeyInv, TypeInv, NEW c \in Calls, NEW f \in Fetches, HearUndone(c, f)
    PROVE  TypeInv'
  <1>1. Grow
    BY SameContents DEF HearUndone, TypeInv
  <1>2. SnapsOK' /\ ListsOK'
    BY <1>1, LoadTyped DEF HearUndone, TypeInv, KeyInv
  <1>3. BoxesOK(offer'.boxes) /\ pane' = pane /\ calls' = [calls EXCEPT ![c] = NoCall] /\ UNCHANGED <<srv, known>>
    BY DEF HearUndone, TypeInv
  <1> QED
    BY <1>2, <1>3, AnswerTyped

LEMMA HearReaderTyped ==
    ASSUME KeyInv, TypeInv, NEW c \in Calls, NEW f \in Fetches, HearReader(c, f)
    PROVE  TypeInv'
  <1> DEFINE over == [calls EXCEPT ![c] = NoCall]
             closes == calls[c].alive /\ calls[c].op # "changed"
  <1>1. ContentsOK' /\ Grow /\ Arrived' = Arrived /\ UNCHANGED cache
    BY SameContents DEF HearReader, TypeInv
  <1>2. SnapsOK' /\ ListsOK'
    <2>1. CASE calls[c].alive
      BY <1>1, <2>1, LoadTyped DEF HearReader, TypeInv, KeyInv
    <2>2. CASE ~calls[c].alive
      BY <1>1, <2>2, ListsGrown, SnapsGrown DEF HearReader, TypeInv
    <2> QED
      BY <2>1, <2>2
  <1>3. CallsFine(over, Arrived) /\ PaneFine(pane, over, Arrived)
    BY CallOver
  <1>4. CallsFine(calls', Arrived) /\ PaneFine(pane', calls', Arrived)
    <2>1. /\ CallsFine(Unmounted(over), Arrived)
          /\ \A d \in Calls : Unmounted(over)[d].op \in Asking => ~Unmounted(over)[d].alive
      BY <1>3, UnmountedTyped
    <2>2. PaneFine(NoPane, Unmounted(over), Arrived)
      BY <2>1, NoPaneTyped
    <2> HIDE DEF over
    <2>3. CASE closes
      <3>1. pane' = NoPane /\ calls' = Unmounted(over)
        BY <2>3 DEF HearReader, over
      <3> QED
        BY <2>1, <2>2, <3>1
    <2>4. CASE ~closes
      <3>1. pane' = pane /\ calls' = over
        BY <2>4 DEF HearReader, over
      <3> QED
        BY <1>3, <3>1
    <2> QED
      BY <2>3, <2>4
  <1>5. BoxesOK(offer'.boxes)
    BY DEF HearReader, TypeInv, CallsFine, CallOK
  <1> QED
    BY <1>1, <1>2, <1>4, <1>5 DEF TypeInv

LEMMA AnsweredTyped == ASSUME KeyInv, TypeInv, NEW c \in Calls, Answered(c) PROVE TypeInv'
  BY ServeCallTyped, HearToggleTyped, HearOneTyped, HearNoThreadTyped, RetryTyped, HearNotMovedTyped, HearUndoneTyped,
     HearReaderTyped DEF Answered

LEMMA ElsewhereTyped ==
    ASSUME KeyInv, TypeInv, NEW m \in Mails, NEW content \in Elsewheres, Elsewhere(m, content)
    PROVE  TypeInv'
  <1>1. content \in Contents
    BY MailListAssumption
  <1>2. ContentsOK' /\ Grow
    BY <1>1 DEF TypeInv, ContentsOK, Grow, Arrived, Met, Elsewhere
  <1>3. CallsFine(calls', Arrived') /\ PaneFine(pane', calls', Arrived')
    BY <1>2, CallsGrown, PaneGrown DEF Grow, Elsewhere, TypeInv
  <1>4. ListsOK'
    BY <1>2, ListsGrown DEF Elsewhere, TypeInv
  <1>5. SnapsOK'
    <2>1. \A f \in Fetches : SnapOK([fetches[f] EXCEPT !.clean = @ \ {m}], Arrived)
      BY DEF KeyInv, FetchesOK, FetchOK, TypeInv, SnapsOK, SnapOK
    <2>2. \A f \in Fetches : SnapOK(fetches'[f], Arrived')
      BY <1>2, <2>1, SnapGrown DEF Elsewhere, Grow
    <2> QED
      BY <2>2 DEF SnapsOK
  <1> QED
    BY <1>2, <1>3, <1>4, <1>5 DEF Elsewhere, TypeInv

LEMMA NextTyped == KeyInv /\ TypeInv /\ [Next]_vars => TypeInv'
  <1> SUFFICES ASSUME KeyInv, TypeInv, [Next]_vars PROVE TypeInv'
    OBVIOUS
  <1>1. CASE Filter \/ Expire \/ UNCHANGED vars
    BY <1>1, IdleTyped DEF Filter, Expire, vars
  <1> QED
    BY <1>1, RefreshTyped, PollTyped, ServeFetchTyped, HearLoadTyped, HearPollTyped, pickAccountTyped, ActingTyped,
       AnsweredTyped, ClosePaneTyped, ElsewhereTyped DEF Next

LEMMA KeyAlways == Spec => []KeyInv
  BY InitKeyed, NextKeyed, PTL DEF Spec

LEMMA TypeAlways == Spec => []TypeInv
  BY InitTyped, NextTyped, KeyAlways, PTL DEF Spec

\* Whatever answers cross each other, the list, the caches and the pane hold mails
\* that there are, a call changes only what it was sent for, and the conversation
\* on the screen is one of a mail that is selected.
THEOREM ListTypeCorrect == Spec => []TypeOK
  <1>1. KeyInv /\ TypeInv => TypeOK
    <2> SUFFICES ASSUME KeyInv, TypeInv PROVE TypeOK
      OBVIOUS
    <2>1. Arrived \subseteq Mails
      BY DEF Arrived
    <2>2. active \in Accounts
      BY DEF KeyInv
    <2> QED
      BY <2>1, <2>2 DEF TypeInv, ContentsOK, ListsOK, SnapsOK, SnapOK, CallsFine, CallOK, PaneFine, BoxesOK, TypeOK
  <1> QED
    BY <1>1, KeyAlways, TypeAlways, PTL

-----------------------------------------------------------------------------
(* Rows: what the view and the server have of a mail *)

FitsIn(fo, s) ==
    /\ (fo = "trash") <=> (s.box = "trash")
    /\ s.box # "none"
    /\ fo = "starred" => "starred" \in s.flags

Flipped(fs, x) == IF x \in fs THEN fs \ {x} ELSE fs \cup {x}
Assigned(fs, p) == IF p[3] THEN fs \cup {p[2]} ELSE fs \ {p[2]}
Away(fo) == IF fo = "trash" THEN "inbox" ELSE "trash"

(***************************************************************************)
(* A mail m, of which the server has s and the row object the flags k, in  *)
(* the list l of the account o in the folder fo: without a call they agree.*)
(***************************************************************************)
Agreed(m, s, k, l, o, fo) ==
    /\ m \in l => FitsIn(fo, s) /\ k = s.flags
    /\ FitsIn(fo, s) /\ AccountOf[m] = o => m \in l

\* A toggled row stays in the list until the answer is heard, though the server
\* may no longer have it in the folder.
Toggling(r, m, s, k, l, fo) ==
    /\ r.ms = {m} /\ r.alive /\ m \in l
    /\ (fo = "trash") <=> (s.box = "trash")
    /\ s.box # "none"
    /\ \E v \in BOOLEAN : (v <=> r.op \in k) /\ r.todo \subseteq {<<m, r.op, v>>}
    /\ r.todo # {} => ~r.failed
    /\ r.todo # {} \/ r.failed => FitsIn(fo, s) /\ k = Flipped(s.flags, r.op)
    /\ r.todo = {} /\ ~r.failed =>
          k = s.flags /\ (fo = "starred" /\ r.op # "starred" => "starred" \in s.flags)

Flagging(r, m, s, k, l, fo) ==
    /\ m \in l /\ FitsIn(fo, s)
    /\ \A p \in r.todo : p[2] \in Flags /\ (p[2] = "starred" => p[3])
    /\ \A p, q \in r.todo : p[1] = q[1] => p = q
    /\ \A p \in r.todo : p[1] = m => k = Assigned(s.flags, p)
    /\ (\A p \in r.todo : p[1] # m) => k = s.flags

Moving(r, m, s, l, fo) ==
    /\ m \notin l
    /\ \A p \in r.todo : p[2] = "box" /\ p[3] = Away(fo)
    /\ (\A p \in r.todo : p[1] # m) => s.box = Away(fo)

Opening(r, m, s, k, l, o, fo) ==
    /\ \E x : r.todo \subseteq {<<x, "thread", TRUE>>} /\ SameThread(x, m)
    /\ m \in l => FitsIn(fo, s) /\ k = IF r.todo = {} THEN s.flags ELSE s.flags \cup {"read"}
    /\ FitsIn(fo, s) /\ AccountOf[m] = o => m \in l

\* What a call under way for m leaves to be done, by its kind; the other kinds
\* end with their mails excused.
Awaited(r, m, s, k, l, o, fo) ==
    /\ r.op \in Flags => Toggling(r, m, s, k, l, fo)
    /\ r.op = "bulk" /\ ~r.failed => Flagging(r, m, s, k, l, fo)
    /\ r.op \in {"trash", "bulkTrash"} /\ ~r.failed => Moving(r, m, s, l, fo)
    /\ r.op = "open" /\ ~r.failed /\ fo # "trash" => Opening(r, m, s, k, l, o, fo)

Row(m) ==
    /\ \A c, d \in Calls : m \in calls[c].ms /\ m \in calls[d].ms => c = d
    /\ (\A c \in Calls : m \notin calls[c].ms) => Agreed(m, srv[m], known[m].flags, list, of, folder)
    /\ \A c \in Calls : m \in calls[c].ms => Awaited(calls[c], m, srv[m], known[m].flags, list, of, folder)

\* What a fetch has seen of a mail is true as long as it counts as clean.
CleanOf(r, m, s, fo) ==
    /\ m \in DOMAIN r.snap <=> AccountOf[m] = r.key /\ FitsIn(fo, s)
    /\ m \in DOMAIN r.snap => r.snap[m] = s

(***************************************************************************)
(* The row of a mail that is not excused is up to date but for the one     *)
(* call under way for it, and what that call will leave behind is known    *)
(* from its kind, its rest and whether a part of it has failed.  For an    *)
(* answer to end an excuse, what it has seen is to be true yet.            *)
(***************************************************************************)
RowsInv == \A m \in Mails \ excused : Row(m)
CleanInv == \A f \in Fetches : \A m \in fetches[f].clean :
                CleanOf(fetches[f], m, srv[m], folder) /\ \A c \in Calls : m \notin calls[c].ms

-----------------------------------------------------------------------------

LEMMA InFolderIs == \A s : InFolder(s) <=> FitsIn(folder, s)
  BY DEF InFolder, FitsIn

LEMMA BusyIs == \A m : m \in Busy <=> \E c \in Calls : m \in calls[c].ms
  BY DEF Busy

LEMMA AwayIs == Target = Away(folder)
  BY DEF Target, Away

LEMMA AgreedAlike ==
    ASSUME NEW m, NEW s, NEW k, NEW l, NEW o, NEW fo, NEW l2, m \in l2 <=> m \in l, Agreed(m, s, k, l, o, fo)
    PROVE  Agreed(m, s, k, l2, o, fo)
  BY DEF Agreed

Alike(r2, r) ==
    /\ r2.op = r.op /\ r2.ms = r.ms /\ r2.todo = r.todo /\ (r2.failed <=> r.failed)
    /\ r.op \in Flags /\ r.alive => r2.alive

LEMMA AwaitedAlike ==
    ASSUME NEW m, NEW s, NEW k, NEW l, NEW o, NEW fo, NEW l2, m \in l2 <=> m \in l, NEW r, NEW r2, Alike(r2, r),
           Awaited(r, m, s, k, l, o, fo)
    PROVE  Awaited(r2, m, s, k, l2, o, fo)
  BY DEF Awaited, Alike, Toggling, Flagging, Moving, Opening

\* A step that leaves a mail alone, and the call for it.
LEMMA RowKept ==
    ASSUME NEW m, Row(m), folder' = folder, of' = of, srv'[m] = srv[m], known'[m].flags = known[m].flags,
           m \in list' <=> m \in list,
           \A c \in Calls : /\ m \in calls'[c].ms <=> m \in calls[c].ms
                            /\ m \in calls[c].ms => Alike(calls'[c], calls[c])
    PROVE  Row(m)'
  <1>1. ASSUME \A c \in Calls : m \notin calls'[c].ms
        PROVE  Agreed(m, srv'[m], known'[m].flags, list', of', folder')
    <2>1. Agreed(m, srv[m], known[m].flags, list, of, folder)
      BY <1>1 DEF Row
    <2> QED
      BY <2>1, AgreedAlike
  <1>2. ASSUME NEW c \in Calls, m \in calls'[c].ms
        PROVE  Awaited(calls'[c], m, srv'[m], known'[m].flags, list', of', folder')
    <2>1. Awaited(calls[c], m, srv[m], known[m].flags, list, of, folder) /\ Alike(calls'[c], calls[c])
      BY <1>2 DEF Row
    <2> QED
      BY <2>1, AwaitedAlike
  <1> QED
    BY <1>1, <1>2 DEF Row

\* The call for a mail is over.
LEMMA RowFinished ==
    ASSUME NEW m, Row(m), NEW c \in Calls, m \in calls[c].ms,
           \A d \in Calls : m \in calls'[d].ms => d # c /\ m \in calls[d].ms,
           Agreed(m, srv'[m], known'[m].flags, list', of', folder')
    PROVE  Row(m)'
  <1>1. \A d \in Calls : m \notin calls'[d].ms
    BY DEF Row
  <1> QED
    BY <1>1 DEF Row

\* A call for a mail starts.
LEMMA RowStarted ==
    ASSUME NEW m, NEW c \in Calls, \A d \in Calls : m \in calls'[d].ms => d = c,
           Awaited(calls'[c], m, srv'[m], known'[m].flags, list', of', folder'), m \in calls'[c].ms
    PROVE  Row(m)'
  BY DEF Row

\* What the fetches have seen stays true.
LEMMA CleanKept ==
    ASSUME CleanInv, folder' = folder,
           \A f \in Fetches : \/ fetches'[f].clean = {}
                              \/ /\ fetches'[f].clean \subseteq fetches[f].clean
                                 /\ fetches'[f].snap = fetches[f].snap /\ fetches'[f].key = fetches[f].key,
           \A f \in Fetches : \A m \in fetches'[f].clean : srv'[m] = srv[m] /\ \A c \in Calls : m \notin calls'[c].ms
    PROVE  CleanInv'
  <1>1. ASSUME NEW f \in Fetches, NEW m \in fetches'[f].clean
        PROVE  CleanOf(fetches'[f], m, srv'[m], folder')
    <2>1. CleanOf(fetches[f], m, srv[m], folder) /\ fetches'[f].snap = fetches[f].snap /\ fetches'[f].key = fetches[f].key
      BY <1>1 DEF CleanInv
    <2> QED
      BY <1>1, <2>1 DEF CleanOf
  <1> QED
    BY <1>1 DEF CleanInv

LEMMA InitRows == Init => RowsInv /\ CleanInv
  <1> SUFFICES ASSUME Init PROVE RowsInv /\ CleanInv
    OBVIOUS
  <1>1. \A f \in Fetches : fetches[f].clean = {}
    BY DEF Init, NoFetch
  <1> QED
    BY <1>1 DEF Init, RowsInv, CleanInv

-----------------------------------------------------------------------------
(* Rows: loads and polls *)

LEMMA AlikeSelf == \A r : Alike(r, r)
  BY DEF Alike

LEMMA UnmountedAlike ==
    ASSUME NEW cs, NEW A, CallsFine(cs, A)
    PROVE  \A c \in Calls : Alike(Unmounted(cs)[c], cs[c])
  BY DEF CallsFine, CallOK, Unmounted, FromReader, Asking, Alike, Flags

\* A step of one fetch that leaves it with nothing seen.
LEMMA CleanOne ==
    ASSUME KeyInv, CleanInv, NEW f \in Fetches, NEW r, r.clean = {}, fetches' = [fetches EXCEPT ![f] = r],
           UNCHANGED <<folder, srv>>, \A c \in Calls : calls'[c].ms \subseteq calls[c].ms
    PROVE  CleanInv'
  <1>1. \A g \in Fetches : fetches'[g].clean = {} \/ fetches'[g] = fetches[g]
    BY DEF KeyInv, FetchesOK
  <1>2. \A g \in Fetches : \A m \in fetches'[g].clean : \A c \in Calls : m \notin calls'[c].ms
    BY <1>1 DEF CleanInv
  <1> QED
    BY <1>1, <1>2, CleanKept

\* A load leaves the list, or puts the cached one there and excuses it all.
LEMMA LoadsRows ==
    ASSUME KeyInv, RowsInv, CleanInv, NEW f \in Fetches, NEW k, NEW ex, Load(f, k, fetches, list, ex), excused \subseteq ex,
           UNCHANGED <<folder, srv, known>>,
           \A c \in Calls : /\ calls'[c].ms \subseteq calls[c].ms
                            /\ \A m \in calls[c].ms : m \in ex \/ Alike(calls'[c], calls[c])
    PROVE  RowsInv' /\ CleanInv'
  <1> DEFINE r == [NoFetch EXCEPT !.st = "sent", !.key = k, !.cached = cache[k].some]
  <1>1. r.clean = {} /\ fetches' = [fetches EXCEPT ![f] = r]
    BY DEF Load, NoFetch
  <1> HIDE DEF r
  <1>2. CleanInv'
    BY <1>1, CleanOne
  <1>3. ASSUME NEW m \in Mails, m \notin excused'
        PROVE  Row(m)'
    <2>1. m \notin ex /\ list' = list /\ of' = of
      BY <1>3 DEF Load
    <2>2. Row(m)
      BY <2>1 DEF RowsInv
    <2>3. \A c \in Calls : /\ m \in calls'[c].ms <=> m \in calls[c].ms
                           /\ m \in calls[c].ms => Alike(calls'[c], calls[c])
      BY <2>1 DEF Alike
    <2> QED
      BY <2>1, <2>2, <2>3, RowKept
  <1> QED
    BY <1>2, <1>3 DEF RowsInv

\* A step that changes neither a mail, a row nor a call that a row awaits.
LEMMA Undisturbed ==
    ASSUME RowsInv, excused \subseteq excused', UNCHANGED <<folder, srv, known, list, of>>,
           \A c \in Calls : Alike(calls'[c], calls[c])
    PROVE  RowsInv'
  <1>1. ASSUME NEW m \in Mails, m \notin excused'
        PROVE  Row(m)'
    <2>1. Row(m)
      BY <1>1 DEF RowsInv
    <2>2. \A c \in Calls : m \in calls'[c].ms <=> m \in calls[c].ms
      BY DEF Alike
    <2> QED
      BY <2>1, <2>2, RowKept
  <1> QED
    BY <1>1 DEF RowsInv

LEMMA RefreshRows == ASSUME KeyInv, RowsInv, CleanInv, NEW f \in Fetches, Refresh(f) PROVE RowsInv' /\ CleanInv'
  BY LoadsRows, AlikeSelf DEF Refresh

LEMMA PollRows == ASSUME KeyInv, RowsInv, CleanInv, NEW f \in Fetches, Poll(f) PROVE RowsInv' /\ CleanInv'
  <1> DEFINE r == [NoFetch EXCEPT !.st = "sent", !.poll = TRUE, !.key = active]
  <1>1. r.clean = {} /\ fetches' = [fetches EXCEPT ![f] = r]
    BY DEF Poll, NoFetch
  <1> HIDE DEF r
  <1>2. UNCHANGED <<folder, srv, known, list, of, calls, excused>>
    BY DEF Poll
  <1> QED
    BY <1>1, <1>2, CleanOne, Undisturbed, AlikeSelf

LEMMA ServeFetchRows == ASSUME KeyInv, RowsInv, CleanInv, NEW f \in Fetches, ServeFetch(f) PROVE RowsInv' /\ CleanInv'
  <1> DEFINE found == {m \in Mails : AccountOf[m] = fetches[f].key /\ InFolder(srv[m])}
             snap == [m \in found |-> srv[m]]
             r == [fetches[f] EXCEPT !.st = "ok", !.snap = snap, !.clean = Mails \ Busy]
  <1>1. fetches' = [fetches EXCEPT ![f] = r]
    BY DEF ServeFetch, KeyInv, FetchesOK, FetchOK
  <1>2. UNCHANGED <<folder, srv, known, list, of, calls, excused>>
    BY DEF ServeFetch
  <1>3. r.clean = Mails \ Busy /\ r.snap = snap /\ r.key = fetches[f].key
    BY DEF KeyInv, FetchesOK, FetchOK
  <1>4. \A m \in r.clean : CleanOf(r, m, srv[m], folder) /\ \A c \in Calls : m \notin calls[c].ms
    BY <1>3, InFolderIs, BusyIs DEF CleanOf
  <1> HIDE DEF r
  <1>5. \A g \in Fetches : fetches'[g] = IF g = f THEN r ELSE fetches[g]
    BY <1>1 DEF KeyInv, FetchesOK
  <1>6. CleanInv'
    BY <1>2, <1>4, <1>5 DEF CleanInv
  <1> QED
    BY <1>2, <1>6, Undisturbed, AlikeSelf

LEMMA HearLoadRows ==
    ASSUME KeyInv, TypeInv, RowsInv, CleanInv, NEW f \in Fetches, HearLoad(f)
    PROVE  RowsInv' /\ CleanInv'
  <1> DEFINE r == fetches[f]
  <1>1. /\ fetches' = [fetches EXCEPT ![f] = NoFetch] /\ UNCHANGED <<folder, srv>>
        /\ \A c \in Calls : calls'[c].ms = calls[c].ms
    BY DEF HearLoad, Renew, TypeInv, CallsFine, CallOK
  <1>2. CleanInv'
    BY <1>1, CleanOne DEF NoFetch
  <1>3. CASE /\ r.st = "ok" /\ list' = DOMAIN r.snap /\ Renew(DOMAIN r.snap, r.snap) /\ of' = r.key
             /\ excused' = Mails \ r.clean
    <2>1. ASSUME NEW m \in Mails, m \notin excused'
          PROVE  Row(m)'
      <3>1. m \in r.clean
        BY <1>3, <2>1
      <3>2. CleanOf(r, m, srv[m], folder) /\ \A c \in Calls : m \notin calls'[c].ms
        BY <1>1, <3>1 DEF CleanInv
      <3>3. m \in DOMAIN r.snap => known'[m] = r.snap[m]
        BY <1>3 DEF Renew
      <3> HIDE DEF r
      <3>4. Agreed(m, srv'[m], known'[m].flags, list', of', folder')
        BY <1>1, <1>3, <3>2, <3>3 DEF CleanOf, Agreed
      <3> QED
        BY <3>2, <3>4 DEF Row
    <2> QED
      BY <1>2, <2>1 DEF RowsInv
  <1>4. CASE /\ UNCHANGED <<known, calls, of>>
             /\ \/ list' = list /\ excused' = excused
                \/ excused' = Mails
    <2>1. CASE list' = list /\ excused' = excused
      BY <1>1, <1>2, <1>4, <2>1, Undisturbed, AlikeSelf
    <2>2. CASE excused' = Mails
      BY <1>2, <2>2 DEF RowsInv
    <2> QED
      BY <1>4, <2>1, <2>2
  <1> QED
    BY <1>3, <1>4 DEF HearLoad

\* A poll brings rows; one that is not clean is excused, so a row that is not had
\* nothing under way when it was seen.
LEMMA HearPollRows ==
    ASSUME KeyInv, TypeInv, RowsInv, CleanInv, NEW f \in Fetches, HearPoll(f)
    PROVE  RowsInv' /\ CleanInv'
  <1> DEFINE r == fetches[f]
             new == additions(r.snap)
  <1>1. /\ fetches' = [fetches EXCEPT ![f] = NoFetch] /\ UNCHANGED <<folder, srv, of>>
        /\ \A c \in Calls : calls'[c].ms = calls[c].ms
    BY DEF HearPoll, Renew, TypeInv, CallsFine, CallOK
  <1>2. CleanInv'
    BY <1>1, CleanOne DEF NoFetch
  <1>3. CASE /\ list' = list \cup new /\ Renew(new, r.snap)
             /\ excused' = (excused \ (new \cap r.clean)) \cup (new \ r.clean)
    <2>1. ASSUME NEW m \in Mails, m \notin excused', m \in new
          PROVE  Row(m)'
      <3>1. m \in r.clean /\ m \in DOMAIN r.snap
        BY <1>3, <2>1 DEF additions
      <3>2. CleanOf(r, m, srv[m], folder) /\ \A c \in Calls : m \notin calls'[c].ms
        BY <1>1, <3>1 DEF CleanInv
      <3>3. known'[m] = r.snap[m]
        BY <1>3, <2>1 DEF Renew
      <3> HIDE DEF r, new
      <3>4. Agreed(m, srv'[m], known'[m].flags, list', of', folder')
        BY <1>1, <1>3, <2>1, <3>1, <3>2, <3>3 DEF CleanOf, Agreed
      <3> QED
        BY <3>2, <3>4 DEF Row
    <2>2. ASSUME NEW m \in Mails, m \notin excused', m \notin new
          PROVE  Row(m)'
      <3> HIDE DEF r, new
      <3>1. Row(m) /\ (m \in list' <=> m \in list)
        BY <1>3, <2>2 DEF RowsInv
      <3>2. known'[m] = known[m]
        BY <1>3, <2>2 DEF Renew
      <3>3. ASSUME NEW c \in Calls, m \in calls[c].ms
            PROVE  Alike(calls'[c], calls[c])
        <4>1. calls[c].op \in Flags => calls[c].ms = {m}
          BY <3>1, <3>3 DEF Row, Awaited, Toggling
        <4>2. calls'[c] = calls[c]
          BY <1>3, <2>2, <4>1 DEF Renew
        <4> QED
          BY <4>2, AlikeSelf
      <3> QED
        BY <1>1, <3>1, <3>2, <3>3, RowKept
    <2> QED
      BY <1>2, <2>1, <2>2 DEF RowsInv
  <1>4. CASE UNCHANGED <<list, known, calls, excused>>
    BY <1>1, <1>2, <1>4, Undisturbed, AlikeSelf
  <1> QED
    BY <1>3, <1>4 DEF HearPoll

LEMMA pickAccountRows ==
    ASSUME KeyInv, TypeInv, RowsInv, CleanInv, NEW f \in Fetches, NEW a \in Accounts, pickAccount(f, a)
    PROVE  RowsInv' /\ CleanInv'
  <1>1. \A c \in Calls : Alike(calls'[c], calls[c])
    BY UnmountedAlike DEF pickAccount, TypeInv
  <1>2. \A c \in Calls : calls'[c].ms \subseteq calls[c].ms
    BY <1>1 DEF Alike
  <1> QED
    BY <1>1, <1>2, LoadsRows DEF pickAccount

LEMMA IdleRows ==
    ASSUME KeyInv, TypeInv, RowsInv, CleanInv, Filter \/ Expire \/ ClosePane \/ UNCHANGED vars
    PROVE  RowsInv' /\ CleanInv'
  <1>1. UNCHANGED <<folder, srv, known, list, of, fetches, excused>> /\ \A c \in Calls : Alike(calls'[c], calls[c])
    BY UnmountedAlike, AlikeSelf DEF Filter, Expire, ClosePane, vars, TypeInv
  <1>2. \A c \in Calls : calls'[c].ms = calls[c].ms
    BY <1>1 DEF Alike
  <1>3. CleanInv'
    BY <1>1, <1>2 DEF CleanInv
  <1> QED
    BY <1>1, <1>3, Undisturbed

-----------------------------------------------------------------------------
(* Rows: what the user does *)

Sent(op, ms, todo, boxes) == [NoCall EXCEPT !.op = op, !.ms = ms, !.todo = todo, !.alive = TRUE, !.boxes = boxes]

\* A call that finds its mails agreed leaves their rows to be awaited; the others
\* are excused, or left alone.
LEMMA SentRows ==
    ASSUME KeyInv, TypeInv, RowsInv, CleanInv, NEW c \in Calls, NEW op, NEW ms, NEW todo, NEW boxes, NEW cs,
           Send(c, op, ms, todo, boxes, cs), DOMAIN cs = Calls, \A d \in Calls : Alike(cs[d], calls[d]),
           UNCHANGED srv,
           \A m \in Mails : m \in ms \/ (known'[m].flags = known[m].flags /\ (m \in list' <=> m \in list)),
           \A m \in Mails \cap ms : Agreed(m, srv[m], known[m].flags, list, of, folder)
                             => Awaited(Sent(op, ms, todo, boxes), m, srv[m], known'[m].flags, list', of, folder)
    PROVE  RowsInv' /\ CleanInv'
  <1> DEFINE r == Sent(op, ms, todo, boxes)
  <1>1. /\ calls[c] = NoCall /\ calls' = [cs EXCEPT ![c] = r] /\ excused' = excused \cup (ms \cap Busy)
        /\ fetches' = [f \in Fetches |-> [fetches[f] EXCEPT !.clean = @ \ ms]] /\ UNCHANGED <<folder, of>>
    BY DEF Send, Sent
  <1>2. r.ms = ms
    BY DEF Sent, NoCall
  <1> HIDE DEF r
  <1>3. calls'[c] = r /\ \A d \in Calls : d # c => calls'[d] = cs[d] /\ calls'[d].ms = calls[d].ms
    BY <1>1 DEF Alike
  <1>4. calls[c].ms = {}
    BY <1>1 DEF NoCall
  <1>5. ASSUME NEW m \in Mails, m \notin excused', m \notin ms
        PROVE  Row(m)'
    <2>1. Row(m)
      BY <1>1, <1>5 DEF RowsInv
    <2>2. \A d \in Calls : /\ m \in calls'[d].ms <=> m \in calls[d].ms
                           /\ m \in calls[d].ms => Alike(calls'[d], calls[d])
      BY <1>2, <1>3, <1>4, <1>5
    <2>3. known'[m].flags = known[m].flags /\ (m \in list' <=> m \in list)
      BY <1>5
    <2> QED
      BY <1>1, <2>1, <2>2, <2>3, RowKept
  <1>6. ASSUME NEW m \in Mails, m \notin excused', m \in ms
        PROVE  Row(m)'
    <2>1. Row(m) /\ \A d \in Calls : m \notin calls[d].ms
      BY <1>1, <1>6, BusyIs DEF RowsInv
    <2>2. Agreed(m, srv[m], known[m].flags, list, of, folder)
      BY <2>1 DEF Row
    <2>3. Awaited(r, m, srv[m], known'[m].flags, list', of, folder)
      BY <1>6, <2>2 DEF r
    <2>4. \A d \in Calls : m \in calls'[d].ms => d = c
      BY <1>3, <2>1
    <2> QED
      BY <1>1, <1>2, <1>3, <1>6, <2>3, <2>4, RowStarted
  <1>7. CleanInv'
    <2>1. \A f \in Fetches : /\ fetches'[f].clean = fetches[f].clean \ ms
                             /\ fetches'[f].snap = fetches[f].snap /\ fetches'[f].key = fetches[f].key
      BY <1>1 DEF KeyInv, FetchesOK, FetchOK
    <2>2. \A f \in Fetches : \A m \in fetches'[f].clean : \A d \in Calls : m \notin calls'[d].ms
      BY <1>2, <1>3, <2>1 DEF CleanInv
    <2> QED
      BY <1>1, <2>1, <2>2, CleanKept
  <1> QED
    BY <1>5, <1>6, <1>7 DEF RowsInv

LEMMA CallsDomain == ASSUME TypeInv PROVE DOMAIN calls = Calls /\ \A d \in Calls : Alike(calls[d], calls[d])
  BY AlikeSelf DEF TypeInv, CallsFine

LEMMA ToggleRows ==
    ASSUME KeyInv, TypeInv, RowsInv, CleanInv, NEW c \in Calls, NEW m \in Mails, NEW field \in Flags, Toggle(c, m, field)
    PROVE  RowsInv' /\ CleanInv'
  <1> DEFINE todo == Put({m}, field, field \notin known[m].flags)
             r == Sent(field, {m}, todo, <<>>)
  <1>1. m \in list
    BY RowsListed DEF Toggle
  <1>2. Send(c, field, {m}, todo, <<>>, calls) /\ list' = list /\ UNCHANGED srv
    BY DEF Toggle, Send
  <1>3. known'[m].flags = Flipped(known[m].flags, field) /\ \A x \in Mails : x # m => known'[x] = known[x]
    BY DEF Toggle, Flag, Content, Flipped
  <1>4. \E v \in BOOLEAN : (v <=> field \in known'[m].flags) /\ todo \subseteq {<<m, field, v>>} /\ todo # {}
    <2>1. CASE field \in known[m].flags
      <3>1. todo = {<<m, field, FALSE>>} /\ ~ (field \in known'[m].flags)
        BY <1>3, <2>1 DEF Put, Flipped
      <3> QED
        BY <3>1
    <2>2. CASE field \notin known[m].flags
      <3>1. todo = {<<m, field, TRUE>>} /\ field \in known'[m].flags
        BY <1>3, <2>2 DEF Put, Flipped
      <3> QED
        BY <3>1
    <2> QED
      BY <2>1, <2>2
  <1> HIDE DEF todo
  <1>5. r.op = field /\ r.ms = {m} /\ r.todo = todo /\ ~r.failed /\ r.alive
    BY DEF Sent, NoCall
  <1> HIDE DEF r
  <1>6. ASSUME Agreed(m, srv[m], known[m].flags, list, of, folder)
        PROVE  Awaited(r, m, srv[m], known'[m].flags, list', of, folder)
    <2>1. FitsIn(folder, srv[m]) /\ known[m].flags = srv[m].flags
      BY <1>1, <1>6 DEF Agreed
    <2>2. Toggling(r, m, srv[m], known'[m].flags, list', folder)
      BY <1>1, <1>2, <1>3, <1>4, <1>5, <2>1 DEF Toggling, FitsIn
    <2> QED
      BY <1>5, <2>2 DEF Awaited, Flags
  <1>7. \A x \in Mails : x \in {m} \/ (known'[x].flags = known[x].flags /\ (x \in list' <=> x \in list))
    BY <1>2, <1>3
  <1>8. \A x \in Mails \cap {m} : Agreed(x, srv[x], known[x].flags, list, of, folder)
                             => Awaited(r, x, srv[x], known'[x].flags, list', of, folder)
    BY <1>6
  <1> QED
    BY <1>2, <1>7, <1>8, CallsDomain, SentRows DEF r

LEMMA BulkFlagRows ==
    ASSUME KeyInv, TypeInv, RowsInv, CleanInv, NEW c \in Calls, NEW ms, ms \subseteq list, NEW field \in Flags, NEW v \in BOOLEAN,
           field = "starred" => v, BulkFlag(c, ms, field, v)
    PROVE  RowsInv' /\ CleanInv'
  <1> DEFINE todo == Put(ms, field, v)
             r == Sent("bulk", ms, todo, <<>>)
  <1>1. Send(c, "bulk", ms, todo, <<>>, calls) /\ list' = list /\ UNCHANGED srv
    BY DEF BulkFlag, Send
  <1>2. r.op = "bulk" /\ r.ms = ms /\ r.todo = todo
    BY DEF Sent, NoCall
  <1>3. (\A p \in todo : \E x \in ms : p = <<x, field, v>>) /\ \A x \in ms : <<x, field, v>> \in todo
    BY DEF Put
  <1>4. \A x \in Mails : /\ x \notin ms => known'[x] = known[x]
                         /\ x \in ms => known'[x].flags = IF v THEN known[x].flags \cup {field} ELSE known[x].flags \ {field}
    BY DEF BulkFlag, Flag, Content
  <1> HIDE DEF todo, r
  <1>5. ASSUME NEW x \in Mails \cap ms, Agreed(x, srv[x], known[x].flags, list, of, folder)
        PROVE  Awaited(r, x, srv[x], known'[x].flags, list', of, folder)
    <2>1. x \in list /\ FitsIn(folder, srv[x]) /\ known[x].flags = srv[x].flags
      BY <1>5 DEF Agreed
    <2>2. \A p \in todo : known'[x].flags = Assigned(srv[x].flags, p)
      BY <1>3, <1>4, <1>5, <2>1 DEF Assigned
    <2>3. <<x, field, v>> \in todo /\ <<x, field, v>>[1] = x
      BY <1>3, <1>5
    <2>4. \A p, q \in todo : p[1] = q[1] => p = q
      BY <1>3
    <2>5. \A p \in todo : p[2] \in Flags /\ (p[2] = "starred" => p[3])
      BY <1>3
    <2>6. Flagging(r, x, srv[x], known'[x].flags, list', folder)
      BY <1>1, <1>2, <2>1, <2>2, <2>3, <2>4, <2>5 DEF Flagging
    <2> QED
      BY <1>2, <2>6 DEF Awaited, Flags
  <1>6. \A x \in Mails : x \in ms \/ (known'[x].flags = known[x].flags /\ (x \in list' <=> x \in list))
    BY <1>1, <1>4
  <1> QED
    BY <1>1, <1>5, <1>6, CallsDomain, SentRows DEF r

\* Rows go with the call that moves them.
LEMMA MoveRows ==
    ASSUME KeyInv, TypeInv, RowsInv, CleanInv, NEW c \in Calls, NEW op \in {"trash", "bulkTrash"}, NEW ms, NEW boxes, NEW cs,
           DOMAIN cs = Calls, \A d \in Calls : Alike(cs[d], calls[d]),
           Send(c, op, ms, Put(ms, "box", Target), boxes, cs), list' = list \ ms, UNCHANGED known
    PROVE  RowsInv' /\ CleanInv'
  <1> DEFINE todo == Put(ms, "box", Target)
             r == Sent(op, ms, todo, boxes)
  <1>1. Send(c, op, ms, todo, boxes, cs) /\ UNCHANGED srv
    BY DEF Send
  <1>2. r.op = op /\ r.ms = ms /\ r.todo = todo
    BY DEF Sent, NoCall
  <1>3. (\A p \in todo : \E x \in ms : p = <<x, "box", Away(folder)>>) /\ \A x \in ms : <<x, "box", Away(folder)>> \in todo
    BY AwayIs DEF Put
  <1> HIDE DEF todo, r
  <1>4. ASSUME NEW x \in Mails \cap ms
        PROVE  Awaited(r, x, srv[x], known'[x].flags, list', of, folder)
    <2>1. <<x, "box", Away(folder)>> \in todo /\ <<x, "box", Away(folder)>>[1] = x
      BY <1>3, <1>4
    <2>2. \A p \in todo : p[2] = "box" /\ p[3] = Away(folder)
      BY <1>3
    <2>3. x \notin list'
      BY <1>4
    <2>4. Moving(r, x, srv[x], list', folder)
      BY <1>2, <2>1, <2>2, <2>3 DEF Moving
    <2> QED
      BY <1>2, <2>4 DEF Awaited, Flags
  <1>5. \A x \in Mails : x \in ms \/ (known'[x].flags = known[x].flags /\ (x \in list' <=> x \in list))
    OBVIOUS
  <1> QED
    BY <1>1, <1>4, <1>5, SentRows DEF r

LEMMA TrashRows ==
    ASSUME KeyInv, TypeInv, RowsInv, CleanInv, NEW c \in Calls, NEW m \in Mails, Trash(c, m)
    PROVE  RowsInv' /\ CleanInv'
  <1> DEFINE ms == threadInfo(m)
             cs == IF pane.selected \in ms THEN Unmounted(calls) ELSE calls
  <1>1. \A d \in Calls : Alike(cs[d], calls[d])
    BY UnmountedAlike, CallsDomain DEF TypeInv
  <1>2. DOMAIN cs = Calls
    BY CallsDomain DEF Unmounted
  <1>3. Send(c, "trash", ms, Put(ms, "box", Target), Boxes(ms), cs) /\ list' = list \ ms /\ UNCHANGED known
    BY DEF Trash
  <1> HIDE DEF ms, cs
  <1> QED
    BY <1>1, <1>2, <1>3, MoveRows

LEMMA BulkTrashRows ==
    ASSUME KeyInv, TypeInv, RowsInv, CleanInv, NEW c \in Calls, NEW ms, BulkTrash(c, ms)
    PROVE  RowsInv' /\ CleanInv'
  BY MoveRows, CallsDomain DEF BulkTrash

LEMMA OpenRows ==
    ASSUME KeyInv, TypeInv, RowsInv, CleanInv, NEW c \in Calls, NEW m \in Mails, Open(c, m)
    PROVE  RowsInv' /\ CleanInv'
  <1> DEFINE ms == {x \in Mails : SameThread(m, x)}
             todo == {<<m, "thread", TRUE>>}
             r == Sent("open", ms, todo, <<>>)
  <1>1. list' = list /\ UNCHANGED <<srv, folder, of>>
    BY DEF Open, Send
  <1>2. \A x \in Mails : /\ x \in threadInfo(m) => known'[x].flags = known[x].flags \cup {"read"}
                         /\ x \notin threadInfo(m) => known'[x] = known[x]
    BY DEF Open, Flag, Content
  <1>3. CASE pane.selected = m
    <2>1. /\ UNCHANGED <<calls, fetches>>
          /\ excused' = excused \cup {x \in threadInfo(m) : "read" \notin known[x].flags}
      BY <1>3 DEF Open
    <2>2. CleanInv'
      BY <1>1, <2>1 DEF CleanInv
    <2>3. ASSUME NEW x \in Mails, x \notin excused'
          PROVE  Row(x)'
      <3>1. Row(x) /\ known'[x].flags = known[x].flags
        BY <1>2, <2>1, <2>3 DEF RowsInv
      <3> QED
        BY <1>1, <2>1, <3>1, RowKept, AlikeSelf
    <2> QED
      BY <2>2, <2>3 DEF RowsInv
  <1>4. CASE pane.selected # m
    <2>1. Send(c, "open", ms, todo, <<>>, calls)
      BY <1>4 DEF Open
    <2>2. r.op = "open" /\ r.todo = todo
      BY DEF Sent, NoCall
    <2>3. \A x \in ms : x \in list /\ x \notin threadInfo(m) => "read" \in known[x].flags
      BY DEF threadInfo, visible
    <2>4. threadInfo(m) \subseteq list /\ \A x \in threadInfo(m) : SameThread(m, x)
      BY RowsListed DEF threadInfo
    <2>5. todo # {} /\ todo \subseteq {<<m, "thread", TRUE>>}
      OBVIOUS
    <2> HIDE DEF todo, r
    <2>6. ASSUME NEW x \in Mails \cap ms, Agreed(x, srv[x], known[x].flags, list, of, folder)
          PROVE  Awaited(r, x, srv[x], known'[x].flags, list', of, folder)
      <3>1. x \in list => known'[x].flags = srv[x].flags \cup {"read"}
        <4>1. SUFFICES ASSUME x \in list PROVE known'[x].flags = srv[x].flags \cup {"read"}
          OBVIOUS
        <4>2. known[x].flags = srv[x].flags
          BY <2>6, <4>1 DEF Agreed
        <4>3. CASE x \in threadInfo(m)
          BY <1>2, <4>2, <4>3
        <4>4. CASE x \notin threadInfo(m)
          <5>1. "read" \in known[x].flags /\ known'[x] = known[x]
            BY <1>2, <2>3, <2>6, <4>1, <4>4
          <5> QED
            BY <4>2, <5>1
        <4> QED
          BY <4>3, <4>4
      <3>2. SameThread(m, x)
        BY <2>6
      <3>3. Opening(r, x, srv[x], known'[x].flags, list', of, folder)
        BY <1>1, <2>2, <2>5, <2>6, <3>1, <3>2 DEF Opening, Agreed
      <3> QED
        BY <2>2, <3>3 DEF Awaited, Flags
    <2>7. \A x \in Mails : x \in ms \/ (known'[x].flags = known[x].flags /\ (x \in list' <=> x \in list))
      BY <1>1, <1>2, <2>4
    <2> QED
      BY <1>1, <2>1, <2>6, <2>7, CallsDomain, SentRows DEF r
  <1> QED
    BY <1>3, <1>4

\* The calls of the pane and the toast end with their mails excused.
LEMMA OtherRows ==
    ASSUME KeyInv, TypeInv, RowsInv, CleanInv, NEW c \in Calls, NEW op \in {"rest", "undo", "changed", "close", "closeTrash"},
           NEW ms, NEW todo, NEW boxes, Send(c, op, ms, todo, boxes, calls), UNCHANGED <<list, known>>
    PROVE  RowsInv' /\ CleanInv'
  <1> DEFINE r == Sent(op, ms, todo, boxes)
  <1>1. r.op = op
    BY DEF Sent, NoCall
  <1> HIDE DEF r
  <1>2. \A m \in Mails \cap ms : Awaited(r, m, srv[m], known'[m].flags, list', of, folder)
    BY <1>1 DEF Awaited, Flags
  <1>3. UNCHANGED srv
    BY DEF Send
  <1> QED
    BY <1>2, <1>3, CallsDomain, SentRows DEF r

LEMMA UndoRows == ASSUME KeyInv, TypeInv, RowsInv, CleanInv, NEW c \in Calls, Undo(c) PROVE RowsInv' /\ CleanInv'
  <1> DEFINE op == IF offer.reader THEN "rest" ELSE "undo"
  <1>1. op \in {"rest", "undo", "changed", "close", "closeTrash"}
    OBVIOUS
  <1>2. /\ UNCHANGED <<list, known>>
        /\ Send(c, op, DOMAIN offer.boxes, {<<m, "box", offer.boxes[m]>> : m \in DOMAIN offer.boxes}, <<>>, calls)
    BY DEF Undo
  <1> HIDE DEF op
  <1> QED
    BY <1>1, <1>2, OtherRows

LEMMA ActingRows ==
    ASSUME KeyInv, TypeInv, RowsInv, CleanInv, NEW c \in Calls, Acting(c)
    PROVE  RowsInv' /\ CleanInv'
  <1>1. ASSUME NEW v, ConversationStar(c, v)
        PROVE  RowsInv' /\ CleanInv'
    BY <1>1, OtherRows DEF ConversationStar
  <1>2. CASE ConversationUnread(c) \/ ConversationTrash(c)
    BY <1>2, OtherRows DEF ConversationUnread, ConversationTrash
  <1>3. ASSUME NEW ms \in SUBSET list, BulkFlag(c, ms, "starred", TRUE) \/ \E v \in BOOLEAN : BulkFlag(c, ms, "read", v)
        PROVE  RowsInv' /\ CleanInv'
    BY <1>3, BulkFlagRows DEF Flags
  <1> QED
    BY <1>1, <1>2, <1>3, ToggleRows, TrashRows, OpenRows, BulkTrashRows, UndoRows DEF Acting

-----------------------------------------------------------------------------
(* Rows: what is answered *)

\* A call is over: its mails agree, or are excused.
LEMMA FinishedRows ==
    ASSUME KeyInv, TypeInv, RowsInv, CleanInv, NEW c \in Calls, calls' = [calls EXCEPT ![c] = NoCall],
           excused \subseteq excused', UNCHANGED <<folder, srv, of, fetches>>,
           \A m \in Mails : m \in calls[c].ms \/ (known'[m].flags = known[m].flags /\ (m \in list' <=> m \in list)),
           \A m \in Mails \ excused' : m \in calls[c].ms /\ Awaited(calls[c], m, srv[m], known[m].flags, list, of, folder)
                                         => Agreed(m, srv[m], known'[m].flags, list', of, folder)
    PROVE  RowsInv' /\ CleanInv'
  <1>1. calls'[c].ms = {} /\ \A d \in Calls : d # c => calls'[d] = calls[d]
    BY CallsDomain DEF NoCall
  <1>2. ASSUME NEW m \in Mails, m \notin excused'
        PROVE  Row(m)'
    <2>1. Row(m)
      BY <1>2 DEF RowsInv
    <2>2. CASE m \in calls[c].ms
      <3>1. Agreed(m, srv[m], known'[m].flags, list', of, folder)
        BY <1>2, <2>1, <2>2 DEF Row
      <3>2. \A d \in Calls : m \in calls'[d].ms => d # c /\ m \in calls[d].ms
        BY <1>1
      <3> QED
        BY <2>1, <2>2, <3>1, <3>2, RowFinished
    <2>3. CASE m \notin calls[c].ms
      <3>1. \A d \in Calls : /\ m \in calls'[d].ms <=> m \in calls[d].ms
                             /\ m \in calls[d].ms => Alike(calls'[d], calls[d])
        BY <1>1, <2>3, AlikeSelf
      <3>2. known'[m].flags = known[m].flags /\ (m \in list' <=> m \in list)
        BY <1>2, <2>3
      <3> QED
        BY <2>1, <3>1, <3>2, RowKept
    <2> QED
      BY <2>2, <2>3
  <1>3. CleanInv'
    <2>1. \A f \in Fetches : \A m \in fetches'[f].clean : \A d \in Calls : m \notin calls'[d].ms
      BY <1>1 DEF CleanInv
    <2> QED
      BY <2>1, CleanKept
  <1> QED
    BY <1>2, <1>3 DEF RowsInv

LEMMA HearToggleRows ==
    ASSUME KeyInv, TypeInv, RowsInv, CleanInv, NEW c \in Calls, HearToggle(c)
    PROVE  RowsInv' /\ CleanInv'
  <1> DEFINE call == calls[c]
             n == CHOOSE x \in call.ms : TRUE
             field == call.op
  <1>1. /\ field \in Flags /\ call.todo = {} /\ calls' = [calls EXCEPT ![c] = NoCall]
        /\ UNCHANGED <<folder, srv, of, fetches, excused>>
    BY DEF HearToggle
  <1>2. n \in call.ms
    BY <1>1 DEF TypeInv, CallsFine, CallOK
  <1>3. list' = IF field = "starred" /\ folder = "starred" /\ call.alive /\ "starred" \notin known'[n].flags
                THEN list \ {n} ELSE list
    BY DEF HearToggle
  <1>4. /\ \A m \in Mails : m # n => known'[m] = known[m]
        /\ n \in Mails => known'[n].flags = IF restored(call) THEN Flipped(known[n].flags, field) ELSE known[n].flags
    BY DEF HearToggle, Flag, Content, Flipped
  <1> HIDE DEF call, n, field
  <1>5. ASSUME NEW m \in Mails, m \in call.ms, Awaited(call, m, srv[m], known[m].flags, list, of, folder)
        PROVE  Agreed(m, srv[m], known'[m].flags, list', of, folder)
    <2>1. Toggling(call, m, srv[m], known[m].flags, list, folder)
      BY <1>1, <1>5 DEF Awaited, field
    <2>2. m = n /\ call.alive /\ m \in list
      BY <1>2, <2>1 DEF Toggling
    <2>3. CASE call.failed
      <3>1. FitsIn(folder, srv[m]) /\ known[m].flags = Flipped(srv[m].flags, field)
        BY <2>1, <2>3 DEF Toggling, field
      <3>2. known'[m].flags = srv[m].flags
        BY <1>4, <2>2, <2>3, <3>1 DEF restored, Flipped
      <3>3. list' = list
        BY <1>3, <2>2, <3>1, <3>2 DEF FitsIn
      <3> QED
        BY <2>2, <3>1, <3>2, <3>3 DEF Agreed
    <2>4. CASE ~call.failed
      <3>1. known'[m].flags = srv[m].flags
        BY <1>1, <1>4, <2>1, <2>2, <2>4 DEF restored, Toggling
      <3>2. CASE list' = list \ {n}
        <4>1. ~FitsIn(folder, srv[m]) \/ list' = list
          BY <1>3, <2>2, <3>1 DEF FitsIn
        <4> QED
          BY <2>2, <3>2, <4>1 DEF Agreed
      <3>3. CASE list' = list /\ ~ (field = "starred" /\ folder = "starred" /\ "starred" \notin srv[m].flags)
        <4>1. FitsIn(folder, srv[m])
          BY <1>1, <2>1, <2>4, <3>3 DEF Toggling, FitsIn, field
        <4> QED
          BY <2>2, <3>1, <3>3, <4>1 DEF Agreed
      <3> QED
        BY <1>3, <2>2, <3>1, <3>2, <3>3
    <2> QED
      BY <2>3, <2>4
  <1>6. \A m \in Mails : m \in call.ms \/ (known'[m].flags = known[m].flags /\ (m \in list' <=> m \in list))
    BY <1>2, <1>3, <1>4
  <1> QED
    BY <1>1, <1>5, <1>6, FinishedRows DEF call

LEMMA HearMovedRows ==
    ASSUME KeyInv, TypeInv, RowsInv, CleanInv, NEW c \in Calls, HearMoved(c)
    PROVE  RowsInv' /\ CleanInv'
  <1> DEFINE call == calls[c]
  <1>1. /\ call.todo = {} /\ call.op \in {"trash", "bulkTrash"} /\ calls' = [calls EXCEPT ![c] = NoCall]
        /\ UNCHANGED <<folder, srv, of, fetches, list, known>>
        /\ excused' = IF call.failed THEN excused \cup call.ms ELSE excused
    BY DEF HearMoved, Uncertain
  <1> HIDE DEF call
  <1>2. ASSUME NEW m \in Mails, m \notin excused', m \in call.ms, Awaited(call, m, srv[m], known[m].flags, list, of, folder)
        PROVE  Agreed(m, srv[m], known'[m].flags, list', of, folder)
    <2>1. Moving(call, m, srv[m], list, folder)
      BY <1>1, <1>2 DEF Awaited
    <2> QED
      BY <1>1, <2>1 DEF Moving, Agreed, FitsIn, Away
  <1> QED
    BY <1>1, <1>2, FinishedRows DEF call

LEMMA HearRestRows ==
    ASSUME KeyInv, TypeInv, RowsInv, CleanInv, NEW c \in Calls, HearRest(c)
    PROVE  RowsInv' /\ CleanInv'
  <1> DEFINE call == calls[c]
  <1>1. /\ call.todo = {} /\ call.op \in {"rest", "bulk"} /\ calls' = [calls EXCEPT ![c] = NoCall]
        /\ UNCHANGED <<folder, srv, of, fetches, list, known>>
        /\ excused' = IF call.op = "rest" \/ call.failed THEN excused \cup call.ms ELSE excused
    BY DEF HearRest, Uncertain
  <1> HIDE DEF call
  <1>2. ASSUME NEW m \in Mails, m \notin excused', m \in call.ms, Awaited(call, m, srv[m], known[m].flags, list, of, folder)
        PROVE  Agreed(m, srv[m], known'[m].flags, list', of, folder)
    <2>1. Flagging(call, m, srv[m], known[m].flags, list, folder)
      BY <1>1, <1>2 DEF Awaited
    <2> QED
      BY <1>1, <2>1 DEF Flagging, Agreed
  <1> QED
    BY <1>1, <1>2, FinishedRows DEF call

LEMMA HearThreadRows ==
    ASSUME KeyInv, TypeInv, RowsInv, CleanInv, NEW c \in Calls, HearThread(c)
    PROVE  RowsInv' /\ CleanInv'
  <1> DEFINE call == calls[c]
  <1>1. /\ call.todo = {} /\ calls' = [calls EXCEPT ![c] = NoCall]
        /\ call.op = "reopen" \/ (call.op = "open" /\ ~call.failed)
        /\ UNCHANGED <<folder, srv, of, fetches, list, known>>
        /\ excused' = IF call.op = "reopen" \/ folder = "trash" THEN excused \cup call.ms ELSE excused
    BY DEF HearThread
  <1> HIDE DEF call
  <1>2. ASSUME NEW m \in Mails, m \notin excused', m \in call.ms, Awaited(call, m, srv[m], known[m].flags, list, of, folder)
        PROVE  Agreed(m, srv[m], known'[m].flags, list', of, folder)
    <2>1. Opening(call, m, srv[m], known[m].flags, list, of, folder)
      BY <1>1, <1>2 DEF Awaited
    <2> QED
      BY <1>1, <2>1 DEF Opening, Agreed
  <1> QED
    BY <1>1, <1>2, FinishedRows DEF call

LEMMA HearNoThreadRows ==
    ASSUME KeyInv, TypeInv, RowsInv, CleanInv, NEW c \in Calls, HearNoThread(c)
    PROVE  RowsInv' /\ CleanInv'
  <1>1. /\ calls'[c].ms = {} /\ \A d \in Calls : d # c => calls'[d] = calls[d]
        /\ excused' = excused \cup calls[c].ms /\ UNCHANGED <<folder, srv, of, fetches, list, known>>
    BY DEF HearNoThread, TypeInv, CallsFine, CallOK
  <1>2. ASSUME NEW m \in Mails, m \notin excused'
        PROVE  Row(m)'
    <2>1. Row(m) /\ m \notin calls[c].ms
      BY <1>1, <1>2 DEF RowsInv
    <2>2. \A d \in Calls : /\ m \in calls'[d].ms <=> m \in calls[d].ms
                           /\ m \in calls[d].ms => Alike(calls'[d], calls[d])
      BY <1>1, <2>1, AlikeSelf
    <2> QED
      BY <1>1, <2>1, <2>2, RowKept
  <1>3. CleanInv'
    <2>1. \A f \in Fetches : \A m \in fetches'[f].clean : \A d \in Calls : m \notin calls'[d].ms
      BY <1>1 DEF CleanInv
    <2> QED
      BY <1>1, <2>1, CleanKept
  <1> QED
    BY <1>2, <1>3 DEF RowsInv

LEMMA RetryRows ==
    ASSUME KeyInv, TypeInv, RowsInv, CleanInv, NEW c \in Calls, RetryThread(c)
    PROVE  RowsInv' /\ CleanInv'
  <1> DEFINE ms == {x \in Mails : SameThread(askedRow(calls[c]), x)}
  <1>1. calls[c].op = "again" /\ calls[c].ms = {} /\ calls'[c].op = "reopen" /\ calls'[c].ms = ms
    BY DEF RetryThread, TypeInv, CallsFine, CallOK
  <1>2. \A d \in Calls : d # c => calls'[d] = calls[d]
    BY DEF RetryThread, TypeInv, CallsFine
  <1>3. /\ excused' = excused \cup (ms \cap Busy) /\ UNCHANGED <<folder, srv, of, list, known>>
        /\ fetches' = [f \in Fetches |-> [fetches[f] EXCEPT !.clean = @ \ ms]]
    BY DEF RetryThread
  <1> HIDE DEF ms
  <1>4. ASSUME NEW m \in Mails, m \notin excused'
        PROVE  Row(m)'
    <2>1. Row(m)
      BY <1>3, <1>4 DEF RowsInv
    <2>2. CASE m \in ms
      <3>1. \A d \in Calls : m \in calls'[d].ms => d = c
        BY <1>2, <1>3, <1>4, <2>2, BusyIs
      <3>2. Awaited(calls'[c], m, srv'[m], known'[m].flags, list', of', folder')
        BY <1>1 DEF Awaited, Flags
      <3> QED
        BY <1>1, <2>2, <3>1, <3>2, RowStarted
    <2>3. CASE m \notin ms
      <3>1. \A d \in Calls : /\ m \in calls'[d].ms <=> m \in calls[d].ms
                             /\ m \in calls[d].ms => Alike(calls'[d], calls[d])
        BY <1>1, <1>2, <2>3, AlikeSelf
      <3> QED
        BY <1>3, <2>1, <3>1, RowKept
    <2> QED
      BY <2>2, <2>3
  <1>5. CleanInv'
    <2>1. \A f \in Fetches : /\ fetches'[f].clean = fetches[f].clean \ ms
                             /\ fetches'[f].snap = fetches[f].snap /\ fetches'[f].key = fetches[f].key
      BY <1>3 DEF KeyInv, FetchesOK, FetchOK
    <2>2. \A f \in Fetches : \A m \in fetches'[f].clean : \A d \in Calls : m \notin calls'[d].ms
      BY <1>1, <1>2, <2>1 DEF CleanInv
    <2> QED
      BY <1>3, <2>1, <2>2, CleanKept
  <1> QED
    BY <1>4, <1>5 DEF RowsInv

LEMMA HearNotMovedRows ==
    ASSUME KeyInv, TypeInv, RowsInv, CleanInv, NEW c \in Calls, NEW f \in Fetches, HearNotMoved(c, f)
    PROVE  RowsInv' /\ CleanInv'
  <1> DEFINE ex == Uncertain(calls[c])
  <1>1. /\ Load(f, active, fetches, list, ex) /\ UNCHANGED <<folder, srv, known>>
        /\ calls' = [calls EXCEPT ![c].op = "rest"]
    BY DEF HearNotMoved
  <1>2. ex = excused \cup calls[c].ms
    BY DEF HearNotMoved, Uncertain
  <1> HIDE DEF ex
  <1>3. calls'[c].ms = calls[c].ms /\ \A d \in Calls : d # c => calls'[d] = calls[d]
    BY <1>1 DEF TypeInv, CallsFine, CallOK
  <1>4. \A d \in Calls : /\ calls'[d].ms \subseteq calls[d].ms
                         /\ \A m \in calls[d].ms : m \in ex \/ Alike(calls'[d], calls[d])
    BY <1>2, <1>3, AlikeSelf
  <1> QED
    BY <1>1, <1>2, <1>4, LoadsRows

LEMMA HearUndoneRows ==
    ASSUME KeyInv, TypeInv, RowsInv, CleanInv, NEW c \in Calls, NEW f \in Fetches, HearUndone(c, f)
    PROVE  RowsInv' /\ CleanInv'
  <1> DEFINE ex == excused \cup calls[c].ms
  <1>1. /\ Load(f, active, fetches, list, ex) /\ UNCHANGED <<folder, srv, known>>
        /\ calls' = [calls EXCEPT ![c] = NoCall]
    BY DEF HearUndone
  <1>2. calls'[c].ms = {} /\ \A d \in Calls : d # c => calls'[d] = calls[d]
    BY <1>1, CallsDomain DEF NoCall
  <1>3. \A d \in Calls : /\ calls'[d].ms \subseteq calls[d].ms
                         /\ \A m \in calls[d].ms : m \in ex \/ Alike(calls'[d], calls[d])
    BY <1>2, AlikeSelf
  <1> HIDE DEF ex
  <1>4. excused \subseteq ex
    BY DEF ex
  <1> QED
    BY <1>1, <1>3, <1>4, LoadsRows

LEMMA HearReaderRows ==
    ASSUME KeyInv, TypeInv, RowsInv, CleanInv, NEW c \in Calls, NEW f \in Fetches, HearReader(c, f)
    PROVE  RowsInv' /\ CleanInv'
  <1> DEFINE over == [calls EXCEPT ![c] = NoCall]
             ex == excused \cup calls[c].ms
  <1>1. calls' = over \/ calls' = Unmounted(over)
    BY DEF HearReader
  <1>2. UNCHANGED <<folder, srv, known>>
    BY DEF HearReader
  <1>3. CASE calls[c].alive
    <2>1. Load(f, active, fetches, list, ex)
      BY <1>3 DEF HearReader
    <2>2. CallsFine(over, Arrived)
      BY CallOver
    <2>3. over[c].ms = {} /\ \A d \in Calls : d # c => over[d] = calls[d]
      BY CallsDomain DEF NoCall
    <2> HIDE DEF over
    <2>4. \A d \in Calls : Alike(calls'[d], over[d])
      BY <1>1, <2>2, AlikeSelf, UnmountedAlike
    <2>5. \A d \in Calls : /\ calls'[d].ms \subseteq calls[d].ms
                           /\ \A m \in calls[d].ms : m \in ex \/ Alike(calls'[d], calls[d])
      BY <2>3, <2>4 DEF Alike
    <2> HIDE DEF ex
    <2>6. excused \subseteq ex
      BY DEF ex
    <2> QED
      BY <1>2, <2>1, <2>5, <2>6, LoadsRows
  <1>4. CASE ~calls[c].alive
    <2>1. excused' = ex /\ UNCHANGED <<fetches, list, of>> /\ calls' = over
      BY <1>4 DEF HearReader
    <2> QED
      BY <1>2, <2>1, FinishedRows
  <1> QED
    BY <1>3, <1>4


\* What a change makes of a mail, s before it and s2 after it.
Made(p, m, s, s2) ==
    /\ p[2] = "box" /\ p[1] = m => s2.box = p[3] /\ s2.flags = s.flags
    /\ p[2] \in Flags /\ p[1] = m => s2.box = s.box /\ s2.flags = Assigned(s.flags, p)
    /\ p[2] = "thread" /\ SameThread(p[1], m) /\ s.box = "inbox" => s2.box = s.box /\ s2.flags = s.flags \cup {"read"}
    /\ p[2] = "thread" /\ SameThread(p[1], m) /\ s.box # "inbox" => s2 = s
    /\ p[2] # "thread" /\ p[1] # m => s2 = s
    /\ p[2] = "thread" /\ ~SameThread(p[1], m) => s2 = s

LEMMA AppliedIs == ASSUME NEW p, NEW m \in Mails PROVE Made(p, m, srv[m], Applied(p)[m])
  BY DEF Applied, Made, Content, Assigned, Flags

\* A call r of which the change p has been tried.
Tried(r, r2, p, ok) ==
    /\ r2.op = r.op /\ r2.ms = r.ms /\ r2.alive = r.alive
    /\ r2.todo = r.todo \ {p}
    /\ r2.failed <=> r.failed \/ ~ok

LEMMA TogglingTried ==
    ASSUME NEW r, NEW r2, NEW p \in r.todo, NEW ok \in BOOLEAN, Tried(r, r2, p, ok),
           NEW m, NEW s, NEW s2, NEW k, NEW l, NEW fo, r.op \in Flags, Toggling(r, m, s, k, l, fo),
           IF ok THEN Made(p, m, s, s2) ELSE s2 = s
    PROVE  Toggling(r2, m, s2, k, l, fo)
  <1>1. PICK v \in BOOLEAN : (v <=> r.op \in k) /\ r.todo \subseteq {<<m, r.op, v>>}
    BY DEF Toggling
  <1>2. p = <<m, r.op, v>> /\ r2.todo = {}
    BY <1>1 DEF Tried
  <1>3. p[1] = m /\ p[2] = r.op /\ p[3] = v
    BY <1>2
  <1>4. ~r.failed /\ FitsIn(fo, s) /\ k = Flipped(s.flags, r.op)
    BY DEF Toggling
  <1>5. r2.ms = {m} /\ r2.alive /\ m \in l /\ r2.op = r.op /\ (r2.failed <=> ~ok)
    BY <1>4 DEF Tried, Toggling
  <1>6. \E w \in BOOLEAN : (w <=> r2.op \in k) /\ r2.todo \subseteq {<<m, r2.op, w>>}
    BY <1>1, <1>2, <1>5
  <1>7. CASE ok
    <2>1. s2.box = s.box /\ s2.flags = Assigned(s.flags, p)
      BY <1>3, <1>7 DEF Made
    <2>2. s2.flags = k
      BY <1>1, <1>3, <1>4, <2>1 DEF Assigned, Flipped
    <2>3. fo = "starred" /\ r.op # "starred" => "starred" \in s2.flags
      BY <1>3, <1>4, <2>1 DEF FitsIn, Assigned
    <2> QED
      BY <1>2, <1>4, <1>5, <1>6, <1>7, <2>1, <2>2, <2>3 DEF Toggling, FitsIn
  <1>8. CASE ~ok
    BY <1>2, <1>4, <1>5, <1>6, <1>8 DEF Toggling, FitsIn
  <1> QED
    BY <1>7, <1>8

LEMMA FlaggingTried ==
    ASSUME NEW r, NEW r2, NEW p \in r.todo, Tried(r, r2, p, TRUE),
           NEW m, NEW s, NEW s2, NEW k, NEW l, NEW fo, Flagging(r, m, s, k, l, fo), Made(p, m, s, s2)
    PROVE  Flagging(r2, m, s2, k, l, fo)
  <1>1. p[2] \in Flags /\ (p[2] = "starred" => p[3]) /\ p[2] # "thread"
    BY DEF Flagging, Flags
  <1>2. r2.todo = r.todo \ {p}
    BY DEF Tried
  <1>3. CASE p[1] = m
    <2>1. s2.box = s.box /\ s2.flags = Assigned(s.flags, p) /\ k = Assigned(s.flags, p)
      BY <1>1, <1>3 DEF Made, Flagging
    <2>2. \A q \in r2.todo : q[1] # m
      BY <1>2, <1>3 DEF Flagging
    <2>3. FitsIn(fo, s2)
      BY <1>1, <2>1 DEF Flagging, FitsIn, Assigned
    <2> QED
      BY <1>2, <2>1, <2>2, <2>3 DEF Flagging
  <1>4. CASE p[1] # m
    <2>1. s2 = s
      BY <1>1, <1>4 DEF Made
    <2> QED
      BY <1>2, <1>4, <2>1 DEF Flagging
  <1> QED
    BY <1>3, <1>4

LEMMA MovingTried ==
    ASSUME NEW r, NEW r2, NEW p \in r.todo, Tried(r, r2, p, TRUE),
           NEW m, NEW s, NEW s2, NEW l, NEW fo, Moving(r, m, s, l, fo), Made(p, m, s, s2)
    PROVE  Moving(r2, m, s2, l, fo)
  <1>1. p[2] = "box" /\ p[3] = Away(fo) /\ r2.todo = r.todo \ {p}
    BY DEF Moving, Tried
  <1>2. CASE p[1] = m
    <2>1. s2.box = Away(fo)
      BY <1>1, <1>2 DEF Made
    <2> QED
      BY <1>1, <2>1 DEF Moving
  <1>3. CASE p[1] # m
    <2>1. s2 = s
      BY <1>1, <1>3 DEF Made
    <2> QED
      BY <1>1, <1>3, <2>1 DEF Moving
  <1> QED
    BY <1>2, <1>3

LEMMA OpeningTried ==
    ASSUME NEW r, NEW r2, NEW p \in r.todo, Tried(r, r2, p, TRUE),
           NEW m, NEW s \in Contents \cup {NotYet}, NEW s2, NEW k, NEW l, NEW o, NEW fo, fo # "trash",
           Opening(r, m, s, k, l, o, fo), Made(p, m, s, s2)
    PROVE  Opening(r2, m, s2, k, l, o, fo)
  <1>1. PICK x : r.todo \subseteq {<<x, "thread", TRUE>>} /\ SameThread(x, m)
    BY DEF Opening
  <1>2. p = <<x, "thread", TRUE>> /\ r2.todo = {}
    BY <1>1 DEF Tried
  <1>3. p[1] = x /\ p[2] = "thread" /\ r.todo # {}
    BY <1>2
  <1>4. s.box \in {"inbox", "trash", "none"}
    BY DEF Contents, NotYet, Content
  <1>5. CASE s.box = "inbox"
    <2>1. s2.box = s.box /\ s2.flags = s.flags \cup {"read"}
      BY <1>1, <1>3, <1>5 DEF Made
    <2>2. FitsIn(fo, s2) <=> FitsIn(fo, s)
      BY <2>1 DEF FitsIn
    <2> QED
      BY <1>1, <1>2, <1>3, <2>1, <2>2 DEF Opening
  <1>6. CASE s.box # "inbox"
    <2>1. s2 = s /\ ~FitsIn(fo, s)
      BY <1>1, <1>3, <1>4, <1>6 DEF Made, FitsIn
    <2> QED
      BY <1>1, <1>2, <2>1 DEF Opening
  <1> QED
    BY <1>5, <1>6

\* A change that is made and answered, or neither made nor answered.
LEMMA AwaitedTried ==
    ASSUME NEW r, NEW r2, NEW p \in r.todo, NEW ok \in BOOLEAN, Tried(r, r2, p, ok),
           NEW m, NEW s \in Contents \cup {NotYet}, NEW s2, NEW k, NEW l, NEW o, NEW fo,
           Awaited(r, m, s, k, l, o, fo), IF ok THEN Made(p, m, s, s2) ELSE s2 = s
    PROVE  Awaited(r2, m, s2, k, l, o, fo)
  <1>1. r2.op = r.op /\ (~r2.failed => ok /\ ~r.failed)
    BY DEF Tried
  <1>2. r2.op \in Flags => Toggling(r2, m, s2, k, l, fo)
    BY <1>1, TogglingTried DEF Awaited
  <1>3. ASSUME ~r2.failed
        PROVE  Tried(r, r2, p, TRUE) /\ Made(p, m, s, s2) /\ ~r.failed
    BY <1>1, <1>3 DEF Tried
  <1>4. r2.op = "bulk" /\ ~r2.failed => Flagging(r2, m, s2, k, l, fo)
    BY <1>1, <1>3, FlaggingTried DEF Awaited
  <1>5. r2.op \in {"trash", "bulkTrash"} /\ ~r2.failed => Moving(r2, m, s2, l, fo)
    BY <1>1, <1>3, MovingTried DEF Awaited
  <1>6. r2.op = "open" /\ ~r2.failed /\ fo # "trash" => Opening(r2, m, s2, k, l, o, fo)
    BY <1>1, <1>3, OpeningTried DEF Awaited
  <1> QED
    BY <1>2, <1>4, <1>5, <1>6 DEF Awaited

LEMMA ServeCallRows ==
    ASSUME KeyInv, TypeInv, RowsInv, CleanInv, NEW c \in Calls, NEW p \in calls[c].todo, NEW done \in BOOLEAN,
           NEW ok \in BOOLEAN, ServeCall(c, p, done, ok)
    PROVE  RowsInv' /\ CleanInv'
  <1>1. UNCHANGED <<folder, list, known, fetches, of>> /\ (ok => done)
    BY DEF ServeCall
  <1>2. CallOK(calls[c], Arrived) /\ DOMAIN calls = Calls
    BY DEF TypeInv, CallsFine
  <1>3. calls'[c].ms = calls[c].ms /\ Tried(calls[c], calls'[c], p, ok)
    BY <1>2 DEF ServeCall, CallOK, Tried
  <1>4. \A d \in Calls : d # c => calls'[d] = calls[d]
    BY <1>2 DEF ServeCall
  <1>5. ASSUME NEW m \in Mails, m \notin calls[c].ms
        PROVE  srv'[m] = srv[m]
    <2>1. p[1] # m /\ (p[2] = "thread" => ~SameThread(p[1], m))
      BY <1>2, <1>5 DEF CallOK
    <2>2. Applied(p)[m] = srv[m]
      BY <2>1, AppliedIs DEF Made
    <2> QED
      BY <2>2 DEF ServeCall
  <1>6. CleanInv'
    <2>1. \A f \in Fetches : fetches[f].clean \subseteq Mails
      BY DEF TypeInv, SnapsOK, SnapOK
    <2>2. \A f \in Fetches : \A m \in fetches'[f].clean : srv'[m] = srv[m] /\ \A d \in Calls : m \notin calls'[d].ms
      BY <1>1, <1>3, <1>4, <1>5, <2>1 DEF CleanInv
    <2> QED
      BY <1>1, <2>2, CleanKept
  <1>7. ASSUME NEW m \in Mails, m \notin excused', m \notin calls[c].ms
        PROVE  Row(m)'
    <2>1. Row(m)
      BY <1>7 DEF RowsInv, ServeCall
    <2>2. \A d \in Calls : /\ m \in calls'[d].ms <=> m \in calls[d].ms
                           /\ m \in calls[d].ms => Alike(calls'[d], calls[d])
      BY <1>3, <1>4, <1>7, AlikeSelf
    <2>3. srv'[m] = srv[m]
      BY <1>5, <1>7
    <2> QED
      BY <1>1, <2>1, <2>2, <2>3, RowKept
  <1>8. ASSUME NEW m \in Mails, m \notin excused', m \in calls[c].ms
        PROVE  Row(m)'
    <2>1. Row(m) /\ (done => ok)
      BY <1>8 DEF RowsInv, ServeCall
    <2>2. Awaited(calls[c], m, srv[m], known[m].flags, list, of, folder)
      BY <1>8, <2>1 DEF Row
    <2>3. IF ok THEN Made(p, m, srv[m], srv'[m]) ELSE srv'[m] = srv[m]
      BY <1>1, <2>1, AppliedIs DEF ServeCall
    <2>4. srv[m] \in Contents \cup {NotYet}
      BY DEF TypeInv, ContentsOK
    <2>5. Awaited(calls'[c], m, srv'[m], known[m].flags, list, of, folder)
      BY ONLY <1>3, <2>2, <2>3, <2>4, AwaitedTried, p \in calls[c].todo, ok \in BOOLEAN
    <2>6. \A d \in Calls : m \in calls'[d].ms => d = c
      BY <1>4, <1>8, <2>1 DEF Row
    <2> QED
      BY <1>1, <1>3, <1>8, <2>5, <2>6, RowStarted
  <1> QED
    BY <1>6, <1>7, <1>8 DEF RowsInv

LEMMA AnsweredRows ==
    ASSUME KeyInv, TypeInv, RowsInv, CleanInv, NEW c \in Calls, Answered(c)
    PROVE  RowsInv' /\ CleanInv'
  BY ServeCallRows, HearToggleRows, HearMovedRows, HearRestRows, HearThreadRows, HearNoThreadRows, RetryRows,
     HearNotMovedRows, HearUndoneRows, HearReaderRows DEF Answered

-----------------------------------------------------------------------------
(* Rows: the world, and the theorem *)

LEMMA ElsewhereRows ==
    ASSUME KeyInv, TypeInv, RowsInv, CleanInv, NEW x \in Mails, NEW content, Elsewhere(x, content)
    PROVE  RowsInv' /\ CleanInv'
  <1>1. UNCHANGED <<folder, list, known, calls, of>> /\ excused' = excused \cup {x} /\ \A m \in Mails \ {x} : srv'[m] = srv[m]
    BY DEF Elsewhere, TypeInv, ContentsOK
  <1>2. \A f \in Fetches : /\ fetches'[f].clean = fetches[f].clean \ {x} /\ fetches[f].clean \subseteq Mails
                           /\ fetches'[f].snap = fetches[f].snap /\ fetches'[f].key = fetches[f].key
    BY DEF Elsewhere, KeyInv, FetchesOK, FetchOK, TypeInv, SnapsOK, SnapOK
  <1>3. \A f \in Fetches : \A m \in fetches'[f].clean : srv'[m] = srv[m] /\ \A c \in Calls : m \notin calls'[c].ms
    BY <1>1, <1>2 DEF CleanInv
  <1>4. CleanInv'
    BY <1>1, <1>2, <1>3, CleanKept
  <1>5. ASSUME NEW m \in Mails, m \notin excused'
        PROVE  Row(m)'
    <2>1. Row(m) /\ srv'[m] = srv[m]
      BY <1>1, <1>5 DEF RowsInv
    <2> QED
      BY <1>1, <2>1, RowKept, AlikeSelf
  <1> QED
    BY <1>4, <1>5 DEF RowsInv

LEMMA NextRows ==
    ASSUME KeyInv, TypeInv, RowsInv, CleanInv, [Next]_vars
    PROVE  RowsInv' /\ CleanInv'
  <1>1. ASSUME NEW f \in Fetches, Refresh(f) \/ Poll(f) \/ ServeFetch(f) \/ HearLoad(f) \/ HearPoll(f)
        PROVE  RowsInv' /\ CleanInv'
    BY <1>1, RefreshRows, PollRows, ServeFetchRows, HearLoadRows, HearPollRows
  <1>2. ASSUME NEW c \in Calls, Acting(c) \/ Answered(c)
        PROVE  RowsInv' /\ CleanInv'
    BY <1>2, ActingRows, AnsweredRows
  <1> QED
    BY <1>1, <1>2, pickAccountRows, ElsewhereRows, IdleRows DEF Next

\* A row says what the server says: for a mail with no call under way, that has
\* not changed elsewhere and about which nothing went wrong since the list was
\* loaded, there is a row exactly when the folder has it, with the server's flags.
THEOREM RowsAreRight == Spec => []RowsAgree
  <1>1. RowsInv => RowsAgree
    <2> SUFFICES ASSUME RowsInv, NEW m \in Mails \ (excused \cup Busy)
                 PROVE  /\ m \in list => InFolder(srv[m]) /\ known[m].flags = srv[m].flags
                        /\ InFolder(srv[m]) /\ AccountOf[m] = of => m \in list
      BY DEF RowsAgree
    <2>1. Row(m) /\ \A c \in Calls : m \notin calls[c].ms
      BY BusyIs DEF RowsInv
    <2>2. Agreed(m, srv[m], known[m].flags, list, of, folder)
      BY <2>1 DEF Row
    <2> QED
      BY <2>2, InFolderIs DEF Agreed
  <1>2. KeyInv /\ TypeInv /\ [Next]_vars => TypeInv'
    BY NextTyped
  <1>3. KeyInv /\ TypeInv /\ RowsInv /\ CleanInv /\ [Next]_vars => RowsInv' /\ CleanInv'
    BY NextRows
  <1> QED
    BY InitKeyed, NextKeyed, InitTyped, InitRows, <1>1, <1>2, <1>3, PTL DEF Spec
=============================================================================
