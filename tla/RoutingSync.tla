----------------------------- MODULE RoutingSync -----------------------------
(***************************************************************************)
(* Email Routing at Cloudflare and its mirror in the panel's database.     *)
(* RoutingManager writes a change to Cloudflare first and to the mirror    *)
(* second; AccountSynchronizer::full lists what Cloudflare has and upserts *)
(* it.  Both run inside web requests, of any number of administrators at   *)
(* once, with no transaction or lock over the two sides, while others      *)
(* change the same account from Cloudflare's own dashboard.                *)
(*                                                                         *)
(* An item is a routing rule, a destination address, or the domain's       *)
(* catch-all, whose mirror is domains.inbound_capture.  Its value is a     *)
(* flag (enabled, verified, pointed at the Worker) and, for a rule, what   *)
(* it does.  The account has one zone.                                     *)
(***************************************************************************)
EXTENDS Naturals, Sequences, FiniteSets, FiniteSetsExt, SequencesExt

CONSTANTS
    Rules, Addresses, CatchAll,
    Actions, NoActions,     \* what a rule may do; the other items do nothing
    Requests,               \* web requests of the panel
    PageSize,               \* per_page: the lists are read as one page
    MaxRows,                \* bound: rows ever inserted for an item
    MaxOps, MaxEdits,       \* bounds: requests of the panel, changes at the dashboard
    Absent, Deleted         \* not at Cloudflare (yet, again); never again, no row

Items == Rules \cup Addresses \cup {CatchAll}
Steps == <<"domains", "addresses", "rules">>
Values == [flag : BOOLEAN, actions : Actions \cup {NoActions}]
Value(flag, actions) == [flag |-> flag, actions |-> actions]

ASSUME RoutingSyncAssumption ==
    /\ Rules \cap Addresses = {} /\ CatchAll \notin Rules \cup Addresses
    /\ PageSize \in Nat \ {0} /\ MaxRows \in Nat \ {0}
    /\ MaxOps \in Nat /\ MaxEdits \in Nat
    /\ Absent # Deleted /\ {Absent, Deleted} \cap Values = {}
    /\ NoActions \notin Actions

VARIABLES
    remote,     \* Cloudflare's value of each item
    rows,       \* the mirror's rows of each item, by id; Deleted where one was
    req,        \* what each request is doing
    standing,   \* what the history of an item says of its mirror
    clean,      \* items a sync has listed, with nothing beside it since
    ops, edits  \* operations begun and dashboard changes made

historyVars == <<standing, clean>>
boundVars == <<ops, edits>>
rsVars == <<remote, rows, req, historyVars, boundVars>>

\* `job` is the operation, `pc` where it is in it, `item` and `id` the row it works
\* on (0: none), `loaded` the row as it was read, `want` what it is to become; of a
\* sync, `step` is where it is in Steps, `todo` the listed items not yet upserted,
\* `errors` the steps that threw.
Jobs == {"none", "put", "delete", "post", "sync"}
Pcs == {"idle", "remote", "local", "list", "select", "write"}
ReqStates == [job : Jobs, pc : Pcs, item : Items, id : 0..MaxRows, loaded : Values,
              want : Values, step : 1..4, todo : SUBSET (Items \X Values),
              errors : SUBSET {"domains", "addresses", "rules"}]

Resting == [job |-> "none", pc |-> "idle", item |-> CatchAll, id |-> 0,
            loaded |-> Value(FALSE, NoActions), want |-> Value(FALSE, NoActions),
            step |-> 1, todo |-> {}, errors |-> {}]

Exists(i) == remote[i] \in Values
Live(i) == {k \in DOMAIN rows[i] : rows[i][k] \in Values}
FirstRow(i) == IF Live(i) = {} THEN 0 ELSE Min(Live(i))

\* The items a step of the sync lists.  Zones are not modelled further: the domain
\* step can fail, and otherwise touches no column of an item.
ItemsOf(step) == CASE step = 2 -> Addresses [] step = 3 -> Rules [] OTHER -> {}

\* The mirror says of i what Cloudflare says, once.
Agrees(i) == IF Exists(i) THEN Cardinality(Live(i)) = 1 /\ rows[i][FirstRow(i)] = remote[i]
                          ELSE Live(i) = {}

-----------------------------------------------------------------------------
(* Bookkeeping.  The history of an item is one of                          *)
(*   "inSync"     only whole operations of the panel, one after another;   *)
(*   "disturbed"  a change at the dashboard, an operation that broke off   *)
(*                between its two writes, two requests at once, or a rule  *)
(*                made by a try of a POST whose answer was lost;           *)
(*   "synced"     disturbed, then listed and upserted by a sync that had   *)
(*                the item to itself and reported no error for its step.   *)

\* The items request q has read, or written on one side only.
Busy(q) ==
    CASE req[q].job \in {"put", "delete", "post"} -> {req[q].item}
      [] req[q].job = "sync" /\ req[q].pc \in {"select", "write"} -> ItemsOf(req[q].step)
      [] OTHER -> {}

BusyBeside(q) == UNION {Busy(p) : p \in Requests \ {q}}
Quiet(i) == \A q \in Requests : i \notin Busy(q)

Disturb(S) ==
    /\ standing' = [i \in Items |-> IF i \in S THEN "disturbed" ELSE standing[i]]
    /\ clean' = [q \in Requests |-> clean[q] \ S]

\* An operation of the panel begins on i: harmless when i is nobody else's and its
\* mirror was right.
StartsOn(q, i) ==
    /\ standing' = [standing EXCEPT
           ![i] = IF i \in BusyBeside(q) \/ ~ Agrees(i) THEN "disturbed" ELSE @]
    /\ clean' = [p \in Requests |-> clean[p] \ {i}]

\* A sync begins a step; the items that are another request's at that moment it has
\* not to itself.
StartsStep(q, S) ==
    LET clash == S \cap BusyBeside(q) IN
    /\ standing' = [i \in Items |-> IF i \in clash THEN "disturbed" ELSE standing[i]]
    /\ clean' = [p \in Requests |->
           IF p = q THEN clean[q] \cup (S \ clash) ELSE clean[p] \ clash]

-----------------------------------------------------------------------------
RSInit ==
    /\ remote = [i \in Items |-> IF i = CatchAll THEN Value(FALSE, NoActions) ELSE Absent]
    /\ rows = [i \in Items |-> IF i = CatchAll THEN <<Value(FALSE, NoActions)>> ELSE << >>]
    /\ req = [q \in Requests |-> Resting]
    /\ standing = [i \in Items |-> "inSync"]
    /\ clean = [q \in Requests |-> {}]
    /\ ops = 0 /\ edits = 0

AtRest(q) == req[q].pc = "idle"
Rest(q) == req' = [req EXCEPT ![q] = Resting]
Goto(q, pc) == req' = [req EXCEPT ![q].pc = pc]

OneMoreOp == ops < MaxOps /\ ops' = ops + 1

\* Mutated form of Load: the mirror is written first, Cloudflare second.
LoadAndSave(q, job, i, k, want) ==
    /\ AtRest(q) /\ k \in Live(i)
    /\ req' = [req EXCEPT ![q] = [Resting EXCEPT
           !.job = job, !.pc = "remote", !.item = i, !.id = k,
           !.loaded = rows[i][k], !.want = want]]
    /\ rows' = [rows EXCEPT ![i][k] = IF job = "put" THEN want ELSE Deleted]
    /\ StartsOn(q, i)
    /\ UNCHANGED <<remote, edits>>
    /\ OneMoreOp

\* The panel loads the row of a table's line, and the operation begins.
Load(q, job, i, k, want) ==
    /\ AtRest(q) /\ k \in Live(i)
    /\ req' = [req EXCEPT ![q] = [Resting EXCEPT
           !.job = job, !.pc = "remote", !.item = i, !.id = k,
           !.loaded = rows[i][k], !.want = want]]
    /\ StartsOn(q, i)
    /\ UNCHANGED <<remote, rows, edits>>
    /\ OneMoreOp

\* toggleRule: the rule's actions are sent back as the mirror has them, `drop` where
\* it has none.  Its matcher, which never changes, is sent too; its name and its
\* priority are not, and no property is about them.
ToggleRule(q, i, k) ==
    /\ i \in Rules /\ k \in Live(i)
    /\ Load(q, "put", i, k, [rows[i][k] EXCEPT !.flag = ~ @])

\* The button is there while inbound_capture is not catch_all; without a deployed
\* Worker the handler returns before it does anything.
SetCatchAllToWorker(q) ==
    /\ ~ rows[CatchAll][1].flag
    /\ Load(q, "put", CatchAll, 1, Value(TRUE, NoActions))

DisableCatchAll(q) == Load(q, "put", CatchAll, 1, Value(FALSE, NoActions))

Delete(q, i, k) == i \in Rules \cup Addresses /\ Load(q, "delete", i, k, Value(FALSE, NoActions))

\* Cloudflare carries out the request and says so.
PutAnswered(q) ==
    /\ req[q].job = "put" /\ req[q].pc = "remote"
    /\ Exists(req[q].item)
    /\ remote' = [remote EXCEPT ![req[q].item] = req[q].want]
    /\ Goto(q, "local")
    /\ UNCHANGED <<rows, historyVars, boundVars>>

Gone(i) == IF i \in Rules THEN Deleted ELSE Absent

DeleteAnswered(q) ==
    /\ req[q].job = "delete" /\ req[q].pc = "remote"
    /\ Exists(req[q].item)
    /\ remote' = [remote EXCEPT ![req[q].item] = Gone(req[q].item)]
    /\ Goto(q, "local")
    /\ UNCHANGED <<rows, historyVars, boundVars>>

\* Eloquent writes the columns that differ from what it read, to the row of that id,
\* if there is one still.
Merged(old, read, want) ==
    [flag    |-> IF want.flag # read.flag THEN want.flag ELSE old.flag,
     actions |-> IF want.actions # read.actions THEN want.actions ELSE old.actions]

Update(i, k, read, want) ==
    rows' = [rows EXCEPT ![i][k] = IF @ = Deleted THEN @ ELSE Merged(@, read, want)]

SaveMirror(q) ==
    /\ req[q].job = "put" /\ req[q].pc = "local"
    /\ Update(req[q].item, req[q].id, req[q].loaded, req[q].want)
    /\ Rest(q)
    /\ UNCHANGED <<remote, historyVars, boundVars>>

DeleteRow(q) ==
    /\ req[q].job = "delete" /\ req[q].pc = "local"
    /\ rows' = [rows EXCEPT ![req[q].item][req[q].id] = Deleted]
    /\ Rest(q)
    /\ UNCHANGED <<remote, historyVars, boundVars>>

\* addDestinationAddress and createForwardRule begin: nothing is read before the
\* POST.  A rule is known by the tag Cloudflare gives it, an address by its email.
Create(q, i, v) ==
    /\ AtRest(q) /\ remote[i] = Absent
    /\ \/ i \in Addresses /\ v = Value(FALSE, NoActions)
       \/ i \in Rules /\ v \in [flag : {TRUE}, actions : Actions]
    /\ req' = [req EXCEPT ![q] = [Resting EXCEPT
           !.job = "post", !.pc = "remote", !.item = i, !.want = v]]
    /\ StartsOn(q, i)
    /\ UNCHANGED <<remote, rows, edits>>
    /\ OneMoreOp

\* A try takes effect and is answered; what Cloudflare answers is upserted.
PostAnswered(q) ==
    LET i == req[q].item IN
    /\ req[q].job = "post" /\ req[q].pc = "remote"
    /\ remote[i] = Absent
    /\ remote' = [remote EXCEPT ![i] = req[q].want]
    /\ req' = [req EXCEPT ![q].pc = "select", ![q].todo = {<<i, req[q].want>>}]
    /\ UNCHANGED <<rows, historyVars, boundVars>>

\* A try takes effect and no answer comes in time: retry(3) sends the POST again.
\* Cloudflare has made a rule, of another tag than the one it will answer with; a
\* second address it would refuse, which is BreaksOff after PostAnswered.  How many
\* tries were lost is not counted: Rules bounds them.
TryLost(q, j) ==
    /\ req[q].job = "post" /\ req[q].pc = "remote" /\ req[q].item \in Rules
    /\ j \in Rules \ {req[q].item} /\ remote[j] = Absent
    /\ remote' = [remote EXCEPT ![j] = req[q].want]
    /\ Disturb({j})
    /\ UNCHANGED <<rows, req, boundVars>>

-----------------------------------------------------------------------------
(* AccountSynchronizer::full.                                              *)

BeginSync(q) ==
    /\ AtRest(q)
    /\ req' = [req EXCEPT ![q] = [Resting EXCEPT !.job = "sync", !.pc = "list"]]
    /\ UNCHANGED <<remote, rows, historyVars, edits>>
    /\ OneMoreOp

\* One page of what there is.
List(q) ==
    LET here == {i \in ItemsOf(req[q].step) : Exists(i)} IN
    /\ req[q].pc = "list" /\ req[q].step <= Len(Steps)
    /\ \E page \in kSubset(Min({PageSize, Cardinality(here)}), here) :
           req' = [req EXCEPT ![q].pc = "select", ![q].todo = {<<i, remote[i]>> : i \in page}]
    /\ StartsStep(q, ItemsOf(req[q].step))
    /\ UNCHANGED <<remote, rows, boundVars>>

\* Mutated form of StepThrows: the exception is caught and not reported.
StepSwallowed(q) ==
    /\ req[q].pc = "list" /\ req[q].step <= Len(Steps)
    /\ req' = [req EXCEPT ![q].step = @ + 1]
    /\ StartsStep(q, ItemsOf(req[q].step))
    /\ UNCHANGED <<remote, rows, boundVars>>

\* Mutated form of StepThrows: the step after the one that threw is skipped as well.
StepSkipsNext(q) ==
    /\ req[q].pc = "list" /\ req[q].step <= Len(Steps)
    /\ req' = [req EXCEPT ![q].errors = @ \cup {Steps[req[q].step]}, ![q].step = @ + 2]
    /\ StartsStep(q, ItemsOf(req[q].step))
    /\ UNCHANGED <<remote, rows, boundVars>>

\* A CloudflareException costs the step, not the sync.
StepThrows(q) ==
    /\ req[q].pc = "list" /\ req[q].step <= Len(Steps)
    /\ req' = [req EXCEPT ![q].errors = @ \cup {Steps[req[q].step]}, ![q].step = @ + 1]
    /\ StartsStep(q, ItemsOf(req[q].step))
    /\ UNCHANGED <<remote, rows, boundVars>>

\* updateOrCreate, first half: the first row of the key, if there is one.
Select(q) ==
    /\ req[q].pc = "select"
    /\ \E t \in req[q].todo :
           LET i == t[1]
               k == FirstRow(i)
           IN req' = [req EXCEPT ![q].pc = "write", ![q].item = i, ![q].id = k,
                   ![q].want = t[2], ![q].loaded = IF k = 0 THEN t[2] ELSE rows[i][k]]
    /\ UNCHANGED <<remote, rows, historyVars, boundVars>>

\* Second half: fill and save what was found, insert otherwise.  An insert that
\* meets the unique index of destination_addresses saves into the row that is there;
\* routing_rules has no such index.
Insert(i, want) ==
    IF i \in Addresses /\ Live(i) # {}
    THEN Update(i, FirstRow(i), rows[i][FirstRow(i)], want)
    ELSE Len(rows[i]) < MaxRows /\ rows' = [rows EXCEPT ![i] = Append(@, want)]

Write(q) ==
    LET r == req[q] IN
    /\ r.pc = "write"
    /\ IF r.id = 0 THEN Insert(r.item, r.want) ELSE Update(r.item, r.id, r.loaded, r.want)
    /\ req' = [req EXCEPT ![q] = [Resting EXCEPT
           !.job = r.job, !.pc = "select", !.item = IF r.job = "post" THEN r.item ELSE @,
           !.step = r.step, !.todo = r.todo \ {<<r.item, r.want>>}, !.errors = r.errors]]
    /\ UNCHANGED <<remote, historyVars, boundVars>>

EndLoop(q) ==
    /\ req[q].pc = "select" /\ req[q].todo = {}
    /\ IF req[q].job = "post" THEN Rest(q)
       ELSE req' = [req EXCEPT ![q].pc = "list", ![q].step = @ + 1]
    /\ UNCHANGED <<remote, rows, historyVars, boundVars>>

\* The items of the steps that are not among the errors shown.
Covered(errors) ==
    UNION {ItemsOf(s) : s \in {s \in 1..Len(Steps) : Steps[s] \notin errors}}

Report(q) ==
    /\ req[q].pc = "list" /\ req[q].step = Len(Steps) + 1
    /\ standing' = [i \in Items |->
           IF i \in clean[q] \cap Covered(req[q].errors) THEN "synced" ELSE standing[i]]
    /\ clean' = [clean EXCEPT ![q] = {}]
    /\ Rest(q)
    /\ UNCHANGED <<remote, rows, boundVars>>

-----------------------------------------------------------------------------
\* Cloudflare refuses, no answer comes, a query fails or the process dies: the
\* request ends where it is.  A request that was carried out and not answered ends
\* here too, after PutAnswered, DeleteAnswered or PostAnswered.
HalfDone(q) ==
    IF req[q].pc = "local" \/ (req[q].job = "post" /\ req[q].pc # "remote")
    THEN {req[q].item} ELSE {}

BreaksOff(q) ==
    /\ ~ AtRest(q)
    /\ standing' = [i \in Items |-> IF i \in HalfDone(q) THEN "disturbed" ELSE standing[i]]
    /\ clean' = [p \in Requests |-> IF p = q THEN {} ELSE clean[p] \ HalfDone(q)]
    /\ Rest(q)
    /\ UNCHANGED <<remote, rows, boundVars>>

\* Cloudflare's own dashboard, and the owner of an address who verifies it.
Dashboard(i) ==
    /\ edits < MaxEdits /\ edits' = edits + 1
    /\ remote[i] # Deleted
    /\ \E v \in {Gone(i)} \cup Values :
           /\ v # remote[i]
           /\ v \in Values => (v.actions = NoActions) = (i \notin Rules)
           /\ i = CatchAll => v \in Values
           /\ i \in Rules /\ v = Deleted => Exists(i)
           /\ remote' = [remote EXCEPT ![i] = v]
    /\ Disturb({i})
    /\ UNCHANGED <<rows, req, ops>>

Panel(q) ==
    \/ \E i \in Items, k \in 1..MaxRows : ToggleRule(q, i, k) \/ Delete(q, i, k)
    \/ SetCatchAllToWorker(q) \/ DisableCatchAll(q)
    \/ PutAnswered(q) \/ DeleteAnswered(q) \/ SaveMirror(q) \/ DeleteRow(q)
    \/ \E i \in Rules \cup Addresses, v \in Values : Create(q, i, v)
    \/ PostAnswered(q) \/ \E j \in Rules : TryLost(q, j)

Sync(q) ==
    \/ BeginSync(q) \/ List(q) \/ StepThrows(q) \/ Report(q)
    \/ Select(q) \/ Write(q) \/ EndLoop(q)

RSNext ==
    \/ \E q \in Requests : Panel(q) \/ Sync(q) \/ BreaksOff(q)
    \/ \E i \in Items : Dashboard(i)

RSSpec == RSInit /\ [][RSNext]_rsVars

-----------------------------------------------------------------------------
RSTypeOK ==
    /\ remote \in [Items -> Values \cup {Absent, Deleted}]
    /\ rows \in [Items -> Seq(Values \cup {Deleted})]
    /\ \A i \in Items : Len(rows[i]) <= MaxRows
    /\ req \in [Requests -> ReqStates]
    /\ standing \in [Items -> {"inSync", "disturbed", "synced"}]
    /\ clean \in [Requests -> SUBSET Items]
    /\ ops \in 0..MaxOps /\ edits \in 0..MaxEdits

\* "Writes Email Routing changes to Cloudflare and mirrors them locally": while an
\* item has seen only whole operations of the panel, one after another, the mirror
\* says of it what Cloudflare says, in one row, whatever happens to other items, to
\* syncs that break off, and to requests that Cloudflare refuses.  What a broken-off
\* operation, an overlap or a repeated POST leaves is not claimed: the mirror is
\* wrong then until a sync.
MirrorAgrees ==
    \A i \in Items : Quiet(i) /\ standing[i] = "inSync" => Agrees(i)

\* Everything there is fits on the one page of each list that CloudflareClient reads.
OnePage ==
    /\ IsFiniteSet(Rules) /\ Cardinality(Rules) <= PageSize
    /\ IsFiniteSet(Addresses) /\ Cardinality(Addresses) <= PageSize

\* Under OnePage, a sync that had an item to itself and reported no error for its step
\* leaves its first row as Cloudflare has it, whatever dashboards, crashes and overlapping
\* requests had done to it before; for an address, whose rows are unique, that is all
\* there is to it.
SyncRepairs ==
    \A i \in Items : Quiet(i) /\ standing[i] = "synced" /\ Exists(i) =>
        /\ Live(i) # {} /\ rows[i][FirstRow(i)] = remote[i]
        /\ i \in Addresses => Agrees(i)

\* Without the exception for repeated POSTs: an operation makes one rule at most.
\* createForwardRule's retries make it false.
OneRulePerOperation ==
    edits = 0 => Cardinality({i \in Rules : remote[i] # Absent}) <= ops

\* ARCHITECTURE.md calls the local database a synchronised copy (line 120), and the
\* synchronizer an idempotent cache of Cloudflare's state: after such a sync the
\* mirror has exactly what Cloudflare has.
SyncedIsACopy ==
    \A i \in Items : Quiet(i) /\ standing[i] = "synced" => Agrees(i)
=============================================================================
