--------------------------- MODULE Calendar_proofs ---------------------------
(***************************************************************************)
(* Proofs about the events of a mailbox, for any schedulers, imports,      *)
(* starts and bounds.                                                      *)
(***************************************************************************)
EXTENDS Calendar, FiniteSetTheorems, TLAPS

EventType == [start : Times, timed : BOOLEAN, invited : BOOLEAN, reminded : BOOLEAN, live : BOOLEAN]

\* What a command holds is an event that was created.
Entry == [id : 1..created, start : Times, timed : BOOLEAN]

RecordType == [at : Times, start : Times, timed : BOOLEAN]

(***************************************************************************)
(* Whoever holds the mutex is the only one with a list; an id that has not *)
(* been handed out is nobody's.                                            *)
(***************************************************************************)
Mutex == \A s \in Schedulers : lock # s => list[s] = {} /\ current[s] = Nothing

Holdings ==
    \A s \in Schedulers :
        /\ list[s] \subseteq Entry
        /\ current[s] \in Entry \cup {Nothing}
        /\ \A e, d \in list[s] : e.id = d.id => e = d
        /\ \A e \in list[s] : e.id # current[s].id

Unborn == \A id \in Ids : id > created => ~ events[id].live /\ pushes[id] = 0

\* The types that hold by themselves.
BaseType ==
    /\ now \in Times /\ ranBy \subseteq Schedulers /\ missed \in BOOLEAN
    /\ events \in [Ids -> EventType]
    /\ created \in 0..MaxEvents /\ edits \in 0..MaxEdits
    /\ lock \in Schedulers \cup {Free, Stale}
    /\ list \in [Schedulers -> SUBSET Snapshots]
    /\ current \in [Schedulers -> Snapshots]
    /\ import \in [Imports -> {"find", "write", "done"}]
    /\ found \in [Imports -> Snapshots]
    /\ pushes \in [Ids -> Nat]
    /\ toldFor \in [Ids -> Times]
    /\ written \in [Ids -> RecordType]
    /\ deaths \in 0..MaxDeaths
    /\ puts \in Nat /\ puts <= edits /\ overlaps \in Nat

\* A push that no stamp followed was followed by a death, unless its event is
\* still the one in hand.
Pushed ==
    /\ \A id \in Ids : pushes[id] <= 1 + deaths
    /\ \A id \in Ids : events[id].live /\ ~ events[id].reminded /\ pushes[id] > deaths
                       => \E s \in Schedulers : current[s].id = id
    /\ \A s \in Schedulers : \A e \in list[s] : pushes[e.id] <= deaths

RemindInv == Mutex /\ Holdings /\ Unborn /\ Pushed

TypeInv == BaseType /\ RemindInv

-----------------------------------------------------------------------------
(* The table *)

LEMMA Constants ==
    /\ MaxEvents \in Nat /\ MaxEdits \in Nat /\ MaxDeaths \in Nat /\ Horizon \in Nat
    /\ Starts \subseteq Times /\ \A i \in Imports : Invite[i].start \in Times /\ Invite[i].timed \in BOOLEAN
    /\ IsFiniteSet(Imports)
    /\ Free \notin Schedulers /\ Stale \notin Schedulers /\ Free # Stale
  BY CalendarAssumption DEF Free, Stale

LEMMA InitTyped == Init => TypeInv
  <1> SUFFICES ASSUME Init PROVE TypeInv
    OBVIOUS
  <1>1. 0 \in Times /\ Gone \in EventType /\ Nothing \in Snapshots
    BY Constants DEF Times, Gone, EventType, Nothing, Snapshots
  <1>2. BaseType
    <2>1. [at |-> 0, start |-> 0, timed |-> FALSE] \in RecordType
      BY <1>1 DEF RecordType
    <2>2. events \in [Ids -> EventType]
      BY <1>1 DEF Init
    <2>3. found \in [Imports -> Snapshots]
      BY <1>1 DEF Init
    <2>4. current \in [Schedulers -> Snapshots]
      BY <1>1 DEF Init
    <2>5. written \in [Ids -> RecordType] /\ toldFor \in [Ids -> Times]
      BY <1>1, <2>1 DEF Init
    <2>6. list \in [Schedulers -> SUBSET Snapshots]
      BY DEF Init
    <2>7. pushes \in [Ids -> Nat] /\ import \in [Imports -> {"find", "write", "done"}]
      BY DEF Init
    <2>8. created \in 0..MaxEvents /\ edits \in 0..MaxEdits /\ deaths \in 0..MaxDeaths
          /\ puts \in Nat /\ puts <= edits /\ overlaps \in Nat
      BY Constants DEF Init
    <2> QED
      BY <1>1, <2>2, <2>3, <2>4, <2>5, <2>6, <2>7, <2>8 DEF Init, BaseType
  <1>3. Mutex /\ Holdings
    BY DEF Init, Mutex, Holdings
  <1>4. Unborn /\ Pushed
    BY DEF Init, Unborn, Pushed, Gone
  <1> QED
    BY <1>2, <1>3, <1>4 DEF TypeInv, RemindInv

LEMMA InsertTyped ==
    ASSUME TypeInv, NEW start \in Times, NEW timed \in BOOLEAN, NEW invited \in BOOLEAN,
           Insert(start, timed, invited)
    PROVE  /\ events' \in [Ids -> EventType]
           /\ created' \in 0..MaxEvents /\ created' = created + 1 /\ created \in Nat
           /\ written' \in [Ids -> RecordType]
           /\ created + 1 \in Ids
           /\ events' = [events EXCEPT ![created + 1] = Event(start, timed, invited)]
  <1>1. created \in Nat /\ created < MaxEvents /\ created + 1 \in Ids /\ created' = created + 1
    BY Constants DEF TypeInv, BaseType, Insert, Ids
  <1>2. Event(start, timed, invited) \in EventType
    BY DEF Event, EventType
  <1>3. [at |-> now, start |-> start, timed |-> timed] \in RecordType
    BY DEF TypeInv, BaseType, RecordType
  <1>4. events' = [events EXCEPT ![created + 1] = Event(start, timed, invited)]
    BY DEF Insert
  <1>5. events' \in [Ids -> EventType]
    BY <1>1, <1>2, <1>4 DEF TypeInv, BaseType
  <1>6. written' \in [Ids -> RecordType]
    BY <1>1, <1>3 DEF TypeInv, BaseType, Insert
  <1> QED
    BY <1>1, <1>4, <1>5, <1>6, Constants

\* A new event has not been pushed.
LEMMA InsertReminds ==
    ASSUME TypeInv, NEW start \in Times, NEW timed \in BOOLEAN, NEW invited \in BOOLEAN,
           Insert(start, timed, invited), UNCHANGED runVars
    PROVE  RemindInv'
  <1>1. UNCHANGED <<lock, list, current, pushes, toldFor, deaths>>
    BY DEF runVars
  <1>2. created' = created + 1 /\ created \in Nat /\ created + 1 \in Ids
    BY InsertTyped
  <1>3. Mutex'
    BY <1>1 DEF TypeInv, RemindInv, Mutex
  <1>4. Entry \subseteq Entry'
    BY <1>2 DEF Entry
  <1>5. Holdings'
    BY <1>1, <1>4 DEF TypeInv, RemindInv, Holdings
  <1>6. \A id \in Ids : id # created + 1 => events'[id] = events[id]
    BY InsertTyped DEF TypeInv, BaseType
  <1>7. Unborn'
    BY <1>1, <1>2, <1>6 DEF TypeInv, RemindInv, Unborn, Ids
  <1>8. pushes[created + 1] = 0 /\ deaths \in Nat
    BY <1>2, Constants DEF TypeInv, BaseType, RemindInv, Unborn
  <1>9. Pushed'
    BY <1>1, <1>6, <1>8 DEF TypeInv, RemindInv, Pushed
  <1> QED
    BY <1>3, <1>5, <1>7, <1>9 DEF RemindInv

\* A write to a live event that leaves its stamp, or takes the event away.
LEMMA UpdateReminds ==
    ASSUME TypeInv, UNCHANGED <<runVars, created>>,
           \A id \in Ids : events'[id].live => events[id].live /\ events'[id].reminded = events[id].reminded
    PROVE  RemindInv'
  <1>1. UNCHANGED <<lock, list, current, pushes, toldFor, deaths, created>>
    BY DEF runVars
  <1>2. Mutex' /\ Holdings'
    BY <1>1 DEF TypeInv, RemindInv, Mutex, Holdings, Entry
  <1>3. Unborn'
    BY <1>1 DEF TypeInv, RemindInv, Unborn
  <1>4. Pushed'
    BY <1>1 DEF TypeInv, RemindInv, Pushed
  <1> QED
    BY <1>2, <1>3, <1>4 DEF RemindInv

LEMMA CountEditTyped ==
    TypeInv /\ CountEdit => edits' \in 0..MaxEdits /\ edits' = edits + 1 /\ edits \in Nat
  BY Constants DEF TypeInv, BaseType, CountEdit

LEMMA CountPutTyped ==
    ASSUME TypeInv, CountEdit, NEW yes \in BOOLEAN, CountPut(yes)
    PROVE  puts' \in Nat /\ puts' <= edits'
  BY CountEditTyped DEF TypeInv, BaseType, CountPut

LEMMA CreateTyped ==
    ASSUME TypeInv, Create
    PROVE  TypeInv'
  <1>1. PICK start \in Times, timed, invited \in BOOLEAN :
            Insert(start, timed, invited) /\ CountPut(invited)
    BY Constants DEF Create
  <1>2. RemindInv'
    BY <1>1, InsertReminds DEF Create
  <1>3. puts' \in Nat /\ puts' <= edits' /\ edits' \in 0..MaxEdits
    BY <1>1, CountPutTyped, CountEditTyped DEF Create
  <1>4. BaseType'
    BY <1>1, <1>3, InsertTyped DEF Create, timeVars, runVars, importVars, TypeInv, BaseType
  <1> QED
    BY <1>2, <1>4 DEF TypeInv

LEMMA MoveTyped ==
    ASSUME TypeInv, NEW id \in Ids, Move(id)
    PROVE  TypeInv'
  <1>1. PICK start \in Times, timed, invited \in BOOLEAN :
            /\ events' = [events EXCEPT ![id].start = start, ![id].timed = timed,
                                       ![id].invited = invited]
            /\ written' = [written EXCEPT ![id] = [at |-> now, start |-> start, timed |-> timed]]
            /\ CountPut(invited /\ ~ events[id].invited)
    BY Constants DEF Move
  <1>2. events[id] \in EventType
    BY DEF TypeInv, BaseType
  <1>3. events'[id] = [events[id] EXCEPT !.start = start, !.timed = timed, !.invited = invited]
    BY <1>1 DEF TypeInv, BaseType
  <1>4. events'[id] \in EventType /\ events'[id].reminded = events[id].reminded /\ events'[id].live = events[id].live
    BY <1>2, <1>3 DEF EventType
  <1>5. events' \in [Ids -> EventType]
    BY <1>1, <1>4 DEF TypeInv, BaseType
  <1>6. written' \in [Ids -> RecordType]
    BY <1>1 DEF TypeInv, BaseType, RecordType
  <1>7. puts' \in Nat /\ puts' <= edits' /\ edits' \in 0..MaxEdits
    BY <1>1, CountPutTyped, CountEditTyped DEF Move
  <1>8. BaseType'
    BY <1>5, <1>6, <1>7 DEF Move, timeVars, runVars, importVars, TypeInv, BaseType
  <1>9. RemindInv'
    BY <1>1, <1>4, UpdateReminds DEF Move, TypeInv, BaseType
  <1> QED
    BY <1>8, <1>9 DEF TypeInv

LEMMA DeleteTyped ==
    ASSUME TypeInv, NEW id \in Ids, Delete(id)
    PROVE  TypeInv'
  <1>1. Gone \in EventType /\ ~ Gone.live
    BY Constants DEF Gone, EventType, Times
  <1>2. BaseType'
    BY <1>1, CountEditTyped DEF Delete, timeVars, runVars, importVars, TypeInv, BaseType
  <1>3. RemindInv'
    BY <1>1, UpdateReminds DEF Delete, TypeInv, BaseType
  <1> QED
    BY <1>2, <1>3 DEF TypeInv

LEMMA SnapshotTyped ==
    ASSUME TypeInv, NEW id \in Live
    PROVE  Snapshot(id) \in Entry /\ Snapshot(id) \in Snapshots /\ Snapshot(id) # Nothing /\ Snapshot(id).id = id
  <1>1. id \in Ids /\ events[id].start \in Times /\ id <= created /\ created \in 0..MaxEvents
    BY Constants DEF TypeInv, BaseType, RemindInv, Unborn, Live, Ids, EventType
  <1>2. events[id].timed \in BOOLEAN
    BY <1>1 DEF TypeInv, BaseType, EventType
  <1> QED
    BY <1>1, <1>2, Constants DEF Snapshot, Entry, Snapshots, Nothing, Ids

LEMMA FindInviteTyped ==
    ASSUME TypeInv, NEW i \in Imports, FindInvite(i)
    PROVE  TypeInv'
  <1>1. found' \in [Imports -> Snapshots]
    BY SnapshotTyped DEF FindInvite, InvitedLive, TypeInv, BaseType
  <1>2. import' \in [Imports -> {"find", "write", "done"}] /\ overlaps' \in Nat
    BY DEF FindInvite, TypeInv, BaseType
  <1>3. BaseType'
    BY <1>1, <1>2 DEF FindInvite, timeVars, tableVars, runVars, TypeInv, BaseType
  <1>4. RemindInv'
    BY UpdateReminds DEF FindInvite, tableVars
  <1> QED
    BY <1>3, <1>4 DEF TypeInv

\* What saving the found event writes, if it writes anything: the time of a live
\* event, and that on its record.
Rewrites(id, start, timed, record) ==
    /\ events' = [events EXCEPT ![id].start = start, ![id].timed = timed]
    /\ written' = [written EXCEPT ![id] = record]
    /\ record.at = now
    /\ events[id].start = written[id].start => record.start = start
    /\ events[id].timed = written[id].timed => record.timed = timed

LEMMA SaveParts ==
    ASSUME TypeInv, NEW i \in Imports, SaveInvite(i)
    PROVE  \/ UNCHANGED <<events, written>>
           \/ \E id \in Live, start \in Times, timed \in BOOLEAN, record \in RecordType :
                Rewrites(id, start, timed, record)
  <1> DEFINE id == found[i].id
             start == Saved(events[id].start, found[i].start, Invite[i].start)
             timed == Saved(events[id].timed, found[i].timed, Invite[i].timed)
             record == [at |-> now,
                        start |-> Saved(written[id].start, found[i].start, Invite[i].start),
                        timed |-> Saved(written[id].timed, found[i].timed, Invite[i].timed)]
  <1>1. SUFFICES ASSUME id \in Live,
                        events' = [events EXCEPT ![id].start = start, ![id].timed = timed],
                        written' = [written EXCEPT ![id] = record]
                 PROVE  \E d \in Live, a \in Times, b \in BOOLEAN, c \in RecordType : Rewrites(d, a, b, c)
    <2>1. id \in Live => id \in Ids
      BY DEF Live
    <2> QED
      BY <2>1 DEF SaveInvite, TypeInv, BaseType
  <1>2. id \in Ids /\ events[id] \in EventType /\ written[id] \in RecordType /\ now \in Times
    BY <1>1 DEF Live, TypeInv, BaseType
  <1>3. start \in Times /\ timed \in BOOLEAN /\ record \in RecordType
    BY <1>2, Constants DEF Saved, EventType, RecordType
  <1>4. /\ record.at = now
        /\ events[id].start = written[id].start => record.start = start
        /\ events[id].timed = written[id].timed => record.timed = timed
    BY DEF Saved
  <1> QED
    BY <1>1, <1>3, <1>4 DEF Rewrites

\* The rest of the event stays.
LEMMA RewriteParts ==
    ASSUME TypeInv, NEW id \in Live, NEW start \in Times, NEW timed \in BOOLEAN, NEW record \in RecordType,
           Rewrites(id, start, timed, record)
    PROVE  /\ id \in Ids
           /\ events' \in [Ids -> EventType] /\ written' \in [Ids -> RecordType]
           /\ written'[id] = record
           /\ events'[id].start = start /\ events'[id].timed = timed
           /\ \A d \in Ids : /\ events'[d].live = events[d].live
                             /\ events'[d].reminded = events[d].reminded
                             /\ events'[d].invited = events[d].invited
           /\ \A d \in Ids : d # id => events'[d] = events[d] /\ written'[d] = written[d]
  <1>1. id \in Ids /\ events[id] \in EventType
    BY DEF Live, TypeInv, BaseType
  <1>2. events'[id] = [events[id] EXCEPT !.start = start, !.timed = timed]
    BY <1>1 DEF Rewrites, TypeInv, BaseType
  <1>3. \A d \in Ids : d # id => events'[d] = events[d] /\ written'[d] = written[d]
    BY <1>1 DEF Rewrites, TypeInv, BaseType
  <1>4. /\ events'[id] \in EventType /\ events'[id].start = start /\ events'[id].timed = timed
        /\ events'[id].live = events[id].live /\ events'[id].reminded = events[id].reminded
        /\ events'[id].invited = events[id].invited
    BY <1>1, <1>2 DEF EventType
  <1>5. written'[id] = record /\ written' \in [Ids -> RecordType]
    BY <1>1 DEF Rewrites, TypeInv, BaseType
  <1>6. events' \in [Ids -> EventType]
    BY <1>1, <1>3, <1>4 DEF Rewrites, TypeInv, BaseType
  <1> QED
    BY <1>1, <1>3, <1>4, <1>5, <1>6

LEMMA WriteInviteTyped ==
    ASSUME TypeInv, NEW i \in Imports, WriteInvite(i)
    PROVE  TypeInv'
  <1>0. /\ import' \in [Imports -> {"find", "write", "done"}]
        /\ UNCHANGED <<now, ranBy, missed, edits, puts, found, overlaps>> /\ UNCHANGED runVars
    BY DEF WriteInvite, TypeInv, BaseType, timeVars
  <1>1. Invite[i].start \in Times /\ Invite[i].timed \in BOOLEAN
    BY Constants
  <1>2. CASE InsertInvite(i)
    <2>1. RemindInv'
      BY <1>0, <1>1, <1>2, InsertReminds DEF InsertInvite
    <2>2. BaseType'
      BY <1>0, <1>1, <1>2, InsertTyped DEF InsertInvite, runVars, TypeInv, BaseType
    <2> QED
      BY <2>1, <2>2 DEF TypeInv
  <1>3. CASE UNCHANGED <<events, written, created>>
    <2>1. RemindInv'
      BY <1>0, <1>3, UpdateReminds
    <2>2. BaseType'
      BY <1>0, <1>3 DEF runVars, TypeInv, BaseType
    <2> QED
      BY <2>1, <2>2 DEF TypeInv
  <1>4. ASSUME NEW id \in Live, NEW start \in Times, NEW timed \in BOOLEAN, NEW record \in RecordType,
               Rewrites(id, start, timed, record), UNCHANGED created
        PROVE  TypeInv'
    <2>1. /\ events' \in [Ids -> EventType] /\ written' \in [Ids -> RecordType]
          /\ \A d \in Ids : /\ events'[d].live = events[d].live
                            /\ events'[d].reminded = events[d].reminded
      BY <1>4, RewriteParts
    <2>2. BaseType'
      BY <1>0, <1>4, <2>1 DEF runVars, TypeInv, BaseType
    <2>3. RemindInv'
      BY <1>0, <1>4, <2>1, UpdateReminds
    <2> QED
      BY <2>2, <2>3 DEF TypeInv
  <1> QED
    BY <1>2, <1>3, <1>4, SaveParts DEF WriteInvite

-----------------------------------------------------------------------------
(* The command *)

LEMMA StartRunTyped ==
    ASSUME TypeInv, NEW s \in Schedulers, StartRun(s)
    PROVE  TypeInv'
  <1> DEFINE due == {Snapshot(id) : id \in {d \in Ids : Due(d)}}
  <1>1. list' = [list EXCEPT ![s] = due] /\ lock = Free /\ lock' = s
    BY DEF StartRun, MayStart
  <1>2. UNCHANGED <<now, missed, events, created, edits, written, puts, current, pushes, toldFor, deaths, import, found, overlaps>>
    BY DEF StartRun, tableVars, importVars
  <1>3. \A t \in Schedulers : list[t] = {} /\ current[t] = Nothing
    BY <1>1, Constants DEF TypeInv, RemindInv, Mutex
  <1>4. \A e \in due : \E id \in Live : e = Snapshot(id) /\ ~ events[id].reminded
    BY DEF Due
  <1>5. due \subseteq Entry /\ due \subseteq Snapshots
    BY <1>4, SnapshotTyped
  <1>6. \A e \in due : e.id \in Live /\ ~ events[e.id].reminded /\ e = Snapshot(e.id) /\ e.id # 0
    BY <1>4, SnapshotTyped DEF Live, Ids
  <1> HIDE DEF due
  <1>7. BaseType'
    BY <1>1, <1>2, <1>5 DEF StartRun, TypeInv, BaseType
  <1>8. Mutex'
    BY <1>1, <1>2, <1>3 DEF TypeInv, BaseType, Mutex
  <1>9. Holdings'
    <2> SUFFICES ASSUME NEW t \in Schedulers
                 PROVE  /\ list'[t] \subseteq Entry'
                        /\ current'[t] \in Entry' \cup {Nothing}
                        /\ \A e, d \in list'[t] : e.id = d.id => e = d
                        /\ \A e \in list'[t] : e.id # current'[t].id
      BY DEF Holdings
    <2>1. current'[t] = Nothing /\ Nothing.id = 0 /\ Entry' = Entry
      BY <1>2, <1>3 DEF Nothing, Entry
    <2>2. list'[t] = IF t = s THEN due ELSE {}
      BY <1>1, <1>3 DEF TypeInv, BaseType
    <2> QED
      BY <1>5, <1>6, <2>1, <2>2
  <1>10. Unborn'
    BY <1>2 DEF TypeInv, RemindInv, Unborn
  <1>11. \A e \in due : pushes[e.id] <= deaths
    <2> SUFFICES ASSUME NEW e \in due PROVE pushes[e.id] <= deaths
      OBVIOUS
    <2>1. e.id \in Ids /\ events[e.id].live /\ ~ events[e.id].reminded /\ e.id # 0
      BY <1>6 DEF Live
    <2>2. \A t \in Schedulers : current[t].id # e.id
      BY <1>3, <2>1 DEF Nothing
    <2>3. pushes[e.id] \in Nat /\ deaths \in Nat
      BY <2>1, Constants DEF TypeInv, BaseType
    <2> QED
      BY <2>1, <2>2, <2>3 DEF TypeInv, RemindInv, Pushed
  <1>12. Pushed'
    BY <1>1, <1>2, <1>11 DEF TypeInv, BaseType, RemindInv, Pushed
  <1> QED
    BY <1>7, <1>8, <1>9, <1>10, <1>12 DEF TypeInv, RemindInv

LEMMA NotifyTyped ==
    ASSUME TypeInv, NEW s \in Schedulers, Notify(s)
    PROVE  TypeInv'
  <1>1. PICK e \in list[s] :
            /\ current' = [current EXCEPT ![s] = e]
            /\ list' = [list EXCEPT ![s] = @ \ {e}]
            /\ pushes' = [pushes EXCEPT ![e.id] = @ + 1]
            /\ toldFor' = [toldFor EXCEPT ![e.id] = e.start]
    BY DEF Notify
  <1>2. UNCHANGED <<now, ranBy, missed, events, created, edits, written, puts, lock, deaths, import, found, overlaps>>
    BY DEF Notify, timeVars, tableVars, importVars
  <1>3. e \in Entry /\ e \in Snapshots /\ e.id \in 1..created /\ e.id \in Ids /\ e.start \in Times
    BY Constants DEF TypeInv, BaseType, RemindInv, Holdings, Entry, Ids, Snapshots
  <1>4. lock = s /\ current[s] = Nothing
    BY <1>1 DEF Notify, TypeInv, RemindInv, Mutex
  <1>5. pushes[e.id] \in Nat /\ pushes[e.id] <= deaths /\ deaths \in Nat /\ pushes'[e.id] = pushes[e.id] + 1
    BY <1>1, <1>3, Constants DEF TypeInv, BaseType, RemindInv, Pushed
  <1>6. \A id \in Ids : id # e.id => pushes'[id] = pushes[id]
    BY <1>1 DEF TypeInv, BaseType
  <1>7. BaseType'
    BY <1>1, <1>2, <1>3, <1>5 DEF TypeInv, BaseType
  <1>8. Mutex'
    BY <1>1, <1>2, <1>4 DEF TypeInv, BaseType, RemindInv, Mutex
  <1>9. Entry' = Entry
    BY <1>2 DEF Entry
  <1>10. Holdings'
    BY <1>1, <1>3, <1>9 DEF TypeInv, BaseType, RemindInv, Holdings
  <1>11. Unborn'
    BY <1>2, <1>3, <1>6, Constants DEF TypeInv, BaseType, RemindInv, Unborn
  <1>12. Pushed'
    <2>1. \A id \in Ids : pushes'[id] <= 1 + deaths'
      BY <1>2, <1>5, <1>6 DEF TypeInv, RemindInv, Pushed
    <2>2. ASSUME NEW id \in Ids, events'[id].live, ~ events'[id].reminded, pushes'[id] > deaths'
          PROVE  \E t \in Schedulers : current'[t].id = id
      <3>1. CASE id = e.id
        BY <1>1, <3>1 DEF TypeInv, BaseType
      <3>2. CASE id # e.id
        <4>1. PICK t \in Schedulers : current[t].id = id
          BY <1>2, <1>6, <2>2, <3>2 DEF TypeInv, RemindInv, Pushed
        <4>2. t = s
          BY <1>4, <4>1, Constants DEF TypeInv, RemindInv, Mutex, Nothing, Ids
        <4> QED
          BY <1>4, <4>1, <4>2 DEF Nothing, Ids
      <3> QED
        BY <3>1, <3>2
    <2>3. ASSUME NEW t \in Schedulers, NEW d \in list'[t]
          PROVE  pushes'[d.id] <= deaths'
      <3>1. d \in list[t] /\ d.id \in Ids
        BY <1>1, <2>3, Constants DEF TypeInv, BaseType, RemindInv, Holdings, Entry, Ids
      <3>2. t = s
        BY <1>4, <3>1 DEF TypeInv, RemindInv, Mutex
      <3>3. d # e
        BY <1>1, <2>3, <3>2 DEF TypeInv, BaseType
      <3>4. d.id # e.id
        BY <3>1, <3>2, <3>3 DEF TypeInv, RemindInv, Holdings
      <3> QED
        BY <1>2, <1>6, <3>1, <3>4 DEF TypeInv, RemindInv, Pushed
    <2> QED
      BY <2>1, <2>2, <2>3 DEF Pushed
  <1> QED
    BY <1>7, <1>8, <1>10, <1>11, <1>12 DEF TypeInv, RemindInv

LEMMA StampTyped ==
    ASSUME TypeInv, NEW s \in Schedulers, Stamp(s)
    PROVE  TypeInv'
  <1> DEFINE id == current[s].id
  <1>1. UNCHANGED <<now, ranBy, missed, created, edits, written, puts, lock, list, pushes, toldFor, deaths, import, found, overlaps>>
    BY DEF Stamp, timeVars, importVars
  <1>2. current' = [current EXCEPT ![s] = Nothing]
    BY DEF Stamp
  <1>3. lock = s /\ id \in Ids
    BY Constants DEF Stamp, TypeInv, BaseType, RemindInv, Mutex, Holdings, Entry, Ids
  <1>4. events' = IF id \in Live THEN [events EXCEPT ![id].reminded = TRUE] ELSE events
    BY DEF Stamp
  <1>5. \A d \in Ids : d # id => events'[d] = events[d]
    BY <1>3, <1>4 DEF TypeInv, BaseType
  <1>6. /\ events'[id] \in EventType
        /\ events'[id].live = events[id].live /\ (events'[id].live => events'[id].reminded)
    <2>1. CASE id \in Live
      <3>1. events'[id] = [events[id] EXCEPT !.reminded = TRUE] /\ events[id] \in EventType
        BY <1>3, <1>4, <2>1 DEF TypeInv, BaseType
      <3> QED
        BY <3>1 DEF EventType
    <2>2. CASE id \notin Live
      BY <1>3, <1>4, <2>2 DEF TypeInv, BaseType, Live
    <2> QED
      BY <2>1, <2>2
  <1>7. Nothing \in Snapshots /\ Nothing.id = 0
    BY Constants DEF Nothing, Snapshots, Times
  <1> HIDE DEF id
  <1>8. events' \in [Ids -> EventType]
    BY <1>4, <1>5, <1>6 DEF TypeInv, BaseType
  <1>9. BaseType'
    BY <1>1, <1>2, <1>7, <1>8 DEF TypeInv, BaseType
  <1>10. Mutex'
    BY <1>1, <1>2, <1>3 DEF TypeInv, BaseType, RemindInv, Mutex
  <1>11. Holdings'
    <2>1. Entry' = Entry
      BY <1>1 DEF Entry
    <2>2. \A t \in Schedulers : \A e \in list[t] : e.id # 0
      BY DEF TypeInv, RemindInv, Holdings, Entry
    <2>3. \A t \in Schedulers : current'[t] \in {current[t], Nothing}
      BY <1>2 DEF TypeInv, BaseType
    <2> QED
      BY <1>1, <1>7, <2>1, <2>2, <2>3 DEF TypeInv, RemindInv, Holdings
  <1>12. Unborn'
    BY <1>1, <1>5, <1>6 DEF TypeInv, RemindInv, Unborn
  <1>13. Pushed'
    <2>1. ASSUME NEW d \in Ids, events'[d].live, ~ events'[d].reminded, pushes'[d] > deaths'
          PROVE  \E t \in Schedulers : current'[t].id = d
      <3>1. d # id /\ events'[d] = events[d]
        BY <1>5, <1>6, <2>1
      <3>2. PICK t \in Schedulers : current[t].id = d
        BY <1>1, <2>1, <3>1 DEF TypeInv, RemindInv, Pushed
      <3>3. t # s
        BY <3>1, <3>2 DEF id
      <3> QED
        BY <1>2, <3>2, <3>3 DEF TypeInv, BaseType
    <2> QED
      BY <1>1, <2>1 DEF TypeInv, RemindInv, Pushed
  <1> QED
    BY <1>9, <1>10, <1>11, <1>12, <1>13 DEF TypeInv, RemindInv

LEMMA FinishRunTyped ==
    ASSUME TypeInv, NEW s \in Schedulers, FinishRun(s)
    PROVE  TypeInv'
  <1>1. /\ lock' = Free
        /\ UNCHANGED <<now, ranBy, missed, events, created, edits, written, puts, list, current, pushes, toldFor, deaths, import, found, overlaps>>
    BY DEF FinishRun, timeVars, tableVars, importVars
  <1>2. BaseType'
    BY <1>1 DEF TypeInv, BaseType
  <1>3. Mutex'
    BY <1>1, Constants DEF FinishRun, TypeInv, RemindInv, Mutex
  <1>4. Holdings' /\ Unborn' /\ Pushed'
    BY <1>1 DEF TypeInv, RemindInv, Holdings, Entry, Unborn, Pushed
  <1> QED
    BY <1>2, <1>3, <1>4 DEF TypeInv, RemindInv

LEMMA DieTyped ==
    ASSUME TypeInv, NEW s \in Schedulers, Die(s)
    PROVE  TypeInv'
  <1>1. UNCHANGED <<now, ranBy, missed, events, created, edits, written, puts, pushes, toldFor, import, found, overlaps>>
    BY DEF Die, timeVars, tableVars, importVars
  <1>2. lock = s /\ lock' \in {Free, Stale} /\ deaths' = deaths + 1 /\ deaths \in Nat /\ deaths' \in 0..MaxDeaths
    BY Constants DEF Die, TypeInv, BaseType
  <1>3. list' = [list EXCEPT ![s] = {}] /\ current' = [current EXCEPT ![s] = Nothing]
    BY DEF Die
  <1>4. Nothing \in Snapshots
    BY Constants DEF Nothing, Snapshots, Times
  <1>5. BaseType'
    BY <1>1, <1>2, <1>3, <1>4 DEF TypeInv, BaseType
  <1>6. \A t \in Schedulers : list'[t] = {} /\ current'[t] = Nothing
    BY <1>2, <1>3 DEF TypeInv, BaseType, RemindInv, Mutex
  <1>7. Mutex' /\ Holdings'
    BY <1>6 DEF Mutex, Holdings
  <1>8. Unborn'
    BY <1>1 DEF TypeInv, RemindInv, Unborn
  <1>9. \A id \in Ids : pushes'[id] <= deaths'
    BY <1>1, <1>2 DEF TypeInv, BaseType, RemindInv, Pushed
  <1>10. Pushed'
    BY <1>1, <1>2, <1>6, <1>9 DEF TypeInv, BaseType, Pushed
  <1> QED
    BY <1>5, <1>7, <1>8, <1>10 DEF TypeInv, RemindInv

LEMMA TickTyped ==
    ASSUME TypeInv, Tick
    PROVE  TypeInv'
  <1>1. now' \in Times /\ ranBy' \subseteq Schedulers /\ missed' \in BOOLEAN
    BY Constants DEF Tick, TypeInv, BaseType, Times
  <1>2. BaseType'
    BY <1>1 DEF Tick, tableVars, runVars, importVars, TypeInv, BaseType
  <1>3. RemindInv'
    BY UpdateReminds DEF Tick, tableVars
  <1> QED
    BY <1>2, <1>3 DEF TypeInv

LEMMA StepTyped == TypeInv /\ [Next]_vars => TypeInv'
  <1> SUFFICES ASSUME TypeInv, [Next]_vars PROVE TypeInv'
    OBVIOUS
  <1>1. CASE Create
    BY <1>1, CreateTyped
  <1>2. ASSUME NEW id \in Ids, Move(id) \/ Delete(id)
        PROVE  TypeInv'
    BY <1>2, MoveTyped, DeleteTyped
  <1>3. ASSUME NEW i \in Imports, FindInvite(i) \/ WriteInvite(i)
        PROVE  TypeInv'
    BY <1>3, FindInviteTyped, WriteInviteTyped
  <1>4. ASSUME NEW s \in Schedulers, Run(s)
        PROVE  TypeInv'
    BY <1>4, StartRunTyped, NotifyTyped, StampTyped, FinishRunTyped, DieTyped DEF Run
  <1>5. CASE LockExpires
    <2>1. BaseType'
      BY <1>5 DEF LockExpires, timeVars, tableVars, importVars, TypeInv, BaseType
    <2>2. Mutex'
      BY <1>5, Constants DEF LockExpires, TypeInv, RemindInv, Mutex
    <2>3. Holdings' /\ Unborn' /\ Pushed'
      BY <1>5 DEF LockExpires, tableVars, TypeInv, RemindInv, Holdings, Entry, Unborn, Pushed
    <2> QED
      BY <2>1, <2>2, <2>3 DEF TypeInv, RemindInv
  <1>6. CASE Tick
    BY <1>6, TickTyped
  <1>7. CASE UNCHANGED vars
    <2>1. BaseType'
      BY <1>7 DEF vars, timeVars, tableVars, runVars, importVars, TypeInv, BaseType
    <2>2. RemindInv'
      BY <1>7, UpdateReminds DEF vars, tableVars
    <2> QED
      BY <2>1, <2>2 DEF TypeInv
  <1> QED
    BY <1>1, <1>2, <1>3, <1>4, <1>5, <1>6, <1>7 DEF Next

LEMMA TypeInvAlways == Spec => []TypeInv
  BY InitTyped, StepTyped, PTL DEF Spec

\* For any schedulers, imports and bounds every variable keeps its type.
THEOREM TypeCorrect == Spec => []TypeOK
  <1>1. TypeInv => TypeOK
    <2> SUFFICES ASSUME TypeInv PROVE TypeOK
      OBVIOUS
    <2>1. pushes \in [Ids -> 0..MaxDeaths + 1]
      BY Constants DEF TypeInv, BaseType, RemindInv, Pushed
    <2> QED
      BY <2>1, Constants DEF TypeInv, BaseType, EventType, RecordType, TypeOK
  <1> QED
    BY <1>1, TypeInvAlways, PTL

\* However many schedulers overlap, and whatever the portal, CalDAV clients and
\* imports write meanwhile, calendar:remind notifies an event once, and once
\* more for each death: the mutex leaves one command at work, and a push that
\* was not stamped was followed by a death.
THEOREM RemindedOnce == Spec => []RemindedOncePerDeath
  <1>1. TypeInv => RemindedOncePerDeath
    BY DEF TypeInv, RemindInv, Pushed, RemindedOncePerDeath
  <1> QED
    BY <1>1, TypeInvAlways, PTL

-----------------------------------------------------------------------------
(* No lost edit *)

LEMMA StepLosesNoEdit == TypeInv /\ NoLostEdit /\ [Next]_vars => NoLostEdit'
  <1> SUFFICES ASSUME TypeInv, NoLostEdit, [Next]_vars PROVE NoLostEdit'
    OBVIOUS
  <1>0. UNCHANGED <<events, written>> => NoLostEdit'
    BY DEF NoLostEdit, Live
  \* The time and its record are written together, or neither.
  <1>1. ASSUME NEW id \in Ids,
               events'[id].live => /\ events'[id].start = written'[id].start
                                   /\ events'[id].timed = written'[id].timed,
               \A d \in Ids : d # id => events'[d] = events[d] /\ written'[d] = written[d]
        PROVE  NoLostEdit'
    BY <1>1 DEF NoLostEdit, Live
  <1>2. ASSUME NEW start \in Times, NEW timed \in BOOLEAN, NEW invited \in BOOLEAN,
               Insert(start, timed, invited)
        PROVE  NoLostEdit'
    <2>1. created + 1 \in Ids /\ events' = [events EXCEPT ![created + 1] = Event(start, timed, invited)]
      BY <1>2, InsertTyped
    <2>2. written' = [written EXCEPT ![created + 1] = [at |-> now, start |-> start, timed |-> timed]]
      BY <1>2 DEF Insert
    <2>3. Event(start, timed, invited).start = start /\ Event(start, timed, invited).timed = timed
      BY DEF Event
    <2> QED
      BY <1>1, <2>1, <2>2, <2>3 DEF TypeInv, BaseType
  <1>3. CASE Create
    BY <1>2, <1>3, Constants DEF Create
  <1>4. ASSUME NEW id \in Ids, Move(id)
        PROVE  NoLostEdit'
    <2>1. PICK start \in Starts, timed, invited \in BOOLEAN :
              /\ events' = [events EXCEPT ![id].start = start, ![id].timed = timed,
                                         ![id].invited = invited]
              /\ written' = [written EXCEPT ![id] = [at |-> now, start |-> start, timed |-> timed]]
      BY <1>4 DEF Move
    <2>2. events[id] \in EventType
      BY DEF TypeInv, BaseType
    <2>3. /\ events'[id].start = start /\ written'[id].start = start
          /\ events'[id].timed = timed /\ written'[id].timed = timed
      BY <2>1, <2>2 DEF TypeInv, BaseType, EventType
    <2> QED
      BY <1>1, <2>1, <2>3 DEF TypeInv, BaseType
  <1>5. ASSUME NEW id \in Ids, Delete(id)
        PROVE  NoLostEdit'
    BY <1>1, <1>5 DEF Delete, Gone, TypeInv, BaseType
  <1>6. ASSUME NEW i \in Imports, WriteInvite(i)
        PROVE  NoLostEdit'
    <2>1. Invite[i].start \in Times /\ Invite[i].timed \in BOOLEAN
      BY Constants
    <2>2. CASE InsertInvite(i)
      BY <1>2, <2>1, <2>2 DEF InsertInvite
    <2>3. CASE UNCHANGED <<events, written>>
      BY <1>0, <2>3
    <2>4. ASSUME NEW id \in Live, NEW start \in Times, NEW timed \in BOOLEAN, NEW record \in RecordType,
                 Rewrites(id, start, timed, record)
          PROVE  NoLostEdit'
      <3>1. /\ id \in Ids /\ written'[id] = record
            /\ events'[id].start = start /\ events'[id].timed = timed
            /\ \A d \in Ids : d # id => events'[d] = events[d] /\ written'[d] = written[d]
        BY <2>4, RewriteParts
      <3>2. events[id].start = written[id].start /\ events[id].timed = written[id].timed
        BY DEF NoLostEdit
      <3>3. record.start = start /\ record.timed = timed
        BY <2>4, <3>2 DEF Rewrites
      <3> QED
        BY <1>1, <3>1, <3>3
    <2> QED
      BY <1>6, <2>2, <2>3, <2>4, SaveParts DEF WriteInvite
  <1>7. ASSUME NEW s \in Schedulers, Stamp(s)
        PROVE  NoLostEdit'
    <2>1. ASSUME NEW d \in Ids
          PROVE  /\ events'[d].live = events[d].live /\ events'[d].start = events[d].start
                 /\ events'[d].timed = events[d].timed
      <3>1. events[d] \in EventType
        BY DEF TypeInv, BaseType
      <3>2. events'[d] \in {events[d], [events[d] EXCEPT !.reminded = TRUE]}
        BY <1>7 DEF Stamp, TypeInv, BaseType
      <3> QED
        BY <3>1, <3>2 DEF EventType
    <2> QED
      BY <1>7, <2>1 DEF Stamp, NoLostEdit, Live
  <1>8. ASSUME NEW s \in Schedulers, StartRun(s) \/ Notify(s) \/ FinishRun(s) \/ Die(s)
        PROVE  NoLostEdit'
    BY <1>0, <1>8 DEF StartRun, Notify, FinishRun, Die, tableVars
  <1>9. ASSUME NEW i \in Imports, FindInvite(i)
        PROVE  NoLostEdit'
    BY <1>0, <1>9 DEF FindInvite, tableVars
  <1>10. CASE LockExpires \/ Tick \/ UNCHANGED vars
    BY <1>0, <1>10 DEF LockExpires, Tick, vars, tableVars
  <1> QED
    BY <1>3, <1>4, <1>5, <1>6, <1>7, <1>8, <1>9, <1>10 DEF Next, Run

\* The time of a live event is the one that was written to it last, by whoever:
\* neither the command's stamp nor an import's save, both of which were prepared
\* from an older reading of the row, puts an old start or an old all_day back.
THEOREM NoEditIsLost == Spec => []NoLostEdit
  <1>1. Init => NoLostEdit
    BY DEF Init, NoLostEdit, Live, Gone
  <1> QED
    BY <1>1, StepLosesNoEdit, TypeInvAlways, PTL DEF Spec

-----------------------------------------------------------------------------
(* One event per invite *)

(***************************************************************************)
(* Every event of the invite, and every import that is about to insert     *)
(* one, beyond the first has its overlapping lookup or its CalDAV write.   *)
(***************************************************************************)
InviteInv ==
    /\ Cardinality(InvitedLive) + Cardinality(Inserting) <= 1 + overlaps + puts
    /\ \A i \in Imports : import[i] = "find" => found[i] = Nothing

LEMMA InviteSets ==
    /\ IsFiniteSet(InvitedLive) /\ Cardinality(InvitedLive) \in Nat
    /\ IsFiniteSet(Inserting) /\ Cardinality(Inserting) \in Nat
    /\ IsFiniteSet(Ids)
  <1>1. IsFiniteSet(Ids)
    BY Constants, FS_Interval DEF Ids
  <1>2. InvitedLive \subseteq Ids /\ Inserting \subseteq Imports
    BY DEF InvitedLive, Live, Inserting
  <1>3. IsFiniteSet(InvitedLive) /\ IsFiniteSet(Inserting)
    BY <1>1, <1>2, Constants, FS_Subset
  <1> QED
    BY <1>1, <1>3, FS_CardinalityType

LEMMA OneMore ==
    ASSUME NEW id
    PROVE  /\ IsFiniteSet(InvitedLive \cup {id})
           /\ Cardinality(InvitedLive \cup {id}) <= Cardinality(InvitedLive) + 1
           /\ Cardinality(InvitedLive \cup {id}) \in Nat
  <1> DEFINE more == InvitedLive \cup {id}
  <1>1. IsFiniteSet(more) /\ Cardinality(more) \in Nat
    BY InviteSets, FS_AddElement, FS_CardinalityType
  <1>2. CASE id \in InvitedLive
    <2>1. more = InvitedLive
      BY <1>2
    <2> QED
      BY <1>1, <2>1, InviteSets
  <1>3. CASE id \notin InvitedLive
    <2>1. Cardinality(more) = Cardinality(InvitedLive) + 1
      BY <1>3, InviteSets, FS_AddElement
    <2> QED
      BY <1>1, <2>1
  <1> QED
    BY <1>2, <1>3

\* A step that leaves the imports alone, and makes no event one of the invite's.
LEMMA InviteKept ==
    ASSUME TypeInv, TypeInv', InviteInv, UNCHANGED <<import, found>>, InvitedLive' \subseteq InvitedLive,
           overlaps' = overlaps, puts' \in {puts, puts + 1}
    PROVE  InviteInv'
  <1>1. Inserting' = Inserting
    BY DEF Inserting
  <1>2. Cardinality(InvitedLive') <= Cardinality(InvitedLive) /\ Cardinality(InvitedLive') \in Nat
    BY InviteSets, FS_Subset, FS_CardinalityType
  <1>3. puts \in Nat /\ overlaps \in Nat
    BY DEF TypeInv, BaseType
  <1> QED
    BY <1>1, <1>2, <1>3, InviteSets DEF InviteInv

\* A CalDAV write that makes one event one of the invite's.
LEMMA InvitePut ==
    ASSUME TypeInv, InviteInv, UNCHANGED importVars, NEW id \in Ids,
           InvitedLive' \subseteq InvitedLive \cup {id}, puts' = puts + 1
    PROVE  InviteInv'
  <1>1. Inserting' = Inserting
    BY DEF Inserting, importVars
  <1>2. IsFiniteSet(InvitedLive \cup {id})
        /\ Cardinality(InvitedLive \cup {id}) <= Cardinality(InvitedLive) + 1
        /\ Cardinality(InvitedLive \cup {id}) \in Nat
    BY OneMore
  <1>3. Cardinality(InvitedLive') <= Cardinality(InvitedLive) + 1 /\ Cardinality(InvitedLive') \in Nat
    <2>1. /\ IsFiniteSet(InvitedLive') 
          /\ Cardinality(InvitedLive') <= Cardinality(InvitedLive \cup {id})
      BY <1>2, FS_Subset
    <2>2. Cardinality(InvitedLive') \in Nat
      BY <2>1, FS_CardinalityType
    <2> QED
      BY <1>2, <2>1, <2>2, InviteSets
  <1>4. puts \in Nat /\ overlaps \in Nat
    BY DEF TypeInv, BaseType
  <1> QED
    BY <1>1, <1>3, <1>4, InviteSets DEF InviteInv, importVars

LEMMA FindKeepsInvites ==
    ASSUME TypeInv, InviteInv, NEW i \in Imports, FindInvite(i)
    PROVE  InviteInv'
  <1>1. InvitedLive' = InvitedLive /\ puts' = puts
    BY DEF FindInvite, tableVars, InvitedLive, Live
  <1>2. import' = [import EXCEPT ![i] = "write"] /\ import[i] = "find"
    BY DEF FindInvite
  <1>3. \A j \in Imports : j # i => import'[j] = import[j] /\ found'[j] = found[j]
    BY <1>2 DEF FindInvite, TypeInv, BaseType
  <1>4. import'[i] = "write" /\ i \notin Inserting
    BY <1>2 DEF TypeInv, BaseType, Inserting
  <1>5. \A j \in Imports : import'[j] = "find" => found'[j] = Nothing
    BY <1>3, <1>4 DEF InviteInv
  <1>6. puts \in Nat /\ overlaps \in Nat
    BY DEF TypeInv, BaseType
  <1>7. CASE InvitedLive = {} /\ overlaps' = IF Inserting = {} THEN overlaps ELSE overlaps + 1
    <2>1. Inserting' \subseteq Inserting \cup {i}
      BY <1>3 DEF Inserting
    <2>2. Cardinality(Inserting \cup {i}) = Cardinality(Inserting) + 1 /\ IsFiniteSet(Inserting \cup {i})
      BY <1>4, InviteSets, FS_AddElement
    <2>3. IsFiniteSet(Inserting') /\ Cardinality(Inserting') <= Cardinality(Inserting) + 1
      BY <2>1, <2>2, FS_Subset
    <2>4. Cardinality(Inserting') \in Nat
      BY <2>3, FS_CardinalityType
    <2>5. Cardinality(InvitedLive) = 0 /\ (Inserting = {} => Cardinality(Inserting) = 0)
      BY <1>7, FS_EmptySet
    <2> QED
      BY <1>1, <1>5, <1>6, <1>7, <2>3, <2>4, <2>5, InviteSets DEF InviteInv
  <1>8. ASSUME NEW id \in InvitedLive, found' = [found EXCEPT ![i] = Snapshot(id)], UNCHANGED overlaps
        PROVE  InviteInv'
    <2>1. found'[i] # Nothing
      BY <1>8, SnapshotTyped DEF TypeInv, BaseType, InvitedLive
    <2>2. Inserting' = Inserting
      BY <1>2, <1>3, <1>4, <2>1 DEF Inserting
    <2> QED
      BY <1>1, <1>5, <1>8, <2>2 DEF InviteInv
  <1> QED
    BY <1>7, <1>8 DEF FindInvite

LEMMA WriteKeepsInvites ==
    ASSUME TypeInv, InviteInv, NEW i \in Imports, WriteInvite(i)
    PROVE  InviteInv'
  <1>1. UNCHANGED <<found, puts, overlaps>>
    BY DEF WriteInvite
  <1>2. import' = [import EXCEPT ![i] = "done"] /\ import[i] = "write"
    BY DEF WriteInvite
  <1>3. \A j \in Imports : import'[j] = "find" => import[j] = "find"
    BY <1>2 DEF TypeInv, BaseType
  <1>4. Inserting' = Inserting \ {i}
    BY <1>1, <1>2 DEF Inserting, TypeInv, BaseType
  <1>5. puts \in Nat /\ overlaps \in Nat
    BY DEF TypeInv, BaseType
  <1>6. CASE found[i] = Nothing /\ InsertInvite(i)
    <2>1. i \in Inserting
      BY <1>2, <1>6 DEF Inserting
    <2>2. Cardinality(Inserting') = Cardinality(Inserting) - 1
      BY <1>4, <2>1, InviteSets, FS_RemoveElement
    <2>3. /\ created + 1 \in Ids
          /\ events' = [events EXCEPT ![created + 1] = Event(Invite[i].start, Invite[i].timed, TRUE)]
      BY <1>6, InsertTyped, Constants DEF InsertInvite
    <2>4. InvitedLive' \subseteq InvitedLive \cup {created + 1}
      BY <2>3 DEF InvitedLive, Live, TypeInv, BaseType
    <2>5. /\ IsFiniteSet(InvitedLive \cup {created + 1})
          /\ Cardinality(InvitedLive \cup {created + 1}) <= Cardinality(InvitedLive) + 1
          /\ Cardinality(InvitedLive \cup {created + 1}) \in Nat
      BY OneMore
    <2>6. IsFiniteSet(InvitedLive') /\ Cardinality(InvitedLive') <= Cardinality(InvitedLive \cup {created + 1})
      BY <2>4, <2>5, FS_Subset
    <2>7. Cardinality(InvitedLive') \in Nat
      BY <2>6, FS_CardinalityType
    <2> QED
      BY <1>1, <1>3, <1>5, <2>2, <2>5, <2>6, <2>7, InviteSets DEF InviteInv
  <1>7. ASSUME InvitedLive' = InvitedLive
        PROVE  InviteInv'
    <2>1. Cardinality(Inserting') <= Cardinality(Inserting) /\ Cardinality(Inserting') \in Nat
      BY <1>4, InviteSets, FS_Subset, FS_CardinalityType
    <2> QED
      BY <1>1, <1>3, <1>5, <1>7, <2>1, InviteSets DEF InviteInv
  <1>8. CASE UNCHANGED events
    BY <1>7, <1>8 DEF InvitedLive, Live
  <1>9. ASSUME NEW id \in Live, NEW start \in Times, NEW timed \in BOOLEAN, NEW record \in RecordType,
               Rewrites(id, start, timed, record)
        PROVE  InviteInv'
    <2>1. \A d \in Ids : events'[d].live = events[d].live /\ events'[d].invited = events[d].invited
      BY <1>9, RewriteParts
    <2> QED
      BY <1>7, <2>1 DEF InvitedLive, Live
  <1> QED
    BY <1>6, <1>8, <1>9, SaveParts DEF WriteInvite

LEMMA StepKeepsInvites == TypeInv /\ TypeInv' /\ InviteInv /\ [Next]_vars => InviteInv'
  <1> SUFFICES ASSUME TypeInv, TypeInv', InviteInv, [Next]_vars PROVE InviteInv'
    OBVIOUS
  <1>0. UNCHANGED events => InvitedLive' = InvitedLive
    BY DEF InvitedLive, Live
  <1>1. CASE Create
    <2>1. PICK start \in Times, timed, invited \in BOOLEAN :
              Insert(start, timed, invited) /\ CountPut(invited)
      BY <1>1, Constants DEF Create
    <2>2. created + 1 \in Ids /\ events' = [events EXCEPT ![created + 1] = Event(start, timed, invited)]
      BY <2>1, InsertTyped
    <2>3. InvitedLive' \subseteq IF invited THEN InvitedLive \cup {created + 1} ELSE InvitedLive
      BY <2>2 DEF Event, InvitedLive, Live, TypeInv, BaseType
    <2>4. UNCHANGED <<import, found, overlaps>>
      BY <1>1 DEF Create, importVars
    <2>5. CASE invited
      BY <2>1, <2>2, <2>3, <2>4, <2>5, InvitePut DEF CountPut, importVars
    <2>6. CASE ~ invited
      BY <2>1, <2>3, <2>4, <2>6, InviteKept DEF CountPut
    <2> QED
      BY <2>5, <2>6
  <1>2. ASSUME NEW id \in Ids, Move(id)
        PROVE  InviteInv'
    <2>1. PICK start \in Starts, timed, invited \in BOOLEAN :
              /\ events' = [events EXCEPT ![id].start = start, ![id].timed = timed,
                                         ![id].invited = invited]
              /\ CountPut(invited /\ ~ events[id].invited)
      BY <1>2 DEF Move
    <2>2. events[id] \in EventType /\ events'[id] = [events[id] EXCEPT !.start = start, !.timed = timed, !.invited = invited]
      BY <2>1 DEF TypeInv, BaseType
    <2>3. events'[id].live = events[id].live /\ events'[id].invited = invited
      BY <2>2 DEF EventType
    <2>4. \A d \in Ids : d # id => events'[d] = events[d]
      BY <2>1 DEF TypeInv, BaseType
    <2>5. UNCHANGED <<import, found, overlaps>>
      BY <1>2 DEF Move, importVars
    <2>6. CASE invited /\ ~ events[id].invited
      <3>1. InvitedLive' \subseteq InvitedLive \cup {id}
        BY <2>4 DEF InvitedLive, Live
      <3> QED
        BY <2>1, <2>5, <2>6, <3>1, InvitePut DEF CountPut, importVars
    <2>7. CASE ~ (invited /\ ~ events[id].invited)
      <3>1. InvitedLive' \subseteq InvitedLive
        BY <2>3, <2>4, <2>7 DEF InvitedLive, Live
      <3> QED
        BY <2>1, <2>5, <2>7, <3>1, InviteKept DEF CountPut
    <2> QED
      BY <2>6, <2>7
  <1>3. ASSUME NEW id \in Ids, Delete(id)
        PROVE  InviteInv'
    <2>1. InvitedLive' \subseteq InvitedLive
      BY <1>3 DEF Delete, Gone, InvitedLive, Live, TypeInv, BaseType
    <2> QED
      BY <1>3, <2>1, InviteKept DEF Delete, importVars
  <1>4. ASSUME NEW s \in Schedulers, Stamp(s)
        PROVE  InviteInv'
    <2>1. ASSUME NEW d \in Ids
          PROVE  events'[d].live = events[d].live /\ events'[d].invited = events[d].invited
      <3>1. events[d] \in EventType
        BY DEF TypeInv, BaseType
      <3>2. events'[d] \in {events[d], [events[d] EXCEPT !.reminded = TRUE]}
        BY <1>4 DEF Stamp, TypeInv, BaseType
      <3> QED
        BY <3>1, <3>2 DEF EventType
    <2>2. InvitedLive' \subseteq InvitedLive
      BY <2>1 DEF InvitedLive, Live
    <2>3. UNCHANGED importVars /\ puts' = puts
      BY <1>4 DEF Stamp
    <2> QED
      BY <2>2, <2>3, InviteKept DEF importVars
  <1>5. ASSUME NEW s \in Schedulers, StartRun(s) \/ Notify(s) \/ FinishRun(s) \/ Die(s)
        PROVE  InviteInv'
    BY <1>0, <1>5, InviteKept DEF StartRun, Notify, FinishRun, Die, tableVars, importVars
  <1>6. CASE LockExpires \/ Tick \/ UNCHANGED vars
    BY <1>0, <1>6, InviteKept DEF LockExpires, Tick, vars, tableVars, importVars
  <1> QED
    BY <1>1, <1>2, <1>3, <1>4, <1>5, <1>6, FindKeepsInvites, WriteKeepsInvites DEF Next, Run

\* However often an invite is sent, and in whatever order its imports meet moves,
\* deletions and each other, it makes one event, and at most one more for each
\* lookup that overlapped another import and each CalDAV write of its UID.
THEOREM InvitesMakeOneEvent == Spec => []OneEventPerInvite
  <1>1. Init => InviteInv
    <2> SUFFICES ASSUME Init PROVE InviteInv
      OBVIOUS
    <2>1. InvitedLive = {} /\ Inserting = {}
      BY DEF Init, InvitedLive, Inserting, Live, Gone
    <2>2. Cardinality(InvitedLive) = 0 /\ Cardinality(Inserting) = 0
      BY <2>1, FS_EmptySet
    <2> QED
      BY <2>2 DEF Init, InviteInv
  <1>2. TypeInv /\ InviteInv => OneEventPerInvite
    BY InviteSets DEF InviteInv, OneEventPerInvite, TypeInv, BaseType
  <1> QED
    BY <1>1, <1>2, StepKeepsInvites, TypeInvAlways, PTL DEF Spec

-----------------------------------------------------------------------------
(* Reminders in time *)

\* Nobody has to think of the event any more, or the command has it in hand.
Handled(id) == events[id].reminded \/ InHand(id)

(***************************************************************************)
(* A command that starts at the mark of an event or at the one before has  *)
(* taken it up, if it was entered at an earlier mark; so at its mark it    *)
(* has been, if a command started at the mark before; and afterwards in    *)
(* any case, as no two marks in a row go by without a command.             *)
(***************************************************************************)
Seen(id) ==
    deaths = 0 /\ id \in Live /\ events[id].timed =>
        /\ events[id].start \in {now, now + 1} /\ written[id].at < now /\ ranBy # {} => Handled(id)
        /\ events[id].start = now /\ written[id].at + 2 <= now /\ ~ missed => Handled(id)
        /\ events[id].start < now /\ written[id].at + 2 <= events[id].start => Handled(id)

SeenInv == \A id \in Ids : Seen(id)

LEMMA EventParts ==
    ASSUME BaseType, NEW id \in Ids
    PROVE  /\ events[id] \in EventType /\ events[id].start \in Nat /\ events[id].timed \in BOOLEAN
           /\ events[id].reminded \in BOOLEAN
           /\ written[id] \in RecordType /\ written[id].at \in Nat
           /\ now \in Nat /\ deaths \in Nat
  <1>1. events[id] \in EventType /\ written[id] \in RecordType
    BY DEF BaseType
  <1>2. Times \subseteq Nat
    BY Constants DEF Times
  <1>3. now \in Nat /\ deaths \in Nat
    BY <1>2, Constants DEF BaseType
  <1>4. /\ events[id].start \in Nat /\ events[id].timed \in BOOLEAN
        /\ events[id].reminded \in BOOLEAN /\ written[id].at \in Nat
    BY <1>1, <1>2 DEF EventType, RecordType
  <1> QED
    BY <1>1, <1>3, <1>4

\* An event that nobody writes, and that whoever had it in hand has still, or stamps.
LEMMA SeenStays ==
    ASSUME NEW id \in Ids, Seen(id), UNCHANGED <<timeVars, written>>,
           deaths' = 0 => deaths = 0,
           \/ ~ events'[id].live
           \/ /\ events'[id].live = events[id].live
              /\ events'[id].start = events[id].start /\ events'[id].timed = events[id].timed,
           events'[id].live /\ deaths = 0 /\ Handled(id) => Handled(id)'
    PROVE  Seen(id)'
  BY DEF Seen, timeVars, Live

\* An event whose start is written now has its marks before it.
LEMMA SeenAnew ==
    ASSUME TypeInv, TypeInv', NEW id \in Ids, UNCHANGED timeVars, written'[id].at = now
    PROVE  Seen(id)'
  <1>1. now' = now /\ now \in Nat /\ events'[id].start \in Nat
    <2>1. events'[id] \in EventType
      BY DEF TypeInv, BaseType
    <2> QED
      BY <2>1, EventParts, Constants DEF TypeInv, timeVars, EventType, Times
  <1>2. ~ (written'[id].at < now')
    BY <1>1
  <1>3. ~ (written'[id].at + 2 <= now')
    BY <1>1
  <1>4. events'[id].start < now' => ~ (written'[id].at + 2 <= events'[id].start)
    <2>1. SUFFICES ASSUME events'[id].start < now', written'[id].at + 2 <= events'[id].start
                   PROVE  FALSE
      OBVIOUS
    <2> QED
      BY <1>1, <2>1
  <1> QED
    BY <1>2, <1>3, <1>4 DEF Seen

LEMMA InsertSeen ==
    ASSUME TypeInv, TypeInv', SeenInv, NEW start \in Times, NEW timed \in BOOLEAN, NEW invited \in BOOLEAN,
           Insert(start, timed, invited), UNCHANGED <<timeVars, runVars>>, NEW d \in Ids
    PROVE  Seen(d)'
  <1>1. created \in Nat /\ created + 1 \in Ids
    BY Constants DEF TypeInv, BaseType, Insert, Ids
  <1>2. CASE d = created + 1
    <2>1. written'[d].at = now
      BY <1>1, <1>2 DEF Insert, TypeInv, BaseType
    <2> QED
      BY <2>1, SeenAnew
  <1>3. CASE d # created + 1
    <2>1. /\ events'[d] = events[d] /\ written'[d] = written[d]
          /\ list' = list /\ current' = current /\ deaths' = deaths
      BY <1>1, <1>3 DEF Insert, TypeInv, BaseType, runVars
    <2> QED
      BY <2>1 DEF SeenInv, Seen, Handled, InHand, Live, timeVars
  <1> QED
    BY <1>2, <1>3

LEMMA WritersSeen ==
    ASSUME TypeInv, TypeInv', SeenInv, NEW d \in Ids,
           \/ Create
           \/ \E id \in Ids : Move(id) \/ Delete(id)
           \/ \E i \in Imports : FindInvite(i) \/ WriteInvite(i)
    PROVE  Seen(d)'
  <1>0. UNCHANGED <<timeVars, runVars>> /\ list' = list /\ current' = current /\ deaths' = deaths
    BY DEF Create, Move, Delete, FindInvite, WriteInvite, runVars
  <1>1. CASE Create
    <2>1. PICK start \in Times, timed, invited \in BOOLEAN :
              Insert(start, timed, invited) /\ CountPut(invited)
      BY <1>1, Constants DEF Create
    <2> QED
      BY <1>0, <2>1, InsertSeen
  <1>2. ASSUME NEW id \in Ids, Move(id)
        PROVE  Seen(d)'
    <2>0. PICK start \in Starts, timed \in BOOLEAN :
              written' = [written EXCEPT ![id] = [at |-> now, start |-> start, timed |-> timed]]
      BY <1>2 DEF Move
    <2>1. CASE d = id
      <3>1. written'[d].at = now
        BY <2>0, <2>1 DEF TypeInv, BaseType
      <3> QED
        BY <1>0, <3>1, SeenAnew
    <2>2. CASE d # id
      <3>1. events'[d] = events[d] /\ written'[d] = written[d]
        BY <1>2, <2>2 DEF Move, TypeInv, BaseType
      <3> QED
        BY <1>0, <3>1 DEF SeenInv, Seen, Handled, InHand, Live, timeVars
    <2> QED
      BY <2>1, <2>2
  <1>3. ASSUME NEW id \in Ids, Delete(id)
        PROVE  Seen(d)'
    <2>1. written' = written /\ (events'[d] = events[d] \/ ~ events'[d].live)
      BY <1>3 DEF Delete, TypeInv, BaseType, Gone
    <2> QED
      BY <1>0, <2>1 DEF SeenInv, Seen, Handled, InHand, Live, timeVars
  <1>4. ASSUME NEW i \in Imports, FindInvite(i)
        PROVE  Seen(d)'
    BY <1>0, <1>4 DEF FindInvite, tableVars, SeenInv, Seen, Handled, InHand, Live, timeVars
  <1>5. ASSUME NEW i \in Imports, WriteInvite(i)
        PROVE  Seen(d)'
    <2>1. CASE InsertInvite(i)
      BY <1>0, <2>1, Constants, InsertSeen DEF InsertInvite
    <2>2. CASE events' = events /\ written' = written
      BY <1>0, <2>2 DEF SeenInv, Seen, Handled, InHand, Live, timeVars
    <2>3. ASSUME NEW id \in Live, NEW start \in Times, NEW timed \in BOOLEAN, NEW record \in RecordType,
                 Rewrites(id, start, timed, record)
          PROVE  Seen(d)'
      <3>1. /\ id \in Ids /\ written'[id].at = now
            /\ \A c \in Ids : c # id => events'[c] = events[c] /\ written'[c] = written[c]
        BY <2>3, RewriteParts DEF Rewrites
      <3>2. CASE d = id
        BY <1>0, <3>1, <3>2, SeenAnew
      <3>3. CASE d # id
        BY <1>0, <3>1, <3>3 DEF SeenInv, Seen, Handled, InHand, Live, timeVars
      <3> QED
        BY <3>2, <3>3
    <2> QED
      BY <1>5, <2>1, <2>2, <2>3, SaveParts DEF WriteInvite
  <1> QED
    BY <1>1, <1>2, <1>3, <1>4, <1>5

\* A command that starts while an event is due has it on its list.
LEMMA StartSees ==
    ASSUME TypeInv, SeenInv, NEW s \in Schedulers, StartRun(s), NEW d \in Ids
    PROVE  Seen(d)'
  <1>1. /\ list' = [list EXCEPT ![s] = {Snapshot(id) : id \in {c \in Ids : Due(c)}}]
        /\ list[s] = {} /\ current[s] = Nothing
        /\ now' = now /\ missed' = missed /\ events' = events /\ written' = written
        /\ current' = current /\ deaths' = deaths
    BY DEF StartRun, tableVars
  <1>2. /\ list'[s] = {Snapshot(id) : id \in {c \in Ids : Due(c)}}
        /\ \A t \in Schedulers \ {s} : list'[t] = list[t]
    BY <1>1 DEF TypeInv, BaseType
  <1>3. Handled(d) => Handled(d)'
    BY <1>1, <1>2 DEF Handled, InHand
  <1>4. ASSUME d \in Live, events[d].timed, events[d].start \in {now, now + 1}
        PROVE  Handled(d)'
    <2>1. CASE events[d].reminded
      BY <1>1, <2>1 DEF Handled
    <2>2. CASE ~ events[d].reminded
      <3>1. now \in Nat /\ Window \in Nat /\ Window >= 1
        BY EventParts, CalendarAssumption DEF TypeInv
      <3>2. events[d].start \in now..now + Window
        BY <1>4, <3>1
      <3>3. Due(d)
        BY <1>4, <2>2, <3>2 DEF Due
      <3>4. Snapshot(d) \in list'[s] /\ Snapshot(d).id = d
        BY <1>2, <3>3 DEF Snapshot
      <3> QED
        BY <3>4 DEF Handled, InHand
    <2> QED
      BY <2>1, <2>2
  <1> QED
    BY <1>1, <1>3, <1>4 DEF SeenInv, Seen, Live

LEMMA RunSeen ==
    ASSUME TypeInv, SeenInv, NEW s \in Schedulers, Notify(s) \/ Stamp(s) \/ FinishRun(s) \/ Die(s),
           NEW d \in Ids
    PROVE  Seen(d)'
  <1>0. UNCHANGED timeVars /\ written' = written
    BY DEF Notify, Stamp, FinishRun, Die, tableVars
  <1>1. CASE Notify(s)
    <2>1. PICK e \in list[s] : /\ current' = [current EXCEPT ![s] = e]
                               /\ list' = [list EXCEPT ![s] = @ \ {e}]
      BY <1>1 DEF Notify
    <2>2. /\ current'[s] = e /\ list'[s] = list[s] \ {e}
          /\ \A t \in Schedulers \ {s} : current'[t] = current[t] /\ list'[t] = list[t]
      BY <2>1 DEF TypeInv, BaseType
    <2>3. current[s].id # d /\ events' = events /\ deaths' = deaths
      BY <1>1 DEF Notify, Nothing, Ids, tableVars
    <2>4. Handled(d) => Handled(d)'
      <3>1. CASE events[d].reminded
        BY <2>3, <3>1 DEF Handled
      <3>2. CASE InHand(d)
        <4>1. PICK t \in Schedulers : current[t].id = d \/ \E f \in list[t] : f.id = d
          BY <3>2 DEF InHand
        <4>2. CASE t # s
          BY <2>2, <4>1, <4>2 DEF Handled, InHand
        <4>3. CASE t = s
          <5>1. PICK f \in list[s] : f.id = d
            BY <2>3, <4>1, <4>3
          <5>2. f = e \/ f \in list'[s]
            BY <2>2
          <5> QED
            BY <2>2, <5>1, <5>2 DEF Handled, InHand
        <4> QED
          BY <4>2, <4>3
      <3> QED
        BY <3>1, <3>2 DEF Handled
    <2> QED
      BY <1>0, <2>3, <2>4, SeenStays DEF SeenInv
  <1>2. CASE Stamp(s)
    <2>1. /\ current' = [current EXCEPT ![s] = Nothing] /\ list' = list /\ deaths' = deaths
          /\ events' = IF current[s].id \in Live
                       THEN [events EXCEPT ![current[s].id].reminded = TRUE] ELSE events
      BY <1>2 DEF Stamp
    <2>2. \A t \in Schedulers \ {s} : current'[t] = current[t]
      BY <2>1 DEF TypeInv, BaseType
    <2>3. events[d] \in EventType /\ events \in [Ids -> EventType]
      BY DEF TypeInv, BaseType
    <2>4. /\ events'[d].live = events[d].live /\ events'[d].start = events[d].start
          /\ events'[d].timed = events[d].timed
          /\ events[d].reminded => events'[d].reminded
          /\ current[s].id = d /\ events[d].live => events'[d].reminded
      <3>1. CASE current[s].id = d /\ d \in Live
        <4>1. events'[d] = [events[d] EXCEPT !.reminded = TRUE]
          BY <2>1, <2>3, <3>1
        <4> QED
          BY <2>3, <4>1 DEF EventType
      <3>2. CASE ~ (current[s].id = d /\ d \in Live)
        <4>1. events'[d] = events[d]
          BY <2>1, <2>3, <3>2
        <4> QED
          BY <3>2, <4>1 DEF Live
      <3> QED
        BY <3>1, <3>2
    <2>5. events'[d].live /\ Handled(d) => Handled(d)'
      <3>1. SUFFICES ASSUME events[d].live, InHand(d), ~ events'[d].reminded
                     PROVE  InHand(d)'
        BY <2>4 DEF Handled
      <3>2. PICK t \in Schedulers : current[t].id = d \/ \E f \in list[t] : f.id = d
        BY <3>1 DEF InHand
      <3>3. CASE t # s
        BY <2>1, <2>2, <3>2, <3>3 DEF InHand
      <3>4. CASE t = s
        BY <2>1, <2>4, <3>1, <3>2, <3>4 DEF InHand
      <3> QED
        BY <3>3, <3>4
    <2> QED
      BY <1>0, <2>1, <2>4, <2>5, SeenStays DEF SeenInv
  <1>3. CASE FinishRun(s)
    BY <1>0, <1>3 DEF FinishRun, tableVars, SeenInv, Seen, Handled, InHand, Live, timeVars
  <1>4. CASE Die(s)
    <2>1. deaths' # 0
      BY <1>4, EventParts DEF Die, TypeInv
    <2> QED
      BY <2>1 DEF Seen
  <1> QED
    BY <1>1, <1>2, <1>3, <1>4

\* The mark before the event's time and its time do not both go by unused.
LEMMA TickSeen ==
    ASSUME TypeInv, SeenInv, Tick, NEW d \in Ids
    PROVE  Seen(d)'
  <1>1. /\ deaths > 0 \/ ~ missed \/ ranBy # {}
        /\ now' = now + 1 /\ missed' = (ranBy = {}) /\ ranBy' = {}
        /\ events' = events /\ written' = written
        /\ list' = list /\ current' = current /\ deaths' = deaths
    BY DEF Tick, tableVars, runVars
  <1>2. /\ now \in Nat /\ deaths \in Nat /\ written[d].at \in Nat /\ events[d].start \in Nat
    BY EventParts DEF TypeInv
  <1>3. Handled(d)' = Handled(d) /\ Live' = Live
    BY <1>1 DEF Handled, InHand, Live
  <1>4. SUFFICES ASSUME deaths = 0, d \in Live, events[d].timed
                 PROVE  /\ events[d].start = now + 1 /\ written[d].at + 2 <= now + 1 /\ ranBy # {}
                           => Handled(d)
                        /\ events[d].start < now + 1 /\ written[d].at + 2 <= events[d].start
                           => Handled(d)
    BY <1>1, <1>3 DEF Seen
  <1>5. /\ events[d].start \in {now, now + 1} /\ written[d].at < now /\ ranBy # {} => Handled(d)
        /\ events[d].start = now /\ written[d].at + 2 <= now /\ ~ missed => Handled(d)
        /\ events[d].start < now /\ written[d].at + 2 <= events[d].start => Handled(d)
    BY <1>4 DEF SeenInv, Seen
  <1>6. ~ missed \/ ranBy # {}
    BY <1>1, <1>4
  <1> QED
    BY <1>2, <1>5, <1>6

LEMMA StepSeen == TypeInv /\ SeenInv /\ [Next]_vars => SeenInv'
  <1> SUFFICES ASSUME TypeInv, SeenInv, [Next]_vars, NEW d \in Ids PROVE Seen(d)'
    BY DEF SeenInv
  <1>0. TypeInv'
    BY StepTyped
  <1>1. CASE LockExpires \/ UNCHANGED vars
    <2>1. UNCHANGED <<now, ranBy, missed, events, written, list, current, deaths>>
      BY <1>1 DEF LockExpires, vars, timeVars, tableVars, runVars
    <2> QED
      BY <2>1 DEF SeenInv, Seen, Handled, InHand, Live
  <1> QED
    BY <1>0, <1>1, WritersSeen, StartSees, RunSeen, TickSeen DEF Next, Run

\* As long as nothing dies, an event that was entered at least two marks ahead of
\* its time is taken up by calendar:remind before that time is over, whichever
\* marks the schedulers step over, and whatever is edited and imported meanwhile.
THEOREM RemindedInTime == Spec => []DueIsHandledInTime
  <1>1. Init => SeenInv
    BY DEF Init, SeenInv, Seen, Live, Gone
  <1>2. SeenInv => DueIsHandledInTime
    BY DEF SeenInv, Seen, DueIsHandledInTime, Passed, Handled
  <1> QED
    BY <1>1, <1>2, StepSeen, TypeInvAlways, PTL DEF Spec

=============================================================================
