------------------------------ MODULE Calendar ------------------------------
(***************************************************************************)
(* The events of one mailbox and who writes them: the portal and CalDAV    *)
(* clients, the import of an invite that a queue worker runs inside        *)
(* StoreIncomingEmail, and the calendar:remind command, which a scheduler  *)
(* starts at every five-minute mark.                                       *)
(*                                                                         *)
(* Time is counted in those marks.  A scheduler is a loop of schedule:run  *)
(* and `sleep 60`: a round takes a little more than a minute, so now and   *)
(* then it steps over the minute of a mark, but never over two marks in a  *)
(* row.  During a redeploy two schedulers run side by side.  A request of  *)
(* the portal or of a CalDAV client reads and writes its event in one      *)
(* step; the import and the command, which keep what they read, do not.    *)
(***************************************************************************)
EXTENDS Naturals, FiniteSets

CONSTANTS
    Schedulers,   \* scheduler containers
    Imports,      \* runs of importCalendarInvites, one VEVENT each
    Invite,       \* [Imports -> [start : Starts, timed : BOOLEAN]]: one UID for all
    Starts,       \* the marks at which events may start
    Window,       \* the 30 minutes, in marks
    Horizon,      \* bound: the last mark
    MaxEvents,    \* bound: events ever created
    MaxEdits,     \* bound: writes of the portal and of CalDAV clients
    MaxDeaths     \* bound: deaths of the command or its container

Times == 0..Horizon
Ids == 1..MaxEvents

ASSUME CalendarAssumption ==
    /\ Schedulers \cap {"free", "stale"} = {}
    /\ Starts \subseteq Times
    /\ Invite \in [Imports -> [start : Starts, timed : BOOLEAN]]
    /\ IsFiniteSet(Imports)
    /\ Window \in Nat \ {0} /\ Horizon \in Nat /\ MaxEvents \in Nat
    /\ MaxEdits \in Nat /\ MaxDeaths \in Nat

VARIABLES
    now,      \* the current mark
    ranBy,    \* schedulers that started the command at this mark
    missed,   \* did no command start at the previous mark?
    events,   \* the events table, by id
    created,  \* ids handed out
    edits,    \* writes of the portal and of CalDAV clients so far
    lock,     \* the withoutOverlapping mutex: Free, its holder, or Stale
    list,     \* events each running command has read and not yet handled
    current,  \* the event it has notified and not yet stamped
    import,   \* stage of each import: "find", "write", "done"
    found,    \* the event an import has found, as it read it
    pushes,   \* reminders sent for each event
    toldFor,  \* the start the last of them was (or would have been) sent for
    written,  \* mark at which an event's time was last written, and its value
    deaths,   \* deaths so far
    puts,     \* CalDAV writes so far that gave an event the UID of the invite
    overlaps  \* lookups so far that found nothing while another import, which
              \* had found nothing either, had yet to insert

timeVars == <<now, ranBy, missed>>
tableVars == <<events, created, edits, written, puts>>
runVars == <<lock, list, current, pushes, toldFor, deaths>>
importVars == <<import, found, overlaps>>
vars == <<timeVars, tableVars, runVars, importVars>>

Free == "free"
Stale == "stale"  \* held by a container that is gone
Gone == [start |-> 0, timed |-> FALSE, invited |-> FALSE, reminded |-> TRUE, live |-> FALSE]
Event(start, timed, invited) ==
    [start |-> start, timed |-> timed, invited |-> invited, reminded |-> FALSE, live |-> TRUE]
Nothing == [id |-> 0, start |-> 0, timed |-> FALSE]

Live == {id \in Ids : events[id].live}
Snapshot(id) == [id |-> id, start |-> events[id].start, timed |-> events[id].timed]

Init ==
    /\ now = 0 /\ ranBy = {} /\ missed = FALSE
    /\ events = [id \in Ids |-> Gone]
    /\ created = 0 /\ edits = 0
    /\ lock = Free
    /\ list = [s \in Schedulers |-> {}]
    /\ current = [s \in Schedulers |-> Nothing]
    /\ import = [i \in Imports |-> "find"]
    /\ found = [i \in Imports |-> Nothing]
    /\ pushes = [id \in Ids |-> 0]
    /\ toldFor = [id \in Ids |-> 0]
    /\ written = [id \in Ids |-> [at |-> 0, start |-> 0, timed |-> FALSE]]
    /\ deaths = 0 /\ puts = 0 /\ overlaps = 0

-----------------------------------------------------------------------------
(* The portal, CalDAV and the table *)

CountEdit == edits < MaxEdits /\ edits' = edits + 1

Insert(start, timed, invited) ==
    /\ created < MaxEvents
    /\ created' = created + 1
    /\ events' = [events EXCEPT ![created + 1] = Event(start, timed, invited)]
    /\ written' = [written EXCEPT ![created + 1] = [at |-> now, start |-> start, timed |-> timed]]

\* A client's write makes an event one of the invite's.
CountPut(yes) == puts' = IF yes THEN puts + 1 ELSE puts

\* EventController::store, which sets no source_uid, and createCalendarObject,
\* which takes it from the UID of what the client puts: that of the invite, when
\* the client accepted the mail by itself.
Create ==
    /\ CountEdit
    /\ \E start \in Starts, timed, invited \in BOOLEAN :
        /\ Insert(start, timed, invited)
        /\ CountPut(invited)
    /\ UNCHANGED <<timeVars, runVars, importVars>>

\* EventController::update, which leaves source_uid, and updateCalendarObject,
\* which sets it again: reminded_at stays.
Move(id) ==
    /\ id \in Live
    /\ CountEdit
    /\ \E start \in Starts, timed, invited \in BOOLEAN :
        /\ events' = [events EXCEPT ![id].start = start, ![id].timed = timed,
                                   ![id].invited = invited]
        /\ written' = [written EXCEPT ![id] = [at |-> now, start |-> start, timed |-> timed]]
        /\ CountPut(invited /\ ~ events[id].invited)
    /\ UNCHANGED <<timeVars, created, runVars, importVars>>

\* EventController::destroy and deleteCalendarObject.
Delete(id) ==
    /\ id \in Live
    /\ CountEdit
    /\ events' = [events EXCEPT ![id] = Gone]
    /\ UNCHANGED <<timeVars, created, written, puts, runVars, importVars>>

-----------------------------------------------------------------------------
(* importCalendarInvites: updateOrCreate(['source_uid' => uid], ...) *)

Inserting == {i \in Imports : import[i] = "write" /\ found[i] = Nothing}
InvitedLive == {id \in Live : events[id].invited}

\* The lookup of updateOrCreate.
FindInvite(i) ==
    /\ import[i] = "find"
    /\ import' = [import EXCEPT ![i] = "write"]
    /\ \/ /\ InvitedLive = {}
          /\ overlaps' = IF Inserting = {} THEN overlaps ELSE overlaps + 1
          /\ UNCHANGED found
       \/ \E id \in InvitedLive :
            /\ found' = [found EXCEPT ![i] = Snapshot(id)]
            /\ UNCHANGED overlaps
    /\ UNCHANGED <<timeVars, tableVars, runVars>>

InsertInvite(i) == Insert(Invite[i].start, Invite[i].timed, TRUE)

\* Mutated form of WriteInvite: events()->create for every invite.
WriteInviteAlways(i) ==
    /\ import[i] = "write"
    /\ import' = [import EXCEPT ![i] = "done"]
    /\ InsertInvite(i)
    /\ UNCHANGED <<timeVars, edits, puts, runVars, found, overlaps>>

\* A column after a save by someone who read it earlier.
Saved(old, read, new) == IF new = read THEN old ELSE new

\* save(): the columns that differ from the row as it was read are written.  Of
\* a row that was deleted meanwhile nothing is.
SaveInvite(i) ==
    LET id == found[i].id
        start == Saved(events[id].start, found[i].start, Invite[i].start)
        timed == Saved(events[id].timed, found[i].timed, Invite[i].timed)
        dirty == <<Invite[i].start, Invite[i].timed>> # <<found[i].start, found[i].timed>>
    IN  IF id \in Live /\ dirty
        THEN /\ events' = [events EXCEPT ![id].start = start, ![id].timed = timed]
             /\ written' = [written EXCEPT ![id] =
                    [at |-> now,
                     start |-> Saved(@.start, found[i].start, Invite[i].start),
                     timed |-> Saved(@.timed, found[i].timed, Invite[i].timed)]]
        ELSE UNCHANGED <<events, written>>

\* No index on source_uid refuses a second row.
WriteInvite(i) ==
    /\ import[i] = "write"
    /\ import' = [import EXCEPT ![i] = "done"]
    /\ \/ found[i] = Nothing /\ InsertInvite(i)
       \/ found[i] # Nothing /\ SaveInvite(i) /\ UNCHANGED created
    /\ UNCHANGED <<timeVars, edits, puts, runVars, found, overlaps>>

-----------------------------------------------------------------------------
(* calendar:remind *)

\* Mutated forms of Due: the stamp is not looked at; the window is one mark short.
DueAgain(id) ==
    /\ id \in Live /\ events[id].timed
    /\ events[id].start \in now..now + Window

DueNarrow(id) ==
    /\ id \in Live /\ ~ events[id].reminded /\ events[id].timed
    /\ now <= events[id].start /\ events[id].start < now + Window

\* The query of handle().
Due(id) ==
    /\ id \in Live /\ ~ events[id].reminded /\ events[id].timed
    /\ events[id].start \in now..now + Window

\* The mutated form is a schedule without withoutOverlapping.
NoMutex(l) == TRUE
MayStart(l) == l = Free

\* schedule:run takes the mutex and starts the command, which reads its list.
StartRun(s) ==
    /\ s \notin ranBy /\ list[s] = {} /\ current[s] = Nothing
    /\ MayStart(lock)
    /\ lock' = s
    /\ ranBy' = ranBy \cup {s}
    /\ list' = [list EXCEPT ![s] = {Snapshot(id) : id \in {d \in Ids : Due(d)}}]
    /\ UNCHANGED <<now, missed, tableVars, current, pushes, toldFor, deaths, importVars>>

\* The push goes out unless the mailbox has no subscription or notify throws;
\* either way the loop goes on to the stamp.
Notify(s) ==
    /\ current[s] = Nothing
    /\ \E e \in list[s] :
        /\ current' = [current EXCEPT ![s] = e]
        /\ list' = [list EXCEPT ![s] = @ \ {e}]
        /\ pushes' = [pushes EXCEPT ![e.id] = @ + 1]
        /\ toldFor' = [toldFor EXCEPT ![e.id] = e.start]
    /\ UNCHANGED <<timeVars, tableVars, lock, deaths, importVars>>

\* Mutated form of Stamp: the whole row is written back as it was read.
StampWholeRow(s) ==
    /\ current[s] # Nothing
    /\ LET e == current[s] IN
        events' = IF e.id \in Live
                  THEN [events EXCEPT ![e.id].reminded = TRUE, ![e.id].start = e.start,
                                      ![e.id].timed = e.timed]
                  ELSE events
    /\ current' = [current EXCEPT ![s] = Nothing]
    /\ UNCHANGED <<timeVars, created, edits, written, puts, lock, list, pushes, toldFor, deaths, importVars>>

\* Saving the model writes reminded_at alone, and nothing if the row is gone.
Stamp(s) ==
    /\ current[s] # Nothing
    /\ LET id == current[s].id IN
        events' = IF id \in Live THEN [events EXCEPT ![id].reminded = TRUE] ELSE events
    /\ current' = [current EXCEPT ![s] = Nothing]
    /\ UNCHANGED <<timeVars, created, edits, written, puts, lock, list, pushes, toldFor, deaths, importVars>>

\* The command is through; schedule:run gives the mutex back.
FinishRun(s) ==
    /\ lock = s /\ list[s] = {} /\ current[s] = Nothing
    /\ lock' = Free
    /\ UNCHANGED <<timeVars, tableVars, list, current, pushes, toldFor, deaths, importVars>>

\* The command dies and schedule:run gives the mutex back, or its container
\* dies with it and the mutex stays.
Die(s) ==
    /\ lock = s /\ deaths < MaxDeaths
    /\ deaths' = deaths + 1
    /\ \E l \in {Free, Stale} : lock' = l
    /\ list' = [list EXCEPT ![s] = {}]
    /\ current' = [current EXCEPT ![s] = Nothing]
    /\ UNCHANGED <<timeVars, tableVars, pushes, toldFor, importVars>>

\* A mutex nobody gives back expires after a day.
LockExpires ==
    /\ lock = Stale
    /\ lock' = Free
    /\ UNCHANGED <<timeVars, tableVars, list, current, pushes, toldFor, deaths, importVars>>

\* The next mark.  While every command and container lives, no two marks in a
\* row go by without the command.
Tick ==
    /\ now < Horizon
    /\ deaths > 0 \/ ~ missed \/ ranBy # {}
    /\ now' = now + 1
    /\ missed' = (ranBy = {})
    /\ ranBy' = {}
    /\ UNCHANGED <<tableVars, runVars, importVars>>

-----------------------------------------------------------------------------

Run(s) == StartRun(s) \/ Notify(s) \/ Stamp(s) \/ FinishRun(s) \/ Die(s)

Next ==
    \/ Create
    \/ \E id \in Ids : Move(id) \/ Delete(id)
    \/ \E i \in Imports : FindInvite(i) \/ WriteInvite(i)
    \/ \E s \in Schedulers : Run(s)
    \/ LockExpires
    \/ Tick

Spec == Init /\ [][Next]_vars

-----------------------------------------------------------------------------
(* Properties *)

Snapshots == [id : 0..MaxEvents, start : Times, timed : BOOLEAN]

TypeOK ==
    /\ now \in Times /\ ranBy \subseteq Schedulers /\ missed \in BOOLEAN
    /\ events \in [Ids -> [start : Times, timed : BOOLEAN, invited : BOOLEAN,
                           reminded : BOOLEAN, live : BOOLEAN]]
    /\ created \in 0..MaxEvents /\ edits \in 0..MaxEdits
    /\ lock \in Schedulers \cup {Free, Stale}
    /\ list \in [Schedulers -> SUBSET Snapshots]
    /\ current \in [Schedulers -> Snapshots]
    /\ import \in [Imports -> {"find", "write", "done"}]
    /\ found \in [Imports -> Snapshots]
    /\ pushes \in [Ids -> 0..MaxDeaths + 1]
    /\ toldFor \in [Ids -> Times]
    /\ written \in [Ids -> [at : Times, start : Times, timed : BOOLEAN]]
    /\ deaths \in 0..MaxDeaths
    /\ puts \in 0..edits /\ overlaps \in Nat

\* Overlapping schedulers, skipped marks and edits never make calendar:remind
\* notify an event twice; only a death between the push and the stamp can, once
\* each time.
RemindedOncePerDeath == \A id \in Ids : pushes[id] <= 1 + deaths

InHand(id) ==
    \E s \in Schedulers : current[s].id = id \/ \E e \in list[s] : e.id = id

\* The start of a live event that nobody moved lately, seen from after it.
Passed(id) ==
    /\ id \in Live /\ events[id].timed
    /\ events[id].start < now
    /\ written[id].at + 2 <= events[id].start

\* As long as nothing dies, an event entered at least two marks ahead is taken
\* up by the command before it is over, skipped marks notwithstanding.
DueIsHandledInTime ==
    deaths = 0 => \A id \in Ids : Passed(id) => events[id].reminded \/ InHand(id)

\* No writer takes back what another one wrote: the command saves its stamp
\* only, and the import what the invite changed.
NoLostEdit ==
    \A id \in Live :
        /\ events[id].start = written[id].start
        /\ events[id].timed = written[id].timed

\* Invites with the same UID make one event, however often they are sent.  Each
\* further one comes of an import that looked while another had yet to insert,
\* or of a CalDAV client that put an event with that UID itself.
OneEventPerInvite == Cardinality(InvitedLive) <= 1 + overlaps + puts

\* The command's docblock: a push about 30 minutes before a timed event, also
\* before the time it was moved to.
RemindedBeforeItsTime ==
    deaths = 0 =>
        \A id \in Ids : Passed(id) => events[id].start = toldFor[id] \/ InHand(id)
=============================================================================
