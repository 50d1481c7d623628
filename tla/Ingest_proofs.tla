---------------------------- MODULE Ingest_proofs ----------------------------
(***************************************************************************)
(* Proofs about the inbound path, for every set of deliveries, messages    *)
(* and workers and every number of tries.                                  *)
(***************************************************************************)
EXTENDS Ingest, SequenceTheorems, TLAPS

(***************************************************************************)
(* An emails row is only ever inserted at the end or replaced by a row of  *)
(* the same type.                                                          *)
(***************************************************************************)
LEMMA RowAppended ==
    ASSUME NEW s \in Seq(EmailRows), NEW r \in EmailRows
    PROVE  /\ Append(s, r) \in Seq(EmailRows)
           /\ Len(Append(s, r)) = Len(s) + 1
           /\ \A i \in 1..Len(s) : Append(s, r)[i] = s[i]
           /\ Append(s, r)[Len(s) + 1] = r
  OBVIOUS

LEMMA RowReplaced ==
    ASSUME NEW s \in Seq(EmailRows), NEW i \in 1..Len(s), NEW r \in EmailRows
    PROVE  /\ [s EXCEPT ![i] = r] \in Seq(EmailRows)
           /\ Len([s EXCEPT ![i] = r]) = Len(s)
           /\ [s EXCEPT ![i] = r][i] = r
           /\ \A j \in 1..Len(s) : j # i => [s EXCEPT ![i] = r][j] = s[j]
  OBVIOUS

LEMMA RowAnnounced ==
    ASSUME NEW r \in EmailRows
    PROVE  [r EXCEPT !.pushes = @ + 1] \in EmailRows
  BY DEF EmailRows

(***************************************************************************)
(* A worker inside handle() holds an entry; once it has created a row, the *)
(* row is in the table and is that worker's alone.                         *)
(***************************************************************************)
HoldsEntry == \A w \in Workers : pc[w] # "idle" => entry[w] \in Entries

OwnsRow ==
    /\ \A w \in Workers : row[w] # 0 => row[w] \in Rows
    /\ \A w \in Workers : pc[w] \in {"attach", "notify"} => row[w] # 0
    /\ \A v, w \in Workers : v # w /\ row[v] # 0 => row[v] # row[w]

TypeInv == TypeOK /\ HoldsEntry /\ OwnsRow

\* Throw and Rest leave the worker without an entry and without a row.
LEMMA RestTyped ==
    ASSUME TypeInv, NEW w \in Workers, Rest(w), emails' = emails
    PROVE  /\ pc' \in [Workers -> PcStates]
           /\ entry' \in [Workers -> Entries \cup {NoEntry}]
           /\ row' \in [Workers -> Nat]
           /\ next' \in [Workers -> Nat \ {0}]
           /\ HoldsEntry' /\ OwnsRow'
  BY DEF TypeInv, TypeOK, HoldsEntry, OwnsRow, Rest, PcStates, Rows

LEMMA ThrowTyped ==
    ASSUME TypeInv, NEW w \in Workers, pc[w] # "idle", Throw(w), emails' = emails,
           UNCHANGED edgeVars
    PROVE  TypeInv'
  <1>1. entry[w] \in Entries
    BY DEF TypeInv, HoldsEntry
  <1>2. /\ ready' \subseteq Entries
        /\ reserved' \subseteq Entries
        /\ failed' \subseteq Deliveries
    BY <1>1 DEF TypeInv, TypeOK, Throw, Entries
  <1> QED
    BY <1>2, RestTyped DEF TypeInv, TypeOK, Throw, edgeVars

LEMMA TypeInvInductive == TypeInv /\ [Next]_vars => TypeInv'
  <1> SUFFICES ASSUME TypeInv, [Next]_vars PROVE TypeInv'
    OBVIOUS
  <1> USE IngestAssumption
  <1>1. ASSUME NEW d \in Deliveries, WebhookAccepts(d) PROVE TypeInv'
    BY <1>1 DEF TypeInv, TypeOK, HoldsEntry, OwnsRow, WebhookAccepts, CatchOutcomes,
       EdgeStates, Entries, localVars, Rows
  <1>2. ASSUME NEW d \in Deliveries, WebhookRefuses(d) PROVE TypeInv'
    BY <1>2 DEF TypeInv, TypeOK, HoldsEntry, OwnsRow, WebhookRefuses, CatchOutcomes,
       EdgeStates, localVars, queueVars, Rows
  <1>3. ASSUME NEW w \in Workers, Pop(w) PROVE TypeInv'
    <2>1. PICK e \in ready :
            LET taken == [e EXCEPT !.attempts = @ + 1] IN
            /\ ready' = ready \ {e}
            /\ \/ /\ TriedTooOften(taken)
                  /\ failed' = failed \cup {e.job}
                  /\ UNCHANGED <<reserved, pc, entry>>
               \/ /\ ~ TriedTooOften(taken)
                  /\ reserved' = reserved \cup {taken}
                  /\ pc' = [pc EXCEPT ![w] = "check"]
                  /\ entry' = [entry EXCEPT ![w] = taken]
                  /\ UNCHANGED failed
      BY <1>3 DEF Pop
    <2> DEFINE taken == [e EXCEPT !.attempts = @ + 1]
    <2>2. e \in Entries /\ e.job \in Deliveries /\ e.attempts \in 0..MaxTries + 1
      BY DEF TypeInv, TypeOK, Entries
    <2>3. ~ TriedTooOften(taken) => taken \in Entries
      BY <2>2 DEF TriedTooOften, Entries
    <2>4. UNCHANGED <<edge, enqueued, row, next, emails>> /\ pc[w] = "idle"
      BY <1>3 DEF Pop, edgeVars
    <2>5. CASE TriedTooOften(taken)
      BY <2>1, <2>2, <2>4, <2>5 DEF TypeInv, TypeOK, HoldsEntry, OwnsRow, Rows
    <2>6. CASE ~ TriedTooOften(taken)
      <3>1. /\ ready' = ready \ {e} /\ reserved' = reserved \cup {taken}
            /\ pc' = [pc EXCEPT ![w] = "check"] /\ entry' = [entry EXCEPT ![w] = taken]
            /\ UNCHANGED failed /\ taken \in Entries
        BY <2>1, <2>3, <2>6
      <3> HIDE DEF taken
      <3>2. TypeOK'
        BY <3>1, <2>4 DEF TypeInv, TypeOK, PcStates
      <3>3. HoldsEntry' /\ OwnsRow'
        BY <3>1, <2>4 DEF TypeInv, TypeOK, HoldsEntry, OwnsRow, Rows
      <3> QED
        BY <3>2, <3>3 DEF TypeInv
    <2> QED
      BY <2>5, <2>6
  <1>4. ASSUME NEW w \in Workers, CheckExists(w) PROVE TypeInv'
    BY <1>4 DEF TypeInv, TypeOK, HoldsEntry, OwnsRow, CheckExists, PcStates, edgeVars,
       queueVars, Rows
  <1>5. ASSUME NEW w \in Workers, CreateEmail(w) PROVE TypeInv'
    <2>1. CASE UniqueViolation(Msg(w)) /\ Throw(w) /\ UNCHANGED emails
      BY <1>5, <2>1, ThrowTyped DEF CreateEmail
    <2>2. CASE ~ UniqueViolation(Msg(w)) /\ ~ (Throw(w) /\ UNCHANGED emails)
      <3> DEFINE r == [msg |-> Msg(w), attachments |-> << >>, pushes |-> 0]
      <3>1. /\ emails' = Append(emails, r)
            /\ row' = [row EXCEPT ![w] = Len(emails) + 1]
            /\ pc' = [pc EXCEPT ![w] = AfterAttachment(Msg(w), 1)]
            /\ UNCHANGED <<edge, enqueued, ready, reserved, failed, entry, next>>
            /\ pc[w] = "create"
        BY <1>5, <2>2 DEF CreateEmail, queueVars, edgeVars
      <3>2. Msg(w) \in Messages
        BY <3>1 DEF TypeInv, HoldsEntry, Msg, Entries
      <3>3. r \in EmailRows
        BY <3>2 DEF EmailRows
      <3>4. /\ emails \in Seq(EmailRows) /\ emails' \in Seq(EmailRows)
            /\ Len(emails) \in Nat /\ Len(emails') = Len(emails) + 1
        BY <3>1, <3>3, RowAppended DEF TypeInv, TypeOK
      <3>5. AfterAttachment(Msg(w), 1) \in PcStates
        BY DEF AfterAttachment, PcStates
      <3>6. TypeOK' /\ HoldsEntry'
        BY <3>1, <3>4, <3>5 DEF TypeInv, TypeOK, HoldsEntry
      <3>7. OwnsRow'
        BY <3>1, <3>4 DEF TypeInv, TypeOK, OwnsRow, Rows
      <3> QED
        BY <3>6, <3>7 DEF TypeInv
    <2> QED
      BY <1>5, <2>1, <2>2 DEF CreateEmail
  <1>6. ASSUME NEW w \in Workers, StoreAttachment(w) PROVE TypeInv'
    <2> DEFINE r == [emails[row[w]] EXCEPT !.attachments = Append(@, next[w])]
    <2>1. row[w] \in 1..Len(emails) /\ pc[w] = "attach"
      BY <1>6 DEF StoreAttachment, TypeInv, OwnsRow, Rows
    <2>2. emails[row[w]] \in EmailRows /\ next[w] \in Nat \ {0}
      BY <2>1 DEF TypeInv, TypeOK
    <2>3. r \in EmailRows
      <3>1. Append(emails[row[w]].attachments, next[w]) \in Seq(Nat)
        BY <2>2 DEF EmailRows
      <3> QED
        BY <2>2, <3>1 DEF EmailRows
    <2>4. emails' = [emails EXCEPT ![row[w]] = r]
      BY <1>6 DEF StoreAttachment
    <2>5. emails' \in Seq(EmailRows) /\ Len(emails') = Len(emails)
      BY <2>1, <2>3, <2>4, RowReplaced DEF TypeInv, TypeOK
    <2>6. AfterAttachment(Msg(w), next[w] + 1) \in PcStates
      BY DEF AfterAttachment, PcStates
    <2>7. TypeOK' /\ HoldsEntry'
      BY <1>6, <2>1, <2>2, <2>5, <2>6
      DEF TypeInv, TypeOK, HoldsEntry, StoreAttachment, edgeVars, queueVars
    <2>8. OwnsRow'
      BY <1>6, <2>1, <2>5 DEF TypeInv, TypeOK, OwnsRow, StoreAttachment, Rows
    <2> QED
      BY <2>7, <2>8 DEF TypeInv
  <1>7. ASSUME NEW w \in Workers, Notify(w) PROVE TypeInv'
    <2>1. row[w] \in 1..Len(emails) /\ pc[w] = "notify"
      BY <1>7 DEF Notify, TypeInv, OwnsRow, Rows
    <2> DEFINE r == [emails[row[w]] EXCEPT !.pushes = @ + 1]
    <2>2. emails[row[w]] \in EmailRows
      BY <2>1 DEF TypeInv, TypeOK
    <2>3. r \in EmailRows
      BY <2>2, RowAnnounced
    <2>4. emails' = [emails EXCEPT ![row[w]] = r] \/ emails' = emails
      <3>1. \/ emails' = [emails EXCEPT ![row[w]].pushes = @ + 1]
            \/ emails' = emails
        BY <1>7 DEF Notify
      <3>2. [emails EXCEPT ![row[w]].pushes = @ + 1] = [emails EXCEPT ![row[w]] = r]
        BY <2>1, <2>2 DEF EmailRows, TypeInv, TypeOK
      <3> QED
        BY <3>1, <3>2
    <2>5. emails' \in Seq(EmailRows) /\ Len(emails') = Len(emails)
      <3> HIDE DEF r
      <3>1. emails \in Seq(EmailRows)
        BY DEF TypeInv, TypeOK
      <3>2. CASE emails' = [emails EXCEPT ![row[w]] = r]
        BY <2>1, <2>3, <3>1, <3>2, RowReplaced
      <3> QED
        BY <2>4, <3>1, <3>2
    <2>6. TypeOK' /\ HoldsEntry' /\ OwnsRow'
      BY <1>7, <2>1, <2>5 DEF TypeInv, TypeOK, HoldsEntry, OwnsRow, Notify, Rows,
         edgeVars, queueVars, PcStates
    <2> QED
      BY <2>6 DEF TypeInv
  <1>8. ASSUME NEW w \in Workers, Ack(w) PROVE TypeInv'
    BY <1>8, RestTyped DEF TypeInv, TypeOK, Ack, edgeVars
  <1>9. ASSUME NEW w \in Workers, HandleThrows(w) PROVE TypeInv'
    BY <1>9, ThrowTyped DEF HandleThrows
  <1>10. ASSUME NEW w \in Workers, Crash(w) PROVE TypeInv'
    BY <1>10, RestTyped DEF TypeInv, TypeOK, Crash, edgeVars, queueVars
  <1>11. ASSUME NEW w \in Workers, Timeout(w) PROVE TypeInv'
    <2>1. entry[w].job \in Deliveries
      BY <1>11 DEF Timeout, TypeInv, HoldsEntry, Entries
    <2> QED
      BY <1>11, <2>1, RestTyped DEF TypeInv, TypeOK, Timeout, edgeVars
  <1>12. CASE Expire
    BY <1>12 DEF TypeInv, TypeOK, HoldsEntry, OwnsRow, Expire, edgeVars, localVars, Rows
  <1>13. CASE UNCHANGED vars
    BY <1>13 DEF TypeInv, TypeOK, HoldsEntry, OwnsRow, vars, Rows
  <1> QED
    BY <1>1, <1>2, <1>3, <1>4, <1>5, <1>6, <1>7, <1>8, <1>9, <1>10, <1>11, <1>12, <1>13
    DEF Next, EdgeStep, WorkerStep, Fault

LEMMA TypeInvAlways == Spec => []TypeInv
  <1>1. Init => TypeInv
    BY IngestAssumption DEF Init, TypeInv, TypeOK, HoldsEntry, OwnsRow, EdgeStates,
       PcStates, EmailRows
  <1> QED
    BY <1>1, TypeInvInductive, PTL DEF Spec

(***************************************************************************)
(* The variables keep their types.                                         *)
(***************************************************************************)
THEOREM TypeCorrect == Spec => []TypeOK
  <1>1. TypeInv => TypeOK
    BY DEF TypeInv
  <1> QED
    BY <1>1, TypeInvAlways, PTL

(***************************************************************************)
(* What one round of the attachment loop and the push do to the table.     *)
(***************************************************************************)
LEMMA StoreEffect ==
    ASSUME TypeInv, NEW w \in Workers, StoreAttachment(w)
    PROVE  /\ row[w] \in Rows /\ Len(emails') = Len(emails)
           /\ \A i \in Rows : i # row[w] => emails'[i] = emails[i]
           /\ emails'[row[w]].msg = emails[row[w]].msg
           /\ emails'[row[w]].pushes = emails[row[w]].pushes
           /\ emails'[row[w]].attachments = Append(emails[row[w]].attachments, next[w])
  BY DEF StoreAttachment, TypeInv, TypeOK, OwnsRow, Rows, EmailRows

LEMMA NotifyEffect ==
    ASSUME TypeInv, NEW w \in Workers, Notify(w), ~ UNCHANGED emails
    PROVE  /\ row[w] \in Rows /\ Len(emails') = Len(emails)
           /\ \A i \in Rows : i # row[w] => emails'[i] = emails[i]
           /\ emails'[row[w]].msg = emails[row[w]].msg
           /\ emails'[row[w]].attachments = emails[row[w]].attachments
           /\ emails'[row[w]].pushes = emails[row[w]].pushes + 1
  <1>1. emails' = [emails EXCEPT ![row[w]].pushes = @ + 1]
    BY DEF Notify
  <1>2. row[w] \in Rows /\ emails \in Seq(EmailRows)
    BY DEF Notify, TypeInv, TypeOK, OwnsRow, Rows
  <1>3. /\ Len(emails') = Len(emails)
        /\ \A i \in Rows : i # row[w] => emails'[i] = emails[i]
    BY <1>1, <1>2 DEF Rows
  <1>4. emails'[row[w]] = [emails[row[w]] EXCEPT !.pushes = @ + 1]
    BY <1>1, <1>2 DEF Rows
  <1>5. emails[row[w]] \in EmailRows
    BY <1>2 DEF Rows
  <1> QED
    BY <1>2, <1>3, <1>4, <1>5 DEF EmailRows

(***************************************************************************)
(* No step takes a row out of the table or changes the message it files.   *)
(* The one step that adds a row is CreateEmail, and only where the index   *)
(* has none with the same ingest key.                                      *)
(***************************************************************************)
Inserts(w) ==
    /\ pc[w] = "create"
    /\ ~ ExistsByKey(Msg(w))
    /\ Msg(w) \in Messages
    /\ emails' = Append(emails, [msg |-> Msg(w), attachments |-> << >>, pushes |-> 0])

KeepsMessages ==
    /\ Len(emails') = Len(emails)
    /\ \A i \in Rows : emails'[i].msg = emails[i].msg

LEMMA RowsEvolve ==
    ASSUME TypeInv, [Next]_vars
    PROVE  KeepsMessages \/ \E w \in Workers : Inserts(w)
  <1>1. ASSUME UNCHANGED emails PROVE KeepsMessages
    BY <1>1 DEF KeepsMessages
  <1>2. ASSUME NEW w \in Workers, CreateEmail(w), ~ UNCHANGED emails PROVE Inserts(w)
    <2>1. pc[w] = "create" /\ ~ UniqueViolation(Msg(w))
      BY <1>2 DEF CreateEmail
    <2>2. Msg(w) \in Messages
      <3>1. entry[w].job \in Deliveries
        BY <2>1 DEF TypeInv, HoldsEntry, Entries
      <3> QED
        BY <3>1, IngestAssumption DEF Msg
    <2> QED
      BY <1>2, <2>1, <2>2 DEF CreateEmail, Inserts, UniqueViolation
  <1>3. ASSUME NEW w \in Workers, StoreAttachment(w) PROVE KeepsMessages
    BY <1>3, StoreEffect DEF KeepsMessages
  <1>4. ASSUME NEW w \in Workers, Notify(w) PROVE KeepsMessages
    BY <1>1, <1>4, NotifyEffect DEF KeepsMessages
  <1>5. \/ UNCHANGED emails
        \/ \E w \in Workers : CreateEmail(w) \/ StoreAttachment(w) \/ Notify(w)
    <2>1. ASSUME NEW d \in Deliveries, EdgeStep(d) PROVE UNCHANGED emails
      BY <2>1 DEF EdgeStep, WebhookAccepts, WebhookRefuses
    <2>2. ASSUME NEW w \in Workers, Pop(w) \/ CheckExists(w) \/ Ack(w) PROVE UNCHANGED emails
      BY <2>2 DEF Pop, CheckExists, Ack
    <2>3. ASSUME NEW w \in Workers, Fault(w) PROVE UNCHANGED emails
      BY <2>3 DEF Fault, HandleThrows, Crash, Timeout
    <2>4. CASE Expire \/ UNCHANGED vars
      BY <2>4 DEF Expire, vars
    <2> QED
      BY <2>1, <2>2, <2>3, <2>4 DEF Next, WorkerStep
  <1> QED
    BY <1>1, <1>2, <1>3, <1>4, <1>5

(***************************************************************************)
(* However attempts interleave, no two rows share an ingest key.           *)
(***************************************************************************)
LEMMA OneRowInductive ==
    TypeInv /\ OneRowPerIngestKey /\ [Next]_vars => OneRowPerIngestKey'
  <1> SUFFICES ASSUME TypeInv, OneRowPerIngestKey, [Next]_vars PROVE OneRowPerIngestKey'
    OBVIOUS
  <1>1. CASE KeepsMessages
    BY <1>1 DEF KeepsMessages, OneRowPerIngestKey, Rows
  <1>2. ASSUME NEW w \in Workers, Inserts(w) PROVE OneRowPerIngestKey'
    <2> DEFINE r == [msg |-> Msg(w), attachments |-> << >>, pushes |-> 0]
    <2>1. r \in EmailRows /\ emails \in Seq(EmailRows) /\ r.msg = Msg(w)
      BY <1>2 DEF Inserts, EmailRows, TypeInv, TypeOK
    <2>2. emails' = Append(emails, r)
      BY <1>2 DEF Inserts
    <2>3. \A i \in Rows : IngestKey(emails[i].msg) = IngestKey(Msg(w)) => IngestKey(Msg(w)) = NoId
      BY <1>2 DEF Inserts, ExistsByKey
    <2> HIDE DEF r
    <2>4. /\ Len(emails') = Len(emails) + 1 /\ Len(emails) \in Nat
          /\ \A i \in Rows : emails'[i].msg = emails[i].msg
          /\ emails'[Len(emails) + 1].msg = Msg(w)
      BY <2>1, <2>2, RowAppended DEF Rows
    <2> QED
      BY <2>3, <2>4 DEF OneRowPerIngestKey, Rows, IngestKey
  <1> QED
    BY <1>1, <1>2, RowsEvolve

THEOREM FiledOncePerKey == Spec => []OneRowPerIngestKey
  <1>1. Init => OneRowPerIngestKey
    BY DEF Init, OneRowPerIngestKey, Rows
  <1> QED
    BY <1>1, OneRowInductive, TypeInvAlways, PTL DEF Spec

(***************************************************************************)
(* The row a worker fills is complete up to the attachment its loop is at, *)
(* and has not been announced; every row holds a prefix of its message's   *)
(* attachments, all of them once it has been announced.                    *)
(***************************************************************************)
LoopAt(w) ==
    /\ pc[w] \in {"idle", "check", "create"} => next[w] = 1
    /\ pc[w] \in {"attach", "notify"} =>
          emails[row[w]].msg = Msg(w) /\ emails[row[w]].pushes = 0
    /\ pc[w] = "attach" =>
          /\ next[w] <= AttachmentCount[Msg(w)]
          /\ Len(emails[row[w]].attachments) = next[w] - 1
    /\ pc[w] = "notify" =>
          Len(emails[row[w]].attachments) = AttachmentCount[Msg(w)]

LoopInv ==
    /\ \A w \in Workers : LoopAt(w)
    /\ AttachmentsOnceInOrder
    /\ AnnouncedOnceWhenComplete

\* A worker whose own state and row do not change keeps its place in the loop.
LEMMA LoopUndisturbed ==
    ASSUME NEW w \in Workers, LoopAt(w),
           pc[w]' = pc[w], entry[w]' = entry[w], row[w]' = row[w], next[w]' = next[w],
           pc[w] \in {"attach", "notify"} => emails[row[w]]' = emails[row[w]]
    PROVE  LoopAt(w)'
  BY DEF LoopAt, Msg

LEMMA LoopAtRest ==
    ASSUME TypeInv, \A v \in Workers : LoopAt(v), NEW w \in Workers, Rest(w),
           emails' = emails
    PROVE  \A v \in Workers : LoopAt(v)'
  <1>1. LoopAt(w)'
    BY DEF LoopAt, Rest, TypeInv, TypeOK
  <1>2. ASSUME NEW v \in Workers, v # w PROVE LoopAt(v)'
    <2>1. pc[v]' = pc[v] /\ entry[v]' = entry[v] /\ row[v]' = row[v] /\ next[v]' = next[v]
      BY <1>2 DEF Rest, TypeInv, TypeOK
    <2> QED
      BY <2>1, LoopUndisturbed
  <1> QED
    BY <1>1, <1>2

LEMMA TableUnchanged ==
    ASSUME LoopInv, emails' = emails
    PROVE  AttachmentsOnceInOrder' /\ AnnouncedOnceWhenComplete'
  BY DEF LoopInv, AttachmentsOnceInOrder, AnnouncedOnceWhenComplete, Rows

LEMMA MsgTyped ==
    ASSUME TypeInv, NEW w \in Workers, pc[w] # "idle"
    PROVE  Msg(w) \in Messages /\ AttachmentCount[Msg(w)] \in Nat
  <1>1. entry[w].job \in Deliveries
    BY DEF TypeInv, HoldsEntry, Entries
  <1> QED
    BY <1>1, IngestAssumption DEF Msg

LEMMA CreateKeepsLoop ==
    ASSUME TypeInv, LoopInv, NEW w \in Workers, CreateEmail(w)
    PROVE  LoopInv'
  <1>1. CASE Throw(w) /\ UNCHANGED emails
    BY <1>1, LoopAtRest, TableUnchanged DEF LoopInv, Throw
  <1>2. CASE ~ (Throw(w) /\ UNCHANGED emails)
    <2> DEFINE r == [msg |-> Msg(w), attachments |-> << >>, pushes |-> 0]
    <2>1. /\ pc[w] = "create" /\ emails' = Append(emails, r)
          /\ row' = [row EXCEPT ![w] = Len(emails) + 1]
          /\ pc' = [pc EXCEPT ![w] = AfterAttachment(Msg(w), 1)]
          /\ UNCHANGED <<entry, next>>
      BY <1>2 DEF CreateEmail
    <2>2. Msg(w) \in Messages /\ AttachmentCount[Msg(w)] \in Nat
      BY <2>1, MsgTyped
    <2>3. /\ r \in EmailRows /\ emails \in Seq(EmailRows)
          /\ r.msg = Msg(w) /\ r.attachments = << >> /\ r.pushes = 0
      BY <2>2 DEF EmailRows, TypeInv, TypeOK
    <2> HIDE DEF r
    <2>4. /\ Len(emails') = Len(emails) + 1 /\ Len(emails) \in Nat
          /\ \A i \in Rows : emails'[i] = emails[i]
          /\ emails'[Len(emails) + 1] = r
      BY <2>1, <2>3, RowAppended DEF Rows
    <2>5. LoopAt(w)'
      <3>1. /\ row'[w] = Len(emails) + 1 /\ next'[w] = 1 /\ Msg(w)' = Msg(w)
            /\ pc'[w] = AfterAttachment(Msg(w), 1)
        BY <2>1 DEF TypeInv, TypeOK, LoopInv, LoopAt, Msg
      <3>2. emails'[row'[w]] = r
        BY <2>4, <3>1
      <3>3. Len(<< >>) = 0
        OBVIOUS
      <3> QED
        BY <2>2, <2>3, <3>1, <3>2, <3>3 DEF LoopAt, AfterAttachment
    <2>6. ASSUME NEW v \in Workers, v # w PROVE LoopAt(v)'
      <3>1. pc[v]' = pc[v] /\ entry[v]' = entry[v] /\ row[v]' = row[v] /\ next[v]' = next[v]
        BY <2>1, <2>6 DEF TypeInv, TypeOK
      <3>2. pc[v] \in {"attach", "notify"} => emails[row[v]]' = emails[row[v]]
        BY <2>4, <3>1 DEF TypeInv, OwnsRow
      <3> QED
        BY <3>1, <3>2, LoopUndisturbed DEF LoopInv
    <2>7. AttachmentsOnceInOrder' /\ AnnouncedOnceWhenComplete'
      <3>1. /\ Len(r.attachments) = 0 /\ r.pushes # 1 /\ r.pushes <= 1
            /\ Len(r.attachments) <= AttachmentCount[r.msg]
        BY <2>2, <2>3
      <3>2. \A i \in Rows' : i \in Rows \/ i = Len(emails) + 1
        BY <2>4 DEF Rows
      <3> QED
        BY <2>4, <3>1, <3>2 DEF LoopInv, AttachmentsOnceInOrder, AnnouncedOnceWhenComplete
    <2> QED
      BY <2>5, <2>6, <2>7 DEF LoopInv
  <1> QED
    BY <1>1, <1>2

LEMMA StoreKeepsLoop ==
    ASSUME TypeInv, LoopInv, NEW w \in Workers, StoreAttachment(w)
    PROVE  LoopInv'
  <1> DEFINE k == row[w]
             a == emails[k].attachments
  <1>1. /\ k \in Rows /\ Rows' = Rows
        /\ \A i \in Rows : i # k => emails'[i] = emails[i]
        /\ emails'[k].msg = emails[k].msg /\ emails'[k].pushes = emails[k].pushes
        /\ emails'[k].attachments = Append(a, next[w])
    BY StoreEffect DEF Rows
  <1>2. /\ pc[w] = "attach" /\ UNCHANGED <<entry, row>>
        /\ next' = [next EXCEPT ![w] = @ + 1]
        /\ pc' = [pc EXCEPT ![w] = AfterAttachment(Msg(w), next[w] + 1)]
    BY DEF StoreAttachment
  <1>3. Msg(w) \in Messages /\ AttachmentCount[Msg(w)] \in Nat
    BY <1>2, MsgTyped
  <1>4. /\ emails[k].msg = Msg(w) /\ emails[k].pushes = 0
        /\ next[w] <= AttachmentCount[Msg(w)] /\ Len(a) = next[w] - 1
        /\ next[w] \in Nat \ {0}
    BY <1>2 DEF LoopInv, LoopAt, TypeInv, TypeOK
  <1>5. a \in Seq(Nat)
    <2>1. emails[k] \in EmailRows
      BY <1>1 DEF TypeInv, TypeOK, Rows
    <2> QED
      BY <2>1 DEF EmailRows
  <1>6. /\ Len(Append(a, next[w])) = next[w] /\ Append(a, next[w])[next[w]] = next[w]
        /\ \A n \in 1..next[w] - 1 : Append(a, next[w])[n] = a[n]
    BY <1>4, <1>5
  <1>7. LoopAt(w)'
    <2>1. /\ row'[w] = k /\ next'[w] = next[w] + 1 /\ Msg(w)' = Msg(w)
          /\ pc'[w] = AfterAttachment(Msg(w), next[w] + 1)
      BY <1>2 DEF TypeInv, TypeOK, Msg
    <2> QED
      BY <1>1, <1>3, <1>4, <1>6, <2>1 DEF LoopAt, AfterAttachment
  <1>8. ASSUME NEW v \in Workers, v # w PROVE LoopAt(v)'
    <2>1. pc[v]' = pc[v] /\ entry[v]' = entry[v] /\ row[v]' = row[v] /\ next[v]' = next[v]
      BY <1>2, <1>8 DEF TypeInv, TypeOK
    <2>2. pc[v] \in {"attach", "notify"} => emails[row[v]]' = emails[row[v]]
      BY <1>1, <1>8, <2>1 DEF TypeInv, OwnsRow
    <2> QED
      BY <2>1, <2>2, LoopUndisturbed DEF LoopInv
  <1>9. AttachmentsOnceInOrder'
    <2>1. \A n \in 1..Len(a) : a[n] = n
      BY <1>1 DEF LoopInv, AttachmentsOnceInOrder
    <2>2. \A n \in 1..next[w] : Append(a, next[w])[n] = n
      BY <1>4, <1>6, <2>1
    <2>3. /\ Len(emails'[k].attachments) <= AttachmentCount[emails'[k].msg]
          /\ \A n \in 1..Len(emails'[k].attachments) : emails'[k].attachments[n] = n
      BY <1>1, <1>4, <1>6, <2>2
    <2>4. ASSUME NEW i \in Rows, i # k
          PROVE  /\ Len(emails'[i].attachments) <= AttachmentCount[emails'[i].msg]
                 /\ \A n \in 1..Len(emails'[i].attachments) : emails'[i].attachments[n] = n
      BY <1>1, <2>4 DEF LoopInv, AttachmentsOnceInOrder
    <2> QED
      BY <1>1, <2>3, <2>4 DEF AttachmentsOnceInOrder
  <1>10. AnnouncedOnceWhenComplete'
    BY <1>1, <1>4 DEF LoopInv, AnnouncedOnceWhenComplete
  <1> QED
    BY <1>7, <1>8, <1>9, <1>10 DEF LoopInv

LEMMA NotifyKeepsLoop ==
    ASSUME TypeInv, LoopInv, NEW w \in Workers, Notify(w)
    PROVE  LoopInv'
  <1>1. /\ pc[w] = "notify" /\ UNCHANGED <<entry, row, next>>
        /\ pc' = [pc EXCEPT ![w] = "ack"]
    BY DEF Notify
  <1>2. LoopAt(w)'
    BY <1>1 DEF LoopAt, TypeInv, TypeOK
  <1>3. \A v \in Workers : v # w =>
            pc[v]' = pc[v] /\ entry[v]' = entry[v] /\ row[v]' = row[v] /\ next[v]' = next[v]
    BY <1>1 DEF TypeInv, TypeOK
  <1>4. CASE UNCHANGED emails
    BY <1>2, <1>3, <1>4, LoopUndisturbed, TableUnchanged DEF LoopInv
  <1>5. CASE ~ UNCHANGED emails
    <2>1. /\ row[w] \in Rows /\ Rows' = Rows
          /\ \A i \in Rows : i # row[w] => emails'[i] = emails[i]
          /\ emails'[row[w]].msg = emails[row[w]].msg
          /\ emails'[row[w]].attachments = emails[row[w]].attachments
          /\ emails'[row[w]].pushes = emails[row[w]].pushes + 1
      BY <1>5, NotifyEffect DEF Rows
    <2>2. /\ emails[row[w]].msg = Msg(w) /\ emails[row[w]].pushes = 0
          /\ Len(emails[row[w]].attachments) = AttachmentCount[Msg(w)]
      BY <1>1 DEF LoopInv, LoopAt
    <2>3. ASSUME NEW v \in Workers, v # w PROVE LoopAt(v)'
      <3>1. pc[v] \in {"attach", "notify"} => emails[row[v]]' = emails[row[v]]
        BY <2>1, <2>3, <1>3 DEF TypeInv, OwnsRow
      <3> QED
        BY <1>3, <2>3, <3>1, LoopUndisturbed DEF LoopInv
    <2>4. AttachmentsOnceInOrder'
      BY <2>1 DEF LoopInv, AttachmentsOnceInOrder
    <2>5. AnnouncedOnceWhenComplete'
      BY <2>1, <2>2 DEF LoopInv, AnnouncedOnceWhenComplete
    <2> QED
      BY <1>2, <2>3, <2>4, <2>5 DEF LoopInv
  <1> QED
    BY <1>4, <1>5

LEMMA LoopInvInductive == TypeInv /\ LoopInv /\ [Next]_vars => LoopInv'
  <1> SUFFICES ASSUME TypeInv, LoopInv, [Next]_vars PROVE LoopInv'
    OBVIOUS
  <1>1. ASSUME UNCHANGED <<pc, entry, row, next, emails>> PROVE LoopInv'
    BY <1>1, LoopUndisturbed, TableUnchanged DEF LoopInv
  <1>2. ASSUME NEW d \in Deliveries, EdgeStep(d) PROVE LoopInv'
    BY <1>1, <1>2 DEF EdgeStep, WebhookAccepts, WebhookRefuses, localVars
  <1>3. ASSUME NEW w \in Workers, Pop(w) PROVE LoopInv'
    <2>1. /\ pc[w] = "idle" /\ UNCHANGED <<row, next, emails>>
          /\ \/ UNCHANGED <<pc, entry>>
             \/ \E t : pc' = [pc EXCEPT ![w] = "check"] /\ entry' = [entry EXCEPT ![w] = t]
      BY <1>3 DEF Pop
    <2>2. CASE ~ UNCHANGED <<pc, entry>>
      <3>1. LoopAt(w)'
        BY <2>1, <2>2 DEF LoopInv, LoopAt, TypeInv, TypeOK
      <3>2. ASSUME NEW v \in Workers, v # w PROVE LoopAt(v)'
        <4>1. pc[v]' = pc[v] /\ entry[v]' = entry[v] /\ row[v]' = row[v] /\ next[v]' = next[v]
          BY <2>1, <3>2 DEF TypeInv, TypeOK
        <4> QED
          BY <2>1, <4>1, LoopUndisturbed DEF LoopInv
      <3> QED
        BY <2>1, <3>1, <3>2, TableUnchanged DEF LoopInv
    <2> QED
      BY <1>1, <2>1, <2>2
  <1>4. ASSUME NEW w \in Workers, CheckExists(w) PROVE LoopInv'
    <2>1. /\ pc[w] = "check" /\ UNCHANGED <<entry, row, next, emails>>
          /\ \E s \in {"ack", "create"} : pc' = [pc EXCEPT ![w] = s]
      BY <1>4 DEF CheckExists
    <2>2. LoopAt(w)'
      BY <2>1 DEF LoopInv, LoopAt, TypeInv, TypeOK
    <2>3. ASSUME NEW v \in Workers, v # w PROVE LoopAt(v)'
      <3>1. pc[v]' = pc[v] /\ entry[v]' = entry[v] /\ row[v]' = row[v] /\ next[v]' = next[v]
        BY <2>1, <2>3 DEF TypeInv, TypeOK
      <3> QED
        BY <2>1, <3>1, LoopUndisturbed DEF LoopInv
    <2> QED
      BY <2>1, <2>2, <2>3, TableUnchanged DEF LoopInv
  <1>5. ASSUME NEW w \in Workers, Ack(w) \/ Fault(w) PROVE LoopInv'
    <2>1. Rest(w) /\ UNCHANGED emails
      BY <1>5 DEF Ack, Fault, HandleThrows, Crash, Timeout, Throw
    <2> QED
      BY <2>1, LoopAtRest, TableUnchanged DEF LoopInv
  <1>6. CASE Expire \/ UNCHANGED vars
    BY <1>1, <1>6 DEF Expire, vars, localVars
  <1> QED
    BY <1>2, <1>3, <1>4, <1>5, <1>6, CreateKeepsLoop, StoreKeepsLoop, NotifyKeepsLoop
    DEF Next, WorkerStep

LEMMA LoopInvAlways == Spec => []LoopInv
  <1>1. Init => LoopInv
    BY DEF Init, LoopInv, LoopAt, AttachmentsOnceInOrder, AnnouncedOnceWhenComplete, Rows
  <1> QED
    BY <1>1, TypeInvAlways, LoopInvInductive, PTL DEF Spec

(***************************************************************************)
(* A row's attachments are those of its message, in order and without a    *)
(* repetition, whatever was retried.                                       *)
(***************************************************************************)
THEOREM AttachmentsFiledOnce == Spec => []AttachmentsOnceInOrder
  <1>1. LoopInv => AttachmentsOnceInOrder
    BY DEF LoopInv
  <1> QED
    BY <1>1, LoopInvAlways, PTL

(***************************************************************************)
(* No e-mail is announced twice, or before its attachments are stored.     *)
(***************************************************************************)
THEOREM AnnouncedOnce == Spec => []AnnouncedOnceWhenComplete
  <1>1. LoopInv => AnnouncedOnceWhenComplete
    BY DEF LoopInv
  <1> QED
    BY <1>1, LoopInvAlways, PTL

(***************************************************************************)
(* The queue and the workers hold only jobs the webhook dispatched, and a  *)
(* worker past the lookup has the message in the table.  So dropping an    *)
(* entry, which only a worker at "ack" does without recording a failure or *)
(* releasing it, loses nothing.                                            *)
(***************************************************************************)
HeldInv ==
    /\ \A e \in ready \cup reserved : e.job \in enqueued
    /\ \A w \in Workers : pc[w] # "idle" => entry[w].job \in enqueued
    /\ \A w \in Workers : pc[w] \in {"attach", "notify", "ack"} => Filed(Msg(w))
    /\ AcceptedIsAccountedFor

LEMMA FiledStays ==
    ASSUME TypeInv, [Next]_vars, NEW m, Filed(m)
    PROVE  Filed(m)'
  <1>1. PICK i \in Rows : Files(i, m)
    BY DEF Filed
  <1>2. i \in Rows' /\ emails'[i].msg = emails[i].msg
    <2>1. CASE KeepsMessages
      BY <2>1 DEF KeepsMessages, Rows
    <2>2. ASSUME NEW w \in Workers, Inserts(w) PROVE i \in Rows' /\ emails'[i].msg = emails[i].msg
      <3> DEFINE r == [msg |-> Msg(w), attachments |-> << >>, pushes |-> 0]
      <3>1. r \in EmailRows /\ emails \in Seq(EmailRows) /\ emails' = Append(emails, r)
        BY <2>2 DEF Inserts, EmailRows, TypeInv, TypeOK
      <3> HIDE DEF r
      <3> QED
        BY <3>1, RowAppended DEF Rows
    <2> QED
      BY <2>1, <2>2, RowsEvolve
  <1> QED
    BY <1>1, <1>2 DEF Filed, Files

\* What Throw leaves: the worker idle, and its job released or failed.
LEMMA ThrowKeepsHeld ==
    ASSUME TypeInv, HeldInv, [Next]_vars, NEW w \in Workers, pc[w] # "idle", Throw(w),
           UNCHANGED <<enqueued, emails>>
    PROVE  HeldInv'
  <1>1. entry[w].job \in enqueued /\ (entry[w].job \in failed' \/ entry[w] \in ready')
    BY DEF HeldInv, Throw
  <1>2. /\ ready \subseteq ready' /\ ready' \subseteq ready \cup {entry[w]}
        /\ reserved' = reserved \ {entry[w]} /\ failed \subseteq failed'
        /\ pc' = [pc EXCEPT ![w] = "idle"] /\ entry' = [entry EXCEPT ![w] = NoEntry]
    BY DEF Throw, Rest
  <1>3. \A e \in ready' \cup reserved' : e.job \in enqueued'
    BY <1>1, <1>2 DEF HeldInv
  <1>4. \A v \in Workers : pc'[v] # "idle" => v # w /\ pc'[v] = pc[v] /\ entry'[v] = entry[v]
    BY <1>2 DEF TypeInv, TypeOK
  <1>5. \A v \in Workers : pc'[v] # "idle" => Msg(v)' = Msg(v)
    BY <1>4 DEF Msg
  <1>6. AcceptedIsAccountedFor'
    BY <1>1, <1>2, FiledStays DEF HeldInv, AcceptedIsAccountedFor, InQueue
  <1> QED
    BY <1>3, <1>4, <1>5, <1>6, FiledStays DEF HeldInv

LEMMA HeldInvInductive == TypeInv /\ HeldInv /\ [Next]_vars => HeldInv'
  <1> SUFFICES ASSUME TypeInv, HeldInv, [Next]_vars PROVE HeldInv'
    OBVIOUS
  <1>1. \A m : Filed(m) => Filed(m)'
    BY FiledStays
  <1>2. ASSUME NEW d \in Deliveries, EdgeStep(d) PROVE HeldInv'
    <2> DEFINE e == [job |-> d, attempts |-> 0]
    <2>1. UNCHANGED <<reserved, failed, pc, entry>>
      BY <1>2 DEF EdgeStep, WebhookAccepts, WebhookRefuses, localVars, queueVars
    <2>2. \/ UNCHANGED <<enqueued, ready>>
          \/ enqueued' = enqueued \cup {d} /\ ready' = ready \cup {e}
      BY <1>2 DEF EdgeStep, WebhookAccepts, WebhookRefuses, queueVars
    <2>3. e.job = d
      OBVIOUS
    <2> HIDE DEF e
    <2>4. \A f \in ready' \cup reserved' : f.job \in enqueued'
      BY <2>1, <2>2, <2>3 DEF HeldInv
    <2>5. AcceptedIsAccountedFor'
      BY <1>1, <2>1, <2>2, <2>3 DEF HeldInv, AcceptedIsAccountedFor, InQueue
    <2> QED
      BY <1>1, <2>1, <2>2, <2>4, <2>5 DEF HeldInv, Msg
  <1>3. ASSUME NEW w \in Workers, Pop(w) PROVE HeldInv'
    <2>1. PICK e \in ready : \E t :
            /\ t.job = e.job
            /\ pc[w] = "idle"
            /\ ready' = ready \ {e}
            /\ UNCHANGED <<enqueued>>
            /\ \/ failed' = failed \cup {e.job} /\ UNCHANGED <<reserved, pc, entry>>
               \/ /\ reserved' = reserved \cup {t} /\ UNCHANGED failed
                  /\ pc' = [pc EXCEPT ![w] = "check"]
                  /\ entry' = [entry EXCEPT ![w] = t]
      <3>1. PICK e \in ready :
              LET taken == [e EXCEPT !.attempts = @ + 1] IN
              /\ ready' = ready \ {e}
              /\ \/ /\ TriedTooOften(taken)
                    /\ failed' = failed \cup {e.job}
                    /\ UNCHANGED <<reserved, pc, entry>>
                 \/ /\ ~ TriedTooOften(taken)
                    /\ reserved' = reserved \cup {taken}
                    /\ pc' = [pc EXCEPT ![w] = "check"]
                    /\ entry' = [entry EXCEPT ![w] = taken]
                    /\ UNCHANGED failed
        BY <1>3 DEF Pop
      <3>2. [e EXCEPT !.attempts = @ + 1].job = e.job
        BY DEF TypeInv, TypeOK, Entries
      <3>3. pc[w] = "idle" /\ UNCHANGED enqueued
        BY <1>3 DEF Pop, edgeVars
      <3> QED
        BY <3>1, <3>2, <3>3
    <2>2. PICK t :
            /\ t.job = e.job
            /\ \/ failed' = failed \cup {e.job} /\ UNCHANGED <<reserved, pc, entry>>
               \/ /\ reserved' = reserved \cup {t} /\ UNCHANGED failed
                  /\ pc' = [pc EXCEPT ![w] = "check"]
                  /\ entry' = [entry EXCEPT ![w] = t]
      BY <2>1
    <2>3. pc[w] = "idle" /\ ready' = ready \ {e} /\ UNCHANGED enqueued /\ e.job \in enqueued
      BY <2>1 DEF HeldInv
    <2>4. AcceptedIsAccountedFor'
      BY <1>1, <2>2, <2>3 DEF HeldInv, AcceptedIsAccountedFor, InQueue
    <2>5. \A v \in Workers : pc'[v] \in {"attach", "notify", "ack"} =>
              pc'[v] = pc[v] /\ entry'[v] = entry[v] /\ Msg(v)' = Msg(v)
      BY <2>2, <2>3 DEF TypeInv, TypeOK, Msg
    <2>6. \A v \in Workers : pc'[v] # "idle" => entry'[v].job \in enqueued
      BY <2>2, <2>3 DEF HeldInv, TypeInv, TypeOK
    <2>7. \A f \in ready' \cup reserved' : f.job \in enqueued'
      BY <2>2, <2>3 DEF HeldInv
    <2> QED
      BY <1>1, <2>3, <2>4, <2>5, <2>6, <2>7 DEF HeldInv
  <1>4. ASSUME NEW w \in Workers, CheckExists(w) PROVE HeldInv'
    <2>1. /\ UNCHANGED <<enqueued, ready, reserved, failed, entry>> /\ pc[w] = "check"
          /\ pc' = [pc EXCEPT ![w] = IF ExistsByKey(Msg(w)) THEN "ack" ELSE "create"]
      BY <1>4 DEF CheckExists, edgeVars, queueVars
    <2>2. ExistsByKey(Msg(w)) => Filed(Msg(w))
      BY DEF ExistsByKey, Filed, Files
    <2>3. \A v \in Workers : pc'[v] \in {"attach", "notify", "ack"} => Filed(Msg(v))
      BY <2>1, <2>2 DEF HeldInv, TypeInv, TypeOK
    <2>4. \A v \in Workers : pc'[v] # "idle" => pc[v] # "idle"
      BY <2>1 DEF TypeInv, TypeOK
    <2> QED
      BY <1>1, <2>1, <2>3, <2>4 DEF HeldInv, AcceptedIsAccountedFor, InQueue, Msg
  <1>5. ASSUME NEW w \in Workers, CreateEmail(w) PROVE HeldInv'
    <2>1. CASE Throw(w) /\ UNCHANGED emails
      BY <1>5, <2>1, ThrowKeepsHeld DEF CreateEmail, edgeVars
    <2>2. CASE ~ (Throw(w) /\ UNCHANGED emails)
      <3> DEFINE r == [msg |-> Msg(w), attachments |-> << >>, pushes |-> 0]
      <3>1. /\ pc[w] = "create" /\ emails' = Append(emails, r)
            /\ UNCHANGED <<enqueued, ready, reserved, failed, entry>>
            /\ \E s : pc' = [pc EXCEPT ![w] = s]
        BY <1>5, <2>2 DEF CreateEmail, edgeVars, queueVars
      <3>2. r \in EmailRows /\ r.msg = Msg(w) /\ emails \in Seq(EmailRows)
        BY <3>1, MsgTyped DEF EmailRows, TypeInv, TypeOK
      <3> HIDE DEF r
      <3>3. Filed(Msg(w))'
        <4>1. Len(emails) + 1 \in Rows' /\ emails'[Len(emails) + 1].msg = Msg(w)
          BY <3>1, <3>2, RowAppended DEF Rows
        <4> QED
          BY <3>1, <4>1 DEF Filed, Files, Msg
      <3>4. \A v \in Workers : v # w => pc'[v] = pc[v]
        BY <3>1 DEF TypeInv, TypeOK
      <3> QED
        BY <1>1, <3>1, <3>3, <3>4 DEF HeldInv, AcceptedIsAccountedFor, InQueue, Msg
    <2> QED
      BY <2>1, <2>2
  <1>6. ASSUME NEW w \in Workers, StoreAttachment(w) \/ Notify(w) PROVE HeldInv'
    <2>1. /\ UNCHANGED <<enqueued, ready, reserved, failed, entry>>
          /\ pc[w] \in {"attach", "notify"} /\ \E s : pc' = [pc EXCEPT ![w] = s]
      BY <1>6 DEF StoreAttachment, Notify, edgeVars, queueVars
    <2>2. \A v \in Workers : v # w => pc'[v] = pc[v]
      BY <2>1 DEF TypeInv, TypeOK
    <2> QED
      BY <1>1, <2>1, <2>2 DEF HeldInv, AcceptedIsAccountedFor, InQueue, Msg
  <1>7. ASSUME NEW w \in Workers, Ack(w) \/ Crash(w) \/ Timeout(w) PROVE HeldInv'
    <2>1. /\ pc' = [pc EXCEPT ![w] = "idle"] /\ entry' = [entry EXCEPT ![w] = NoEntry]
          /\ UNCHANGED <<enqueued, ready, emails>>
          /\ reserved' \subseteq reserved /\ failed \subseteq failed'
      BY <1>7 DEF Ack, Crash, Timeout, Rest, edgeVars, queueVars
    <2>2. \/ reserved' = reserved
          \/ reserved' = reserved \ {entry[w]} /\ (Filed(Msg(w)) \/ entry[w].job \in failed')
      BY <1>7 DEF Ack, Crash, Timeout, HeldInv, queueVars
    <2>3. \A v \in Workers : pc'[v] # "idle" => v # w /\ pc'[v] = pc[v] /\ entry'[v] = entry[v]
      BY <2>1 DEF TypeInv, TypeOK
    <2>4. \A v \in Workers : pc'[v] # "idle" => Msg(v)' = Msg(v)
      BY <2>3 DEF Msg
    <2>5. AcceptedIsAccountedFor'
      BY <1>1, <2>1, <2>2 DEF HeldInv, AcceptedIsAccountedFor, InQueue, Msg
    <2> QED
      BY <1>1, <2>1, <2>3, <2>4, <2>5 DEF HeldInv
  <1>8. ASSUME NEW w \in Workers, HandleThrows(w) PROVE HeldInv'
    BY <1>8, ThrowKeepsHeld DEF HandleThrows, edgeVars
  <1>9. CASE Expire
    BY <1>1, <1>9 DEF Expire, HeldInv, AcceptedIsAccountedFor, InQueue, Msg, edgeVars, localVars
  <1>10. CASE UNCHANGED vars
    BY <1>1, <1>10 DEF vars, HeldInv, AcceptedIsAccountedFor, InQueue, Msg
  <1> QED
    BY <1>2, <1>3, <1>4, <1>5, <1>6, <1>7, <1>8, <1>9, <1>10 DEF Next, WorkerStep, Fault

LEMMA HeldInvAlways == Spec => []HeldInv
  <1>1. Init => HeldInv
    BY DEF Init, HeldInv, AcceptedIsAccountedFor
  <1> QED
    BY <1>1, TypeInvAlways, HeldInvInductive, PTL DEF Spec

(***************************************************************************)
(* An accepted delivery never vanishes.                                    *)
(***************************************************************************)
THEOREM NothingAcceptedIsLost == Spec => []AcceptedIsAccountedFor
  <1>1. HeldInv => AcceptedIsAccountedFor
    BY DEF HeldInv
  <1> QED
    BY <1>1, HeldInvAlways, PTL

-----------------------------------------------------------------------------
(***************************************************************************)
(* The inbox that a table shows, for the refinement of Inbox.tla: it has   *)
(* the table's length, and shows each row's message and pushes.            *)
(***************************************************************************)
ShownRows == [msg : Messages, pushes : Nat]
ShownOf(es) == [i \in 1..Len(es) |-> [msg |-> es[i].msg, pushes |-> es[i].pushes]]

LEMMA ShownIsSeq ==
    ASSUME NEW es \in Seq(EmailRows)
    PROVE  /\ ShownOf(es) \in Seq(ShownRows)
           /\ Len(ShownOf(es)) = Len(es)
           /\ \A i \in 1..Len(es) :
                ShownOf(es)[i].msg = es[i].msg /\ ShownOf(es)[i].pushes = es[i].pushes
  <1>1. \A i \in 1..Len(es) : [msg |-> es[i].msg, pushes |-> es[i].pushes] \in ShownRows
    <2> SUFFICES ASSUME NEW i \in 1..Len(es)
                 PROVE  [msg |-> es[i].msg, pushes |-> es[i].pushes] \in ShownRows
      OBVIOUS
    <2>1. es[i] \in EmailRows
      OBVIOUS
    <2> QED
      BY <2>1 DEF EmailRows, ShownRows
  <1>2. Len(es) \in Nat /\ ShownOf(es) \in [1..Len(es) -> ShownRows]
    BY <1>1 DEF ShownOf
  <1>3. ShownOf(es) \in Seq(ShownRows)
    BY <1>2
  <1>4. Len(ShownOf(es)) \in Nat /\ DOMAIN ShownOf(es) = 1..Len(ShownOf(es))
    BY <1>3, LenProperties
  <1>5. DOMAIN ShownOf(es) = 1..Len(es)
    BY <1>2
  <1>6. Len(ShownOf(es)) = Len(es)
    BY <1>2, <1>4, <1>5
  <1>7. \A i \in 1..Len(es) :
            ShownOf(es)[i].msg = es[i].msg /\ ShownOf(es)[i].pushes = es[i].pushes
    BY DEF ShownOf
  <1> QED
    BY <1>3, <1>6, <1>7

LEMMA ShownRowEqual ==
    ASSUME NEW a \in ShownRows, NEW b \in ShownRows, a.msg = b.msg, a.pushes = b.pushes
    PROVE  a = b
  BY DEF ShownRows

LEMMA ShownAnnounced ==
    ASSUME NEW a \in ShownRows
    PROVE  /\ [a EXCEPT !.pushes = 1] \in ShownRows
           /\ [a EXCEPT !.pushes = 1].msg = a.msg /\ [a EXCEPT !.pushes = 1].pushes = 1
  BY DEF ShownRows

LEMMA ShownEqual ==
    ASSUME NEW s \in Seq(ShownRows), NEW t \in Seq(ShownRows), Len(s) = Len(t),
           \A i \in 1..Len(s) : s[i].msg = t[i].msg /\ s[i].pushes = t[i].pushes
    PROVE  s = t
  <1>1. \A i \in 1..Len(s) : s[i] = t[i]
    <2> SUFFICES ASSUME NEW i \in 1..Len(s) PROVE s[i] = t[i]
      OBVIOUS
    <2>1. s[i] \in ShownRows /\ t[i] \in ShownRows
      OBVIOUS
    <2> QED
      BY <2>1, ShownRowEqual
  <1> QED
    BY <1>1, SeqEqual

LEMMA ShownAppended ==
    ASSUME NEW es \in Seq(EmailRows), NEW r \in EmailRows
    PROVE  ShownOf(Append(es, r)) = Append(ShownOf(es), [msg |-> r.msg, pushes |-> r.pushes])
  <1> DEFINE s == [msg |-> r.msg, pushes |-> r.pushes]
             new == Append(es, r)
  <1>1. s \in ShownRows /\ s.msg = r.msg /\ s.pushes = r.pushes
    BY DEF EmailRows, ShownRows
  <1>2. /\ new \in Seq(EmailRows) /\ Len(new) = Len(es) + 1 /\ Len(es) \in Nat
        /\ \A i \in 1..Len(es) : new[i] = es[i]
        /\ new[Len(es) + 1] = r
    OBVIOUS
  <1> HIDE DEF s, new
  <1>3. /\ ShownOf(new) \in Seq(ShownRows) /\ Len(ShownOf(new)) = Len(es) + 1
        /\ \A i \in 1..Len(es) + 1 :
             ShownOf(new)[i].msg = new[i].msg /\ ShownOf(new)[i].pushes = new[i].pushes
    BY <1>2, ShownIsSeq
  <1>4. /\ ShownOf(es) \in Seq(ShownRows) /\ Len(ShownOf(es)) = Len(es)
        /\ \A i \in 1..Len(es) :
             ShownOf(es)[i].msg = es[i].msg /\ ShownOf(es)[i].pushes = es[i].pushes
    BY ShownIsSeq
  <1>5. /\ Append(ShownOf(es), s) \in Seq(ShownRows)
        /\ Len(Append(ShownOf(es), s)) = Len(es) + 1
        /\ \A i \in 1..Len(es) : Append(ShownOf(es), s)[i] = ShownOf(es)[i]
        /\ Append(ShownOf(es), s)[Len(es) + 1] = s
    BY <1>1, <1>4
  <1>6. \A i \in 1..Len(es) + 1 :
            /\ ShownOf(new)[i].msg = Append(ShownOf(es), s)[i].msg
            /\ ShownOf(new)[i].pushes = Append(ShownOf(es), s)[i].pushes
    BY <1>1, <1>2, <1>3, <1>4, <1>5
  <1>7. ShownOf(new) = Append(ShownOf(es), s)
    BY <1>3, <1>5, <1>6, ShownEqual
  <1> QED
    BY <1>7 DEF s, new

LEMMA InitRefines == Init => Promise!Init
  <1> SUFFICES ASSUME Init PROVE Promise!Init
    OBVIOUS
  <1>1. {MsgOf[d] : d \in enqueued} = {}
    BY DEF Init
  <1>2. Rows = {}
    BY DEF Init, Rows
  <1> QED
    BY <1>1, <1>2 DEF Promise!Init

(***************************************************************************)
(* Each step of the inbound path is a step of the inbox, or none.          *)
(***************************************************************************)
Accepted == {MsgOf[d] : d \in enqueued}
Shown == ShownOf(emails)

\* The refinement mapping and the names used here are the same functions.
LEMMA PromiseUnfolded ==
    /\ \A m : Promise!Accept(m) <=> Accepted' = Accepted \cup {m} /\ Shown' = Shown
    /\ \A m : Promise!File(m) <=>
          /\ m \in Accepted
          /\ \A i \in 1..Len(Shown) : ~ (IdOf[m] # NoId /\ IdOf[m] = IdOf[Shown[i].msg])
          /\ Shown' = Append(Shown, [msg |-> m, pushes |-> 0])
          /\ Accepted' = Accepted
    /\ \A i : Promise!Announce(i) <=>
          /\ Shown[i].pushes = 0
          /\ Shown' = [Shown EXCEPT ![i].pushes = 1]
          /\ Accepted' = Accepted
    /\ Promise!Next <=>
          \/ \E m \in Messages : Promise!Accept(m) \/ Promise!File(m)
          \/ \E i \in 1..Len(Shown) : Promise!Announce(i)
  BY DEF Promise!Accept, Promise!File, Promise!SameMail, Promise!Announce, Promise!Next,
     Accepted, Shown, ShownOf, Rows

LEMMA FileRefines ==
    ASSUME TypeInv, HeldInv, NEW w \in Workers, Inserts(w), UNCHANGED enqueued
    PROVE  Promise!Next
  <1> DEFINE r == [msg |-> Msg(w), attachments |-> << >>, pushes |-> 0]
  <1>1. /\ r \in EmailRows /\ r.msg = Msg(w) /\ r.pushes = 0
        /\ emails \in Seq(EmailRows) /\ emails' = Append(emails, r) /\ Msg(w) \in Messages
    BY DEF Inserts, EmailRows, TypeInv, TypeOK
  <1> HIDE DEF r
  <1>2. Shown' = Append(Shown, [msg |-> Msg(w), pushes |-> 0])
    BY <1>1, ShownAppended DEF Shown
  <1>3. Msg(w) \in Accepted /\ Accepted' = Accepted
    BY DEF Inserts, HeldInv, Accepted, Msg
  <1>4. ASSUME NEW i \in 1..Len(Shown)
        PROVE  ~ (IdOf[Msg(w)] # NoId /\ IdOf[Msg(w)] = IdOf[Shown[i].msg])
    <2>1. i \in Rows /\ Shown[i].msg = emails[i].msg
      BY <1>1, ShownIsSeq DEF Shown, Rows
    <2> QED
      BY <2>1 DEF Inserts, ExistsByKey, IngestKey
  <1> QED
    BY <1>1, <1>2, <1>3, <1>4, PromiseUnfolded

LEMMA StoreRefines ==
    ASSUME TypeInv, TypeInv', NEW w \in Workers, StoreAttachment(w)
    PROVE  Accepted' = Accepted /\ Shown' = Shown
  <1>1. emails \in Seq(EmailRows) /\ emails' \in Seq(EmailRows)
    BY DEF TypeInv, TypeOK
  <1>2. /\ Len(emails') = Len(emails)
        /\ \A i \in 1..Len(emails) :
             emails'[i].msg = emails[i].msg /\ emails'[i].pushes = emails[i].pushes
    BY StoreEffect DEF Rows
  <1>3. Shown' = Shown
    BY <1>1, <1>2, ShownIsSeq, ShownEqual DEF Shown
  <1> QED
    BY <1>3 DEF StoreAttachment, edgeVars, Accepted

LEMMA NotifyRefines ==
    ASSUME TypeInv, TypeInv', LoopInv, NEW w \in Workers, Notify(w), ~ UNCHANGED emails
    PROVE  Promise!Next
  <1> DEFINE k == row[w]
             s == [Shown EXCEPT ![k].pushes = 1]
  <1>1. emails \in Seq(EmailRows) /\ emails' \in Seq(EmailRows)
    BY DEF TypeInv, TypeOK
  <1>2. /\ k \in 1..Len(emails) /\ Len(emails') = Len(emails)
        /\ \A i \in 1..Len(emails) : i # k => emails'[i] = emails[i]
        /\ emails'[k].msg = emails[k].msg /\ emails'[k].pushes = 1 /\ emails[k].pushes = 0
    <2>1. pc[w] = "notify" /\ emails[k].pushes = 0
      BY DEF Notify, LoopInv, LoopAt
    <2> QED
      BY <2>1, NotifyEffect DEF Rows
  <1>3. /\ Shown \in Seq(ShownRows) /\ Len(Shown) = Len(emails)
        /\ \A i \in 1..Len(emails) :
             Shown[i].msg = emails[i].msg /\ Shown[i].pushes = emails[i].pushes
    BY <1>1, ShownIsSeq DEF Shown
  <1>4. /\ Shown' \in Seq(ShownRows) /\ Len(Shown') = Len(emails)
        /\ \A i \in 1..Len(emails) :
             Shown'[i].msg = emails'[i].msg /\ Shown'[i].pushes = emails'[i].pushes
    BY <1>1, <1>2, ShownIsSeq DEF Shown
  <1> HIDE DEF k
  <1>5. /\ s \in Seq(ShownRows) /\ Len(s) = Len(emails)
        /\ s[k].msg = Shown[k].msg /\ s[k].pushes = 1
        /\ \A i \in 1..Len(emails) : i # k => s[i] = Shown[i]
    <2>1. /\ [Shown[k] EXCEPT !.pushes = 1] \in ShownRows
          /\ [Shown[k] EXCEPT !.pushes = 1].msg = Shown[k].msg
          /\ [Shown[k] EXCEPT !.pushes = 1].pushes = 1
      <3>1. Shown[k] \in ShownRows
        BY <1>2, <1>3
      <3> QED
        BY <3>1, ShownAnnounced
    <2>2. s = [Shown EXCEPT ![k] = [Shown[k] EXCEPT !.pushes = 1]]
      OBVIOUS
    <2>3. /\ s \in Seq(ShownRows) /\ Len(s) = Len(emails)
          /\ s[k] = [Shown[k] EXCEPT !.pushes = 1]
          /\ \A i \in 1..Len(emails) : i # k => s[i] = Shown[i]
      BY <1>2, <1>3, <2>1, <2>2, ExceptSeq
    <2> QED
      BY <2>1, <2>3
  <1> HIDE DEF s
  <1>6. Shown' = s
    <2>1. ASSUME NEW i \in 1..Len(emails)
          PROVE  Shown'[i].msg = s[i].msg /\ Shown'[i].pushes = s[i].pushes
      <3>1. CASE i = k
        BY <1>2, <1>3, <1>4, <1>5, <3>1
      <3>2. CASE i # k
        BY <1>2, <1>3, <1>4, <1>5, <3>2
      <3> QED
        BY <3>1, <3>2
    <2> QED
      BY <1>4, <1>5, <2>1, ShownEqual
  <1>7. Accepted' = Accepted
    BY DEF Notify, edgeVars, Accepted
  <1> QED
    BY <1>2, <1>3, <1>6, <1>7, PromiseUnfolded DEF s

LEMMA StepRefines ==
    TypeInv /\ TypeInv' /\ LoopInv /\ HeldInv /\ [Next]_vars =>
        [Promise!Next]_<<{MsgOf[d] : d \in enqueued},
                         [i \in Rows |-> [msg |-> emails[i].msg, pushes |-> emails[i].pushes]]>>
  <1> SUFFICES ASSUME TypeInv, TypeInv', LoopInv, HeldInv, [Next]_vars
               PROVE  Promise!Next \/ (Accepted' = Accepted /\ Shown' = Shown)
    BY DEF Accepted, Shown, ShownOf, Rows
  <1>1. ASSUME UNCHANGED <<enqueued, emails>> PROVE Accepted' = Accepted /\ Shown' = Shown
    BY <1>1 DEF Accepted, Shown
  <1>2. ASSUME NEW d \in Deliveries, EdgeStep(d)
        PROVE  Promise!Next \/ (Accepted' = Accepted /\ Shown' = Shown)
    <2>1. UNCHANGED emails
      BY <1>2 DEF EdgeStep, WebhookAccepts, WebhookRefuses
    <2>2. enqueued' = enqueued \/ enqueued' = enqueued \cup {d}
      BY <1>2 DEF EdgeStep, WebhookAccepts, WebhookRefuses
    <2>3. MsgOf[d] \in Messages
      BY IngestAssumption
    <2>4. CASE enqueued' = enqueued \cup {d}
      <3>1. Accepted' = Accepted \cup {MsgOf[d]} /\ Shown' = Shown
        BY <2>1, <2>4 DEF Accepted, Shown
      <3> QED
        BY <2>3, <3>1, PromiseUnfolded
    <2> QED
      BY <1>1, <2>1, <2>2, <2>4
  <1>3. ASSUME NEW w \in Workers, CreateEmail(w)
        PROVE  Promise!Next \/ (Accepted' = Accepted /\ Shown' = Shown)
    <2>1. UNCHANGED enqueued
      BY <1>3 DEF CreateEmail, edgeVars
    <2>2. UNCHANGED emails \/ Inserts(w)
      BY <1>3, MsgTyped DEF CreateEmail, Inserts, UniqueViolation
    <2> QED
      BY <1>1, <2>1, <2>2, FileRefines
  <1>4. ASSUME NEW w \in Workers, Notify(w)
        PROVE  Promise!Next \/ (Accepted' = Accepted /\ Shown' = Shown)
    <2>1. UNCHANGED enqueued
      BY <1>4 DEF Notify, edgeVars
    <2> QED
      BY <1>1, <1>4, <2>1, NotifyRefines
  <1>5. ASSUME NEW w \in Workers, Pop(w) \/ CheckExists(w) \/ Ack(w) \/ Fault(w)
        PROVE  UNCHANGED <<enqueued, emails>>
    BY <1>5 DEF Pop, CheckExists, Ack, Fault, HandleThrows, Crash, Timeout, edgeVars
  <1>6. CASE Expire \/ UNCHANGED vars
    BY <1>1, <1>6 DEF Expire, vars, edgeVars
  <1> QED
    BY <1>1, <1>2, <1>3, <1>4, <1>5, <1>6, StoreRefines DEF Next, WorkerStep

(***************************************************************************)
(* Queue, workers, retries and crashes implement the inbox of Inbox.tla.   *)
(***************************************************************************)
THEOREM IngestRefinesInbox == Spec => ImplementsInbox
  <1>1. Init => Promise!Init
    BY InitRefines
  <1> QED
    BY <1>1, TypeInvAlways, LoopInvAlways, HeldInvAlways, StepRefines, PTL
    DEF Spec, ImplementsInbox, Promise!Spec
=============================================================================
