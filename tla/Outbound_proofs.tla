--------------------------- MODULE Outbound_proofs ---------------------------
(***************************************************************************)
(* Proofs about outbound mail, for any composers, any number of            *)
(* attachments, attempts and presses.                                      *)
(***************************************************************************)
EXTENDS Outbound, TLAPS

(***************************************************************************)
(* What the code in front of a stage has done: attempts are left while a   *)
(* call is made, a result is there to be recorded, attachments are left    *)
(* while copies are stored, a request that ended as 201 has its row and    *)
(* went through all attachments, and only such a one, or a killed one, has *)
(* a row.                                                                  *)
(***************************************************************************)
Progress(q) ==
    /\ stage[q] \in {"none", "check"} => attempt[q] = 0
    /\ stage[q] = "call" => attempt[q] < Tries
    /\ accepted[q] <= attempt[q]
    /\ stage[q] \in {"none", "check", "call", "record"} => Tried(q) = 0
    /\ stage[q] = "copy" => Tried(q) < Attachments
    /\ stage[q] = "created" => Tried(q) = Attachments
    /\ stage[q] = "record" => result[q] \in Statuses
    /\ stage[q] \in {"copy", "created"} => sent[q] \in Statuses
    /\ sent[q] \in Statuses => stage[q] \in {"copy", "created", "killed"}

\* A press that has not happened has no request.
Unpressed(q) == q[2] > presses[C(q)] => stage[q] = "none"

\* A composer that waits, or was told "sent", has pressed; what it was told
\* "sent" about ended as 201.
Told(c) ==
    /\ tab[c] \in {"busy", "sent"} => presses[c] > 0
    /\ tab[c] = "sent" => stage[Current(c)] = "created"

TypeInv ==
    /\ TypeOK
    /\ \A q \in Requests : Progress(q) /\ Unpressed(q)
    /\ \A c \in Composers : Told(c)

(***************************************************************************)
(* The row repeats the result, and the result says no more than the        *)
(* provider did.                                                           *)
(***************************************************************************)
Honest(q) ==
    /\ stage[q] \in {"none", "check", "call"} => result[q] = None
    /\ result[q] # None =>
          /\ result[q] # "failed" => accepted[q] > 0
          /\ "permanent_bounces" \in answer[q] <=> result[q] = "bounced"
    /\ sent[q] \in {None, result[q]}

HonestInv == \A q \in Requests : Honest(q)

-----------------------------------------------------------------------------
(* Type correctness *)

LEMMA InitTyped == Init => TypeInv
  <1> SUFFICES ASSUME Init PROVE TypeInv
    OBVIOUS
  <1>1. TypeOK
    BY OutboundAssumption DEF Init, TypeOK, Stages
  <1>2. \A q \in Requests : Progress(q) /\ Unpressed(q)
    BY OutboundAssumption DEF Init, Progress, Tried, Unpressed, Statuses, None
  <1>3. \A c \in Composers : Told(c)
    BY DEF Init, Told
  <1> QED
    BY <1>1, <1>2, <1>3 DEF TypeInv

\* The composer of a request, and which of its presses it is.
LEMMA RequestTyped ==
    ASSUME NEW q \in Requests
    PROVE  C(q) \in Composers /\ q[2] \in 1..MaxPresses /\ q = <<C(q), q[2]>>
  BY DEF Requests, C

\* A request's step is nobody else's: what its composer was told stands.
LEMMA RequestStepTyped ==
    ASSUME TypeInv, NEW q \in Requests, stage[q] \notin {"none", "created"},
           UNCHANGED <<tab, presses>>, TypeOK', Progress(q)',
           \A r \in Requests \ {q} :
               /\ stage'[r] = stage[r] /\ attempt'[r] = attempt[r] /\ accepted'[r] = accepted[r]
               /\ result'[r] = result[r] /\ sent'[r] = sent[r] /\ copies'[r] = copies[r]
    PROVE  TypeInv'
  <1>1. \A r \in Requests : Progress(r)'
    BY DEF TypeInv, Progress, Tried
  <1>2. \A r \in Requests : Unpressed(r)'
    BY DEF TypeInv, Unpressed
  <1>3. \A c \in Composers : Told(c)'
    <2> SUFFICES ASSUME NEW c \in Composers PROVE Told(c)'
      OBVIOUS
    <2>1. tab[c] = "sent" => Current(c) \in Requests
      BY OutboundAssumption DEF TypeInv, TypeOK, Told, Current, Requests
    <2>2. Current(c)' = Current(c)
      BY DEF Current
    <2> QED
      BY <2>1, <2>2 DEF TypeInv, Told
  <1> QED
    BY <1>1, <1>2, <1>3 DEF TypeInv

LEMMA StatusTyped == \A b \in SUBSET Buckets : StatusOf(b) \in Statuses
  BY DEF StatusOf, Statuses

LEMMA CheckSizeTyped ==
    ASSUME TypeInv, NEW q \in Requests, CheckSize(q)
    PROVE  TypeInv'
  <1>1. TypeOK'
    <2>1. stage' \in [Requests -> Stages]
      BY DEF CheckSize, TypeInv, TypeOK, Stages, Running, Ended
    <2>2. driver' \in [Requests -> Drivers \cup {None}]
      BY DEF CheckSize, TypeInv, TypeOK
    <2>3. UNCHANGED <<oversized, tab, presses, attempt, accepted, answer, result, sent, copies>>
      BY DEF CheckSize
    <2> QED
      BY <2>1, <2>2, <2>3 DEF TypeInv, TypeOK
  <1>2. Progress(q)'
    BY OutboundAssumption DEF CheckSize, TypeInv, TypeOK, Progress, Tried
  <1> QED
    BY <1>1, <1>2, RequestStepTyped DEF CheckSize, TypeInv, TypeOK

LEMMA ApiAnswersTyped ==
    ASSUME TypeInv, NEW q \in Requests, ApiAnswers(q)
    PROVE  TypeInv'
  <1>1. PICK b \in SUBSET Buckets : Settle(q, StatusOf(b), b)
    BY DEF ApiAnswers
  <1>2. attempt[q] \in Nat /\ attempt[q] < Tries /\ accepted[q] \in Nat /\ accepted[q] <= attempt[q]
    BY DEF ApiAnswers, TypeInv, TypeOK, Progress, Tried
  <1>3. attempt' = [attempt EXCEPT ![q] = attempt[q] + 1]
    BY DEF ApiAnswers, Count
  <1>4. accepted' = [accepted EXCEPT ![q] = accepted[q] + 1] \/ accepted' = accepted
    BY DEF ApiAnswers, Took
  <1>5. attempt' \in [Requests -> 0..Tries] /\ accepted' \in [Requests -> 0..Tries]
    BY <1>2, <1>3, <1>4, OutboundAssumption DEF TypeInv, TypeOK
  <1>6. TypeOK'
    BY <1>1, <1>5, StatusTyped DEF ApiAnswers, Settle, TypeInv, TypeOK, Stages, Running
  <1>7. Progress(q)'
    BY <1>1, <1>2, <1>3, <1>4, StatusTyped DEF ApiAnswers, Settle, TypeInv, TypeOK, Progress, Tried
  <1> QED
    BY <1>1, <1>3, <1>4, <1>6, <1>7, RequestStepTyped DEF ApiAnswers, Settle, TypeInv, TypeOK

LEMMA ApiRefusesTyped ==
    ASSUME TypeInv, NEW q \in Requests, ApiRefuses(q)
    PROVE  TypeInv'
  <1>1. \/ MayRetry(attempt[q] + 1) /\ UNCHANGED <<result, answer, stage>>
        \/ Settle(q, "failed", {})
    BY DEF ApiRefuses
  <1>2. attempt[q] \in Nat /\ attempt[q] < Tries /\ accepted[q] \in Nat /\ accepted[q] <= attempt[q]
    BY DEF ApiRefuses, TypeInv, TypeOK, Progress, Tried
  <1>3. attempt' = [attempt EXCEPT ![q] = attempt[q] + 1] /\ accepted' = accepted
    BY DEF ApiRefuses, Count
  <1>4. attempt' \in [Requests -> 0..Tries]
    BY <1>2, <1>3, OutboundAssumption DEF TypeInv, TypeOK
  <1>5. TypeOK'
    BY <1>1, <1>4 DEF ApiRefuses, Settle, TypeInv, TypeOK, Stages, Running, Statuses
  <1>6. Progress(q)'
    BY <1>1, <1>2, <1>3 DEF ApiRefuses, Settle, MayRetry, TypeInv, TypeOK, Progress, Tried, Statuses
  <1> QED
    BY <1>1, <1>3, <1>5, <1>6, RequestStepTyped DEF ApiRefuses, Settle, TypeInv, TypeOK

LEMMA ApiUnreachableTyped ==
    ASSUME TypeInv, NEW q \in Requests, ApiUnreachable(q)
    PROVE  TypeInv'
  <1>1. attempt[q] \in Nat /\ attempt[q] < Tries /\ accepted[q] \in Nat /\ accepted[q] <= attempt[q]
    BY DEF ApiUnreachable, TypeInv, TypeOK, Progress, Tried
  <1>2. attempt' = [attempt EXCEPT ![q] = attempt[q] + 1]
    BY DEF ApiUnreachable, Count
  <1>3. accepted' = [accepted EXCEPT ![q] = accepted[q] + 1] \/ accepted' = accepted
    BY DEF ApiUnreachable, Took
  <1>4. attempt' \in [Requests -> 0..Tries] /\ accepted' \in [Requests -> 0..Tries]
    BY <1>1, <1>2, <1>3, OutboundAssumption DEF TypeInv, TypeOK
  <1>5. TypeOK'
    BY <1>4 DEF ApiUnreachable, TypeInv, TypeOK, Stages, Running, Ended
  <1>6. Progress(q)'
    BY <1>1, <1>2, <1>3 DEF ApiUnreachable, MayRetry, TypeInv, TypeOK, Progress, Tried
  <1> QED
    BY <1>2, <1>3, <1>5, <1>6, RequestStepTyped DEF ApiUnreachable, TypeInv, TypeOK

LEMMA SmtpSendsTyped ==
    ASSUME TypeInv, NEW q \in Requests, SmtpSends(q)
    PROVE  TypeInv'
  <1>1. PICK s \in {"queued", "failed"} : Settle(q, s, {})
    BY DEF SmtpSends
  <1>2. attempt[q] \in Nat /\ attempt[q] < Tries /\ accepted[q] \in Nat /\ accepted[q] <= attempt[q]
    BY DEF SmtpSends, TypeInv, TypeOK, Progress, Tried
  <1>3. attempt' = [attempt EXCEPT ![q] = attempt[q] + 1]
    BY DEF SmtpSends, Count
  <1>4. accepted' = [accepted EXCEPT ![q] = accepted[q] + 1] \/ accepted' = accepted
    BY DEF SmtpSends, Took
  <1>5. attempt' \in [Requests -> 0..Tries] /\ accepted' \in [Requests -> 0..Tries]
    BY <1>2, <1>3, <1>4, OutboundAssumption DEF TypeInv, TypeOK
  <1>6. TypeOK'
    BY <1>1, <1>5 DEF SmtpSends, Settle, TypeInv, TypeOK, Stages, Running, Statuses
  <1>7. Progress(q)'
    BY <1>1, <1>2, <1>3, <1>4 DEF SmtpSends, Settle, TypeInv, TypeOK, Progress, Tried, Statuses
  <1> QED
    BY <1>1, <1>3, <1>4, <1>6, <1>7, RequestStepTyped DEF SmtpSends, Settle, TypeInv, TypeOK

LEMMA RecordTyped ==
    ASSUME TypeInv, NEW q \in Requests, Record(q)
    PROVE  TypeInv'
  <1>1. result[q] \in Statuses /\ Tried(q) = 0
    BY DEF Record, TypeInv, Progress
  <1>2. TypeOK'
    BY <1>1 DEF Record, callVars, TypeInv, TypeOK, Stages, Running, Ended
  <1>3. Progress(q)'
    BY <1>1, OutboundAssumption DEF Record, callVars, TypeInv, TypeOK, Progress, Tried
  <1> QED
    BY <1>2, <1>3, RequestStepTyped DEF Record, callVars, TypeInv, TypeOK

LEMMA StoreCopyTyped ==
    ASSUME TypeInv, NEW q \in Requests, StoreCopy(q)
    PROVE  TypeInv'
  <1> DEFINE s == copies[q].stored
             l == copies[q].lost
             p == copies'[q]
  <1>0. Attachments \in Nat
    BY OutboundAssumption
  <1>1. copies[q] \in [stored : 0..Attachments, lost : 0..Attachments] /\ sent[q] \in Statuses
    BY DEF StoreCopy, TypeInv, TypeOK, Progress
  <1>2. s \in Nat /\ l \in Nat /\ s + l < Attachments
    BY <1>0, <1>1 DEF StoreCopy, TypeInv, Progress, Tried
  <1>3. copies' = [copies EXCEPT ![q] = p] /\ p \in {[copies[q] EXCEPT !.stored = s + 1], [copies[q] EXCEPT !.lost = l + 1]}
    BY DEF StoreCopy, TypeInv, TypeOK
  <1>4. p \in [stored : 0..Attachments, lost : 0..Attachments] /\ p.stored + p.lost = s + l + 1
    <2>1. CASE p = [copies[q] EXCEPT !.stored = s + 1]
      <3>1. p.stored = s + 1 /\ p.lost = l
        BY <1>1, <2>1
      <3>2. s + 1 \in 0..Attachments /\ l \in 0..Attachments /\ (s + 1) + l = s + l + 1
        BY <1>0, <1>2
      <3> QED
        BY <1>1, <2>1, <3>1, <3>2
    <2>2. CASE p = [copies[q] EXCEPT !.lost = l + 1]
      <3>1. p.stored = s /\ p.lost = l + 1
        BY <1>1, <2>2
      <3>2. s \in 0..Attachments /\ l + 1 \in 0..Attachments /\ s + (l + 1) = s + l + 1
        BY <1>0, <1>2
      <3> QED
        BY <1>1, <2>2, <3>1, <3>2
    <2> QED
      BY <1>3, <2>1, <2>2
  <1>5. Tried(q)' = Tried(q) + 1 /\ Tried(q) = s + l
    BY <1>4 DEF Tried
  <1> HIDE DEF s, l, p
  <1>6. TypeOK'
    BY <1>3, <1>4 DEF StoreCopy, callVars, TypeInv, TypeOK, Stages, Running, Ended
  <1>7. stage'[q] = IF s + l + 1 < Attachments THEN "copy" ELSE "created"
    BY <1>5 DEF StoreCopy, TypeInv, TypeOK
  <1>8. Progress(q)'
    <2>1. UNCHANGED <<attempt, accepted, sent>>
      BY DEF StoreCopy, callVars
    <2>2. Tried(q)' = s + l + 1
      BY <1>5
    <2>3. stage'[q] = "copy" => Tried(q)' < Attachments
      BY <1>7, <2>2
    <2>4. stage'[q] = "created" => Tried(q)' = Attachments
      BY <1>0, <1>2, <1>7, <2>2
    <2>5. accepted'[q] <= attempt'[q]
      BY <2>1 DEF TypeInv, Progress
    <2>6. stage'[q] \in {"copy", "created"} /\ sent'[q] \in Statuses
      BY <1>1, <1>7, <2>1
    <2> QED
      BY <2>3, <2>4, <2>5, <2>6 DEF Progress
  <1> QED
    BY <1>3, <1>6, <1>8, RequestStepTyped DEF StoreCopy, callVars, TypeInv, TypeOK

LEMMA KillTyped ==
    ASSUME TypeInv, NEW q \in Requests, Kill(q)
    PROVE  TypeInv'
  <1>1. TypeOK'
    BY DEF Kill, callVars, TypeInv, TypeOK, Stages, Running, Ended
  <1>2. Progress(q)'
    BY DEF Kill, callVars, TypeInv, TypeOK, Progress, Tried
  <1> QED
    BY <1>1, <1>2, RequestStepTyped DEF Kill, callVars, Running, TypeInv, TypeOK

LEMMA PressSendTyped ==
    ASSUME TypeInv, NEW c \in Composers, PressSend(c)
    PROVE  TypeInv'
  <1> DEFINE q == <<c, presses[c] + 1>>
  <1>1. presses[c] \in Nat /\ presses[c] + 1 \in 1..MaxPresses
    BY OutboundAssumption DEF PressSend, TypeInv, TypeOK
  <1>2. q \in Requests /\ q[2] = presses[c] + 1 /\ C(q) = c
    BY <1>1 DEF Requests, C
  <1>3. stage[q] = "none"
    BY <1>1, <1>2 DEF TypeInv, Unpressed
  <1>4. presses' = [presses EXCEPT ![c] = presses[c] + 1] /\ tab' = [tab EXCEPT ![c] = "busy"]
    BY DEF PressSend
  <1>5. stage' = [stage EXCEPT ![q] = "check"]
    BY DEF PressSend
  <1>6. UNCHANGED <<oversized, driver, attempt, accepted, answer, result, sent, copies>>
    BY DEF PressSend, callVars
  <1> HIDE DEF q
  <1>7. presses' \in [Composers -> 0..MaxPresses]
    BY <1>1, <1>4, OutboundAssumption DEF TypeInv, TypeOK
  <1>8. TypeOK'
    BY <1>4, <1>5, <1>6, <1>7 DEF TypeInv, TypeOK, Stages, Running
  <1>9. \A r \in Requests : Progress(r)'
    BY <1>2, <1>3, <1>5, <1>6 DEF TypeInv, TypeOK, Progress, Tried
  <1>10. \A r \in Requests : Unpressed(r)'
    <2> SUFFICES ASSUME NEW r \in Requests PROVE Unpressed(r)'
      OBVIOUS
    <2>1. r # q /\ C(r) = c => r[2] # presses[c] + 1
      BY RequestTyped DEF q
    <2>2. r[2] \in Nat /\ presses[C(r)] \in Nat
      BY RequestTyped, OutboundAssumption DEF TypeInv, TypeOK
    <2>3. CASE r = q
      BY <1>1, <1>2, <1>4, <2>3 DEF Unpressed, TypeInv, TypeOK
    <2>4. CASE r # q /\ C(r) = c
      BY <1>1, <1>2, <1>4, <1>5, <2>1, <2>2, <2>4 DEF Unpressed, TypeInv, TypeOK
    <2>5. CASE r # q /\ C(r) # c
      BY <1>2, <1>4, <1>5, <2>5, RequestTyped DEF Unpressed, TypeInv, TypeOK
    <2> QED
      BY <2>3, <2>4, <2>5
  <1>11. \A d \in Composers : Told(d)'
    <2> SUFFICES ASSUME NEW d \in Composers PROVE Told(d)'
      OBVIOUS
    <2>1. CASE d = c
      BY <1>1, <1>4, <2>1 DEF Told, TypeInv, TypeOK
    <2>2. CASE d # c
      <3>1. presses'[d] = presses[d] /\ tab'[d] = tab[d]
        BY <1>4, <2>2 DEF TypeInv, TypeOK
      <3>2. Current(d)' = Current(d) /\ Current(d) # q
        BY <2>2, <3>1 DEF Current, q
      <3>3. tab[d] = "sent" => Current(d) \in Requests
        BY OutboundAssumption DEF TypeInv, TypeOK, Told, Current, Requests
      <3>4. tab[d] = "sent" => stage'[Current(d)] = stage[Current(d)]
        BY <1>5, <3>2, <3>3 DEF TypeInv, TypeOK
      <3> QED
        BY <3>1, <3>2, <3>4 DEF TypeInv, Told
    <2> QED
      BY <2>1, <2>2
  <1> QED
    BY <1>8, <1>9, <1>10, <1>11 DEF TypeInv

LEMMA AnswersTyped ==
    ASSUME TypeInv, NEW c \in Composers, HearAnswer(c) \/ LoseAnswer(c)
    PROVE  TypeInv'
  <1>1. UNCHANGED <<oversized, presses, stage, driver, attempt, accepted, answer, result, sent, copies>>
    BY DEF HearAnswer, LoseAnswer, callVars
  <1>2. TypeOK'
    BY <1>1 DEF HearAnswer, LoseAnswer, TypeInv, TypeOK
  <1>3. \A q \in Requests : (Progress(q) /\ Unpressed(q))'
    BY <1>1 DEF TypeInv, Progress, Tried, Unpressed
  <1>4. \A d \in Composers : Current(d)' = Current(d)
    BY <1>1 DEF Current
  <1>5. \A d \in Composers : Told(d)'
    BY <1>1, <1>4 DEF HearAnswer, LoseAnswer, TypeInv, TypeOK, Told
  <1> QED
    BY <1>2, <1>3, <1>5 DEF TypeInv

LEMMA StutterTyped == TypeInv /\ UNCHANGED vars => TypeInv'
  <1> SUFFICES ASSUME TypeInv, UNCHANGED vars PROVE TypeInv'
    OBVIOUS
  <1>1. TypeOK'
    BY DEF vars, TypeInv, TypeOK
  <1>2. \A q \in Requests : (Progress(q) /\ Unpressed(q))'
    BY DEF vars, TypeInv, Progress, Tried, Unpressed
  <1>3. \A c \in Composers : Told(c)'
    BY DEF vars, TypeInv, Told, Current
  <1> QED
    BY <1>1, <1>2, <1>3 DEF TypeInv

LEMMA StepTyped == TypeInv /\ [Next]_vars => TypeInv'
  <1> SUFFICES ASSUME TypeInv, [Next]_vars PROVE TypeInv'
    OBVIOUS
  <1>1. ASSUME NEW c \in Composers, PressSend(c) \/ HearAnswer(c) \/ LoseAnswer(c)
        PROVE  TypeInv'
    BY <1>1, PressSendTyped, AnswersTyped
  <1>2. ASSUME NEW q \in Requests, ServerStep(q) \/ Kill(q)
        PROVE  TypeInv'
    BY <1>2, CheckSizeTyped, ApiAnswersTyped, ApiRefusesTyped, ApiUnreachableTyped, SmtpSendsTyped,
       RecordTyped, StoreCopyTyped, KillTyped DEF ServerStep
  <1>3. CASE UNCHANGED vars
    BY <1>3, StutterTyped
  <1> QED
    BY <1>1, <1>2, <1>3 DEF Next

LEMMA TypeInvAlways == Spec => []TypeInv
  BY InitTyped, StepTyped, PTL DEF Spec

\* For any number of composers, attachments, attempts and presses every
\* variable keeps its type; in particular the client never makes more attempts
\* of a call than retry() allows, nor sees the provider take more messages.
THEOREM TypeCorrect == Spec => []TypeOK
  <1>1. TypeInv => TypeOK
    BY DEF TypeInv
  <1> QED
    BY <1>1, TypeInvAlways, PTL

\* A composer that was told "sent" finds the row of that press, with every
\* attachment but those whose copy failed, whatever became of its other presses:
\* the answer it hears is that of its latest request, and 201 comes after the last
\* copy.  A request that wrote its row and was not killed ends as 201.
THEOREM SentRecorded == Spec => []SentIsRecorded
  <1>1. TypeInv => SentIsRecorded
    <2> SUFFICES ASSUME TypeInv, NEW c \in Composers, tab[c] = "sent"
                 PROVE  sent[Current(c)] \in Statuses /\ Tried(Current(c)) = Attachments
      BY DEF SentIsRecorded, TypeInv, Progress
    <2>1. Current(c) \in Requests
      BY OutboundAssumption DEF TypeInv, TypeOK, Told, Current, Requests
    <2> QED
      BY <2>1 DEF TypeInv, Told, Progress
  <1> QED
    BY <1>1, TypeInvAlways, PTL

-----------------------------------------------------------------------------
(* The Sent view is honest *)

LEMMA StatusHonest ==
    \A b \in SUBSET Buckets :
        /\ StatusOf(b) # "failed" => b # {}
        /\ "permanent_bounces" \in b <=> StatusOf(b) = "bounced"
  BY DEF StatusOf, Buckets

LEMMA OthersHonest ==
    ASSUME HonestInv, NEW q \in Requests, Honest(q)',
           \A r \in Requests \ {q} :
               /\ stage'[r] = stage[r] /\ accepted'[r] = accepted[r] /\ answer'[r] = answer[r]
               /\ result'[r] = result[r] /\ sent'[r] = sent[r]
    PROVE  HonestInv'
  BY DEF HonestInv, Honest

\* The end of a call: the message was taken if the status says so.
LEMMA SettleHonest ==
    ASSUME TypeInv, HonestInv, NEW q \in Requests, stage[q] = "call",
           NEW s \in Statuses, NEW b \in SUBSET Buckets, Settle(q, s, b),
           Took(q) \/ UNCHANGED accepted, s # "failed" => Took(q),
           "permanent_bounces" \in b <=> s = "bounced", UNCHANGED sent
    PROVE  HonestInv'
  <1>1. sent[q] = None
    BY DEF HonestInv, Honest
  <1>2. accepted[q] \in Nat
    BY OutboundAssumption DEF TypeInv, TypeOK
  <1>3. s # "failed" => accepted'[q] > 0
    BY <1>2 DEF Took, TypeInv, TypeOK
  <1>4. result'[q] = s /\ answer'[q] = b /\ stage'[q] = "record" /\ sent'[q] = None
    BY <1>1 DEF Settle, TypeInv, TypeOK
  <1>5. Honest(q)'
    BY <1>3, <1>4 DEF Honest
  <1> QED
    BY <1>5, OthersHonest DEF Settle, Took, TypeInv, TypeOK

LEMMA CallHonest ==
    ASSUME TypeInv, HonestInv, NEW q \in Requests,
           ApiAnswers(q) \/ ApiRefuses(q) \/ ApiUnreachable(q) \/ SmtpSends(q)
    PROVE  HonestInv'
  <1>1. CASE ApiAnswers(q)
    <2>1. PICK b \in SUBSET Buckets : Settle(q, StatusOf(b), b) /\ (IF b = {} THEN UNCHANGED accepted ELSE Took(q))
      BY <1>1 DEF ApiAnswers
    <2>2. StatusOf(b) \in Statuses
      BY StatusTyped
    <2> QED
      BY <1>1, <2>1, <2>2, StatusHonest, SettleHonest DEF ApiAnswers
  <1>2. CASE ApiRefuses(q)
    <2>1. CASE Settle(q, "failed", {})
      BY <1>2, <2>1, SettleHonest DEF ApiRefuses, Statuses
    <2>2. CASE UNCHANGED <<result, answer, stage>>
      BY <1>2, <2>2 DEF ApiRefuses, HonestInv, Honest
    <2> QED
      BY <1>2, <2>1, <2>2 DEF ApiRefuses
  <1>3. CASE ApiUnreachable(q)
    <2>1. result[q] = None /\ sent[q] = None
      BY <1>3 DEF ApiUnreachable, HonestInv, Honest
    <2>2. Honest(q)'
      BY <1>3, <2>1 DEF ApiUnreachable, Honest
    <2> QED
      BY <1>3, <2>2, OthersHonest DEF ApiUnreachable, Took, TypeInv, TypeOK
  <1>4. CASE SmtpSends(q)
    <2>1. CASE Settle(q, "queued", {}) /\ Took(q)
      BY <1>4, <2>1, SettleHonest DEF SmtpSends, Statuses
    <2>2. CASE Settle(q, "failed", {}) /\ (Took(q) \/ UNCHANGED accepted)
      BY <1>4, <2>2, SettleHonest DEF SmtpSends, Statuses
    <2> QED
      BY <1>4, <2>1, <2>2 DEF SmtpSends
  <1> QED
    BY <1>1, <1>2, <1>3, <1>4

LEMMA StepHonest == TypeInv /\ HonestInv /\ [Next]_vars => HonestInv'
  <1> SUFFICES ASSUME TypeInv, HonestInv, [Next]_vars PROVE HonestInv'
    OBVIOUS
  <1>1. ASSUME NEW c \in Composers, PressSend(c)
        PROVE  HonestInv'
    <2> DEFINE q == <<c, presses[c] + 1>>
    <2>1. UNCHANGED <<accepted, answer, result, sent>> /\ stage' = [stage EXCEPT ![q] = "check"]
      BY <1>1 DEF PressSend, callVars
    <2>2. q \in Requests => q[2] > presses[C(q)]
      BY <1>1 DEF C, TypeInv, TypeOK
    <2>3. q \in Requests => stage[q] = "none"
      BY <2>2 DEF TypeInv, Unpressed
    <2> HIDE DEF q
    <2> QED
      BY <2>1, <2>3 DEF HonestInv, Honest, TypeInv, TypeOK
  <1>2. ASSUME NEW c \in Composers, HearAnswer(c) \/ LoseAnswer(c)
        PROVE  HonestInv'
    BY <1>2 DEF HearAnswer, LoseAnswer, callVars, HonestInv, Honest
  <1>3. ASSUME NEW q \in Requests, CheckSize(q)
        PROVE  HonestInv'
    BY <1>3 DEF CheckSize, HonestInv, Honest, TypeInv, TypeOK
  <1>4. ASSUME NEW q \in Requests, Record(q) \/ StoreCopy(q) \/ Kill(q)
        PROVE  HonestInv'
    BY <1>4 DEF Record, StoreCopy, Kill, Running, callVars, HonestInv, Honest, TypeInv, TypeOK
  <1>5. CASE UNCHANGED vars
    BY <1>5 DEF vars, HonestInv, Honest
  <1> QED
    BY <1>1, <1>2, <1>3, <1>4, <1>5, CallHonest DEF Next, ServerStep

\* The Sent view never claims more than happened, whatever the answers, breaks
\* and retries of the calls: a row that is not "failed" belongs to a request
\* for which the provider took the message, and a reported bounce is not hidden.
THEOREM SentViewIsHonest == Spec => []HonestStatus
  <1>1. Init => HonestInv
    BY DEF Init, HonestInv, Honest
  <1>2. HonestInv => HonestStatus
    BY DEF HonestInv, Honest, HonestStatus, Statuses, None
  <1> QED
    BY <1>1, <1>2, StepHonest, TypeInvAlways, PTL DEF Spec

=============================================================================
