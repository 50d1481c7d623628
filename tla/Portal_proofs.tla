--------------------------- MODULE Portal_proofs ----------------------------
(***************************************************************************)
(* Proofs about the portal's accounts, for any addresses, windows, numbers *)
(* of refreshes under way, tokens and counts, and about the compose form,  *)
(* for any people, files and sizes, signatures and texts.                  *)
(***************************************************************************)
EXTENDS Session, Composer, FiniteSetTheorems, SequenceTheorems, WellFoundedInduction, TLAPS

-----------------------------------------------------------------------------
(* Sums *)

\* One pair for each unit of each element's weight: a sum is a number of pairs.
Cells(w, S) == {p \in S \X Nat : 1 <= p[2] /\ p[2] <= w[p[1]]}
Units(w, x) == {x} \X (1..w[x])

\* The element a fold takes first, and what it computes set by set with weights w.
Pick(s) == CHOOSE x \in s : TRUE
FoldOf(w, S) == CHOOSE f : f = [s \in SUBSET S |-> IF s = {} THEN 0 ELSE w[Pick(s)] + f[s \ {Pick(s)}]]
SumsUp(it, w, S) == \A s \in SUBSET S : it[s] = IF s = {} THEN 0 ELSE w[Pick(s)] + it[s \ {Pick(s)}]

\* Of the finite sets some have, one is such that no part of it has it.
LEMMA LeastSet ==
    ASSUME NEW S, IsFiniteSet(S), NEW Bad, Bad \subseteq SUBSET S, Bad # {}
    PROVE  \E s \in Bad : \A t \in Bad : t \subseteq s => t = s
  <1>1. Bad \subseteq FiniteSubsetsOf(S)
    BY FS_FiniteSubsetsOfFinite
  <1>2. PICK s \in Bad : \A t \in Bad : ~ (<<t, s>> \in StrictSubsetOrdering(S))
    BY <1>1, FS_StrictSubsetOrderingWellFounded, WFMin
  <1>3. ASSUME NEW t \in Bad, t \subseteq s, t # s
        PROVE  FALSE
    <2>1. <<t, s>> \in (SUBSET S) \X (SUBSET S) /\ <<t, s>>[1] \subseteq <<t, s>>[2] /\ <<t, s>>[1] # <<t, s>>[2]
      BY <1>3
    <2>2. <<t, s>> \in StrictSubsetOrdering(S)
      BY ONLY <2>1 DEF StrictSubsetOrdering
    <2> QED
      BY <1>2, <2>2
  <1> QED
    BY <1>2, <1>3

LEMMA NoCells == ASSUME NEW w PROVE Cells(w, {}) = {}
  BY DEF Cells

\* One element more.
LEMMA CellsOfMore ==
    ASSUME NEW D, NEW w \in [D -> Nat], NEW S, S \subseteq D, NEW x \in D, x \notin S
    PROVE  /\ Cells(w, S \cup {x}) = Cells(w, S) \cup Units(w, x)
           /\ Cells(w, S) \cap Units(w, x) = {}
           /\ IsFiniteSet(Units(w, x)) /\ Cardinality(Units(w, x)) = w[x]
  <1>1. w[x] \in Nat
    OBVIOUS
  <1>2. IsFiniteSet(1..w[x]) /\ Cardinality(1..w[x]) = w[x]
    BY <1>1, FS_Interval
  <1>3. IsFiniteSet({x}) /\ Cardinality({x}) = 1
    BY FS_Singleton
  <1>4. IsFiniteSet({x} \X (1..w[x])) /\ Cardinality({x} \X (1..w[x])) = 1 * w[x]
    BY ONLY <1>2, <1>3, FS_Product
  <1>7. IsFiniteSet(Units(w, x)) /\ Cardinality(Units(w, x)) = w[x]
    <2>1. 1 * w[x] = w[x]
      BY <1>1
    <2> QED
      BY ONLY <1>4, <2>1 DEF Units
  <1>5. Cells(w, S \cup {x}) = Cells(w, S) \cup Units(w, x)
    BY <1>1 DEF Cells, Units
  <1>6. Cells(w, S) \cap Units(w, x) = {}
    BY DEF Cells, Units
  <1> QED
    BY <1>5, <1>6, <1>7

LEMMA CountMore ==
    ASSUME NEW D, NEW w \in [D -> Nat], NEW S, S \subseteq D, NEW x \in D, x \notin S, IsFiniteSet(Cells(w, S))
    PROVE  /\ IsFiniteSet(Cells(w, S \cup {x}))
           /\ Cardinality(Cells(w, S \cup {x})) = Cardinality(Cells(w, S)) + w[x]
  <1> DEFINE A == Cells(w, S)
             B == Units(w, x)
  <1>1. Cells(w, S \cup {x}) = A \cup B /\ A \cap B = {} /\ IsFiniteSet(B) /\ Cardinality(B) = w[x] /\ IsFiniteSet(A)
    BY CellsOfMore
  <1> HIDE DEF A, B
  <1>2. IsFiniteSet(A \cup B) /\ Cardinality(A \cup B) = Cardinality(A) + Cardinality(B) - Cardinality(A \cap B)
    BY ONLY <1>1, FS_Union
  <1>3. Cardinality(A \cap B) = 0
    BY <1>1, FS_EmptySet
  <1>4. Cardinality(A) \in Nat /\ Cardinality(B) \in Nat
    BY <1>1, FS_CardinalityType
  <1>5. w[x] \in Nat
    OBVIOUS
  <1>6. Cardinality(A \cup B) = Cardinality(A) + w[x]
    BY ONLY <1>1, <1>2, <1>3, <1>4, <1>5
  <1> QED
    BY ONLY <1>1, <1>2, <1>6 DEF A

\* A finite set of weights is a finite number of pairs.
LEMMA CellsFinite ==
    ASSUME NEW D, NEW w \in [D -> Nat], NEW S, S \subseteq D, IsFiniteSet(S)
    PROVE  IsFiniteSet(Cells(w, S)) /\ Cardinality(Cells(w, S)) \in Nat
  <1> DEFINE Bad == {s \in SUBSET S : ~ IsFiniteSet(Cells(w, s))}
  <1>1. ASSUME Bad # {}
        PROVE  FALSE
    <2>1. PICK s \in Bad : \A t \in Bad : t \subseteq s => t = s
      <3>1. Bad \subseteq SUBSET S
        OBVIOUS
      <3> HIDE DEF Bad
      <3> QED
        BY <1>1, <3>1, LeastSet
    <2>2. s # {}
      BY <2>1, NoCells, FS_EmptySet
    <2>3. PICK x \in s : TRUE
      BY <2>2
    <2>4. IsFiniteSet(Cells(w, s \ {x}))
      BY <2>1, <2>3
    <2>5. s = (s \ {x}) \cup {x} /\ s \ {x} \subseteq D /\ x \in D /\ x \notin s \ {x}
      BY <2>1, <2>3
    <2>6. IsFiniteSet(Cells(w, (s \ {x}) \cup {x}))
      BY ONLY <2>4, <2>5, CountMore, w \in [D -> Nat]
    <2> QED
      BY <2>1, <2>5, <2>6
  <1>2. IsFiniteSet(Cells(w, S))
    BY <1>1
  <1> QED
    BY <1>2, FS_CardinalityType

\* The numbers of pairs sum up.
LEMMA CellsSumUp ==
    ASSUME NEW D, NEW w \in [D -> Nat], NEW S, S \subseteq D, IsFiniteSet(S), NEW s \in SUBSET S
    PROVE  Cardinality(Cells(w, s)) = IF s = {} THEN 0 ELSE w[Pick(s)] + Cardinality(Cells(w, s \ {Pick(s)}))
  <1>1. CASE s = {}
    BY <1>1, NoCells, FS_EmptySet
  <1>2. CASE s # {}
    <2> DEFINE x == Pick(s)
               t == s \ {x}
    <2>1. x \in s
      BY <1>2 DEF Pick
    <2> HIDE DEF x
    <2>2. IsFiniteSet(t)
      BY FS_Subset, t \in SUBSET S
    <2>3. s = t \cup {x} /\ t \subseteq D /\ x \in D /\ x \notin t
      BY <2>1
    <2> HIDE DEF t
    <2>4. IsFiniteSet(Cells(w, t)) /\ Cardinality(Cells(w, t)) \in Nat
      BY ONLY <2>2, <2>3, CellsFinite, w \in [D -> Nat]
    <2>5. Cardinality(Cells(w, t \cup {x})) = Cardinality(Cells(w, t)) + w[x]
      BY ONLY <2>3, <2>4, CountMore, w \in [D -> Nat]
    <2>6. w[x] \in Nat
      BY <2>3
    <2>7. Cardinality(Cells(w, s)) = Cardinality(Cells(w, t)) + w[x]
      BY ONLY <2>3, <2>5
    <2>8. Cardinality(Cells(w, s)) = w[x] + Cardinality(Cells(w, t))
      BY ONLY <2>7, <2>4, <2>6
    <2> QED
      BY <1>2, <2>8 DEF x, t
  <1> QED
    BY <1>1, <1>2

\* Whatever sums up the weights finds the number of pairs.
LEMMA SumIsCount ==
    ASSUME NEW D, NEW w \in [D -> Nat], NEW S, S \subseteq D, IsFiniteSet(S), NEW it, SumsUp(it, w, S)
    PROVE  it[S] = Cardinality(Cells(w, S))
  <1> DEFINE Bad == {s \in SUBSET S : it[s] # Cardinality(Cells(w, s))}
  <1>1. ASSUME Bad # {}
        PROVE  FALSE
    <2>1. PICK s \in Bad : \A t \in Bad : t \subseteq s => t = s
      <3>1. Bad \subseteq SUBSET S
        OBVIOUS
      <3> HIDE DEF Bad
      <3> QED
        BY <1>1, <3>1, LeastSet
    <2>2. s \in SUBSET S /\ it[s] # Cardinality(Cells(w, s))
      BY <2>1
    <2>3. Cardinality(Cells(w, s)) = IF s = {} THEN 0 ELSE w[Pick(s)] + Cardinality(Cells(w, s \ {Pick(s)}))
      BY ONLY <2>2, CellsSumUp, w \in [D -> Nat], S \subseteq D, IsFiniteSet(S)
    <2>4. it[s] = IF s = {} THEN 0 ELSE w[Pick(s)] + it[s \ {Pick(s)}]
      BY <2>2 DEF SumsUp
    <2>5. s # {}
      BY <2>2, <2>3, <2>4
    <2>6. Pick(s) \in s
      BY <2>5 DEF Pick
    <2>7. it[s \ {Pick(s)}] = Cardinality(Cells(w, s \ {Pick(s)}))
      BY <2>1, <2>6
    <2> QED
      BY <2>2, <2>3, <2>4, <2>5, <2>7
  <1> QED
    BY <1>1

\* A function defined as folds define theirs sums up.
LEMMA FoldSumsUp ==
    ASSUME NEW D, NEW w \in [D -> Nat], NEW S, S \subseteq D, IsFiniteSet(S)
    PROVE  SumsUp(FoldOf(w, S), w, S)
  <1> DEFINE it == FoldOf(w, S)
             count == [s \in SUBSET S |-> Cardinality(Cells(w, s))]
  <1>1. count = [s \in SUBSET S |-> IF s = {} THEN 0 ELSE w[Pick(s)] + count[s \ {Pick(s)}]]
    <2>1. ASSUME NEW s \in SUBSET S
          PROVE  count[s] = IF s = {} THEN 0 ELSE w[Pick(s)] + count[s \ {Pick(s)}]
      <3>1. Cardinality(Cells(w, s)) = IF s = {} THEN 0 ELSE w[Pick(s)] + Cardinality(Cells(w, s \ {Pick(s)}))
        BY ONLY CellsSumUp, w \in [D -> Nat], S \subseteq D, IsFiniteSet(S), s \in SUBSET S
      <3> QED
        BY <3>1
    <2> QED
      BY <2>1
  <1> HIDE DEF count
  <1>2. it = [s \in SUBSET S |-> IF s = {} THEN 0 ELSE w[Pick(s)] + it[s \ {Pick(s)}]]
    BY <1>1 DEF FoldOf
  <1> HIDE DEF it
  <1>3. SumsUp(it, w, S)
    BY <1>2 DEF SumsUp
  <1> QED
    BY <1>3 DEF it

\* The weight of a finite set of files.
LEMMA WeightIs ==
    ASSUME NEW D, Size \in [D -> Nat], NEW S, S \subseteq D, IsFiniteSet(S)
    PROVE  Weight(S) = Cardinality(Cells(Size, S))
  <1>1. Weight(S) = FoldOf(Size, S)[S]
    BY DEF Weight, MapThenSumSet, MapThenFoldSet, Pick, FoldOf
  <1>2. SumsUp(FoldOf(Size, S), Size, S)
    BY FoldSumsUp
  <1> QED
    BY <1>1, <1>2, SumIsCount

LEMMA TotalIs ==
    ASSUME NEW D, NEW w \in [D -> Nat], \A a \in D : w[a] = a.unread, NEW S, S \subseteq D, IsFiniteSet(S)
    PROVE  totalUnread(S) = Cardinality(Cells(w, S))
  <1> DEFINE count == [s \in SUBSET S |-> Cardinality(Cells(w, s))]
             it == CHOOSE f : f = [s \in SUBSET S |-> IF s = {} THEN 0 ELSE Pick(s).unread + f[s \ {Pick(s)}]]
  <1>1. totalUnread(S) = it[S]
    BY DEF totalUnread, MapThenSumSet, MapThenFoldSet, Pick
  <1>2. count = [s \in SUBSET S |-> IF s = {} THEN 0 ELSE Pick(s).unread + count[s \ {Pick(s)}]]
    <2>1. ASSUME NEW s \in SUBSET S
          PROVE  count[s] = IF s = {} THEN 0 ELSE Pick(s).unread + count[s \ {Pick(s)}]
      <3>1. Cardinality(Cells(w, s)) = IF s = {} THEN 0 ELSE w[Pick(s)] + Cardinality(Cells(w, s \ {Pick(s)}))
        BY ONLY CellsSumUp, w \in [D -> Nat], S \subseteq D, IsFiniteSet(S), s \in SUBSET S
      <3>2. s # {} => Pick(s) \in D
        BY DEF Pick
      <3> QED
        BY <3>1, <3>2
    <2> QED
      BY <2>1
  <1> HIDE DEF count
  <1>3. it = [s \in SUBSET S |-> IF s = {} THEN 0 ELSE Pick(s).unread + it[s \ {Pick(s)}]]
    BY <1>2
  <1> HIDE DEF it
  <1>4. SumsUp(it, w, S)
    <2>1. ASSUME NEW s \in SUBSET S
          PROVE  it[s] = IF s = {} THEN 0 ELSE w[Pick(s)] + it[s \ {Pick(s)}]
      <3>1. s # {} => Pick(s) \in D
        BY DEF Pick
      <3> QED
        BY <1>3, <3>1
    <2> QED
      BY <2>1 DEF SumsUp
  <1> QED
    BY <1>1, <1>4, SumIsCount
-----------------------------------------------------------------------------
(* Accounts: tokens and lists *)

Pairs == Emails \X Nat
AccountType == [token : Pairs, unread : Nat]
AnswerType == [token : Pairs, kind : {"ok", "refused"}, unread : Nat]
PageType == [open : BOOLEAN, visible : BOOLEAN, accounts : SUBSET AccountType,
             loaded : BOOLEAN, timer : BOOLEAN]
SyncType == [on : BOOLEAN, badge : BOOLEAN, asked : SUBSET Pairs, answers : SUBSET AnswerType]

(***************************************************************************)
(* Every token anywhere has been issued, so that no token issued later is  *)
(* one that was refused: a refusal stays true until it is heard.           *)
(***************************************************************************)
IssuedTo(tok, iss) == tok \in Pairs /\ tok[2] <= iss[tok[1]]
ListOK(list, iss) == list \subseteq AccountType /\ \A a \in list : IssuedTo(a.token, iss)
PageOK(p, iss) == p \in PageType /\ ListOK(p.accounts, iss)
AnswerOK(ans, iss, lv) ==
    ans \in AnswerType /\ IssuedTo(ans.token, iss) /\ (ans.kind = "refused" => ans.token \notin lv)
SyncOK(sy, iss, lv) ==
    /\ sy \in SyncType
    /\ \A tok \in sy.asked : IssuedTo(tok, iss)
    /\ \A ans \in sy.answers : AnswerOK(ans, iss, lv)

ServerOK ==
    /\ unread \in [Emails -> Nat] /\ issued \in [Emails -> Nat]
    /\ \A tok \in live : IssuedTo(tok, issued)
StoredOK == \A tok \in stored : IssuedTo(tok, issued)
PagesOK == page \in [Tabs -> PageType] /\ \A t \in Tabs : PageOK(page[t], issued)
SyncsOK == sync \in [Tabs -> [Syncs -> SyncType]] /\ \A t \in Tabs, s \in Syncs : SyncOK(sync[t][s], issued, live)
LogoutOK == logout \in [Tabs -> Pairs \cup {None}]

IInv == ServerOK /\ StoredOK /\ PagesOK /\ SyncsOK /\ LogoutOK

-----------------------------------------------------------------------------
(* Lists *)

LEMMA AccountsTyped == AccountObjects \subseteq AccountType /\ \A tok \in Tokens : tok \in Pairs
  BY SessionAssumption DEF AccountObjects, Tokens, AccountType, Pairs, EmailOf

LEMMA HeldOK ==
    ASSUME NEW list, NEW iss, ListOK(list, iss)
    PROVE  /\ Held(list) \subseteq Pairs
           /\ \A tok \in Held(list) : IssuedTo(tok, iss)
  BY DEF ListOK, Held, IssuedTo

LEMMA RemovedOK ==
    ASSUME NEW list, NEW iss, NEW e, ListOK(list, iss)
    PROVE  ListOK(removed(list, e), iss)
  BY DEF ListOK, removed

LEMMA CountedOK ==
    ASSUME NEW list, NEW iss, NEW tok, NEW n \in Nat, ListOK(list, iss)
    PROVE  ListOK(Counted(list, tok, n), iss) /\ Held(Counted(list, tok, n)) = Held(list)
  <1>1. \A a \in list : a.token = tok => Account(tok, n) \in AccountType /\ Account(tok, n).token = a.token
    BY DEF ListOK, Account, AccountType
  <1>2. ListOK(Counted(list, tok, n), iss)
    BY <1>1 DEF Counted, ListOK
  <1>3. Held(Counted(list, tok, n)) = Held(list)
    BY <1>1 DEF Counted, Held
  <1> QED
    BY <1>2, <1>3

LEMMA HeardOK ==
    ASSUME NEW list, NEW iss, NEW ans \in AnswerType, ListOK(list, iss)
    PROVE  /\ ListOK(heard(list, ans), iss)
           /\ ans.kind # "refused" => Held(heard(list, ans)) = Held(list)
           /\ ans.kind = "refused" => heard(list, ans) = removed(list, EmailOf(ans.token))
  <1>1. ans.unread \in Nat /\ ans.kind \in {"ok", "refused"}
    BY DEF AnswerType
  <1>2. CASE ans.kind = "ok"
    BY <1>1, <1>2, CountedOK DEF heard
  <1>3. CASE ans.kind = "refused"
    BY <1>3, RemovedOK DEF heard
  <1> QED
    BY <1>1, <1>2, <1>3

\* Removing an address takes the tokens of that address and no other.
LEMMA RemovedHeld ==
    ASSUME NEW list, NEW e, NEW tok \in Held(list) \ Held(removed(list, e))
    PROVE  EmailOf(tok) = e
  BY DEF Held, removed

-----------------------------------------------------------------------------
(* What a step leaves alone stays right *)

LEMMA IssuedMore ==
    ASSUME NEW iss \in [Emails -> Nat], NEW more \in [Emails -> Nat], \A e \in Emails : iss[e] <= more[e],
           NEW tok, IssuedTo(tok, iss)
    PROVE  IssuedTo(tok, more)
  <1>1. tok[1] \in Emails /\ tok[2] \in Nat
    BY DEF IssuedTo, Pairs
  <1> QED
    BY <1>1 DEF IssuedTo

LEMMA PagesKept == PagesOK /\ UNCHANGED <<page, issued>> => PagesOK'
  BY DEF PagesOK

LEMMA StoredKept == StoredOK /\ UNCHANGED <<stored, issued>> => StoredOK'
  BY DEF StoredOK

LEMMA SyncsKept == SyncsOK /\ UNCHANGED <<sync, issued, live>> => SyncsOK'
  BY DEF SyncsOK

LEMMA ServerKept == ServerOK /\ UNCHANGED server => ServerOK'
  BY DEF ServerOK, server

\* A step that changes one window.
LEMMA PageStep ==
    ASSUME PagesOK, UNCHANGED issued, NEW t \in Tabs, NEW p, PageOK(p, issued), page' = [page EXCEPT ![t] = p]
    PROVE  PagesOK'
  BY DEF PagesOK, PageOK

LEMMA ListStep ==
    ASSUME PagesOK, UNCHANGED issued, NEW t \in Tabs, NEW list, ListOK(list, issued),
           page' = [page EXCEPT ![t].accounts = list]
    PROVE  PagesOK' /\ page'[t].accounts = list
  <1> DEFINE p == [page[t] EXCEPT !.accounts = list]
  <1>1. PageOK(p, issued) /\ p.accounts = list
    BY DEF PagesOK, PageOK, PageType, ListOK
  <1>2. page' = [page EXCEPT ![t] = p]
    BY DEF PagesOK
  <1> HIDE DEF p
  <1>3. page'[t] = p
    BY <1>2 DEF PagesOK
  <1> QED
    BY <1>1, <1>2, <1>3, PageStep

\* A step that changes one refresh.
LEMMA SyncStep ==
    ASSUME SyncsOK, UNCHANGED <<issued, live>>, NEW t \in Tabs, NEW s \in Syncs, NEW sy, SyncOK(sy, issued, live),
           sync' = [sync EXCEPT ![t][s] = sy]
    PROVE  SyncsOK'
  <1>1. \A u \in Tabs, r \in Syncs : sync'[u][r] = IF u = t /\ r = s THEN sy ELSE sync[u][r]
    BY DEF SyncsOK
  <1>2. sync' \in [Tabs -> [Syncs -> SyncType]]
    BY DEF SyncsOK, SyncOK
  <1> QED
    BY <1>1, <1>2 DEF SyncsOK

LEMMA NoSyncOK == ASSUME NEW iss, NEW lv PROVE SyncOK(NoSync, iss, lv)
  BY DEF SyncOK, NoSync, SyncType

LEMMA AskingOK ==
    ASSUME NEW list, NEW iss, NEW lv, NEW b \in BOOLEAN, ListOK(list, iss)
    PROVE  SyncOK(Asking(list, b), iss, lv)
  BY HeldOK DEF SyncOK, Asking, SyncType

-----------------------------------------------------------------------------
(* The invariant *)

LEMMA InitOK == Init => IInv
  <1> SUFFICES ASSUME Init PROVE IInv
    OBVIOUS
  <1>1. ServerOK /\ StoredOK /\ LogoutOK
    BY SessionAssumption DEF Init, ServerOK, StoredOK, LogoutOK, AnyCount
  <1>2. PagesOK
    BY DEF Init, PagesOK, PageOK, PageType, ListOK, Closed
  <1>3. SyncsOK
    <2>1. SyncOK(NoSync, issued, live)
      BY NoSyncOK
    <2> QED
      BY <2>1 DEF Init, SyncsOK, SyncOK
  <1> QED
    BY <1>1, <1>2, <1>3 DEF IInv

LEMMA ListTyped == ASSUME PagesOK, NEW t \in Tabs PROVE ListOK(page[t].accounts, issued)
  BY DEF PagesOK, PageOK

LEMMA RefreshStep ==
    ASSUME IInv, NEW t \in Tabs, NEW s \in Syncs, NEW b \in BOOLEAN, refreshUnread(t, s, b)
    PROVE  IInv'
  <1>1. sync' = [sync EXCEPT ![t][s] = Asking(page[t].accounts, b)]
    BY DEF refreshUnread, Ask
  <1>2. SyncOK(Asking(page[t].accounts, b), issued, live)
    BY AskingOK, ListTyped DEF IInv
  <1>3. SyncsOK'
    BY <1>1, <1>2, SyncStep DEF IInv, refreshUnread, server
  <1> QED
    BY <1>3, ServerKept, StoredKept, PagesKept DEF IInv, LogoutOK, refreshUnread, server

\* A window that comes to the front or leaves it keeps its accounts.
LEMMA TurnedIs ==
    ASSUME PagesOK, NEW t \in Tabs, NEW b \in BOOLEAN, page' = [page EXCEPT ![t].visible = b], UNCHANGED issued
    PROVE  PagesOK' /\ \A u \in Tabs : page'[u].open = page[u].open /\ page'[u].accounts = page[u].accounts
  <1> DEFINE p == [page[t] EXCEPT !.visible = b]
  <1>1. PageOK(p, issued) /\ p.open = page[t].open /\ p.accounts = page[t].accounts
    BY DEF PagesOK, PageOK, PageType, ListOK
  <1>2. page' = [page EXCEPT ![t] = p]
    BY DEF PagesOK, PageType
  <1> HIDE DEF p
  <1>3. PagesOK'
    BY <1>1, <1>2, PageStep
  <1> QED
    BY <1>1, <1>2, <1>3 DEF PagesOK

LEMMA VisibleStep ==
    ASSUME IInv, NEW t \in Tabs, Hide(t) \/ \E s \in Syncs : onVisible(t, s)
    PROVE  /\ IInv'
           /\ UNCHANGED <<server, stored, logout>>
           /\ \A u \in Tabs : page'[u].open = page[u].open /\ page'[u].accounts = page[u].accounts
  <1>1. UNCHANGED <<server, stored, logout>> /\ \E b \in BOOLEAN : page' = [page EXCEPT ![t].visible = b]
    BY DEF Hide, onVisible
  <1>2. PagesOK' /\ \A u \in Tabs : page'[u].open = page[u].open /\ page'[u].accounts = page[u].accounts
    BY <1>1, TurnedIs DEF IInv, server
  <1>3. SyncsOK'
    <2>1. CASE UNCHANGED sync
      BY <1>1, <2>1, SyncsKept DEF IInv, server
    <2>2. ASSUME NEW s \in Syncs, sync' = [sync EXCEPT ![t][s] = Asking(page[t].accounts, TRUE)]
          PROVE  SyncsOK'
      <3>1. SyncOK(Asking(page[t].accounts, TRUE), issued, live)
        BY AskingOK, ListTyped DEF IInv
      <3> QED
        BY <1>1, <2>2, <3>1, SyncStep DEF IInv, server
    <2> QED
      BY <2>1, <2>2 DEF Hide, onVisible, Ask
  <1> QED
    BY <1>1, <1>2, <1>3, ServerKept, StoredKept DEF IInv, LogoutOK, server

\* A failed call is one that is not asked any more.
LEMMA FailsStep ==
    ASSUME IInv, NEW t \in Tabs, NEW s \in Syncs, NEW tok, Fails(t, s, tok)
    PROVE  IInv'
  <1> DEFINE sy == [sync[t][s] EXCEPT !.asked = @ \ {tok}]
  <1>1. SyncOK(sy, issued, live)
    BY DEF IInv, SyncsOK, SyncOK, SyncType
  <1>2. sync' = [sync EXCEPT ![t][s] = sy]
    BY DEF Fails, IInv, SyncsOK, SyncType
  <1> HIDE DEF sy
  <1>3. SyncsOK'
    BY <1>1, <1>2, SyncStep DEF IInv, Fails, server
  <1> QED
    BY <1>3, ServerKept, StoredKept, PagesKept DEF IInv, LogoutOK, Fails, server

LEMMA AnswerStep ==
    ASSUME IInv, NEW t \in Tabs, NEW s \in Syncs, NEW tok, Answer(t, s, tok)
    PROVE  IInv'
  <1> DEFINE ans == IF tok \in live
                    THEN [token |-> tok, kind |-> "ok", unread |-> unread[EmailOf(tok)]]
                    ELSE [token |-> tok, kind |-> "refused", unread |-> 0]
             old == sync[t][s]
             sy == [old EXCEPT !.asked = @ \ {tok}, !.answers = @ \cup {ans}]
  <1>1. SyncOK(old, issued, live) /\ tok \in old.asked
    BY DEF IInv, SyncsOK, Answer
  <1>2. IssuedTo(tok, issued) /\ EmailOf(tok) \in Emails
    BY <1>1 DEF SyncOK, IssuedTo, Pairs, EmailOf
  <1>3. AnswerOK(ans, issued, live)
    <2>1. unread[EmailOf(tok)] \in Nat
      BY <1>2 DEF IInv, ServerOK
    <2>2. ans \in AnswerType
      BY <1>2, <2>1 DEF AnswerType, IssuedTo
    <2> QED
      BY <1>2, <2>2 DEF AnswerOK
  <1>4. SyncOK(sy, issued, live)
    <2> HIDE DEF ans
    <2> QED
      BY <1>1, <1>3 DEF SyncOK, SyncType, AnswerOK
  <1>5. sync' = [sync EXCEPT ![t][s] = sy]
    <2>1. sync' = [sync EXCEPT ![t][s].asked = @ \ {tok}, ![t][s].answers = @ \cup {ans}]
      BY DEF Answer
    <2> HIDE DEF ans
    <2> QED
      BY <2>1 DEF IInv, SyncsOK, SyncType
  <1> HIDE DEF sy
  <1>6. SyncsOK'
    BY <1>4, <1>5, SyncStep DEF IInv, Answer, server
  <1> QED
    BY <1>6, ServerKept, StoredKept, PagesKept DEF IInv, LogoutOK, Answer, server

LEMMA HearStep ==
    ASSUME IInv, NEW t \in Tabs, NEW s \in Syncs, NEW ans, Hear(t, s, ans)
    PROVE  IInv'
  <1> DEFINE old == sync[t][s]
             sy == [old EXCEPT !.answers = @ \ {ans}]
             list == heard(page[t].accounts, ans)
  <1>1. SyncOK(old, issued, live) /\ ans \in old.answers
    BY DEF IInv, SyncsOK, Hear
  <1>2. SyncOK(sy, issued, live)
    BY <1>1 DEF SyncOK, SyncType
  <1>3. sync' = [sync EXCEPT ![t][s] = sy]
    BY DEF Hear, IInv, SyncsOK, SyncType
  <1>4. ListOK(list, issued)
    BY <1>1, HeardOK, ListTyped DEF IInv, SyncOK, AnswerOK
  <1>5. /\ page' = [page EXCEPT ![t].accounts = list]
        /\ stored' = Held(list) \/ stored' = stored
        /\ UNCHANGED <<server, logout>>
    BY DEF Hear, Show, persist
  <1> HIDE DEF sy, list
  <1>6. SyncsOK'
    BY <1>2, <1>3, <1>5, SyncStep DEF IInv, server
  <1>7. PagesOK'
    BY <1>4, <1>5, ListStep DEF IInv, server
  <1>8. StoredOK'
    BY <1>4, <1>5, HeldOK DEF IInv, StoredOK, server
  <1> QED
    BY <1>5, <1>6, <1>7, <1>8, ServerKept DEF IInv, LogoutOK, server

\* The list a refresh ends with.
LEMMA HearLastList ==
    ASSUME IInv, NEW t \in Tabs, NEW s \in Syncs, HearLast(t, s)
    PROVE  \E list :
              /\ Settle(t, s, list)
              /\ ListOK(list, issued)
              /\ \/ list = page[t].accounts
                 \/ \E ans \in sync[t][s].answers : list = heard(page[t].accounts, ans)
  <1>1. CASE \E ans \in sync[t][s].answers : Settle(t, s, heard(page[t].accounts, ans))
    <2>1. PICK ans \in sync[t][s].answers : Settle(t, s, heard(page[t].accounts, ans))
      BY <1>1
    <2>2. ListOK(heard(page[t].accounts, ans), issued)
      BY HeardOK, ListTyped DEF IInv, SyncsOK, SyncOK, AnswerOK
    <2> QED
      BY <2>1, <2>2
  <1>2. CASE Settle(t, s, page[t].accounts)
    BY <1>2, ListTyped DEF IInv
  <1> QED
    BY <1>1, <1>2 DEF HearLast

LEMMA SettleStep ==
    ASSUME IInv, NEW t \in Tabs, NEW s \in Syncs, NEW list, ListOK(list, issued), Settle(t, s, list),
           UNCHANGED <<server, logout>>
    PROVE  /\ IInv'
           /\ stored' = Held(list) /\ page'[t].accounts = list /\ page'[t].open = page[t].open
           /\ \A u \in Tabs \ {t} : page'[u] = page[u]
  <1> DEFINE p == [page[t] EXCEPT !.accounts = list]
             q == [page[t] EXCEPT !.accounts = list, !.loaded = TRUE]
  <1>1. PageOK(p, issued) /\ PageOK(q, issued) /\ p.accounts = list /\ q.accounts = list
        /\ p.open = page[t].open /\ q.open = page[t].open
    BY DEF IInv, PagesOK, PageOK, PageType, ListOK
  <1>2. page' = [page EXCEPT ![t] = p] \/ page' = [page EXCEPT ![t] = q]
    BY DEF Settle, Show, IInv, PagesOK, PageType
  <1> HIDE DEF p, q
  <1>3. /\ PagesOK'
        /\ page'[t].accounts = list /\ page'[t].open = page[t].open
        /\ \A u \in Tabs \ {t} : page'[u] = page[u]
    <2>1. PICK r \in {p, q} : page' = [page EXCEPT ![t] = r]
      BY <1>2
    <2>2. PagesOK'
      BY <1>1, <2>1, PageStep DEF IInv, server
    <2> QED
      BY <1>1, <2>1, <2>2 DEF IInv, PagesOK
  <1>4. SyncsOK'
    BY NoSyncOK, SyncStep DEF Settle, IInv, server
  <1>5. stored' = Held(list)
    BY DEF Settle, persist
  <1>6. StoredOK'
    BY <1>5, HeldOK DEF StoredOK, server
  <1> QED
    BY <1>3, <1>4, <1>5, <1>6, ServerKept DEF IInv, LogoutOK, server

LEMMA LaunchStep ==
    ASSUME IInv, NEW t \in Tabs, Launch(t)
    PROVE  /\ IInv'
           /\ page'[t].open /\ stored' = stored /\ Held(page'[t].accounts) = stored
           /\ \A u \in Tabs \ {t} : page'[u] = page[u]
  <1>1. PICK list \in SUBSET {a \in AccountObjects : a.token \in stored} :
            /\ Held(list) = stored
            /\ page' = [page EXCEPT ![t] = [open |-> TRUE, visible |-> TRUE, accounts |-> list,
                                            loaded |-> FALSE, timer |-> list # {}]]
            /\ IF list = {} THEN UNCHANGED sync ELSE \E s \in Syncs : Ask(t, s, list, TRUE)
    BY DEF Launch
  <1> DEFINE p == [open |-> TRUE, visible |-> TRUE, accounts |-> list, loaded |-> FALSE, timer |-> list # {}]
  <1>2. UNCHANGED <<server, stored, logout>>
    BY DEF Launch
  <1>3. ListOK(list, issued)
    BY AccountsTyped DEF ListOK, IInv, StoredOK
  <1>4. PageOK(p, issued) /\ p.open /\ p.accounts = list
    BY <1>3 DEF PageOK, PageType, ListOK
  <1> HIDE DEF p
  <1>5. PagesOK'
    BY <1>1, <1>2, <1>4, PageStep DEF p, IInv, server
  <1>6. SyncsOK'
    <2>1. CASE UNCHANGED sync
      BY <1>2, <2>1, SyncsKept DEF IInv, server
    <2>2. ASSUME NEW s \in Syncs, Ask(t, s, list, TRUE)
          PROVE  SyncsOK'
      <3>1. sync' = [sync EXCEPT ![t][s] = Asking(list, TRUE)]
        BY <2>2 DEF Ask
      <3>2. SyncOK(Asking(list, TRUE), issued, live)
        BY <1>3, AskingOK
      <3> QED
        BY <1>2, <3>1, <3>2, SyncStep DEF IInv, server
    <2> QED
      BY <1>1, <2>1, <2>2
  <1>7. /\ page'[t].open /\ Held(page'[t].accounts) = stored
        /\ \A u \in Tabs \ {t} : page'[u] = page[u]
    BY <1>1, <1>4 DEF p, IInv, PagesOK
  <1> QED
    BY <1>2, <1>5, <1>6, <1>7, ServerKept, StoredKept DEF IInv, LogoutOK, server

LEMMA CloseStep ==
    ASSUME IInv, NEW t \in Tabs, Close(t)
    PROVE  IInv' /\ ~page'[t].open /\ \A u \in Tabs \ {t} : page'[u] = page[u]
  <1>1. /\ page' = [page EXCEPT ![t] = Closed]
        /\ sync' = [sync EXCEPT ![t] = [s \in Syncs |-> NoSync]]
        /\ logout' = [logout EXCEPT ![t] = None]
        /\ UNCHANGED <<server, stored>>
    BY DEF Close
  <1>2. PageOK(Closed, issued) /\ ~Closed.open
    BY DEF PageOK, PageType, ListOK, Closed
  <1>3. PagesOK'
    BY <1>1, <1>2, PageStep DEF IInv, server
  <1>4. SyncsOK'
    <2>1. SyncOK(NoSync, issued, live)
      BY NoSyncOK
    <2>2. sync' \in [Tabs -> [Syncs -> SyncType]]
      BY <1>1, <2>1 DEF IInv, SyncsOK, SyncOK
    <2>3. \A u \in Tabs, s \in Syncs : sync'[u][s] = IF u = t THEN NoSync ELSE sync[u][s]
      BY <1>1 DEF IInv, SyncsOK
    <2> QED
      BY <1>1, <2>1, <2>2, <2>3 DEF IInv, SyncsOK, server
  <1>5. LogoutOK'
    BY <1>1 DEF IInv, LogoutOK
  <1>6. ~page'[t].open /\ \A u \in Tabs \ {t} : page'[u] = page[u]
    BY <1>1, <1>2 DEF IInv, PagesOK
  <1> QED
    BY <1>1, <1>3, <1>4, <1>5, <1>6, ServerKept, StoredKept DEF IInv, server

\* What has been issued stays so when an address is given another token.
LEMMA IssuingKeeps ==
    ASSUME IInv, NEW e \in Emails, issued' = [issued EXCEPT ![e] = @ + 1]
    PROVE  /\ issued' \in [Emails -> Nat]
           /\ \A tok : IssuedTo(tok, issued) => IssuedTo(tok, issued')
           /\ \A list : ListOK(list, issued) => ListOK(list, issued')
  <1>1. issued' \in [Emails -> Nat] /\ \A d \in Emails : issued[d] <= issued'[d]
    BY DEF IInv, ServerOK
  <1>2. \A tok : IssuedTo(tok, issued) => IssuedTo(tok, issued')
    BY <1>1, IssuedMore DEF IInv, ServerOK
  <1> QED
    BY <1>1, <1>2 DEF ListOK

LEMMA LoginOK ==
    ASSUME IInv, NEW t \in Tabs, NEW e \in Emails, issued' = [issued EXCEPT ![e] = @ + 1]
    PROVE  ListOK(login(page[t].accounts, <<e, issued[e] + 1>>), issued')
  <1> DEFINE tok == <<e, issued[e] + 1>>
  <1>1. IssuedTo(tok, issued') /\ EmailOf(tok) = e
    BY DEF IInv, ServerOK, IssuedTo, Pairs, EmailOf
  <1>2. ListOK(removed(page[t].accounts, e), issued')
    BY ListTyped, RemovedOK, IssuingKeeps DEF IInv
  <1>3. Account(tok, unread[e]) \in AccountType /\ Account(tok, unread[e]).token = tok
    BY <1>1 DEF Account, AccountType, IssuedTo, IInv, ServerOK
  <1> HIDE DEF tok
  <1>4. ListOK(login(page[t].accounts, tok), issued')
    BY <1>1, <1>2, <1>3 DEF login, ListOK
  <1> QED
    BY <1>4 DEF tok

LEMMA SubmitStep ==
    ASSUME IInv, NEW t \in Tabs, NEW e \in Emails, submit(t, e)
    PROVE  IInv'
  <1> DEFINE tok == <<e, issued[e] + 1>>
             list == login(page[t].accounts, tok)
  <1>1. /\ issued' = [issued EXCEPT ![e] = @ + 1]
        /\ live' = live \cup {tok}
        /\ page' = [page EXCEPT ![t].accounts = list]
        /\ stored' = Held(list)
        /\ UNCHANGED <<unread, sync, logout>>
    BY DEF submit, Show, persist
  <1>2. ListOK(list, issued')
    BY <1>1, LoginOK
  <1>3. IssuedTo(tok, issued')
    BY <1>1 DEF IInv, ServerOK, IssuedTo, Pairs
  <1>4. ~IssuedTo(tok, issued)
    BY DEF IInv, ServerOK, IssuedTo
  <1> HIDE DEF tok, list
  <1>5. ServerOK'
    BY <1>1, <1>3, IssuingKeeps DEF IInv, ServerOK
  <1>6. StoredOK'
    BY <1>1, <1>2, HeldOK DEF StoredOK
  <1>7. PagesOK'
    <2>1. \A u \in Tabs : page'[u] = IF u = t THEN [page[t] EXCEPT !.accounts = list] ELSE page[u]
      BY <1>1 DEF IInv, PagesOK
    <2>2. \A u \in Tabs : page'[u] \in PageType /\ ListOK(page'[u].accounts, issued')
      BY <1>1, <1>2, <2>1, IssuingKeeps DEF IInv, PagesOK, PageOK, PageType, ListOK
    <2>3. page' \in [Tabs -> PageType]
      BY <1>1, <2>2 DEF IInv, PagesOK
    <2> QED
      BY <2>2, <2>3 DEF PagesOK, PageOK
  <1>8. SyncsOK'
    <2>1. \A ans : AnswerOK(ans, issued, live) => AnswerOK(ans, issued', live')
      BY <1>1, <1>4, IssuingKeeps DEF AnswerOK
    <2> QED
      BY <1>1, <2>1, IssuingKeeps DEF IInv, SyncsOK, SyncOK
  <1> QED
    BY <1>1, <1>5, <1>6, <1>7, <1>8 DEF IInv, LogoutOK

LEMMA SignOutStep ==
    ASSUME IInv, NEW t \in Tabs, NEW e \in Emails, signOut(t, e)
    PROVE  IInv'
  <1>1. accountByEmail(page[t].accounts, e) \in Held(page[t].accounts)
    BY DEF signOut, Addresses, accountByEmail
  <1>2. Held(page[t].accounts) \subseteq Pairs
    BY HeldOK, ListTyped DEF IInv
  <1>3. LogoutOK'
    BY <1>1, <1>2 DEF signOut, IInv, LogoutOK
  <1> QED
    BY <1>3, ServerKept, StoredKept, PagesKept, SyncsKept DEF IInv, signOut, server

\* A token that goes at the server leaves every refusal true.
LEMMA DropStep ==
    ASSUME IInv, live' \subseteq live, UNCHANGED <<unread, issued, stored, page, sync, logout>>
    PROVE  IInv'
  <1>1. SyncsOK'
    BY DEF IInv, SyncsOK, SyncOK, AnswerOK
  <1> QED
    BY <1>1, PagesKept, StoredKept DEF IInv, ServerOK, LogoutOK

LEMMA LogoutHeardStep ==
    ASSUME IInv, NEW t \in Tabs, LogoutHeard(t)
    PROVE  IInv'
  <1> DEFINE list == removed(page[t].accounts, EmailOf(logout[t]))
  <1>1. ListOK(list, issued)
    BY ListTyped, RemovedOK DEF IInv
  <1>2. /\ page' = [page EXCEPT ![t].accounts = list]
        /\ stored' = Held(list)
        /\ logout' = [logout EXCEPT ![t] = None]
        /\ UNCHANGED <<server, sync>>
    BY DEF LogoutHeard, Show, persist
  <1> HIDE DEF list
  <1>3. PagesOK' /\ StoredOK'
    BY <1>1, <1>2, ListStep, HeldOK DEF IInv, StoredOK, server
  <1>4. LogoutOK'
    BY <1>2 DEF IInv, LogoutOK
  <1> QED
    BY <1>2, <1>3, <1>4, ServerKept, SyncsKept DEF IInv, server

LEMMA PushStep ==
    ASSUME IInv, NEW e \in Emails, Push(e)
    PROVE  IInv'
  <1>1. PICK pick \in [Tabs -> Syncs] : sync' = [t \in Tabs |-> onSwMessage(t, pick[t])]
    BY DEF Push
  <1>2. UNCHANGED <<server, stored, page, logout>>
    BY DEF Push
  <1>3. ASSUME NEW t \in Tabs
        PROVE  /\ sync'[t] \in [Syncs -> SyncType]
               /\ \A s \in Syncs : SyncOK(sync'[t][s], issued, live)
    <2> DEFINE sy == Asking(page[t].accounts, TRUE)
    <2>1. SyncOK(sy, issued, live)
      BY AskingOK, ListTyped DEF IInv
    <2> HIDE DEF sy
    <2>2. sync'[t] = sync[t] \/ sync'[t] = [sync[t] EXCEPT ![pick[t]] = sy]
      BY <1>1 DEF onSwMessage, sy
    <2> QED
      BY <2>1, <2>2 DEF IInv, SyncsOK, SyncOK
  <1>4. SyncsOK'
    BY <1>1, <1>2, <1>3 DEF SyncsOK, server
  <1> QED
    BY <1>2, <1>4, ServerKept, StoredKept, PagesKept DEF IInv, LogoutOK, server

LEMMA NextStep == IInv /\ [Next]_vars => IInv'
  <1> SUFFICES ASSUME IInv, [Next]_vars PROVE IInv'
    OBVIOUS
  <1>1. ASSUME NEW t \in Tabs, NEW s \in Syncs, Tick(t, s) \/ onVisible(t, s) \/ AfterAction(t, s)
        PROVE  IInv'
    BY <1>1, RefreshStep, VisibleStep DEF Tick, AfterAction
  <1>2. ASSUME NEW t \in Tabs, NEW s \in Syncs, Sync(t, s)
        PROVE  IInv'
    <2>1. CASE HearLast(t, s)
      <3>1. PICK list : Settle(t, s, list) /\ ListOK(list, issued)
        BY <2>1, HearLastList
      <3>2. UNCHANGED <<server, logout>>
        BY <2>1 DEF HearLast
      <3> QED
        BY <3>1, <3>2, SettleStep
    <2> QED
      BY <1>2, <2>1, AnswerStep, FailsStep, HearStep DEF Sync
  <1>3. ASSUME NEW t \in Tabs, Launch(t) \/ Close(t) \/ Hide(t) \/ LogoutHeard(t)
        PROVE  IInv'
    BY <1>3, LaunchStep, CloseStep, VisibleStep, LogoutHeardStep
  <1>4. ASSUME NEW t \in Tabs, LogoutServed(t)
        PROVE  IInv'
    BY <1>4, DropStep DEF LogoutServed
  <1>5. ASSUME NEW t \in Tabs, NEW e \in Emails, submit(t, e) \/ signOut(t, e)
        PROVE  IInv'
    BY <1>5, SubmitStep, SignOutStep
  <1>6. ASSUME NEW e \in Emails, NEW n \in Counts[e], Unread(e, n)
        PROVE  IInv'
    <2>1. n \in Nat
      BY SessionAssumption
    <2>2. ServerOK'
      BY <1>6, <2>1 DEF Unread, IInv, ServerOK
    <2> QED
      BY <1>6, <2>2, StoredKept, PagesKept, SyncsKept DEF Unread, IInv, LogoutOK
  <1>7. ASSUME NEW tok, Revoke(tok)
        PROVE  IInv'
    BY <1>7, DropStep DEF Revoke
  <1>8. CASE UNCHANGED vars
    BY <1>8, ServerKept, StoredKept, PagesKept, SyncsKept DEF vars, IInv, LogoutOK, server
  <1> QED
    BY <1>1, <1>2, <1>3, <1>4, <1>5, <1>6, <1>7, <1>8, PushStep DEF Next

LEMMA IInvAlways == Spec => []IInv
  BY InitOK, NextStep, PTL DEF Spec

-----------------------------------------------------------------------------
(* One window: what the next launch reads *)

Alone == \A t, u \in Tabs : t = u
LaunchInv == Alone => \A t \in Tabs : page[t].open => stored = Held(page[t].accounts)

LEMMA LaunchKept == LaunchInv /\ UNCHANGED <<page, stored>> => LaunchInv'
  BY DEF LaunchInv, Alone

\* A step after which the list of a window is what is stored.
LEMMA StoredNow ==
    ASSUME NEW t \in Tabs, page'[t].open => stored' = Held(page'[t].accounts)
    PROVE  LaunchInv'
  BY DEF LaunchInv, Alone

\* A step that shows a list and stores it.
LEMMA ShownAndStored ==
    ASSUME PagesOK, NEW t \in Tabs, NEW list, Show(t, list), persist(list)
    PROVE  LaunchInv'
  <1>1. page'[t].accounts = list
    BY DEF PagesOK, PageType, Show
  <1> QED
    BY <1>1, StoredNow DEF persist

LEMMA LaunchTurned ==
    ASSUME IInv, LaunchInv, NEW t \in Tabs, Hide(t) \/ \E s \in Syncs : onVisible(t, s)
    PROVE  LaunchInv'
  BY VisibleStep DEF LaunchInv, Alone

LEMMA LaunchNext == IInv /\ LaunchInv /\ [Next]_vars => LaunchInv'
  <1> SUFFICES ASSUME IInv, LaunchInv, [Next]_vars PROVE LaunchInv'
    OBVIOUS
  <1>1. ASSUME NEW t \in Tabs, NEW s \in Syncs, Tick(t, s) \/ onVisible(t, s) \/ AfterAction(t, s)
        PROVE  LaunchInv'
    <2>1. CASE onVisible(t, s)
      BY <2>1, LaunchTurned
    <2> QED
      BY <1>1, <2>1, LaunchKept DEF Tick, AfterAction, refreshUnread
  <1>2. ASSUME NEW t \in Tabs, NEW s \in Syncs, HearLast(t, s)
        PROVE  LaunchInv'
    <2>1. PICK list : Settle(t, s, list) /\ ListOK(list, issued)
      BY <1>2, HearLastList
    <2>2. UNCHANGED <<server, logout>>
      BY <1>2 DEF HearLast
    <2> QED
      BY <2>1, <2>2, SettleStep, StoredNow
  <1>3. ASSUME NEW t \in Tabs, NEW s \in Syncs, NEW ans \in sync[t][s].answers, Hear(t, s, ans)
        PROVE  LaunchInv'
    <2> DEFINE list == heard(page[t].accounts, ans)
    <2>1. ans \in AnswerType
      BY <1>3 DEF IInv, SyncsOK, SyncOK, AnswerOK
    <2>2. CASE ans.kind = "refused"
      BY <1>3, <2>2, ShownAndStored DEF Hear, IInv
    <2>3. CASE ans.kind # "refused"
      <3>1. Held(list) = Held(page[t].accounts)
        BY <2>1, <2>3, HeardOK, ListTyped DEF IInv
      <3>2. page' = [page EXCEPT ![t].accounts = list] /\ stored' = stored
        BY <1>3, <2>3 DEF Hear, Show
      <3> HIDE DEF list
      <3>3. page'[t].accounts = list /\ page'[t].open = page[t].open
        BY <3>2 DEF IInv, PagesOK, PageType
      <3>4. \A u \in Tabs : u # t => page'[u] = page[u]
        BY <3>2 DEF IInv, PagesOK
      <3> QED
        BY <3>1, <3>2, <3>3, <3>4 DEF LaunchInv, Alone
    <2> QED
      BY <2>2, <2>3
  <1>4. ASSUME NEW t \in Tabs, Launch(t)
        PROVE  LaunchInv'
    BY <1>4, LaunchStep, StoredNow
  <1>5. ASSUME NEW t \in Tabs, Close(t)
        PROVE  LaunchInv'
    BY <1>5, CloseStep, StoredNow
  <1>6. ASSUME NEW t \in Tabs, NEW e \in Emails, submit(t, e)
        PROVE  LaunchInv'
    BY <1>6, ShownAndStored DEF submit, IInv
  <1>7. ASSUME NEW t \in Tabs, LogoutHeard(t)
        PROVE  LaunchInv'
    BY <1>7, ShownAndStored DEF LogoutHeard, IInv
  <1>8. ASSUME NEW t \in Tabs, NEW s \in Syncs, NEW tok, Answer(t, s, tok) \/ Fails(t, s, tok)
        PROVE  LaunchInv'
    BY <1>8, LaunchKept DEF Answer, Fails
  <1>9. ASSUME NEW t \in Tabs, Hide(t) \/ LogoutServed(t) \/ \E e \in Emails : signOut(t, e)
        PROVE  LaunchInv'
    BY <1>9, LaunchTurned, LaunchKept DEF LogoutServed, signOut
  <1>10. ASSUME NEW e \in Emails, Push(e) \/ \E n \in Counts[e] : Unread(e, n)
         PROVE  LaunchInv'
    BY <1>10, LaunchKept DEF Push, Unread
  <1>11. ASSUME NEW tok, Revoke(tok)
         PROVE  LaunchInv'
    BY <1>11, LaunchKept DEF Revoke
  <1>12. CASE UNCHANGED vars
    BY <1>12, LaunchKept DEF vars
  <1> QED
    BY <1>1, <1>2, <1>3, <1>4, <1>5, <1>6, <1>7, <1>8, <1>9, <1>10, <1>11, <1>12 DEF Next, Sync

\* In a portal of one window, the list in localStorage is at every moment the
\* one on the screen, whatever calls are answered late, refused or lost: closing
\* the window brings back no account that was signed out, and loses none.
THEOREM NextLaunchIsRight == Spec => []NextLaunchAgrees
  <1>1. Init => LaunchInv
    BY DEF Init, LaunchInv, Closed
  <1>2. LaunchInv => NextLaunchAgrees
    <2> SUFFICES ASSUME LaunchInv, Cardinality(Tabs) = 1
                 PROVE  \A t \in Tabs : page[t].open => stored = Held(page[t].accounts)
      BY DEF NextLaunchAgrees
    <2>1. \E x : Tabs = {x}
      BY FS_Singleton, SessionAssumption
    <2> QED
      BY <2>1 DEF LaunchInv, Alone
  <1> QED
    BY <1>1, <1>2, LaunchNext, IInvAlways, PTL DEF Spec

-----------------------------------------------------------------------------
(* Why an account may leave a list *)

Excused(t, tok) ==
    \/ logout[t] # None /\ logout'[t] = None /\ EmailOf(logout[t]) = EmailOf(tok)
    \/ issued'[EmailOf(tok)] # issued[EmailOf(tok)]
    \/ \E s \in Syncs : \E ans \in sync[t][s].answers :
          ans.kind = "refused" /\ EmailOf(ans.token) = EmailOf(tok) /\ ans.token \notin live

Vanishing(t) ==
    page[t].open /\ page'[t].open =>
        \A tok \in Held(page[t].accounts) \ Held(page'[t].accounts) : Excused(t, tok)

LEMMA Stays == ASSUME NEW t, page'[t] = page[t] PROVE Vanishing(t)
  BY DEF Vanishing

\* What the list loses to an answer.
LEMMA HeardLoses ==
    ASSUME IInv, NEW t \in Tabs, NEW s \in Syncs, NEW ans \in sync[t][s].answers,
           page'[t].accounts = heard(page[t].accounts, ans)
    PROVE  Vanishing(t)
  <1>1. AnswerOK(ans, issued, live)
    BY DEF IInv, SyncsOK, SyncOK
  <1>2. CASE ans.kind = "refused"
    <2>1. page'[t].accounts = removed(page[t].accounts, EmailOf(ans.token))
      BY <1>2 DEF heard
    <2>2. \A tok \in Held(page[t].accounts) \ Held(page'[t].accounts) : EmailOf(tok) = EmailOf(ans.token)
      BY <2>1, RemovedHeld
    <2> QED
      BY <1>1, <1>2, <2>2 DEF Vanishing, Excused, AnswerOK
  <1>3. CASE ans.kind # "refused"
    <2>1. Held(heard(page[t].accounts, ans)) = Held(page[t].accounts)
      BY <1>1, <1>3, HeardOK, ListTyped DEF IInv, AnswerOK
    <2> QED
      BY <2>1 DEF Vanishing
  <1> QED
    BY <1>2, <1>3

\* A step that changes the list of one window.
LEMMA ShowsIn ==
    ASSUME PagesOK, NEW t \in Tabs, NEW list, Show(t, list)
    PROVE  page'[t].accounts = list /\ \A u \in Tabs \ {t} : page'[u] = page[u]
  BY DEF PagesOK, PageType, Show

LEMMA SubmitLoses ==
    ASSUME IInv, NEW t \in Tabs, NEW e \in Emails, submit(t, e), NEW u \in Tabs
    PROVE  Vanishing(u)
  <1> DEFINE tok == <<e, issued[e] + 1>>
             list == login(page[t].accounts, tok)
  <1>1. page'[t].accounts = list /\ \A v \in Tabs \ {t} : page'[v] = page[v]
    BY ShowsIn DEF submit, IInv
  <1>2. issued'[e] # issued[e]
    BY DEF submit, IInv, ServerOK
  <1>3. EmailOf(tok) = e
    BY DEF EmailOf
  <1> HIDE DEF tok
  <1>4. \A x \in Held(page[t].accounts) \ Held(list) : EmailOf(x) = e
    BY <1>3, RemovedHeld DEF login, Held
  <1> HIDE DEF list
  <1>5. Vanishing(t)
    BY <1>1, <1>2, <1>4 DEF Vanishing, Excused
  <1> QED
    BY <1>1, <1>5, Stays

LEMMA LogoutLoses ==
    ASSUME IInv, NEW t \in Tabs, LogoutHeard(t), NEW u \in Tabs
    PROVE  Vanishing(u)
  <1> DEFINE list == removed(page[t].accounts, EmailOf(logout[t]))
  <1>1. page'[t].accounts = list /\ \A v \in Tabs \ {t} : page'[v] = page[v]
    BY ShowsIn DEF LogoutHeard, IInv
  <1>2. logout[t] # None /\ logout'[t] = None
    BY DEF LogoutHeard, IInv, LogoutOK
  <1>3. \A x \in Held(page[t].accounts) \ Held(list) : EmailOf(x) = EmailOf(logout[t])
    BY RemovedHeld
  <1> HIDE DEF list
  <1>4. Vanishing(t)
    BY <1>1, <1>2, <1>3 DEF Vanishing, Excused
  <1> QED
    BY <1>1, <1>4, Stays

LEMMA NextLosesRightly ==
    ASSUME IInv, [Next]_vars, NEW u \in Tabs
    PROVE  Vanishing(u)
  <1>1. ASSUME NEW t \in Tabs, NEW s \in Syncs, Tick(t, s) \/ onVisible(t, s) \/ AfterAction(t, s)
        PROVE  Vanishing(u)
    <2>1. CASE onVisible(t, s)
      BY <2>1, VisibleStep DEF Vanishing
    <2> QED
      BY <1>1, <2>1, Stays DEF Tick, AfterAction, refreshUnread
  <1>2. ASSUME NEW t \in Tabs, NEW s \in Syncs, HearLast(t, s)
        PROVE  Vanishing(u)
    <2>1. PICK list : /\ Settle(t, s, list)
                      /\ ListOK(list, issued)
                      /\ \/ list = page[t].accounts
                         \/ \E ans \in sync[t][s].answers : list = heard(page[t].accounts, ans)
      BY <1>2, HearLastList
    <2>2. UNCHANGED <<server, logout>>
      BY <1>2 DEF HearLast
    <2>3. page'[t].accounts = list /\ \A v \in Tabs \ {t} : page'[v] = page[v]
      BY <2>1, <2>2, SettleStep
    <2>4. Vanishing(t)
      <3>1. CASE list = page[t].accounts
        BY <2>3, <3>1 DEF Vanishing
      <3>2. CASE \E ans \in sync[t][s].answers : list = heard(page[t].accounts, ans)
        BY <2>3, <3>2, HeardLoses
      <3> QED
        BY <2>1, <3>1, <3>2
    <2> QED
      BY <2>3, <2>4, Stays
  <1>3. ASSUME NEW t \in Tabs, NEW s \in Syncs, NEW ans \in sync[t][s].answers, Hear(t, s, ans)
        PROVE  Vanishing(u)
    <2>1. /\ page'[t].accounts = heard(page[t].accounts, ans)
          /\ \A v \in Tabs \ {t} : page'[v] = page[v]
      BY <1>3, ShowsIn DEF Hear, IInv
    <2> QED
      BY <2>1, HeardLoses, Stays
  <1>4. ASSUME NEW t \in Tabs, NEW s \in Syncs, NEW tok, Answer(t, s, tok) \/ Fails(t, s, tok)
        PROVE  Vanishing(u)
    BY <1>4, Stays DEF Answer, Fails
  <1>5. ASSUME NEW t \in Tabs, Launch(t)
        PROVE  Vanishing(u)
    <2>1. ~page[t].open /\ \A v \in Tabs \ {t} : page'[v] = page[v]
      BY <1>5, LaunchStep DEF Launch
    <2> QED
      BY <2>1, Stays DEF Vanishing
  <1>6. ASSUME NEW t \in Tabs, Close(t)
        PROVE  Vanishing(u)
    <2>1. ~page'[t].open /\ \A v \in Tabs \ {t} : page'[v] = page[v]
      BY <1>6, CloseStep
    <2> QED
      BY <2>1, Stays DEF Vanishing
  <1>7. ASSUME NEW t \in Tabs, Hide(t) \/ LogoutServed(t) \/ \E e \in Emails : signOut(t, e)
        PROVE  Vanishing(u)
    <2>1. CASE Hide(t)
      BY <2>1, VisibleStep DEF Vanishing
    <2> QED
      BY <1>7, <2>1, Stays DEF LogoutServed, signOut
  <1>8. ASSUME NEW e \in Emails, Push(e) \/ \E n \in Counts[e] : Unread(e, n)
        PROVE  Vanishing(u)
    BY <1>8, Stays DEF Push, Unread
  <1>9. ASSUME NEW tok, Revoke(tok)
        PROVE  Vanishing(u)
    BY <1>9, Stays DEF Revoke
  <1>10. CASE UNCHANGED vars
    BY <1>10, Stays DEF vars
  <1> QED
    BY <1>1, <1>2, <1>3, <1>4, <1>5, <1>6, <1>7, <1>8, <1>9, <1>10, SubmitLoses, LogoutLoses DEF Next, Sync

\* An account leaves an open window's list only when its user signs that address
\* out or in again, or when the server refused a token of that address which it
\* had really dropped; no lost, late or failed call and no other address does it.
THEOREM NothingVanishesWrongly == Spec => VanishRightly
  <1>1. IInv /\ [Next]_vars => [\A t \in Tabs : Vanishing(t)]_vars
    BY NextLosesRightly
  <1> QED
    BY <1>1, IInvAlways, PTL DEF Spec, VanishRightly, Vanishing, Excused

-----------------------------------------------------------------------------
(* Accounts: the types, and the badge *)

OneEach(list) == \A a, b \in list : EmailOf(a.token) = EmailOf(b.token) => a = b
ListFine(list) == list \subseteq AccountObjects /\ OneEach(list)
AnswerFine(ans) ==
    /\ ans.token \in Tokens /\ ans.unread \in AnyCount \cup {0}
    /\ ans.kind = "ok" => ans.unread \in Counts[EmailOf(ans.token)]
SyncFine(sy) == sy.asked \subseteq Tokens /\ \A ans \in sy.answers : AnswerFine(ans)

(***************************************************************************)
(* Beyond IInv: no token is numbered above its bound, a list has one       *)
(* account of an address, and so has localStorage, from which the next     *)
(* launch takes its list; counts are counts of their mailbox, answers      *)
(* included.  A finite list of numbers has a number as its total.          *)
(***************************************************************************)
ServerFine ==
    /\ \A e \in Emails : unread[e] \in Counts[e] /\ issued[e] <= MaxLogins[e]
    /\ live \subseteq Tokens
StoredFine == stored \subseteq Tokens /\ \A x, y \in stored : EmailOf(x) = EmailOf(y) => x = y
PagesFine == \A t \in Tabs : ListFine(page[t].accounts)
SyncsFine == \A t \in Tabs, s \in Syncs : SyncFine(sync[t][s])
FineInv == ServerFine /\ StoredFine /\ PagesFine /\ SyncsFine /\ badge \in Nat

LEMMA TokenIs ==
    ASSUME NEW tok
    PROVE  tok \in Tokens <=> tok \in Pairs /\ 1 <= tok[2] /\ tok[2] <= MaxLogins[tok[1]]
  <1>1. \A e \in Emails : MaxLogins[e] \in Nat
    BY SessionAssumption
  <1>2. ASSUME tok \in Tokens
        PROVE  tok \in Pairs /\ 1 <= tok[2] /\ tok[2] <= MaxLogins[tok[1]]
    <2>1. PICK e \in Emails : tok \in {e} \X (1..MaxLogins[e])
      BY <1>2 DEF Tokens
    <2> QED
      BY <1>1, <2>1 DEF Pairs
  <1>3. ASSUME tok \in Pairs, 1 <= tok[2], tok[2] <= MaxLogins[tok[1]]
        PROVE  tok \in Tokens
    <2>1. tok[1] \in Emails /\ tok[2] \in 1..MaxLogins[tok[1]] /\ tok = <<tok[1], tok[2]>>
      BY <1>1, <1>3 DEF Pairs
    <2>2. tok \in {tok[1]} \X (1..MaxLogins[tok[1]])
      BY <2>1
    <2> QED
      BY <2>1, <2>2 DEF Tokens
  <1> QED
    BY <1>2, <1>3

LEMMA AccountIs ==
    ASSUME NEW a
    PROVE  a \in AccountObjects <=>
              \E tok \in Tokens : \E n \in Counts[EmailOf(tok)] : a = [token |-> tok, unread |-> n]
  BY DEF AccountObjects

LEMMA AccountHas ==
    ASSUME NEW a \in AccountObjects
    PROVE  /\ a.token \in Tokens /\ a.unread \in Nat /\ EmailOf(a.token) \in Emails
           /\ a.unread \in Counts[EmailOf(a.token)]
  <1>1. PICK tok \in Tokens : \E n \in Counts[EmailOf(tok)] : a = [token |-> tok, unread |-> n]
    BY AccountIs
  <1>2. EmailOf(tok) \in Emails
    BY TokenIs DEF Pairs, EmailOf
  <1> QED
    BY <1>1, <1>2, SessionAssumption

\* One account of an address, and there are finitely many of them.
LEMMA ListFinite ==
    ASSUME NEW list, ListFine(list)
    PROVE  IsFiniteSet(list)
  <1> DEFINE f == [a \in list |-> EmailOf(a.token)]
  <1>1. f \in [list -> Emails]
    BY AccountHas DEF ListFine
  <1>2. \A a, b \in list : f[a] = f[b] => a = b
    BY DEF ListFine, OneEach
  <1> HIDE DEF f
  <1>3. f \in Injection(list, Emails)
    BY <1>1, <1>2 DEF Injection, IsInjective
  <1> QED
    BY <1>3, FS_Injection, SessionAssumption

\* The sum of a list's counts, however the fold goes through it.
LEMMA TotalIsNumber ==
    ASSUME NEW list, ListFine(list)
    PROVE  totalUnread(list) \in Nat
  <1> DEFINE w == [a \in list |-> a.unread]
  <1>1. w \in [list -> Nat] /\ \A a \in list : w[a] = a.unread
    BY AccountHas DEF ListFine
  <1> HIDE DEF w
  <1>2. IsFiniteSet(list)
    BY ListFinite
  <1>3. totalUnread(list) = Cardinality(Cells(w, list))
    BY ONLY <1>1, <1>2, TotalIs
  <1>4. Cardinality(Cells(w, list)) \in Nat
    BY ONLY <1>1, <1>2, CellsFinite
  <1> QED
    BY <1>3, <1>4

LEMMA HeldFine ==
    ASSUME NEW list, ListFine(list)
    PROVE  Held(list) \subseteq Tokens /\ \A x, y \in Held(list) : EmailOf(x) = EmailOf(y) => x = y
  BY AccountHas DEF ListFine, OneEach, Held

LEMMA RemovedFine ==
    ASSUME NEW list, NEW e, ListFine(list)
    PROVE  ListFine(removed(list, e)) /\ \A a \in removed(list, e) : EmailOf(a.token) # e
  BY DEF ListFine, OneEach, removed

LEMMA CountedFine ==
    ASSUME NEW list, NEW tok \in Tokens, NEW n \in Counts[EmailOf(tok)], ListFine(list)
    PROVE  ListFine(Counted(list, tok, n))
  <1> DEFINE c(a) == IF a.token = tok THEN Account(tok, n) ELSE a
  <1>1. \A a \in list : c(a) \in AccountObjects /\ c(a).token = a.token
    BY AccountIs DEF ListFine, Account
  <1>2. Counted(list, tok, n) = {c(a) : a \in list}
    BY DEF Counted
  <1> HIDE DEF c
  <1>3. OneEach({c(a) : a \in list})
    BY <1>1 DEF ListFine, OneEach
  <1> QED
    BY <1>1, <1>2, <1>3 DEF ListFine

LEMMA HeardFine ==
    ASSUME NEW list, NEW ans, AnswerFine(ans), ListFine(list)
    PROVE  ListFine(heard(list, ans))
  BY CountedFine, RemovedFine DEF heard, AnswerFine

LEMMA LoginFine ==
    ASSUME NEW list, NEW tok \in Tokens, unread[EmailOf(tok)] \in Counts[EmailOf(tok)], ListFine(list)
    PROVE  ListFine(login(list, tok))
  <1> DEFINE a == Account(tok, unread[EmailOf(tok)])
  <1>1. a \in AccountObjects /\ a.token = tok
    BY AccountIs DEF Account
  <1>2. login(list, tok) = removed(list, EmailOf(tok)) \cup {a}
    BY DEF login
  <1> HIDE DEF a
  <1> QED
    BY <1>1, <1>2, RemovedFine DEF ListFine, OneEach

-----------------------------------------------------------------------------

LEMMA FineInit == Init => FineInv
  <1> SUFFICES ASSUME Init PROVE FineInv
    OBVIOUS
  <1>1. ServerFine /\ StoredFine /\ badge \in Nat
    BY SessionAssumption DEF Init, ServerFine, StoredFine
  <1>2. PagesFine
    BY DEF Init, PagesFine, ListFine, OneEach, Closed
  <1>3. SyncsFine
    BY DEF Init, SyncsFine, SyncFine, NoSync
  <1> QED
    BY <1>1, <1>2, <1>3 DEF FineInv

LEMMA PersistFine ==
    ASSUME NEW list, ListFine(list), stored' = Held(list)
    PROVE  StoredFine'
  BY HeldFine DEF StoredFine

\* A step that shows a list in one window.
LEMMA ShowFine ==
    ASSUME IInv, FineInv, NEW t \in Tabs, NEW list, ListFine(list), Show(t, list)
    PROVE  PagesFine' /\ badge' \in Nat
  <1>1. page'[t].accounts = list /\ \A u \in Tabs \ {t} : page'[u] = page[u]
    BY ShowsIn DEF IInv
  <1>2. PagesFine'
    BY <1>1 DEF FineInv, PagesFine
  <1>3. badge' \in Nat
    BY TotalIsNumber DEF Show, FineInv
  <1> QED
    BY <1>2, <1>3

\* A step that changes one refresh.
LEMMA SyncStepFine ==
    ASSUME IInv, FineInv, NEW t \in Tabs, NEW s \in Syncs, NEW sy, SyncFine(sy), sync' = [sync EXCEPT ![t][s] = sy]
    PROVE  SyncsFine'
  <1>1. \A u \in Tabs, r \in Syncs : sync'[u][r] = IF u = t /\ r = s THEN sy ELSE sync[u][r]
    BY DEF IInv, SyncsOK
  <1> QED
    BY <1>1 DEF FineInv, SyncsFine

LEMMA AskingFine ==
    ASSUME NEW list, NEW b, ListFine(list)
    PROVE  SyncFine(Asking(list, b))
  BY HeldFine DEF SyncFine, Asking

LEMMA NoSyncFine == SyncFine(NoSync)
  BY DEF SyncFine, NoSync

LEMMA FineServer == ServerFine /\ UNCHANGED server => ServerFine'
  BY DEF ServerFine, server

LEMMA FineStored == StoredFine /\ UNCHANGED stored => StoredFine'
  BY DEF StoredFine

LEMMA FinePages == PagesFine /\ UNCHANGED page => PagesFine'
  BY DEF PagesFine

LEMMA FineSyncs == SyncsFine /\ UNCHANGED sync => SyncsFine'
  BY DEF SyncsFine

LEMMA RefreshFine ==
    ASSUME IInv, FineInv, NEW t \in Tabs, NEW s \in Syncs, NEW b, refreshUnread(t, s, b)
    PROVE  FineInv'
  <1>1. SyncFine(Asking(page[t].accounts, b))
    BY AskingFine DEF FineInv, PagesFine
  <1>2. SyncsFine'
    BY <1>1, SyncStepFine DEF refreshUnread, Ask
  <1> QED
    BY <1>2, FineServer, FineStored, FinePages DEF FineInv, refreshUnread

LEMMA VisibleFine ==
    ASSUME IInv, FineInv, NEW t \in Tabs, Hide(t) \/ \E s \in Syncs : onVisible(t, s)
    PROVE  FineInv'
  <1>1. PagesFine'
    BY VisibleStep DEF FineInv, PagesFine
  <1>2. SyncFine(Asking(page[t].accounts, TRUE))
    BY AskingFine DEF FineInv, PagesFine
  <1>3. SyncsFine'
    BY <1>2, SyncStepFine, FineSyncs DEF Hide, onVisible, Ask, FineInv
  <1>4. UNCHANGED <<server, stored, badge>>
    BY DEF Hide, onVisible
  <1> QED
    BY <1>1, <1>3, <1>4, FineServer, FineStored DEF FineInv

LEMMA FailsFine ==
    ASSUME IInv, FineInv, NEW t \in Tabs, NEW s \in Syncs, NEW tok, Fails(t, s, tok)
    PROVE  FineInv'
  <1> DEFINE sy == [sync[t][s] EXCEPT !.asked = @ \ {tok}]
  <1>1. SyncFine(sy)
    BY DEF FineInv, SyncsFine, SyncFine, IInv, SyncsOK, SyncType
  <1>2. sync' = [sync EXCEPT ![t][s] = sy]
    BY DEF Fails, IInv, SyncsOK, SyncType
  <1> HIDE DEF sy
  <1>3. SyncsFine'
    BY <1>1, <1>2, SyncStepFine
  <1> QED
    BY <1>3, FineServer, FineStored, FinePages DEF FineInv, Fails

LEMMA AnswersFine ==
    ASSUME IInv, FineInv, NEW t \in Tabs, NEW s \in Syncs, NEW tok, Answer(t, s, tok)
    PROVE  FineInv'
  <1> DEFINE ans == IF tok \in live
                    THEN [token |-> tok, kind |-> "ok", unread |-> unread[EmailOf(tok)]]
                    ELSE [token |-> tok, kind |-> "refused", unread |-> 0]
             old == sync[t][s]
             sy == [old EXCEPT !.asked = @ \ {tok}, !.answers = @ \cup {ans}]
  <1>1. SyncFine(old) /\ tok \in old.asked
    BY DEF FineInv, SyncsFine, Answer
  <1>2. tok \in Tokens /\ EmailOf(tok) \in Emails
    BY <1>1, TokenIs DEF SyncFine, Pairs, EmailOf
  <1>3. unread[EmailOf(tok)] \in Counts[EmailOf(tok)] /\ unread[EmailOf(tok)] \in AnyCount
    BY <1>2 DEF FineInv, ServerFine, AnyCount
  <1>4. AnswerFine(ans)
    BY <1>2, <1>3 DEF AnswerFine
  <1>5. old \in SyncType
    BY DEF IInv, SyncsOK
  <1>6. sync' = [sync EXCEPT ![t][s] = sy]
    <2>1. sync' = [sync EXCEPT ![t][s].asked = @ \ {tok}, ![t][s].answers = @ \cup {ans}]
      BY DEF Answer
    <2> HIDE DEF ans
    <2> QED
      BY <2>1 DEF IInv, SyncsOK, SyncType
  <1> HIDE DEF ans
  <1>7. SyncFine(sy)
    BY <1>1, <1>4, <1>5 DEF SyncFine, SyncType
  <1> HIDE DEF sy
  <1>8. SyncsFine'
    BY <1>6, <1>7, SyncStepFine
  <1> QED
    BY <1>8, FineServer, FineStored, FinePages DEF FineInv, Answer

LEMMA HearFine ==
    ASSUME IInv, FineInv, NEW t \in Tabs, NEW s \in Syncs, NEW ans \in sync[t][s].answers, Hear(t, s, ans)
    PROVE  FineInv'
  <1> DEFINE old == sync[t][s]
             sy == [old EXCEPT !.answers = @ \ {ans}]
             list == heard(page[t].accounts, ans)
  <1>1. SyncFine(old) /\ AnswerFine(ans) /\ old \in SyncType
    BY DEF FineInv, SyncsFine, SyncFine, IInv, SyncsOK
  <1>2. SyncFine(sy)
    BY <1>1 DEF SyncFine, SyncType
  <1>3. sync' = [sync EXCEPT ![t][s] = sy]
    BY DEF Hear, IInv, SyncsOK, SyncType
  <1>4. ListFine(list)
    BY <1>1, HeardFine DEF FineInv, PagesFine
  <1>5. Show(t, list) /\ (stored' = Held(list) \/ stored' = stored) /\ UNCHANGED <<server, logout>>
    BY DEF Hear, persist
  <1> HIDE DEF sy, list
  <1>6. SyncsFine'
    BY <1>2, <1>3, SyncStepFine
  <1>7. PagesFine' /\ badge' \in Nat
    BY <1>4, <1>5, ShowFine
  <1>8. StoredFine'
    BY <1>4, <1>5, PersistFine, FineStored DEF FineInv
  <1> QED
    BY <1>5, <1>6, <1>7, <1>8, FineServer DEF FineInv

LEMMA HearLastFine ==
    ASSUME IInv, FineInv, NEW t \in Tabs, NEW s \in Syncs, HearLast(t, s)
    PROVE  FineInv'
  <1>1. PICK list : /\ Settle(t, s, list) /\ ListOK(list, issued)
                    /\ \/ list = page[t].accounts
                       \/ \E ans \in sync[t][s].answers : list = heard(page[t].accounts, ans)
    BY HearLastList
  <1>2. UNCHANGED <<server, logout>>
    BY DEF HearLast
  <1>3. ListFine(list)
    BY <1>1, HeardFine DEF FineInv, PagesFine, SyncsFine, SyncFine
  <1>4. stored' = Held(list) /\ page'[t].accounts = list /\ \A u \in Tabs \ {t} : page'[u] = page[u]
    BY <1>1, <1>2, SettleStep
  <1>5. PagesFine'
    BY <1>3, <1>4 DEF FineInv, PagesFine
  <1>6. badge' \in Nat
    BY <1>1, <1>3, TotalIsNumber DEF Settle, Show, FineInv
  <1>7. SyncsFine'
    BY <1>1, NoSyncFine, SyncStepFine DEF Settle
  <1> QED
    BY <1>2, <1>3, <1>4, <1>5, <1>6, <1>7, PersistFine, FineServer DEF FineInv

\* What localStorage has makes one account of an address again.
LEMMA LaunchFine ==
    ASSUME IInv, FineInv, NEW t \in Tabs, Launch(t)
    PROVE  FineInv'
  <1>1. PICK list \in SUBSET {a \in AccountObjects : a.token \in stored} :
            /\ \A a, b \in list : a.token = b.token => a = b
            /\ page' = [page EXCEPT ![t] = [open |-> TRUE, visible |-> TRUE, accounts |-> list,
                                            loaded |-> FALSE, timer |-> list # {}]]
            /\ IF list = {} THEN UNCHANGED sync ELSE \E s \in Syncs : Ask(t, s, list, TRUE)
    BY DEF Launch
  <1>2. ListFine(list)
    BY <1>1 DEF FineInv, StoredFine, ListFine, OneEach
  <1>3. PagesFine'
    BY <1>1, <1>2 DEF FineInv, PagesFine, IInv, PagesOK
  <1>4. SyncsFine'
    <2>1. SyncFine(Asking(list, TRUE))
      BY <1>2, AskingFine
    <2> QED
      BY <1>1, <2>1, SyncStepFine, FineSyncs DEF Ask, FineInv
  <1> QED
    BY <1>3, <1>4, FineServer, FineStored DEF FineInv, Launch

LEMMA CloseFine ==
    ASSUME IInv, FineInv, NEW t \in Tabs, Close(t)
    PROVE  FineInv'
  <1>1. PagesFine'
    BY DEF Close, FineInv, PagesFine, ListFine, OneEach, Closed, IInv, PagesOK
  <1>2. \A u \in Tabs, s \in Syncs : sync'[u][s] = IF u = t THEN NoSync ELSE sync[u][s]
    BY DEF Close, IInv, SyncsOK
  <1>3. SyncsFine'
    BY <1>2, NoSyncFine DEF FineInv, SyncsFine
  <1> QED
    BY <1>1, <1>3, FineServer, FineStored DEF FineInv, Close

LEMMA SubmitFine ==
    ASSUME IInv, FineInv, NEW t \in Tabs, NEW e \in Emails, submit(t, e)
    PROVE  FineInv'
  <1> DEFINE tok == <<e, issued[e] + 1>>
             list == login(page[t].accounts, tok)
  <1>1. issued[e] \in Nat /\ MaxLogins[e] \in Nat /\ issued[e] < MaxLogins[e]
    BY SessionAssumption DEF IInv, ServerOK, submit
  <1>2. tok \in Tokens /\ EmailOf(tok) = e
    BY <1>1, TokenIs DEF Pairs, EmailOf
  <1>3. /\ Show(t, list) /\ stored' = Held(list)
        /\ issued' = [issued EXCEPT ![e] = @ + 1]
        /\ live' = live \cup {tok}
        /\ UNCHANGED <<unread, sync>>
    BY DEF submit, persist
  <1> HIDE DEF tok
  <1>4. ListFine(list)
    BY <1>2, LoginFine DEF FineInv, ServerFine, PagesFine
  <1>5. ServerFine'
    <2>1. \A d \in Emails : issued'[d] <= MaxLogins[d]
      BY <1>1, <1>3 DEF FineInv, ServerFine, IInv, ServerOK
    <2> QED
      BY <1>2, <1>3, <2>1 DEF FineInv, ServerFine
  <1> HIDE DEF list
  <1> QED
    BY <1>3, <1>4, <1>5, ShowFine, PersistFine, FineSyncs DEF FineInv

LEMMA LogoutHeardFine ==
    ASSUME IInv, FineInv, NEW t \in Tabs, LogoutHeard(t)
    PROVE  FineInv'
  <1> DEFINE list == removed(page[t].accounts, EmailOf(logout[t]))
  <1>1. ListFine(list)
    BY RemovedFine DEF FineInv, PagesFine
  <1>2. Show(t, list) /\ stored' = Held(list) /\ UNCHANGED <<server, sync>>
    BY DEF LogoutHeard, persist
  <1> HIDE DEF list
  <1> QED
    BY <1>1, <1>2, ShowFine, PersistFine, FineServer, FineSyncs DEF FineInv

LEMMA PushFine ==
    ASSUME IInv, FineInv, NEW e \in Emails, Push(e)
    PROVE  FineInv'
  <1>1. PICK pick \in [Tabs -> Syncs] : sync' = [t \in Tabs |-> onSwMessage(t, pick[t])]
    BY DEF Push
  <1>2. ASSUME NEW t \in Tabs, NEW s \in Syncs
        PROVE  SyncFine(sync'[t][s])
    <2> DEFINE sy == Asking(page[t].accounts, TRUE)
    <2>1. SyncFine(sy) /\ SyncFine(sync[t][s])
      BY AskingFine DEF FineInv, PagesFine, SyncsFine
    <2> HIDE DEF sy
    <2>2. sync'[t] = sync[t] \/ sync'[t] = [sync[t] EXCEPT ![pick[t]] = sy]
      BY <1>1 DEF onSwMessage, sy
    <2>3. sync[t] \in [Syncs -> SyncType]
      BY DEF IInv, SyncsOK
    <2> QED
      BY <2>1, <2>2, <2>3
  <1>3. SyncsFine'
    BY <1>2 DEF SyncsFine
  <1>4. badge' \in Nat
    BY DEF Push, IInv, ServerOK
  <1> QED
    BY <1>3, <1>4, FineServer, FineStored, FinePages DEF FineInv, Push

LEMMA FineNext == IInv /\ FineInv /\ [Next]_vars => FineInv'
  <1> SUFFICES ASSUME IInv, FineInv, [Next]_vars PROVE FineInv'
    OBVIOUS
  <1>1. ASSUME NEW t \in Tabs, NEW s \in Syncs, Tick(t, s) \/ onVisible(t, s) \/ AfterAction(t, s)
        PROVE  FineInv'
    BY <1>1, RefreshFine, VisibleFine DEF Tick, AfterAction
  <1>2. ASSUME NEW t \in Tabs, NEW s \in Syncs, Sync(t, s)
        PROVE  FineInv'
    BY <1>2, HearLastFine, AnswersFine, FailsFine, HearFine DEF Sync
  <1>3. ASSUME NEW t \in Tabs, Launch(t) \/ Close(t) \/ Hide(t) \/ LogoutHeard(t)
        PROVE  FineInv'
    BY <1>3, LaunchFine, CloseFine, VisibleFine, LogoutHeardFine
  <1>4. ASSUME live' \subseteq live, UNCHANGED <<unread, issued, badge, stored, page, sync>>
        PROVE  FineInv'
    BY <1>4, FineStored, FinePages, FineSyncs DEF FineInv, ServerFine
  <1>5. ASSUME NEW t \in Tabs, NEW e \in Emails, signOut(t, e)
        PROVE  FineInv'
    BY <1>5, FineServer, FineStored, FinePages, FineSyncs DEF FineInv, signOut
  <1>6. ASSUME NEW e \in Emails, NEW n \in Counts[e], Unread(e, n)
        PROVE  FineInv'
    <2>1. ServerFine'
      BY <1>6 DEF Unread, FineInv, ServerFine, IInv, ServerOK
    <2> QED
      BY <1>6, <2>1, FineStored, FinePages, FineSyncs DEF FineInv, Unread
  <1>7. CASE UNCHANGED vars
    BY <1>7, FineServer, FineStored, FinePages, FineSyncs DEF vars, FineInv
  <1> QED
    BY <1>1, <1>2, <1>3, <1>4, <1>5, <1>6, <1>7, SubmitFine, PushFine DEF Next, LogoutServed, Revoke

\* Every list of accounts has one of an address, however often an address is
\* signed in and its late answers heard, also the list a launch makes of what
\* localStorage has; the counts are counts, and so is the badge, which is
\* their sum.
THEOREM AccountsTypeCorrect == Spec => []TypeOK
  <1>1. IInv /\ FineInv => TypeOK
    BY DEF IInv, ServerOK, FineInv, ServerFine, StoredFine, PagesFine, ListFine, OneEach, SyncsFine, SyncFine,
           AnswerFine, TypeOK
  <1> QED
    BY <1>1, FineInit, FineNext, IInvAlways, PTL DEF Spec

-----------------------------------------------------------------------------
(* The compose form: numbers, sequences and weights *)

\* The least of some numbers is one of them, and none is less.
LEMMA MinOfNumbers ==
    ASSUME NEW S, S \subseteq Nat, S # {}
    PROVE  Min(S) \in S /\ \A n \in S : Min(S) <= n
  <1>1. PICK m \in S : \A n \in S : ~ (<<n, m>> \in OpToRel(<, Nat))
    BY WFMin, NatLessThanWellFounded
  <1>2. \A n \in S : m <= n
    <2>1. ASSUME NEW n \in S, n < m
          PROVE  FALSE
      <3>1. <<n, m>> \in Nat \X Nat /\ <<n, m>>[1] < <<n, m>>[2]
        BY <2>1
      <3>2. <<n, m>> \in OpToRel(<, Nat)
        BY ONLY <3>1 DEF OpToRel
      <3> QED
        BY <1>1, <3>2
    <2> QED
      BY <2>1
  <1> QED
    BY <1>2 DEF Min

\* So it is with the greatest of numbers up to a bound.
LEMMA MaxOfNumbers ==
    ASSUME NEW S, NEW b \in Nat, S \subseteq 0..b, S # {}
    PROVE  Max(S) \in S
  <1> DEFINE R == {b - n : n \in S}
  <1>1. R \subseteq Nat /\ R # {}
    <2>1. R \subseteq Nat
      OBVIOUS
    <2>2. PICK n \in S : TRUE
      OBVIOUS
    <2>3. b - n \in R
      OBVIOUS
    <2> QED
      BY <2>1, <2>3
  <1>2. Min(R) \in R /\ \A r \in R : Min(R) <= r
    <2> HIDE DEF R
    <2> QED
      BY ONLY <1>1, MinOfNumbers
  <1>3. PICK m \in S : Min(R) = b - m
    BY <1>2
  <1>4. \A n \in S : m >= n
    <2>1. ASSUME NEW n \in S
          PROVE  m >= n
      <3>1. Min(R) <= b - n
        BY <1>2
      <3>2. n \in Nat /\ m \in Nat
        OBVIOUS
      <3> QED
        BY <1>3, <3>1, <3>2
    <2> QED
      BY <2>1
  <1> QED
    BY <1>4 DEF Max

\* The addresses offered, in whatever order, are as many as there are.
LEMMA ListedOnce ==
    ASSUME NEW S, S \subseteq People
    PROVE  SetToSeq(S) \in Seq(People) /\ Len(SetToSeq(S)) <= Cardinality(People)
  <1>1. IsFiniteSet(S) /\ Cardinality(S) <= Cardinality(People) /\ Cardinality(S) \in Nat
    BY FS_Subset, FS_CardinalityType, ComposerAssumption
  <1>2. ExistsBijection(1..Cardinality(S), S)
    BY <1>1, FS_CardinalityType
  <1>3. \E f \in [1..Cardinality(S) -> S] : IsInjective(f)
    BY <1>2 DEF ExistsBijection, Bijection, Injection
  <1>4. SetToSeq(S) \in [1..Cardinality(S) -> S]
    BY <1>3 DEF SetToSeq
  <1>5. SetToSeq(S) \in Seq(S) /\ Len(SetToSeq(S)) = Cardinality(S)
    BY <1>1, <1>4
  <1>6. SetToSeq(S) \in Seq(People)
    BY ONLY <1>5, S \subseteq People, SeqMonotonic
  <1> QED
    BY <1>1, <1>5, <1>6

LEMMA OneLine == ASSUME NEW S, NEW x \in S PROVE <<x>> \in Seq(S)
  OBVIOUS

LEMMA TwoLines == ASSUME NEW S, NEW x \in S, NEW y \in S PROVE <<x, y>> \in Seq(S)
  OBVIOUS

\* A line less, or one more.
LEMMA EditedText ==
    ASSUME NEW lines \in Seq(Lines)
    PROVE  /\ <<"own">> \o lines \in Seq(Lines)
           /\ \A i \in DOMAIN lines : RemoveAt(lines, i) \in Seq(Lines)
  <1>1. <<"own">> \in Seq(Lines)
    BY OneLine, ComposerAssumption
  <1>2. <<"own">> \o lines \in Seq(Lines)
    BY <1>1, ConcatProperties
  <1>3. ASSUME NEW i \in DOMAIN lines
        PROVE  RemoveAt(lines, i) \in Seq(Lines)
    <2>1. i \in 1..Len(lines) /\ Len(lines) \in Nat /\ \A k \in 1..Len(lines) : lines[k] \in Lines
      BY LenProperties, ElementOfSeq
    <2>2. SubSeq(lines, 1, i - 1) \in Seq(Lines)
      BY <2>1, SubSeqProperties
    <2>3. SubSeq(lines, i + 1, Len(lines)) \in Seq(Lines)
      BY <2>1, SubSeqProperties
    <2> QED
      BY <2>2, <2>3, ConcatProperties DEF RemoveAt
  <1> QED
    BY <1>2, <1>3

\* Files weigh together what they weigh alone.
LEMMA WeightMore ==
    ASSUME NEW S, S \subseteq Files, IsFiniteSet(S), NEW f \in Files, f \notin S
    PROVE  Weight(S \cup {f}) = Weight(S) + Size[f]
  <1>1. Size \in [Files -> Nat] /\ S \cup {f} \subseteq Files /\ IsFiniteSet(S \cup {f})
    BY FS_AddElement, ComposerAssumption
  <1>2. Weight(S) = Cardinality(Cells(Size, S))
    BY ONLY <1>1, WeightIs, S \subseteq Files, IsFiniteSet(S)
  <1>3. Weight(S \cup {f}) = Cardinality(Cells(Size, S \cup {f}))
    BY ONLY <1>1, WeightIs
  <1>4. IsFiniteSet(Cells(Size, S))
    BY ONLY <1>1, CellsFinite, S \subseteq Files, IsFiniteSet(S)
  <1>5. Cardinality(Cells(Size, S \cup {f})) = Cardinality(Cells(Size, S)) + Size[f]
    BY ONLY <1>1, <1>4, CountMore, S \subseteq Files, f \in Files, f \notin S
  <1> QED
    BY ONLY <1>2, <1>3, <1>5

LEMMA WeightIsNumber == ASSUME NEW S, S \subseteq Files, IsFiniteSet(S) PROVE Weight(S) \in Nat
  <1>1. Size \in [Files -> Nat]
    BY ComposerAssumption
  <1>2. Weight(S) = Cardinality(Cells(Size, S)) /\ Cardinality(Cells(Size, S)) \in Nat
    BY ONLY <1>1, WeightIs, CellsFinite, S \subseteq Files, IsFiniteSet(S)
  <1> QED
    BY <1>2

LEMMA WeightLess ==
    ASSUME NEW S, S \subseteq Files, IsFiniteSet(S), NEW f \in S
    PROVE  Weight(S \ {f}) <= Weight(S)
  <1> DEFINE T == S \ {f}
  <1>1. T \subseteq Files /\ f \in Files /\ f \notin T /\ S = T \cup {f}
    OBVIOUS
  <1>2. IsFiniteSet(T)
    BY FS_RemoveElement
  <1> HIDE DEF T
  <1>3. Weight(S) = Weight(T) + Size[f]
    BY <1>1, <1>2, WeightMore
  <1>4. Weight(T) \in Nat
    BY <1>1, <1>2, WeightIsNumber
  <1>5. Size[f] \in Nat
    BY <1>1, ComposerAssumption
  <1> QED
    BY <1>3, <1>4, <1>5 DEF T

LEMMA WeightNone == Weight({}) = 0
  <1>1. Size \in [Files -> Nat] /\ IsFiniteSet({}) /\ {} \subseteq Files
    BY FS_EmptySet, ComposerAssumption
  <1>2. Weight({}) = Cardinality(Cells(Size, {}))
    BY ONLY <1>1, WeightIs
  <1> QED
    BY <1>2, NoCells, FS_EmptySet

-----------------------------------------------------------------------------
(* The compose form: the signature's card *)

LEMMA SignatureTyped == ASSUME NEW p \in Profiles PROVE sigText(p) \in Seq(Lines)
  <1>1. p.signature \in Seq(Lines)
    BY ComposerAssumption DEF Profiles
  <1>2. <<"name">> \in Seq(Lines)
    BY OneLine, ComposerAssumption
  <1> QED
    BY <1>1, <1>2 DEF sigText

\* Where a signature is found it stands, and above the quoted original.
LEMMA FoundAbove ==
    ASSUME NEW lines \in Seq(Lines), NEW sig \in Seq(Lines), NEW at, at = sigIndex(lines, sig), at # 0
    PROVE  /\ at \in 1..Len(lines) /\ at + Len(sig) <= Len(lines) + 1
           /\ SubSeq(lines, at, at + Len(sig) - 1) = sig
           /\ \A k \in 1..(at - 1) : lines[k] # Sep
  <1> DEFINE marks == {i \in 1..Len(lines) : lines[i] = Sep} \cup {Len(lines) + 1}
             limit == Min(marks)
             found == {i \in 1..Len(lines) : i + Len(sig) <= limit /\ IsAt(lines, sig, i)}
  <1>1. Len(lines) \in Nat /\ Len(sig) \in Nat
    BY LenProperties
  <1>2. limit \in marks /\ \A m \in marks : limit <= m
    <2>1. marks \subseteq Nat /\ marks # {}
      BY <1>1
    <2> HIDE DEF marks
    <2> QED
      BY <2>1, MinOfNumbers
  <1>3. at = IF found = {} THEN 0 ELSE Max(found)
    BY DEF sigIndex
  <1>4. at \in found
    <2>1. found \subseteq 0..Len(lines)
      BY <1>1
    <2> HIDE DEF found
    <2> QED
      BY <1>1, <1>3, <2>1, MaxOfNumbers
  <1>5. limit \in Nat /\ limit <= Len(lines) + 1
    BY <1>1, <1>2
  <1> HIDE DEF limit
  <1>6. at \in 1..Len(lines) /\ at + Len(sig) <= limit /\ SubSeq(lines, at, at + Len(sig) - 1) = sig
    BY <1>4 DEF IsAt
  <1>7. ASSUME NEW k \in 1..(at - 1), lines[k] = Sep
        PROVE  FALSE
    <2>1. k \in marks
      BY <1>1, <1>6, <1>7
    <2> QED
      BY <1>1, <1>2, <1>5, <1>6, <2>1
  <1> QED
    BY <1>1, <1>5, <1>6, <1>7

\* A text is what stands before a place, there, and after it.
LEMMA Split ==
    ASSUME NEW lines \in Seq(Lines), NEW at \in 1..Len(lines), NEW n \in Nat, at + n <= Len(lines) + 1
    PROVE  lines = SubSeq(lines, 1, at - 1) \o SubSeq(lines, at, at + n - 1) \o SubSeq(lines, at + n, Len(lines))
  <1>1. Len(lines) \in Nat
    BY LenProperties
  <1>2. /\ 1 \in 1..(Len(lines) + 1) /\ at - 1 \in (1 - 1)..Len(lines)
        /\ at + n - 1 \in (at - 1)..Len(lines) /\ at - 1 + 1 = at
    BY <1>1
  <1>3. SubSeq(lines, 1, at - 1) \o SubSeq(lines, at, at + n - 1) = SubSeq(lines, 1, at + n - 1)
    <2>1. SubSeq(lines, 1, at - 1) \o SubSeq(lines, at - 1 + 1, at + n - 1) = SubSeq(lines, 1, at + n - 1)
      BY ONLY <1>2, ConcatAdjacentSubSeq, lines \in Seq(Lines)
    <2> QED
      BY <1>2, <2>1
  <1>4. /\ at + n - 1 \in (1 - 1)..Len(lines) /\ Len(lines) \in (at + n - 1)..Len(lines) /\ at + n - 1 + 1 = at + n
    BY <1>1
  <1>5. SubSeq(lines, 1, at + n - 1) \o SubSeq(lines, at + n, Len(lines)) = SubSeq(lines, 1, Len(lines))
    <2>1. SubSeq(lines, 1, at + n - 1) \o SubSeq(lines, at + n - 1 + 1, Len(lines)) = SubSeq(lines, 1, Len(lines))
      BY ONLY <1>2, <1>4, ConcatAdjacentSubSeq, lines \in Seq(Lines)
    <2> QED
      BY <1>4, <2>1
  <1>6. SubSeq(lines, 1, Len(lines)) = lines
    BY SubSeqFull
  <1> QED
    BY ONLY <1>3, <1>5, <1>6

Says(html, p, lines) ==
    /\ linesHtml(lines) = html.before \o html.card \o html.after
    /\ html.card = IF html.photo THEN linesHtml(sigText(p)) ELSE <<>>
    /\ html.photo => PhotoIn(p) /\ Rule \notin ToSet(html.before)

LEMMA HtmlTyped ==
    ASSUME NEW s \in Seq(Lines)
    PROVE  /\ linesHtml(s) \in Seq(Lines \cup {Rule}) /\ Len(linesHtml(s)) = Len(s)
           /\ \A i \in 1..Len(s) : linesHtml(s)[i] = IF s[i] = Sep THEN Rule ELSE s[i]
  <1> DEFINE n == Len(s)
             h == linesHtml(s)
  <1>1. n \in Nat /\ DOMAIN s = 1..n
    BY LenProperties
  <1>2. \A i \in 1..n : s[i] \in Lines
    BY ElementOfSeq
  <1>3. h = [i \in 1..n |-> IF s[i] = Sep THEN Rule ELSE s[i]]
    BY <1>1 DEF linesHtml
  <1> HIDE DEF n, h
  <1>4. \A i \in 1..n : h[i] = IF s[i] = Sep THEN Rule ELSE s[i]
    BY <1>3
  <1>5. h \in [1..n -> Lines \cup {Rule}]
    BY <1>2, <1>3
  <1>6. h \in Seq(Lines \cup {Rule}) /\ Len(h) = n
    BY ONLY <1>1, <1>5
  <1> QED
    BY <1>4, <1>6 DEF n, h

\* The HTML of two texts after each other is that of the one and of the other.
LEMMA HtmlJoins ==
    ASSUME NEW s \in Seq(Lines), NEW t \in Seq(Lines)
    PROVE  linesHtml(s \o t) = linesHtml(s) \o linesHtml(t)
  <1> DEFINE st == s \o t
             L == linesHtml(st)
             R == linesHtml(s) \o linesHtml(t)
  <1>1. /\ st \in Seq(Lines) /\ Len(st) = Len(s) + Len(t) /\ Len(s) \in Nat /\ Len(t) \in Nat
        /\ \A i \in 1..(Len(s) + Len(t)) : st[i] = IF i <= Len(s) THEN s[i] ELSE t[i - Len(s)]
    BY ConcatProperties, LenProperties
  <1> HIDE DEF st
  <1>2. /\ linesHtml(s) \in Seq(Lines \cup {Rule}) /\ Len(linesHtml(s)) = Len(s)
        /\ \A i \in 1..Len(s) : linesHtml(s)[i] = IF s[i] = Sep THEN Rule ELSE s[i]
    BY HtmlTyped
  <1>3. /\ linesHtml(t) \in Seq(Lines \cup {Rule}) /\ Len(linesHtml(t)) = Len(t)
        /\ \A i \in 1..Len(t) : linesHtml(t)[i] = IF t[i] = Sep THEN Rule ELSE t[i]
    BY HtmlTyped
  <1>4. /\ L \in Seq(Lines \cup {Rule}) /\ Len(L) = Len(st)
        /\ \A i \in 1..Len(st) : L[i] = IF st[i] = Sep THEN Rule ELSE st[i]
    BY <1>1, HtmlTyped
  <1>5. /\ R \in Seq(Lines \cup {Rule}) /\ Len(R) = Len(s) + Len(t)
        /\ \A i \in 1..(Len(s) + Len(t)) :
              R[i] = IF i <= Len(s) THEN linesHtml(s)[i] ELSE linesHtml(t)[i - Len(s)]
    <2> DEFINE hs == linesHtml(s)
               ht == linesHtml(t)
    <2>1. hs \in Seq(Lines \cup {Rule}) /\ Len(hs) = Len(s) /\ ht \in Seq(Lines \cup {Rule}) /\ Len(ht) = Len(t)
      BY <1>2, <1>3
    <2> HIDE DEF hs, ht
    <2>2. /\ hs \o ht \in Seq(Lines \cup {Rule}) /\ Len(hs \o ht) = Len(hs) + Len(ht)
          /\ \A i \in 1..(Len(hs) + Len(ht)) : (hs \o ht)[i] = IF i <= Len(hs) THEN hs[i] ELSE ht[i - Len(hs)]
      BY ONLY <2>1, ConcatProperties
    <2>3. R = hs \o ht
      BY DEF hs, ht
    <2> HIDE DEF R
    <2> QED
      BY <2>1, <2>2, <2>3 DEF hs, ht
  <1> HIDE DEF L, R
  <1>6. ASSUME NEW i \in 1..(Len(s) + Len(t))
        PROVE  L[i] = R[i]
    <2>1. CASE i <= Len(s)
      <3>1. i \in 1..Len(s)
        BY <1>1, <2>1
      <3> QED
        BY <1>1, <1>2, <1>4, <1>5, <2>1, <3>1
    <2>2. CASE ~(i <= Len(s))
      <3>1. i - Len(s) \in 1..Len(t)
        BY <1>1, <2>2
      <3> QED
        BY <1>1, <1>3, <1>4, <1>5, <2>2, <3>1
    <2> QED
      BY <2>1, <2>2
  <1>7. L = R
    BY ONLY <1>1, <1>4, <1>5, <1>6, SeqEqual
  <1> QED
    BY ONLY <1>7 DEF L, R, st

\* The HTML source holds the lines of the text, and of the card what it stands for.
LEMMA HtmlSays ==
    ASSUME NEW p \in Profiles, NEW lines \in Seq(Lines)
    PROVE  Says(bodyHtml(p, lines), p, lines)
  <1> DEFINE sig == sigText(p)
             at == IF PhotoIn(p) /\ sig # <<>> THEN sigIndex(lines, sig) ELSE 0
             html == bodyHtml(p, lines)
  <1>1. sig \in Seq(Lines)
    BY SignatureTyped
  <1>2. CASE at = 0
    <2>1. html.before = linesHtml(lines) /\ html.photo = FALSE /\ html.card = <<>> /\ html.after = <<>>
      BY <1>2 DEF bodyHtml
    <2>2. linesHtml(lines) \o <<>> = linesHtml(lines)
      BY HtmlTyped, ConcatEmptySeq
    <2> HIDE DEF html
    <2>3. Says(html, p, lines)
      BY <2>1, <2>2 DEF Says
    <2> QED
      BY <2>3 DEF html
  <1>3. CASE at # 0
    <2>1. PhotoIn(p) /\ at = sigIndex(lines, sig)
      BY <1>3
    <2>2. /\ html.before = linesHtml(SubSeq(lines, 1, at - 1)) /\ html.photo = TRUE /\ html.card = linesHtml(sig)
          /\ html.after = linesHtml(SubSeq(lines, at + Len(sig), Len(lines)))
      BY <1>3 DEF bodyHtml
    <2> HIDE DEF at, html
    <2>3. /\ at \in 1..Len(lines) /\ at + Len(sig) <= Len(lines) + 1
          /\ SubSeq(lines, at, at + Len(sig) - 1) = sig
          /\ \A k \in 1..(at - 1) : lines[k] # Sep
      <3> HIDE DEF sig
      <3> QED
        BY ONLY <1>1, <1>3, <2>1, FoundAbove, lines \in Seq(Lines)
    <2>4. Len(sig) \in Nat /\ Len(lines) \in Nat
      BY <1>1, LenProperties
    <2>5. lines = SubSeq(lines, 1, at - 1) \o SubSeq(lines, at, at + Len(sig) - 1) \o SubSeq(lines, at + Len(sig), Len(lines))
      <3> DEFINE n == Len(sig)
      <3>1. n \in Nat /\ at + n <= Len(lines) + 1
        BY <2>3, <2>4
      <3> HIDE DEF n
      <3>2. lines = SubSeq(lines, 1, at - 1) \o SubSeq(lines, at, at + n - 1) \o SubSeq(lines, at + n, Len(lines))
        BY ONLY <2>3, <3>1, Split, lines \in Seq(Lines)
      <3> QED
        BY <3>2 DEF n
    <2>6. linesHtml(lines) = html.before \o html.card \o html.after
      <3> DEFINE a == SubSeq(lines, 1, at - 1)
                 c == SubSeq(lines, at + Len(sig), Len(lines))
      <3>1. a \in Seq(Lines) /\ c \in Seq(Lines)
        <4>1. \A k \in 1..Len(lines) : lines[k] \in Lines
          BY ElementOfSeq
        <4>2. \A k \in 1..(at - 1) : lines[k] \in Lines
          BY <2>3, <2>4, <4>1
        <4>3. \A k \in (at + Len(sig))..Len(lines) : lines[k] \in Lines
          BY <2>3, <2>4, <4>1
        <4>4. at - 1 \in Int /\ at + Len(sig) \in Int /\ Len(lines) \in Int
          BY <2>3, <2>4
        <4> QED
          BY <4>2, <4>3, <4>4, SubSeqProperties
      <3>2. lines = a \o sig \o c
        BY <2>3, <2>5
      <3> HIDE DEF a, c, sig
      <3>3. a \o sig \in Seq(Lines)
        BY ONLY <1>1, <3>1, ConcatProperties
      <3>4. linesHtml(a \o sig \o c) = linesHtml(a \o sig) \o linesHtml(c)
        BY ONLY <3>1, <3>3, HtmlJoins
      <3>5. linesHtml(a \o sig) = linesHtml(a) \o linesHtml(sig)
        BY ONLY <1>1, <3>1, HtmlJoins
      <3> QED
        BY <2>2, <3>2, <3>4, <3>5 DEF a, c
    <2>7. Rule \notin ToSet(html.before)
      <3> DEFINE before == SubSeq(lines, 1, at - 1)
      <3>1. \A k \in 1..(at - 1) : lines[k] \in Lines
        BY <2>3, <2>4, ElementOfSeq
      <3>2. at - 1 \in Int /\ at - 1 \in Nat
        BY <2>3, <2>4
      <3>3. before \in Seq(Lines) /\ Len(before) = at - 1 /\ \A k \in 1..(at - 1) : before[k] = lines[k]
        BY <3>1, <3>2
      <3>4. DOMAIN before = 1..(at - 1)
        BY <3>3, LenProperties
      <3> HIDE DEF before
      <3>5. /\ linesHtml(before) \in Seq(Lines \cup {Rule}) /\ Len(linesHtml(before)) = Len(before)
            /\ \A i \in 1..Len(before) : linesHtml(before)[i] = IF before[i] = Sep THEN Rule ELSE before[i]
        BY <3>3, HtmlTyped
      <3>6. \A k \in 1..(at - 1) : linesHtml(before)[k] # Rule
        BY <2>3, <3>1, <3>3, <3>5, ComposerAssumption
      <3>7. DOMAIN linesHtml(before) = 1..(at - 1)
        BY <3>3, <3>5, LenProperties
      <3>8. Rule \notin ToSet(linesHtml(before))
        BY <3>6, <3>7 DEF ToSet
      <3> QED
        BY <2>2, <3>8 DEF before
    <2>8. Says(html, p, lines)
      BY <2>1, <2>2, <2>6, <2>7 DEF Says
    <2> QED
      BY <2>8 DEF html
  <1> QED
    BY <1>2, <1>3

-----------------------------------------------------------------------------
(* The compose form: its invariant *)

RecipientsOK ==
    /\ from \in Accounts
    /\ chips \in [Fields -> SUBSET (People \cup Accounts)] /\ typed \in [Fields -> SUBSET People]
    /\ suggestions \in Seq(People) /\ Len(suggestions) <= Cardinality(People)
    /\ sugFor \in Fields \cup {Nothing} /\ sugIndex \in -1..(Cardinality(People) - 1)
    /\ asked \in 0..MaxAsked
FilesOK ==
    /\ reading \subseteq Files /\ attachments \subseteq Files /\ reading \cap attachments = {}
    /\ IsFiniteSet(attachments) /\ Weight(attachments) <= MAX_TOTAL
TextOK == acc \in Accounts /\ body \in Seq(Lines)
ProfilesOK ==
    /\ me \in [Accounts -> Profiles] /\ profile \in [Accounts -> Profiles]
    /\ \A ans \in answers : ans.acc \in Accounts /\ ans.mailbox \in Profiles
PostOK ==
    /\ busy => posted # NoPost
    /\ posted # NoPost => /\ Weight(posted.files) <= MAX_TOTAL
                          /\ Says(posted.html, posted.profile, posted.text)

(***************************************************************************)
(* What is posted is made of the form as it is then, so the form is to     *)
(* have its types, the profile of every account with it, whichever answer  *)
(* the window heard last; and what is attached is to fit before the post.  *)
(***************************************************************************)
FormInv == RecipientsOK /\ FilesOK /\ TextOK /\ ProfilesOK /\ PostOK

LEMMA RecipientsKept == RecipientsOK /\ UNCHANGED recipients => RecipientsOK'
  BY DEF RecipientsOK, recipients

LEMMA FilesKept == FilesOK /\ UNCHANGED files => FilesOK'
  BY DEF FilesOK, files

LEMMA TextKept == TextOK /\ UNCHANGED <<acc, text>> => TextOK'
  BY DEF TextOK, text

LEMMA ProfilesKept == ProfilesOK /\ UNCHANGED profiles => ProfilesOK'
  BY DEF ProfilesOK, profiles

LEMMA PostKept == PostOK /\ UNCHANGED <<busy, posted>> => PostOK'
  BY DEF PostOK

LEMMA PeopleCount == IsFiniteSet(People) /\ Cardinality(People) \in Nat
  BY FS_CardinalityType, ComposerAssumption

LEMMA FormInit == CInit => FormInv
  <1> SUFFICES ASSUME CInit PROVE FormInv
    OBVIOUS
  <1>1. RecipientsOK
    <2>1. suggestions \in Seq(People) /\ Len(suggestions) = 0
      BY DEF CInit
    <2>2. chips \in [Fields -> SUBSET (People \cup Accounts)] /\ typed \in [Fields -> SUBSET People]
      BY DEF CInit
    <2>0. MaxAsked \in Nat
      BY ComposerAssumption
    <2>3. from \in Accounts /\ sugFor \in Fields \cup {Nothing} /\ asked \in 0..MaxAsked
      BY <2>0 DEF CInit
    <2>4. sugIndex \in -1..(Cardinality(People) - 1)
      BY PeopleCount DEF CInit
    <2> QED
      BY <2>1, <2>2, <2>3, <2>4, PeopleCount DEF RecipientsOK
  <1>2. FilesOK
    <2>1. reading = {} /\ attachments = {} /\ IsFiniteSet({})
      BY FS_EmptySet DEF CInit
    <2>2. MAX_TOTAL \in Nat
      BY ComposerAssumption
    <2> QED
      BY <2>1, <2>2, WeightNone DEF FilesOK
  <1>3. TextOK /\ ProfilesOK /\ PostOK
    BY ProfileAssumption DEF CInit, TextOK, ProfilesOK, ProfileInit, PostOK
  <1> QED
    BY <1>1, <1>2, <1>3 DEF FormInv

-----------------------------------------------------------------------------
(* The compose form: profiles and text *)

LEMMA BlockTyped == ASSUME NEW p \in Profiles PROVE sigBlock(p) \in Seq(Lines)
  <1>1. sigText(p) \in Seq(Lines)
    BY SignatureTyped
  <1>2. <<"", "">> \in Seq(Lines) /\ <<>> \in Seq(Lines)
    <2>1. "" \in Lines
      BY ComposerAssumption
    <2>2. <<"", "">> \in Seq(Lines)
      BY ONLY <2>1, TwoLines
    <2>3. <<>> \in Seq(Lines)
      BY ONLY EmptySeq
    <2> QED
      BY ONLY <2>2, <2>3
  <1>3. <<"", "">> \o sigText(p) \in Seq(Lines)
    BY ONLY <1>1, <1>2, ConcatProperties
  <1> QED
    BY <1>2, <1>3 DEF sigBlock

LEMMA QuoteTyped == quote \in Seq(Lines)
  <1>1. <<"", Sep>> \in Seq(Lines) /\ Original.lines \in Seq(Lines)
    BY TwoLines, ComposerAssumption
  <1> QED
    BY <1>1, ConcatProperties DEF quote

\* Whatever is served and whenever it is heard, a profile is a profile.
LEMMA ServedOK ==
    ASSUME ProfilesOK, NEW n, NEW a \in Accounts, NEW p \in Profiles, Served(n, a, p)
    PROVE  ProfilesOK'
  BY DEF ProfilesOK, Served

LEMMA SettingsStep == ASSUME ProfilesOK, Settings PROVE ProfilesOK'
  <1>1. PICK a \in Accounts : \/ saveProfile(acts, a) \/ uploadAvatar(acts, a)
                              \/ removeAvatar(acts, a) \/ refreshed(acts, a)
    BY DEF Settings, ProfileStep
  <1>2. me[a] \in Profiles
    BY DEF ProfilesOK
  <1>3. \A sig \in Signatures, tick \in BOOLEAN : [me[a] EXCEPT !.signature = sig, !.inSignature = tick] \in Profiles
    BY <1>2 DEF Profiles
  <1>4. [me[a] EXCEPT !.photo = TRUE] \in Profiles /\ [me[a] EXCEPT !.photo = FALSE, !.inSignature = FALSE] \in Profiles
    BY <1>2 DEF Profiles
  <1> QED
    BY <1>1, <1>2, <1>3, <1>4, ServedOK DEF saveProfile, updateProfile, uploadAvatar, removeAvatar, refreshed

LEMMA MountStep == ASSUME FormInv, Mount PROVE FormInv'
  <1>1. profile[from] \in Profiles
    BY DEF FormInv, RecipientsOK, ProfilesOK
  <1>2. TextOK'
    BY <1>1, BlockTyped DEF FormInv, TextOK, Mount
  <1> QED
    BY <1>2, RecipientsKept, FilesKept, ProfilesKept, PostKept DEF FormInv, Mount

LEMMA PrefillStep == ASSUME FormInv, NEW received, Prefill(received) PROVE FormInv'
  <1>1. profile[acc] \in Profiles /\ acc \in Accounts
    BY DEF FormInv, TextOK, ProfilesOK
  <1>2. TextOK'
    <2>1. sigBlock(profile[acc]) \o quote \in Seq(Lines)
      BY <1>1, BlockTyped, QuoteTyped, ConcatProperties
    <2> QED
      BY <1>1, <2>1 DEF TextOK, Prefill
  <1>3. RecipientsOK'
    <2>1. chips' \in [Fields -> SUBSET (People \cup Accounts)]
      BY ComposerAssumption DEF FormInv, RecipientsOK, Prefill
    <2> QED
      BY <1>1, <2>1 DEF FormInv, RecipientsOK, Prefill
  <1> QED
    BY <1>2, <1>3, FilesKept, ProfilesKept, PostKept DEF FormInv, Prefill

-----------------------------------------------------------------------------
(* The compose form: recipients *)

\* A step that changes nothing but the recipients.
LEMMA OnlyRecipients ==
    ASSUME FormInv, RecipientsOK', UNCHANGED <<acc, files, text, busy, posted, profiles>>
    PROVE  FormInv'
  BY FilesKept, TextKept, ProfilesKept, PostKept DEF FormInv

\* What is typed or picked becomes a chip.
LEMMA ChipsMore ==
    ASSUME RecipientsOK, NEW f \in Fields, NEW ps, ps \subseteq People
    PROVE  /\ [chips EXCEPT ![f] = @ \cup ps] \in [Fields -> SUBSET (People \cup Accounts)]
           /\ [typed EXCEPT ![f] = ps] \in [Fields -> SUBSET People]
           /\ addChip(f, chips) \in [Fields -> SUBSET (People \cup Accounts)]
           /\ [typed EXCEPT ![f] = {}] \in [Fields -> SUBSET People]
  BY DEF RecipientsOK, addChip

LEMMA EmptyList == <<>> \in Seq(People) /\ Len(<<>>) <= Cardinality(People)
  BY PeopleCount

\* A position in the list is one of a person.
LEMMA OfferedPerson ==
    ASSUME RecipientsOK, NEW i \in DOMAIN suggestions
    PROVE  suggestions[i] \in People /\ i - 1 \in -1..(Cardinality(People) - 1)
  <1>1. i \in 1..Len(suggestions) /\ Len(suggestions) \in Nat
    BY LenProperties DEF RecipientsOK
  <1>2. suggestions[i] \in People
    BY <1>1, ElementOfSeq DEF RecipientsOK
  <1> QED
    BY <1>1, <1>2, PeopleCount DEF RecipientsOK

\* The highlight goes around and stays in the list.
LEMMA SteppedInside ==
    ASSUME RecipientsOK, NEW dir \in {-1, 1}, suggestions # <<>>
    PROVE  stepped(dir) \in -1..(Cardinality(People) - 1)
  <1>1. Len(suggestions) \in Nat \ {0}
    BY EmptySeq DEF RecipientsOK
  <1>2. sugIndex \in Int
    BY PeopleCount DEF RecipientsOK
  <1>3. stepped(dir) \in 0..(Len(suggestions) - 1)
    BY <1>1, <1>2 DEF stepped
  <1> QED
    BY <1>1, <1>3, PeopleCount DEF RecipientsOK

LEMMA PickedOK ==
    ASSUME RecipientsOK, NEW f \in Fields, NEW p \in People, pickSug(f, p),
           sugIndex' \in -1..(Cardinality(People) - 1), UNCHANGED <<from, asked>>
    PROVE  RecipientsOK'
  <1>1. chips' \in [Fields -> SUBSET (People \cup Accounts)] /\ typed' \in [Fields -> SUBSET People]
    BY DEF pickSug, RecipientsOK
  <1>2. suggestions' \in Seq(People) /\ Len(suggestions') <= Cardinality(People) /\ sugFor' \in Fields \cup {Nothing}
    BY EmptyList DEF pickSug
  <1> QED
    BY <1>1, <1>2 DEF RecipientsOK

LEMMA UserRecipientsStep ==
    ASSUME FormInv, NEW f \in Fields, UserRecipients(f)
    PROVE  FormInv'
  <1>0. RecipientsOK
    BY DEF FormInv
  <1>1. ASSUME NEW ps \in SUBSET People, Input(f, ps)
        PROVE  FormInv'
    <2>1. RecipientsOK'
      BY <1>0, <1>1, ChipsMore, PeopleCount DEF Input, queryRecipients, RecipientsOK
    <2> QED
      BY <1>1, <2>1, OnlyRecipients DEF Input, Act
  <1>2. ASSUME NEW p, removeChip(f, p)
        PROVE  FormInv'
    <2>1. chips' \in [Fields -> SUBSET (People \cup Accounts)]
      BY <1>0, <1>2 DEF removeChip, RecipientsOK
    <2>2. RecipientsOK'
      BY <1>0, <1>2, <2>1 DEF removeChip, RecipientsOK
    <2> QED
      BY <1>2, <2>2, OnlyRecipients DEF removeChip, Act
  <1>3. ASSUME NEW i \in DOMAIN suggestions, ClickSug(f, i)
        PROVE  FormInv'
    <2>1. RecipientsOK'
      BY <1>0, <1>3, OfferedPerson, PickedOK DEF ClickSug
    <2> QED
      BY <1>3, <2>1, OnlyRecipients DEF ClickSug, Act
  <1>4. ASSUME NEW dir \in {-1, 1}, sugNav(f, dir)
        PROVE  FormInv'
    <2>1. sugIndex' \in -1..(Cardinality(People) - 1)
      BY <1>0, <1>4, SteppedInside DEF sugNav, Offered
    <2>2. RecipientsOK'
      BY <1>0, <1>4, <2>1 DEF sugNav, RecipientsOK
    <2> QED
      BY <1>4, <2>2, OnlyRecipients DEF sugNav, Act
  <1>5. ASSUME NEW leaving \in BOOLEAN, Separate(f, leaving)
        PROVE  FormInv'
    <2>1. chips' \in [Fields -> SUBSET (People \cup Accounts)] /\ typed' \in [Fields -> SUBSET People]
      BY <1>0, <1>5, ChipsMore DEF Separate
    <2>2. RecipientsOK'
      BY <1>0, <1>5, <2>1 DEF Separate, RecipientsOK
    <2> QED
      BY <1>5, <2>2, OnlyRecipients DEF Separate, Act
  <1>6. CASE onEnter(f)
    <2>1. UNCHANGED <<from, sugIndex, asked>>
      BY <1>6 DEF onEnter
    <2>2. CASE sugFor = f /\ sugIndex + 1 \in DOMAIN suggestions
      <3>1. pickSug(f, suggestions[sugIndex + 1]) /\ suggestions[sugIndex + 1] \in People
        BY <1>0, <1>6, <2>2, OfferedPerson DEF onEnter
      <3>2. sugIndex' \in -1..(Cardinality(People) - 1)
        BY <1>0, <2>1 DEF RecipientsOK
      <3>3. RecipientsOK'
        BY <1>0, <2>1, <3>1, <3>2, PickedOK
      <3> QED
        BY <1>6, <3>3, OnlyRecipients DEF onEnter, Act
    <2>3. CASE ~(sugFor = f /\ sugIndex + 1 \in DOMAIN suggestions)
      <3>1. /\ chips' = addChip(f, chips) /\ typed' = [typed EXCEPT ![f] = {}]
            /\ suggestions' = <<>> /\ UNCHANGED sugFor
        BY <1>6, <2>3 DEF onEnter
      <3>2. chips' \in [Fields -> SUBSET (People \cup Accounts)] /\ typed' \in [Fields -> SUBSET People]
        BY <1>0, <3>1, ChipsMore
      <3>3. RecipientsOK'
        BY <1>0, <2>1, <3>1, <3>2, EmptyList DEF RecipientsOK
      <3> QED
        BY <1>6, <3>3, OnlyRecipients DEF onEnter, Act
    <2> QED
      BY <2>2, <2>3
  <1> QED
    BY <1>1, <1>2, <1>3, <1>4, <1>5, <1>6 DEF UserRecipients

LEMMA FireQueryStep == ASSUME FormInv, FireQuery PROVE FormInv'
  <1>0. MaxAsked \in Nat
    BY ComposerAssumption
  <1>1. asked' \in 0..MaxAsked
    BY <1>0 DEF FormInv, RecipientsOK, FireQuery
  <1>2. RecipientsOK'
    BY <1>1 DEF FormInv, RecipientsOK, FireQuery
  <1> QED
    BY <1>2, OnlyRecipients DEF FireQuery

LEMMA HideSugStep == ASSUME FormInv, hideSug PROVE FormInv'
  <1>1. RecipientsOK'
    BY EmptyList DEF FormInv, RecipientsOK, hideSug
  <1> QED
    BY <1>1, OnlyRecipients DEF hideSug

LEMMA HearRecipientsStep ==
    ASSUME FormInv, NEW offer \in SUBSET People, HearRecipients(offer)
    PROVE  FormInv'
  <1> DEFINE new == offer \ UNION {chips[f] : f \in Fields}
  <1>1. new \subseteq People /\ suggestions' = SetToSeq(new)
    BY DEF HearRecipients
  <1> HIDE DEF new
  <1>2. suggestions' \in Seq(People) /\ Len(suggestions') <= Cardinality(People)
    BY <1>1, ListedOnce
  <1>0. MaxAsked \in Nat
    BY ComposerAssumption
  <1>3. asked' \in 0..MaxAsked
    BY <1>0 DEF FormInv, RecipientsOK, HearRecipients
  <1>4. RecipientsOK'
    BY <1>2, <1>3 DEF FormInv, RecipientsOK, HearRecipients
  <1> QED
    BY <1>4, OnlyRecipients DEF HearRecipients

LEMMA ChangeFromStep == ASSUME FormInv, NEW a \in Accounts, ChangeFrom(a) PROVE FormInv'
  <1>1. RecipientsOK'
    BY DEF FormInv, RecipientsOK, ChangeFrom
  <1> QED
    BY <1>1, OnlyRecipients DEF ChangeFrom, Act

-----------------------------------------------------------------------------
(* The compose form: text, files and the post *)

LEMMA EditStep == ASSUME FormInv, NEW lines \in Edits, Edit(lines) PROVE FormInv'
  <1>1. lines \in Seq(Lines)
    BY EditedText DEF Edits, FormInv, TextOK
  <1>2. TextOK'
    BY <1>1 DEF FormInv, TextOK, Edit
  <1> QED
    BY <1>2, RecipientsKept, FilesKept, ProfilesKept, PostKept DEF FormInv, Edit, Act

\* A step that changes nothing but the files.
LEMMA OnlyFiles ==
    ASSUME FormInv, FilesOK', UNCHANGED <<acc, recipients, text, busy, posted, profiles>>
    PROVE  FormInv'
  BY RecipientsKept, TextKept, ProfilesKept, PostKept DEF FormInv

LEMMA OnFilesStep == ASSUME FormInv, NEW fs \in SUBSET Files, onFiles(fs) PROVE FormInv'
  <1>1. FilesOK'
    BY DEF FormInv, FilesOK, onFiles
  <1> QED
    BY <1>1, OnlyFiles DEF onFiles, Act

\* A file is held against what the others weigh when it has been read.
LEMMA FileReadStep ==
    ASSUME FormInv, NEW f \in Files, NEW ok, FileRead(f, ok)
    PROVE  FormInv'
  <1>1. /\ f \in reading /\ reading' = reading \ {f}
        /\ \/ attachments' = attachments
           \/ fits(f) /\ attachments' = attachments \cup {f}
    BY DEF FileRead
  <1>2. /\ reading \subseteq Files /\ attachments \subseteq Files /\ reading \cap attachments = {}
        /\ IsFiniteSet(attachments) /\ Weight(attachments) <= MAX_TOTAL
    BY DEF FormInv, FilesOK
  <1>3. FilesOK'
    <2>1. CASE attachments' = attachments
      BY <1>1, <1>2, <2>1 DEF FilesOK
    <2>2. CASE fits(f) /\ attachments' = attachments \cup {f}
      <3>1. f \notin attachments
        BY <1>1, <1>2
      <3>2. Weight(attachments \cup {f}) <= MAX_TOTAL
        BY <1>2, <2>2, <3>1, WeightMore DEF fits
      <3>3. IsFiniteSet(attachments \cup {f})
        BY <1>2, FS_AddElement
      <3>4. reading' \subseteq Files /\ attachments' \subseteq Files /\ reading' \cap attachments' = {}
        BY <1>1, <1>2, <2>2
      <3> QED
        BY <2>2, <3>2, <3>3, <3>4 DEF FilesOK
    <2> QED
      BY <1>1, <2>1, <2>2
  <1> QED
    BY <1>3, OnlyFiles DEF FileRead

LEMMA RemoveAttachmentStep ==
    ASSUME FormInv, NEW f \in Files, removeAttachment(f)
    PROVE  FormInv'
  <1>1. /\ reading \subseteq Files /\ attachments \subseteq Files /\ reading \cap attachments = {}
        /\ IsFiniteSet(attachments) /\ Weight(attachments) <= MAX_TOTAL
    BY DEF FormInv, FilesOK
  <1>2. f \in attachments /\ attachments' = attachments \ {f} /\ reading' = reading
    BY DEF removeAttachment
  <1>3. IsFiniteSet(attachments \ {f}) /\ Weight(attachments \ {f}) <= Weight(attachments)
    BY <1>1, <1>2, FS_RemoveElement, WeightLess
  <1>4. Weight(attachments) \in Int /\ Weight(attachments \ {f}) \in Int /\ MAX_TOTAL \in Int
    <2>1. attachments \ {f} \subseteq Files
      BY <1>1
    <2>2. Weight(attachments) \in Nat /\ Weight(attachments \ {f}) \in Nat
      BY <1>1, <1>3, <2>1, WeightIsNumber
    <2>3. MAX_TOTAL \in Nat
      BY ComposerAssumption
    <2> QED
      BY ONLY <2>2, <2>3
  <1>5. Weight(attachments \ {f}) <= MAX_TOTAL
    BY <1>1, <1>3, <1>4
  <1>6. FilesOK'
    BY <1>1, <1>2, <1>3, <1>5 DEF FilesOK
  <1> QED
    BY <1>6, OnlyFiles DEF removeAttachment, Act

LEMMA SendStep == ASSUME FormInv, send PROVE FormInv'
  <1> DEFINE cs == [f \in Fields |-> chips[f] \cup typed[f]]
             html == bodyHtml(profile[from], body)
             post == [from |-> from, chips |-> cs, text |-> body, html |-> html,
                      profile |-> profile[from], reply |-> inReplyTo, files |-> attachments]
  <1>1. cs \in [Fields -> SUBSET (People \cup Accounts)]
    BY DEF FormInv, RecipientsOK
  <1>2. RecipientsOK'
    <2>1. chips' = cs /\ typed' \in [Fields -> SUBSET People]
      BY DEF send
    <2>2. UNCHANGED <<from, suggestions, sugFor, sugIndex, asked>>
      BY DEF send
    <2> QED
      BY <1>1, <2>1, <2>2 DEF FormInv, RecipientsOK
  <1>3. Says(html, profile[from], body)
    <2>1. profile[from] \in Profiles /\ body \in Seq(Lines)
      BY DEF FormInv, RecipientsOK, ProfilesOK, TextOK
    <2> QED
      BY <2>1, HtmlSays
  <1>4. PostOK'
    <2>1. CASE UNCHANGED <<busy, posted>>
      BY <2>1, PostKept DEF FormInv
    <2>2. CASE busy' = TRUE /\ posted' = post
      <3> HIDE DEF html
      <3>1. /\ post.files = attachments /\ post.text = body /\ post.html = html /\ post.profile = profile[from]
            /\ post # NoPost
        BY DEF NoPost
      <3> HIDE DEF post
      <3> QED
        BY <1>3, <2>2, <3>1 DEF PostOK, FormInv, FilesOK
    <2> QED
      BY <2>1, <2>2 DEF send
  <1> QED
    BY <1>2, <1>4, FilesKept, TextKept, ProfilesKept DEF FormInv, send, Act

LEMMA FormNext == FormInv /\ [CNext]_cVars => FormInv'
  <1> SUFFICES ASSUME FormInv, [CNext]_cVars PROVE FormInv'
    OBVIOUS
  <1>1. CASE Settings
    BY <1>1, SettingsStep, RecipientsKept, FilesKept, TextKept, PostKept DEF FormInv, Settings
  <1>2. CASE HearProfile
    <2>1. ProfilesOK'
      BY <1>2 DEF HearProfile, applyProfile, FormInv, ProfilesOK
    <2> QED
      BY <1>2, <2>1, RecipientsKept, FilesKept, TextKept, PostKept DEF FormInv, HearProfile
  <1>3. CASE NoOriginal
    BY <1>3, RecipientsKept, FilesKept, TextKept, ProfilesKept, PostKept DEF FormInv, NoOriginal
  <1>4. CASE SendFails
    <2>1. PostOK'
      BY <1>4 DEF SendFails, FormInv, PostOK
    <2> QED
      BY <1>4, <2>1, RecipientsKept, FilesKept, TextKept, ProfilesKept DEF FormInv, SendFails
  <1>5. CASE UNCHANGED cVars
    BY <1>5, RecipientsKept, FilesKept, TextKept, ProfilesKept, PostKept DEF FormInv, cVars
  <1> QED
    BY <1>1, <1>2, <1>3, <1>4, <1>5, MountStep, PrefillStep, UserRecipientsStep, FireQueryStep, HideSugStep,
       HearRecipientsStep, ChangeFromStep, EditStep, OnFilesStep, FileReadStep, RemoveAttachmentStep, SendStep
       DEF CNext

LEMMA FormAlways == CSpec => []FormInv
  BY FormInit, FormNext, PTL DEF CSpec

\* The form keeps its types, and the highlight a position some list can have or
\* the one before it, however lists are replaced, emptied and hidden under it.
THEOREM FormTypeCorrect == CSpec => []CTypeOK
  <1>1. FormInv => CTypeOK
    BY DEF FormInv, RecipientsOK, FilesOK, TextOK, ProfilesOK, PostOK, CTypeOK
  <1> QED
    BY <1>1, FormAlways, PTL

\* However many files are read at once, and in whatever order the reads end, are
\* refused or taken away again, what is attached and what is posted stays under
\* the limit: for any files and sizes.
THEOREM WeightIsLimited == CSpec => []AttachmentsFit
  <1>1. FormInv => AttachmentsFit
    BY DEF FormInv, FilesOK, PostOK, AttachmentsFit
  <1> QED
    BY <1>1, FormAlways, PTL

\* For any text, signature and quoted original, and whatever became of the profile
\* while the form was open: the card holds the sender's own signature, above the
\* quoted original, and every other line of the text is in the HTML source once,
\* in its place.  (What a mail program makes of the source is another matter:
\* HtmlSaysTheText is false.)
THEOREM CardIsHonest == CSpec => []CardIsOwnSignature
  <1>1. FormInv => CardIsOwnSignature
    BY DEF FormInv, PostOK, Says, CardIsOwnSignature
  <1> QED
    BY <1>1, FormAlways, PTL

=============================================================================
