------------------------ MODULE ServiceWorker_proofs ------------------------
(***************************************************************************)
(* Proofs about the application shell, for any windows, builds, files and  *)
(* cache names.                                                            *)
(***************************************************************************)
EXTENDS ServiceWorker, WellFoundedInduction, TLAPS

FillType == [pc : {"idle", "shell", "manifest", "assets", "put", "installed"},
             ver : Versions \cup {0}, shell : Builds \cup {0},
             manifest : Builds \cup {0}, awaited : BOOLEAN]
PageType == {Closed} \cup {Open(b) : b \in Builds}
            \cup [at : {"waiting", "spinner", "error"}, build : {0}]

(***************************************************************************)
(* A fill that has still to open its cache, or that installs a version,    *)
(* names a version; one of a launch that has got past its first fetch has  *)
(* a shell.  Only an installation ends as installed.  A window waits, or   *)
(* reconnects, for an active worker.                                       *)
(***************************************************************************)
FillOK(f, g) ==
    /\ g \in FillType
    /\ g.pc = "shell" \/ (f[2] = "install" /\ g.pc # "idle") => g.ver \in Versions
    /\ f[2] # "install" /\ g.pc \in {"manifest", "assets", "put"} => g.shell \in Builds
    /\ g.pc = "installed" => f[2] = "install"

Controlled == \A t \in Tabs : page[t].at \in {"waiting", "spinner"} => active # 0

TypeInv == TypeOK /\ (\A f \in Fills : FillOK(f, fill[f])) /\ Controlled

(***************************************************************************)
(* A fill that is about to store its shell in a cache has stored all files *)
(* of the manifest it read beside it.                                      *)
(***************************************************************************)
FilesFirst ==
    \A f \in Fills : fill[f].pc = "put" /\ fill[f].ver \in Versions
                     => Files[fill[f].manifest] \subseteq assets[fill[f].ver]

BootInv == FilesFirst /\ WholeShellIsBootable

-----------------------------------------------------------------------------
(* The shell that is served *)

LEMMA VersionsAreNumbers == Versions \subseteq Nat \ {0} /\ \A b \in Builds : Version[b] \in Versions
  BY ServiceWorkerAssumption DEF Versions

LEMMA ServedShellTyped ==
    ASSUME TypeOK, CachedShell # 0
    PROVE  CachedShell \in Builds
  <1>1. Matching # {}
    BY DEF CachedShell
  <1>2. Matching \subseteq Nat
    BY DEF Matching, TypeOK
  <1>3. \E i \in Matching : \A j \in Matching : i <= j
    <2>1. PICK i \in Matching : \A j \in Matching : ~ (<<j, i>> \in OpToRel(<, Nat))
      BY <1>1, <1>2, WFMin, NatLessThanWellFounded
    <2>2. ASSUME NEW j \in Matching, j < i
          PROVE  FALSE
      <3>1. <<j, i>> \in Nat \X Nat /\ <<j, i>>[1] < <<j, i>>[2]
        BY <1>2, <2>2
      <3>2. <<j, i>> \in OpToRel(<, Nat)
        BY ONLY <3>1 DEF OpToRel
      <3> QED
        BY <2>1, <3>2
    <2>3. \A j \in Matching : i <= j
      BY <1>2, <2>2
    <2> QED
      BY <2>3
  <1> DEFINE first == CHOOSE i \in Matching : \A j \in Matching : i <= j
  <1>4. first \in Matching
    BY <1>3
  <1>5. order[first] \in Versions /\ CachedShell = shell[order[first]]
    BY <1>1, <1>4 DEF Matching, CachedShell, TypeOK
  <1> QED
    BY <1>5 DEF TypeOK

LEMMA OpenedTyped ==
    ASSUME order \in Seq(Versions), NEW v \in Versions
    PROVE  Opened(v) \in Seq(Versions)
  BY DEF Opened

-----------------------------------------------------------------------------
(* Type correctness *)

FillsOK == fill' \in [Fills -> FillType] /\ \A f \in Fills : FillOK(f, fill'[f])
PagesOK == page' \in [Tabs -> PageType] /\ Controlled'

LEMMA Typed ==
    ASSUME TypeInv
    PROVE  fill \in [Fills -> FillType] /\ page \in [Tabs -> PageType]
  BY DEF TypeInv, TypeOK, FillType, PageType

LEMMA TypeInvNext ==
    ASSUME server' \in Builds, active' \in Versions \cup {0}, order' \in Seq(Versions),
           shell' \in [Versions -> Builds \cup {0}], assets' \in [Versions -> SUBSET Assets],
           torn' \in [Versions -> BOOLEAN], FillsOK, PagesOK
    PROVE  TypeInv'
  BY DEF FillsOK, PagesOK, TypeInv, TypeOK, FillType, PageType, FillOK

\* What a fill's step leaves in its place.
LEMMA FillTyped ==
    ASSUME TypeInv, NEW f \in Fills, NEW g, FillOK(f, g), fill' = [fill EXCEPT ![f] = g]
    PROVE  FillsOK
  BY Typed DEF TypeInv, FillsOK, FillOK

LEMMA FillsKept == TypeInv /\ UNCHANGED fill => FillsOK
  BY Typed DEF TypeInv, FillsOK, FillOK

LEMMA PagesKept == TypeInv /\ UNCHANGED <<page, active>> => PagesOK
  BY Typed DEF TypeInv, PagesOK, Controlled

LEMMA IdleOK == \A f \in Fills : FillOK(f, Idle)
  BY DEF Idle, FillType, FillOK

\* A launch starts its fills, and opens only on a shell.
LEMMA StartTyped ==
    ASSUME TypeInv, NEW t \in Tabs, Start(t), active # 0, UNCHANGED active
    PROVE  FillsOK /\ PagesOK
  <1>1. <<t, "bg">> \in Fills
    BY DEF Fills
  <1> DEFINE bg == [Idle EXCEPT !.pc = "shell", !.ver = active, !.awaited = TRUE]
             main == [Idle EXCEPT !.pc = "shell", !.ver = active]
  <1>2. active \in Versions
    BY DEF TypeInv, TypeOK
  <1>3. \A f \in Fills : FillOK(f, bg) /\ FillOK(f, main)
    BY <1>2 DEF Idle, FillType, FillOK
  <1>4. page \in [Tabs -> PageType] /\ fill \in [Fills -> FillType]
    BY Typed
  <1> HIDE DEF bg, main
  <1>5. CASE CachedShell # 0
    <2>1. Open(CachedShell) \in PageType
      BY <1>5, ServedShellTyped DEF TypeInv, PageType
    <2>2. fill' = [fill EXCEPT ![<<t, "bg">>] = bg] /\ page' = [page EXCEPT ![t] = Open(CachedShell)]
      BY <1>5 DEF Start, bg
    <2>3. FillsOK
      BY <1>1, <1>3, <2>2, FillTyped
    <2> QED
      BY <1>4, <2>1, <2>2, <2>3 DEF PagesOK, Controlled
  <1>6. CASE CachedShell = 0
    <2>1. [at |-> "waiting", build |-> 0] \in PageType
      BY DEF PageType
    <2>2. /\ fill' = [f \in Fills |-> IF f[1] = t THEN main ELSE fill[f]]
          /\ page' = [page EXCEPT ![t] = [at |-> "waiting", build |-> 0]]
      BY <1>6 DEF Start, main
    <2>3. FillsOK
      BY <1>3, <1>4, <2>2 DEF TypeInv, FillsOK, FillOK
    <2> QED
      BY <1>4, <2>1, <2>2, <2>3 DEF PagesOK, Controlled
  <1> QED
    BY <1>5, <1>6

\* A window that waits for a shell has an active worker, and goes on having it.
LEMMA RespondTyped ==
    ASSUME TypeInv, NEW f \in Fills, NEW p \in PageType, Respond(f, p), UNCHANGED active
    PROVE  PagesOK
  <1>1. CASE ~ Waiting(f)
    BY <1>1, PagesKept DEF Respond
  <1>2. CASE Waiting(f)
    <2>1. f[1] \in Tabs /\ active # 0
      BY <1>2 DEF Waiting, Fills, TypeInv, Controlled
    <2> QED
      BY <1>2, <2>1, Typed DEF Respond, PagesOK, Controlled
  <1> QED
    BY <1>1, <1>2

LEMMA GiveUpTyped ==
    ASSUME TypeInv, NEW f \in Fills, fill[f].pc # "idle", GiveUp(f)
    PROVE  FillsOK
  <1>1. CASE f[2] = "install"
    <2>1. FillOK(f, [fill[f] EXCEPT !.pc = "installed"])
      BY <1>1 DEF TypeInv, FillOK, FillType
    <2> QED
      BY <1>1, <2>1, FillTyped DEF GiveUp
  <1>2. CASE f[2] # "install"
    BY <1>2, IdleOK, FillTyped DEF GiveUp
  <1> QED
    BY <1>1, <1>2

LEMMA InitTyped == Init => TypeInv
  <1> SUFFICES ASSUME Init PROVE TypeInv
    OBVIOUS
  <1>1. 1 \in Builds
    BY ServiceWorkerAssumption DEF Builds
  <1>2. <<>> \in Seq(Versions)
    OBVIOUS
  <1>3. Idle \in FillType
    BY DEF Idle, FillType
  <1>4. TypeOK
    BY <1>1, <1>2, <1>3 DEF Init, TypeOK, FillType
  <1>5. Controlled
    BY DEF Init, Controlled, Closed
  <1> QED
    BY <1>4, <1>5, IdleOK DEF Init, TypeInv

-----------------------------------------------------------------------------
(* The type invariant, action by action *)

LEMMA StoreKept ==
    ASSUME TypeInv, UNCHANGED <<server, active, storeVars>>, FillsOK, PagesOK
    PROVE  TypeInv'
  BY TypeInvNext DEF TypeInv, TypeOK, storeVars

LEMMA LaunchesTyped ==
    ASSUME TypeInv, NEW t \in Tabs,
           Navigate(t) \/ NavigateUncontrolled(t) \/ Reload(t) \/ Close(t)
    PROVE  TypeInv'
  <1>1. CASE Navigate(t)
    BY <1>1, StartTyped, StoreKept DEF Navigate
  <1>2. CASE NavigateUncontrolled(t)
    <2>1. \A p \in {Open(server), Failed} : p \in PageType /\ p.at \in {"open", "error"}
      BY DEF TypeInv, TypeOK, PageType, Open, Failed
    <2>2. PagesOK
      BY <1>2, <2>1, Typed DEF NavigateUncontrolled, PagesOK, TypeInv, Controlled
    <2> QED
      BY <1>2, <2>2, FillsKept, StoreKept DEF NavigateUncontrolled
  <1>3. CASE Reload(t)
    <2>1. active # 0
      BY <1>3 DEF Reload, TypeInv, Controlled
    <2> QED
      BY <1>3, <2>1, StartTyped, StoreKept DEF Reload
  <1>4. CASE Close(t)
    <2>1. Closed \in PageType /\ Closed.at = "closed"
      BY DEF PageType, Closed
    <2>2. PagesOK
      BY <1>4, <2>1, Typed DEF Close, PagesOK, TypeInv, Controlled
    <2> QED
      BY <1>4, <2>2, FillsKept, StoreKept DEF Close
  <1> QED
    BY <1>1, <1>2, <1>3, <1>4

LEMMA FetchAssetTyped ==
    ASSUME TypeInv, NEW t \in Tabs, NEW a \in Assets, FetchAsset(t, a)
    PROVE  TypeInv'
  <1>1. active \in Versions
    BY DEF FetchAsset, TypeInv, TypeOK
  <1>2. order' \in Seq(Versions)
    BY <1>1, OpenedTyped DEF FetchAsset, TypeInv, TypeOK
  <1>3. FillsOK /\ PagesOK
    BY FillsKept, PagesKept DEF FetchAsset
  <1> QED
    BY <1>1, <1>2, <1>3, TypeInvNext DEF FetchAsset, TypeInv, TypeOK

LEMMA FetchShellTyped ==
    ASSUME TypeInv, NEW f \in Fills, FetchShell(f)
    PROVE  TypeInv'
  <1>1. order' \in Seq(Versions)
    BY OpenedTyped DEF FetchShell, TypeInv, TypeOK, FillOK
  <1>2. FillOK(f, [fill[f] EXCEPT !.pc = "manifest", !.shell = server])
    BY DEF FetchShell, TypeInv, TypeOK, FillOK, FillType
  <1>3. FillsOK /\ PagesOK
    BY <1>2, FillTyped, PagesKept DEF FetchShell
  <1> QED
    BY <1>1, <1>3, TypeInvNext DEF FetchShell, TypeInv, TypeOK

LEMMA InstallShellTyped ==
    ASSUME TypeInv, NEW f \in Fills, InstallShell(f)
    PROVE  TypeInv'
  <1>1. order' \in Seq(Versions)
    BY OpenedTyped DEF InstallShell, TypeInv, TypeOK, FillOK
  <1>2. FillOK(f, [fill[f] EXCEPT !.pc = "manifest"])
    BY DEF InstallShell, TypeInv, TypeOK, FillOK, FillType
  <1>3. FillsOK /\ PagesOK
    BY <1>2, FillTyped, PagesKept DEF InstallShell
  <1>4. shell' \in [Versions -> Builds \cup {0}]
    BY DEF InstallShell, TypeInv, TypeOK
  <1>5. torn' \in [Versions -> BOOLEAN]
    BY DEF InstallShell, TypeInv, TypeOK
  <1> QED
    BY <1>1, <1>3, <1>4, <1>5, TypeInvNext DEF InstallShell, TypeInv, TypeOK

LEMMA FetchManifestTyped ==
    ASSUME TypeInv, NEW f \in Fills, FetchManifest(f)
    PROVE  TypeInv'
  <1>1. FillOK(f, [fill[f] EXCEPT !.pc = "assets", !.manifest = server])
    BY DEF FetchManifest, TypeInv, TypeOK, FillOK, FillType
  <1> QED
    BY <1>1, FillTyped, PagesKept, StoreKept DEF FetchManifest

\* The response of a waiting launch is the shell it fetched.
LEMMA FetchedShellTyped ==
    ASSUME TypeInv, NEW f \in Fills, fill[f].pc \in {"manifest", "assets"}, UNCHANGED active,
           Respond(f, Open(fill[f].shell))
    PROVE  PagesOK
  <1>1. CASE f[2] = "install"
    <2>1. ~ Waiting(f)
      BY <1>1 DEF Waiting
    <2> QED
      BY <2>1, PagesKept DEF Respond
  <1>2. CASE f[2] # "install"
    <2>1. Open(fill[f].shell) \in PageType
      BY <1>2 DEF TypeInv, FillOK, PageType
    <2> QED
      BY <2>1, RespondTyped
  <1> QED
    BY <1>1, <1>2

LEMMA AddAllFailsTyped ==
    ASSUME TypeInv, NEW f \in Fills, AddAllFails(f)
    PROVE  TypeInv'
  BY GiveUpTyped, FetchedShellTyped, StoreKept DEF AddAllFails

LEMMA AddAllTyped ==
    ASSUME TypeInv, NEW f \in Fills, AddAll(f)
    PROVE  TypeInv'
  <1>1. FillOK(f, [fill[f] EXCEPT !.pc = IF f[2] = "install" THEN "installed" ELSE "put"])
    BY DEF AddAll, TypeInv, TypeOK, FillOK, FillType
  <1>2. FillsOK /\ PagesOK
    BY <1>1, FillTyped, FetchedShellTyped DEF AddAll
  <1>3. Files[fill[f].manifest] \subseteq Assets
    BY DEF AddAll, Assets, TypeInv, TypeOK
  <1>4. assets' \in [Versions -> SUBSET Assets]
    BY <1>3 DEF AddAll, TypeInv, TypeOK
  <1> QED
    BY <1>2, <1>4, TypeInvNext DEF AddAll, TypeInv, TypeOK

LEMMA PutShellTyped ==
    ASSUME TypeInv, NEW f \in Fills, PutShell(f)
    PROVE  TypeInv'
  <1>1. FillsOK /\ PagesOK
    BY IdleOK, FillTyped, PagesKept DEF PutShell
  <1>2. fill[f].shell \in Builds \cup {0}
    BY DEF TypeInv, TypeOK
  <1>3. shell' \in [Versions -> Builds \cup {0}] /\ torn' \in [Versions -> BOOLEAN]
    BY <1>2 DEF PutShell, TypeInv, TypeOK
  <1> QED
    BY <1>1, <1>3, TypeInvNext DEF PutShell, TypeInv, TypeOK

LEMMA FetchFailsTyped ==
    ASSUME TypeInv, NEW f \in Fills, FetchFails(f)
    PROVE  TypeInv'
  <1>1. Spinner \in PageType /\ Failed \in PageType
    BY DEF PageType, Spinner, Failed
  <1>2. PagesOK
    BY <1>1, RespondTyped, FetchedShellTyped DEF FetchFails
  <1> QED
    BY <1>2, GiveUpTyped, StoreKept DEF FetchFails

LEMMA KillTyped ==
    ASSUME TypeInv, NEW f \in Fills, Kill(f)
    PROVE  TypeInv'
  <1>1. Failed \in PageType
    BY DEF PageType, Failed
  <1> QED
    BY <1>1, IdleOK, FillTyped, RespondTyped, StoreKept DEF Kill

LEMMA RegisterTyped ==
    ASSUME TypeInv, NEW f \in Fills, Register(f)
    PROVE  TypeInv'
  <1>1. Version[server] \in Versions
    BY VersionsAreNumbers DEF TypeInv, TypeOK
  <1>2. FillOK(f, [Idle EXCEPT !.pc = "shell", !.ver = Version[server]])
    BY <1>1 DEF Idle, FillOK, FillType
  <1> QED
    BY <1>2, FillTyped, PagesKept, StoreKept DEF Register

LEMMA ActivateTyped ==
    ASSUME TypeInv, NEW f \in Fills, Activate(f)
    PROVE  TypeInv'
  <1>1. f[2] = "install" /\ active' = fill[f].ver /\ active' \in Versions
    BY DEF Activate, TypeInv, FillOK
  <1>2. active' # 0
    BY <1>1, VersionsAreNumbers
  <1>3. PagesOK
    BY <1>2, Typed DEF Activate, PagesOK, Controlled
  <1>4. ASSUME NEW g \in Fills
        PROVE  FillOK(g, Idle) /\ FillOK(g, fill[g]) /\ (g # f => FillOK(g, Detached(g)))
    <2>1. g # f => g[2] # "install"
      BY <1>1 DEF Fills
    <2>2. g # f => FillOK(g, Detached(g))
      BY <2>1 DEF Detached, TypeInv, FillOK, FillType
    <2> QED
      BY <2>2, IdleOK DEF TypeInv
  <1>5. fill' = [g \in Fills |-> IF g = f THEN Idle ELSE IF fill[g].ver # active' THEN Detached(g) ELSE fill[g]]
    BY DEF Activate
  <1>6. \A g \in Fills : FillOK(g, fill'[g])
    BY <1>4, <1>5
  <1>7. FillsOK
    BY <1>5, <1>6 DEF FillsOK, FillOK
  <1>8. order' \in Seq(Versions)
    BY <1>1 DEF Activate
  <1>9. shell' \in [Versions -> Builds \cup {0}]
    BY DEF Activate, TypeInv, TypeOK
  <1>10. assets' \in [Versions -> SUBSET Assets]
    BY DEF Activate, TypeInv, TypeOK
  <1>11. torn' \in [Versions -> BOOLEAN]
    BY DEF Activate, TypeInv, TypeOK
  <1>12. server' \in Builds
    BY DEF Activate, TypeInv, TypeOK
  <1> QED
    BY <1>1, <1>3, <1>7, <1>8, <1>9, <1>10, <1>11, <1>12, TypeInvNext

LEMMA EvictTyped ==
    ASSUME TypeInv, Evict
    PROVE  TypeInv'
  <1>1. FillsOK /\ PagesOK
    BY FillsKept, PagesKept DEF Evict
  <1>2. shell' \in [Versions -> Builds \cup {0}] /\ assets' \in [Versions -> SUBSET Assets]
    BY DEF Evict
  <1>3. torn' \in [Versions -> BOOLEAN] /\ order' \in Seq(Versions)
    BY DEF Evict
  <1> QED
    BY <1>1, <1>2, <1>3, TypeInvNext DEF Evict, TypeInv, TypeOK

LEMMA DeployTyped ==
    ASSUME TypeInv, Deploy
    PROVE  TypeInv'
  <1>1. server' \in Builds
    BY ServiceWorkerAssumption DEF Deploy, Builds, TypeInv, TypeOK
  <1>2. FillsOK /\ PagesOK
    BY FillsKept, PagesKept DEF Deploy
  <1> QED
    BY <1>1, <1>2, TypeInvNext DEF Deploy, TypeInv, TypeOK, storeVars

LEMMA FillStepTyped ==
    ASSUME TypeInv, NEW f \in Fills, FillStep(f)
    PROVE  TypeInv'
  BY FetchShellTyped, InstallShellTyped, FetchManifestTyped, AddAllTyped, AddAllFailsTyped,
     PutShellTyped, FetchFailsTyped DEF FillStep

LEMMA StepTyped == TypeInv /\ [Next]_vars => TypeInv'
  <1> SUFFICES ASSUME TypeInv, [Next]_vars PROVE TypeInv'
    OBVIOUS
  <1>1. ASSUME NEW t \in Tabs, Navigate(t) \/ NavigateUncontrolled(t) \/ Reload(t) \/ Close(t)
        PROVE  TypeInv'
    BY <1>1, LaunchesTyped
  <1>2. ASSUME NEW t \in Tabs, NEW a \in Assets, FetchAsset(t, a)
        PROVE  TypeInv'
    BY <1>2, FetchAssetTyped
  <1>3. ASSUME NEW f \in Fills, FillStep(f) \/ Kill(f) \/ Register(f) \/ Activate(f)
        PROVE  TypeInv'
    BY <1>3, FillStepTyped, KillTyped, RegisterTyped, ActivateTyped
  <1>4. CASE Evict
    BY <1>4, EvictTyped
  <1>5. CASE Deploy
    BY <1>5, DeployTyped
  <1>6. CASE UNCHANGED vars
    BY <1>6, FillsKept, PagesKept, StoreKept DEF vars, storeVars
  <1> QED
    BY <1>1, <1>2, <1>3, <1>4, <1>5, <1>6 DEF Next

LEMMA TypeInvAlways == Spec => []TypeInv
  BY InitTyped, StepTyped, PTL DEF Spec

\* Whatever windows, builds, files and cache names there are, every variable of
\* the service worker keeps its type; a window that shows the application runs
\* a build that was deployed, and every other one is closed, waits, reconnects
\* or shows an error page.
THEOREM TypeCorrect == Spec => []TypeOK
  <1>1. TypeInv => TypeOK
    BY DEF TypeInv
  <1> QED
    BY <1>1, TypeInvAlways, PTL

-----------------------------------------------------------------------------
(* A whole shell boots *)

\* Nothing but a fill that has just stored its files goes on to store a shell.
NoNewPut == \A f \in Fills : fill'[f].pc = "put" => fill'[f] = fill[f]

AssetsGrow == \A v \in Versions : assets[v] \subseteq assets'[v]

LEMMA FilesFirstKept ==
    ASSUME FilesFirst, NoNewPut, AssetsGrow
    PROVE  FilesFirst'
  BY DEF FilesFirst, NoNewPut, AssetsGrow

LEMMA BootKept ==
    ASSUME BootInv, NoNewPut, AssetsGrow, UNCHANGED <<shell, torn>>
    PROVE  BootInv'
  <1>1. FilesFirst'
    BY FilesFirstKept DEF BootInv
  <1>2. WholeShellIsBootable'
    BY DEF BootInv, WholeShellIsBootable, AssetsGrow
  <1> QED
    BY <1>1, <1>2 DEF BootInv

\* A step that leaves the caches alone, and replaces a fill by one that is not
\* about to store its shell.
LEMMA FillBoots ==
    ASSUME TypeInv, BootInv, NEW f \in Fills, NEW g, g.pc # "put", fill' = [fill EXCEPT ![f] = g],
           UNCHANGED <<shell, assets, torn>>
    PROVE  BootInv'
  <1>1. NoNewPut
    BY Typed DEF NoNewPut
  <1> QED
    BY <1>1, BootKept DEF AssetsGrow

LEMMA GiveUpBoots ==
    ASSUME TypeInv, BootInv, NEW f \in Fills, GiveUp(f), UNCHANGED <<shell, assets, torn>>
    PROVE  BootInv'
  <1> DEFINE g == IF f[2] = "install" THEN [fill[f] EXCEPT !.pc = "installed"] ELSE Idle
  <1>1. g.pc # "put"
    BY Typed DEF Idle, FillType
  <1>2. fill' = [fill EXCEPT ![f] = g]
    BY DEF GiveUp
  <1> HIDE DEF g
  <1> QED
    BY <1>1, <1>2, FillBoots

LEMMA StartBoots ==
    ASSUME TypeInv, BootInv, NEW t \in Tabs, Start(t), UNCHANGED <<shell, assets, torn>>
    PROVE  BootInv'
  <1> DEFINE bg == [Idle EXCEPT !.pc = "shell", !.ver = active, !.awaited = TRUE]
             main == [Idle EXCEPT !.pc = "shell", !.ver = active]
  <1>1. bg.pc = "shell" /\ main.pc = "shell"
    BY DEF Idle
  <1>2. \/ fill' = [fill EXCEPT ![<<t, "bg">>] = bg]
        \/ fill' = [f \in Fills |-> IF f[1] = t THEN main ELSE fill[f]]
    BY DEF Start
  <1> HIDE DEF bg, main
  <1>3. NoNewPut
    BY <1>1, <1>2, Typed DEF NoNewPut
  <1> QED
    BY <1>3, BootKept DEF AssetsGrow

LEMMA LaunchesBoot ==
    ASSUME TypeInv, BootInv, NEW t \in Tabs,
           Navigate(t) \/ NavigateUncontrolled(t) \/ Reload(t) \/ Close(t)
    PROVE  BootInv'
  <1>1. CASE Navigate(t) \/ Reload(t)
    BY <1>1, StartBoots DEF Navigate, Reload, storeVars
  <1>2. CASE NavigateUncontrolled(t) \/ Close(t)
    BY <1>2, BootKept DEF NavigateUncontrolled, Close, storeVars, NoNewPut, AssetsGrow
  <1> QED
    BY <1>1, <1>2

LEMMA FetchAssetBoots ==
    ASSUME TypeInv, BootInv, NEW t \in Tabs, NEW a \in Assets, FetchAsset(t, a)
    PROVE  BootInv'
  <1>1. AssetsGrow
    BY DEF FetchAsset, TypeInv, TypeOK, AssetsGrow
  <1> QED
    BY <1>1, BootKept DEF FetchAsset, NoNewPut

LEMMA InstallShellBoots ==
    ASSUME TypeInv, BootInv, NEW f \in Fills, InstallShell(f)
    PROVE  BootInv'
  <1>1. [fill[f] EXCEPT !.pc = "manifest"].pc = "manifest"
    BY Typed DEF FillType
  <1>2. NoNewPut
    BY <1>1, Typed DEF InstallShell, NoNewPut
  <1>3. FilesFirst'
    BY <1>2, FilesFirstKept DEF InstallShell, BootInv, AssetsGrow
  <1>4. \A v \in Versions : ~ torn'[v] => ~ torn[v] /\ shell'[v] = shell[v]
    BY DEF InstallShell, TypeInv, TypeOK
  <1>5. WholeShellIsBootable'
    BY <1>4 DEF InstallShell, BootInv, WholeShellIsBootable
  <1> QED
    BY <1>3, <1>5 DEF BootInv

LEMMA AddAllBoots ==
    ASSUME TypeInv, BootInv, NEW f \in Fills, AddAll(f)
    PROVE  BootInv'
  <1> DEFINE pc == IF f[2] = "install" THEN "installed" ELSE "put"
             g == [fill[f] EXCEPT !.pc = pc]
  <1>1. g.ver = fill[f].ver /\ g.manifest = fill[f].manifest
    BY Typed DEF FillType
  <1>2. fill' = [fill EXCEPT ![f] = g]
    BY DEF AddAll
  <1>3. AssetsGrow
    BY DEF AddAll, AssetsGrow
  <1>4. fill[f].ver \in Versions => Files[fill[f].manifest] \subseteq assets'[fill[f].ver]
    BY DEF AddAll
  <1> HIDE DEF g
  <1>5. FilesFirst'
    <2>1. SUFFICES ASSUME NEW h \in Fills, fill'[h].pc = "put", fill'[h].ver \in Versions
                   PROVE  Files[fill'[h].manifest] \subseteq assets'[fill'[h].ver]
      BY DEF FilesFirst
    <2>2. CASE h = f
      BY <1>1, <1>2, <1>4, <2>1, <2>2, Typed
    <2>3. CASE h # f
      <3>1. fill'[h] = fill[h]
        BY <1>2, <2>3, Typed
      <3> QED
        BY <1>3, <2>1, <3>1 DEF BootInv, FilesFirst, AssetsGrow
    <2> QED
      BY <2>2, <2>3
  <1>6. WholeShellIsBootable'
    BY <1>3 DEF AddAll, BootInv, WholeShellIsBootable, AssetsGrow
  <1> QED
    BY <1>5, <1>6 DEF BootInv

LEMMA PutShellBoots ==
    ASSUME TypeInv, BootInv, NEW f \in Fills, PutShell(f)
    PROVE  BootInv'
  <1>1. Idle.pc = "idle"
    BY DEF Idle
  <1>2. fill' = [fill EXCEPT ![f] = Idle] /\ assets' = assets
    BY DEF PutShell
  <1>3. NoNewPut
    BY <1>1, <1>2, Typed DEF NoNewPut
  <1>4. FilesFirst'
    BY <1>2, <1>3, FilesFirstKept DEF BootInv, AssetsGrow
  <1>5. CASE fill[f].ver \notin Versions
    <2>1. WholeShellIsBootable'
      BY <1>2, <1>5 DEF PutShell, BootInv, WholeShellIsBootable
    <2> QED
      BY <1>4, <2>1 DEF BootInv
  <1>6. CASE fill[f].ver \in Versions
    <2> DEFINE v == fill[f].ver
    <2>1. Files[fill[f].manifest] \subseteq assets[v]
      BY <1>6 DEF PutShell, BootInv, FilesFirst
    <2>2. shell' = [shell EXCEPT ![v] = fill[f].shell]
      BY <1>6 DEF PutShell
    <2>3. torn' = [torn EXCEPT ![v] = fill[f].shell # fill[f].manifest]
      BY <1>6 DEF PutShell
    <2>4. shell'[v] = fill[f].shell /\ (~ torn'[v] => fill[f].shell = fill[f].manifest)
      BY <1>6, <2>2, <2>3 DEF TypeInv, TypeOK
    <2>5. \A w \in Versions : w # v => shell'[w] = shell[w] /\ torn'[w] = torn[w]
      BY <1>6, <2>2, <2>3 DEF TypeInv, TypeOK
    <2>6. WholeShellIsBootable'
      BY <1>2, <1>6, <2>1, <2>4, <2>5 DEF BootInv, WholeShellIsBootable
    <2> QED
      BY <1>4, <2>6 DEF BootInv
  <1> QED
    BY <1>5, <1>6

\* What has been deleted is shell and files alike, and a fill of a deleted cache
\* writes where nobody sees it.
LEMMA ActivateBoots ==
    ASSUME TypeInv, BootInv, NEW f \in Fills, Activate(f)
    PROVE  BootInv'
  <1>1. \A v \in Versions : shell'[v] # 0 /\ ~ torn'[v]
                            => /\ shell'[v] = shell[v] /\ shell[v] # 0 /\ ~ torn[v]
                               /\ assets'[v] = assets[v]
    BY DEF Activate
  <1>2. WholeShellIsBootable'
    BY <1>1 DEF BootInv, WholeShellIsBootable
  <1>3. FilesFirst'
    <2>1. SUFFICES ASSUME NEW g \in Fills, fill'[g].pc = "put", fill'[g].ver \in Versions
                   PROVE  Files[fill'[g].manifest] \subseteq assets'[fill'[g].ver]
      BY DEF FilesFirst
    <2>2. fill'[g] = IF g = f THEN Idle ELSE IF fill[g].ver # active' THEN Detached(g) ELSE fill[g]
      BY DEF Activate
    <2>3. g # f
      BY <2>1, <2>2 DEF Idle
    <2>4. fill[g].ver = active'
      <3>1. SUFFICES ASSUME fill[g].ver # active' PROVE FALSE
        OBVIOUS
      <3>2. fill'[g] = Detached(g)
        BY <2>2, <2>3, <3>1
      <3>3. fill[g].pc = "put" => Detached(g).ver = 0
        BY Typed DEF Detached, FillType
      <3>4. fill[g].pc # "put" => Detached(g).pc # "put"
        BY Typed DEF Detached, FillType
      <3> QED
        BY <2>1, <3>2, <3>3, <3>4, VersionsAreNumbers
    <2>5. fill'[g] = fill[g]
      BY <2>2, <2>3, <2>4
    <2>6. assets'[fill[g].ver] = assets[fill[g].ver]
      BY <2>1, <2>4, <2>5 DEF Activate
    <2> QED
      BY <2>1, <2>5, <2>6 DEF BootInv, FilesFirst
  <1> QED
    BY <1>2, <1>3 DEF BootInv

LEMMA EvictBoots ==
    ASSUME TypeInv, BootInv, Evict
    PROVE  BootInv'
  BY DEF Evict, Idle, BootInv, FilesFirst, WholeShellIsBootable

LEMMA FillStepBoots ==
    ASSUME TypeInv, BootInv, NEW f \in Fills, FillStep(f)
    PROVE  BootInv'
  <1>1. CASE FetchShell(f)
    <2>1. [fill[f] EXCEPT !.pc = "manifest", !.shell = server].pc # "put"
      BY Typed DEF FillType
    <2> QED
      BY <1>1, <2>1, FillBoots DEF FetchShell
  <1>2. CASE FetchManifest(f)
    <2>1. [fill[f] EXCEPT !.pc = "assets", !.manifest = server].pc # "put"
      BY Typed DEF FillType
    <2> QED
      BY <1>2, <2>1, FillBoots DEF FetchManifest, storeVars
  <1>3. CASE AddAllFails(f) \/ FetchFails(f)
    BY <1>3, GiveUpBoots DEF AddAllFails, FetchFails, storeVars
  <1> QED
    BY <1>1, <1>2, <1>3, InstallShellBoots, AddAllBoots, PutShellBoots DEF FillStep

LEMMA StepBoots == TypeInv /\ BootInv /\ [Next]_vars => BootInv'
  <1> SUFFICES ASSUME TypeInv, BootInv, [Next]_vars PROVE BootInv'
    OBVIOUS
  <1>1. ASSUME NEW t \in Tabs, Navigate(t) \/ NavigateUncontrolled(t) \/ Reload(t) \/ Close(t)
        PROVE  BootInv'
    BY <1>1, LaunchesBoot
  <1>2. ASSUME NEW t \in Tabs, NEW a \in Assets, FetchAsset(t, a)
        PROVE  BootInv'
    BY <1>2, FetchAssetBoots
  <1>3. ASSUME NEW f \in Fills, Kill(f) \/ Register(f)
        PROVE  BootInv'
    <2>1. Idle.pc # "put" /\ [Idle EXCEPT !.pc = "shell", !.ver = Version[server]].pc # "put"
      BY DEF Idle
    <2>2. UNCHANGED <<shell, assets, torn>>
      BY <1>3 DEF Kill, Register, storeVars
    <2>3. \E g : g.pc # "put" /\ fill' = [fill EXCEPT ![f] = g]
      BY <1>3, <2>1 DEF Kill, Register
    <2> QED
      BY <2>2, <2>3, FillBoots
  <1>4. ASSUME NEW f \in Fills, FillStep(f) \/ Activate(f)
        PROVE  BootInv'
    BY <1>4, FillStepBoots, ActivateBoots
  <1>5. CASE Evict
    BY <1>5, EvictBoots
  <1>6. CASE Deploy \/ UNCHANGED vars
    BY <1>6, BootKept DEF Deploy, vars, storeVars, NoNewPut, AssetsGrow
  <1> QED
    BY <1>1, <1>2, <1>3, <1>4, <1>5, <1>6 DEF Next

\* A cached shell that one deployment gave, page and manifest, has all of its
\* build's files in the same cache, in every order of launches, fills,
\* deployments, new versions, evictions and stops of the worker: the files are
\* stored before the shell, and a deleted cache takes no shell any more.
THEOREM ShellBoots == Spec => []WholeShellIsBootable
  <1>1. Init => BootInv
    BY DEF Init, BootInv, FilesFirst, WholeShellIsBootable, Idle
  <1>2. BootInv => WholeShellIsBootable
    BY DEF BootInv
  <1> QED
    BY <1>1, <1>2, StepBoots, TypeInvAlways, PTL DEF Spec

=============================================================================
