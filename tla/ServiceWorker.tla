--------------------------- MODULE ServiceWorker ---------------------------
(***************************************************************************)
(* The portal's service worker: the cached application shell, the assets   *)
(* of the build it belongs to, and the versions of the worker that follow  *)
(* one another.                                                            *)
(*                                                                         *)
(* A fill brings a shell and the assets of a build into a cache: behind a  *)
(* launch that was answered from the cache ("bg"), as part of a launch     *)
(* that had no cached shell ("main"), or while a new version installs.     *)
(* Each of its fetches sees the build deployed at that moment.             *)
(***************************************************************************)
EXTENDS Naturals, Sequences

CONSTANTS
    Tabs,       \* windows of the portal
    Installer,  \* owner of the fill of a version being installed
    MaxBuild,   \* builds that get deployed
    Files,      \* Files[b]: the hashed files named by build b's manifest
    Version     \* Version[b]: the CACHE name in build b's sw.js

Builds == 1..MaxBuild
Versions == {Version[b] : b \in Builds}
Assets == UNION {Files[b] : b \in Builds}
Fills == (Tabs \X {"main", "bg"}) \cup {<<Installer, "install">>}

ASSUME ServiceWorkerAssumption ==
    /\ MaxBuild \in Nat \ {0}
    /\ Installer \notin Tabs
    /\ DOMAIN Files = Builds
    /\ Version \in [Builds -> Nat \ {0}]

VARIABLES
    server,  \* the build the server serves; files of other builds are gone
    active,  \* version of the active worker, 0 before the first
    order,   \* names of the existing caches, as created
    shell,   \* build of the shell in each cache, 0 for none
    assets,  \* files in each cache
    torn,    \* history: the shell came from another build than the files
    fill,    \* the fills under way
    page     \* the windows

vars == <<server, active, order, shell, assets, torn, fill, page>>
storeVars == <<order, shell, assets, torn>>

\* ver is the cache the fill writes to; 0 is a Cache object whose cache has
\* been deleted, which takes writes nobody will see.
Idle == [pc |-> "idle", ver |-> 0, shell |-> 0, manifest |-> 0, awaited |-> FALSE]
Closed == [at |-> "closed", build |-> 0]
Open(b) == [at |-> "open", build |-> b]
Spinner == [at |-> "spinner", build |-> 0]  \* the page that says "reconnecting"
Failed == [at |-> "error", build |-> 0]     \* an error page, the server's or the browser's

Init ==
    /\ server = 1
    /\ active = 0
    /\ order = <<>>
    /\ shell = [v \in Versions |-> 0]
    /\ assets = [v \in Versions |-> {}]
    /\ torn = [v \in Versions |-> FALSE]
    /\ fill = [f \in Fills |-> Idle]
    /\ page = [t \in Tabs |-> Closed]

Exists(v) == \E i \in DOMAIN order : order[i] = v
Opened(v) == IF Exists(v) THEN order ELSE Append(order, v)

\* caches.match(SHELL): the first cache, in order of creation, that has one.
Matching == {i \in DOMAIN order : shell[order[i]] # 0}
CachedShell ==
    IF Matching = {} THEN 0
    ELSE shell[order[CHOOSE i \in Matching : \A j \in Matching : i <= j]]
CachedAsset(a) == \E v \in Versions : Exists(v) /\ a \in assets[v]

-----------------------------------------------------------------------------
(* Launching *)

\* Mutated form of Start: a window that finds no shell opens nevertheless.
StartAnyway(t) ==
    /\ fill' = [fill EXCEPT ![<<t, "bg">>] = [Idle EXCEPT !.pc = "shell", !.ver = active, !.awaited = TRUE]]
    /\ page' = [page EXCEPT ![t] = Open(CachedShell)]

\* The fetch handler of a navigation: the revalidation always starts; a cached
\* shell is the answer at once, and only then does the event wait for the
\* revalidation.
Start(t) ==
    IF CachedShell # 0
    THEN /\ fill' = [fill EXCEPT ![<<t, "bg">>] = [Idle EXCEPT !.pc = "shell", !.ver = active, !.awaited = TRUE]]
         /\ page' = [page EXCEPT ![t] = Open(CachedShell)]
    ELSE /\ fill' = [f \in Fills |-> IF f[1] = t THEN [Idle EXCEPT !.pc = "shell", !.ver = active] ELSE fill[f]]
         /\ page' = [page EXCEPT ![t] = [at |-> "waiting", build |-> 0]]

\* A window has one navigation at a time: it starts when the last one's fills
\* are through.
Resting(t) == fill[<<t, "bg">>] = Idle /\ fill[<<t, "main">>] = Idle

Navigate(t) ==
    /\ page[t] = Closed
    /\ active # 0
    /\ Resting(t)
    /\ Start(t)
    /\ UNCHANGED <<server, active, storeVars>>

\* Before the first worker is active the browser goes to the network.
NavigateUncontrolled(t) ==
    /\ page[t] = Closed
    /\ active = 0
    /\ \E p \in {Open(server), Failed} : page' = [page EXCEPT ![t] = p]
    /\ UNCHANGED <<server, active, storeVars, fill>>

\* Mutated form of Reload: the reconnecting page waits for the user.
NeverReload(t) == FALSE /\ page[t].at = "spinner" /\ UNCHANGED vars

\* The reconnecting page loads itself again after two seconds.
Reload(t) ==
    /\ page[t].at = "spinner"
    /\ Resting(t)
    /\ Start(t)
    /\ UNCHANGED <<server, active, storeVars>>

\* The user closes a window; a press of the browser's reload is a closing and
\* a new launch.
Close(t) ==
    /\ page[t].at \in {"open", "spinner", "error"}
    /\ page' = [page EXCEPT ![t] = Closed]
    /\ UNCHANGED <<server, active, storeVars, fill>>

\* An asset request: from any cache, else from the server, which has the files
\* of the current build only; what it has is cached.
FetchAsset(t, a) ==
    /\ page[t].at = "open"
    /\ active # 0
    /\ a \in Files[page[t].build]
    /\ ~CachedAsset(a)
    /\ a \in Files[server]
    /\ order' = Opened(active)
    /\ assets' = [assets EXCEPT ![active] = @ \cup {a}]
    /\ UNCHANGED <<server, active, shell, torn, fill, page>>

-----------------------------------------------------------------------------
(* Fills *)

Waiting(f) == f[2] = "main" /\ page[f[1]].at = "waiting"

\* The response a launch without a cached shell was waiting for.
Respond(f, p) == page' = IF Waiting(f) THEN [page EXCEPT ![f[1]] = p] ELSE page

\* revalidate: fetch SHELL past the HTTP cache, open the cache.
FetchShell(f) ==
    /\ f[2] # "install"
    /\ fill[f].pc = "shell"
    /\ fill' = [fill EXCEPT ![f].pc = "manifest", ![f].shell = server]
    /\ order' = Opened(fill[f].ver)
    /\ UNCHANGED <<server, active, shell, assets, torn, page>>

\* install: the shell goes into the cache at once, or is missed.
InstallShell(f) ==
    /\ f[2] = "install"
    /\ fill[f].pc = "shell"
    /\ order' = Opened(fill[f].ver)
    /\ fill' = [fill EXCEPT ![f].pc = "manifest"]
    /\ \/ /\ shell' = [shell EXCEPT ![fill[f].ver] = server]
          /\ torn' = [torn EXCEPT ![fill[f].ver] = TRUE]
       \/ UNCHANGED <<shell, torn>>
    /\ UNCHANGED <<server, active, assets, page>>

\* Where a fill goes when precacheBuild says false.
GiveUp(f) == fill' = [fill EXCEPT ![f] = IF f[2] = "install" THEN [fill[f] EXCEPT !.pc = "installed"] ELSE Idle]

FetchManifest(f) ==
    /\ fill[f].pc = "manifest"
    /\ fill' = [fill EXCEPT ![f].pc = "assets", ![f].manifest = server]
    /\ UNCHANGED <<server, active, storeVars, page>>

\* Mutated form of AddAllFails: the shell is stored whatever became of the files.
AddAllFailsUnseen(f) ==
    /\ fill[f].pc = "assets"
    /\ fill' = [fill EXCEPT ![f].pc = IF f[2] = "install" THEN "installed" ELSE "put"]
    /\ Respond(f, Open(fill[f].shell))
    /\ UNCHANGED <<server, active, storeVars>>

\* addAll stores all files or none; a file of a build that has gone is a 404,
\* and the network may break on any of them.
AddAllFails(f) ==
    /\ fill[f].pc = "assets"
    /\ GiveUp(f)
    /\ Respond(f, Open(fill[f].shell))
    /\ UNCHANGED <<server, active, storeVars>>

AddAll(f) ==
    /\ fill[f].pc = "assets"
    /\ Files[fill[f].manifest] \subseteq Files[server]
    /\ fill' = [fill EXCEPT ![f].pc = IF f[2] = "install" THEN "installed" ELSE "put"]
    /\ assets' = [v \in Versions |-> IF v = fill[f].ver THEN assets[v] \cup Files[fill[f].manifest] ELSE assets[v]]
    /\ Respond(f, Open(fill[f].shell))
    /\ UNCHANGED <<server, active, order, shell, torn>>

\* Mutated form of PutShell: a shell that is cached already is kept.
PutFirstShell(f) ==
    /\ fill[f].pc = "put"
    /\ LET v == fill[f].ver IN
       IF v \in Versions /\ shell[v] = 0
       THEN /\ shell' = [shell EXCEPT ![v] = fill[f].shell]
            /\ torn' = [torn EXCEPT ![v] = fill[f].shell # fill[f].manifest]
       ELSE UNCHANGED <<shell, torn>>
    /\ fill' = [fill EXCEPT ![f] = Idle]
    /\ UNCHANGED <<server, active, order, assets, page>>

PutShell(f) ==
    /\ fill[f].pc = "put"
    /\ LET v == fill[f].ver IN
       IF v \in Versions
       THEN /\ shell' = [shell EXCEPT ![v] = fill[f].shell]
            /\ torn' = [torn EXCEPT ![v] = fill[f].shell # fill[f].manifest]
       ELSE UNCHANGED <<shell, torn>>
    /\ fill' = [fill EXCEPT ![f] = Idle]
    /\ UNCHANGED <<server, active, order, assets, page>>

\* A fetch that fails.  A launch without a shell retries; when the last attempt
\* throws it gets the reconnecting page, but a 4xx, or the 5xx of the last
\* attempt, is returned and shown as it is.  One without the manifest gets the
\* shell it has fetched.
FetchFails(f) ==
    /\ \/ /\ f[2] # "install" /\ fill[f].pc = "shell"
          /\ Respond(f, Spinner) \/ Respond(f, Failed)
       \/ fill[f].pc = "manifest" /\ Respond(f, Open(fill[f].shell))
    /\ GiveUp(f)
    /\ UNCHANGED <<server, active, storeVars>>

FillStep(f) ==
    \/ FetchShell(f) \/ InstallShell(f) \/ FetchManifest(f)
    \/ AddAll(f) \/ AddAllFails(f) \/ PutShell(f) \/ FetchFails(f)

\* The browser stops the worker: what it was doing is gone, and a launch that
\* waited for it ends in the browser's error page.
Kill(f) ==
    /\ fill[f] # Idle
    /\ fill' = [fill EXCEPT ![f] = Idle]
    /\ Respond(f, Failed)
    /\ UNCHANGED <<server, active, storeVars>>

-----------------------------------------------------------------------------
(* Versions of the worker *)

\* register() and update() of a running window, or the browser's own check at
\* a navigation, find a new sw.js.
Register(f) ==
    /\ f[2] = "install"
    /\ fill[f] = Idle
    /\ \E t \in Tabs : page[t].at = "open"
    /\ Version[server] # active
    /\ fill' = [fill EXCEPT ![f] = [Idle EXCEPT !.pc = "shell", !.ver = Version[server]]]
    /\ UNCHANGED <<server, active, storeVars, page>>

\* A fill keeps its Cache object when the cache is deleted.  One that has yet
\* to open it creates the cache anew.
Detached(f) ==
    IF fill[f].pc \in {"manifest", "assets", "put"} THEN [fill[f] EXCEPT !.ver = 0] ELSE fill[f]

\* skipWaiting: the new version takes over as soon as the old one has no event
\* pending, and drops the caches of the others.
Activate(f) ==
    /\ fill[f].pc = "installed"
    /\ \A g \in Fills : ~fill[g].awaited /\ ~Waiting(g)
    /\ active' = fill[f].ver
    /\ order' = IF Exists(active') THEN <<active'>> ELSE <<>>
    /\ shell' = [v \in Versions |-> IF v = active' THEN shell[v] ELSE 0]
    /\ assets' = [v \in Versions |-> IF v = active' THEN assets[v] ELSE {}]
    /\ torn' = [v \in Versions |-> v = active' /\ torn[v]]
    /\ fill' = [g \in Fills |-> IF g = f THEN Idle ELSE IF fill[g].ver # active' THEN Detached(g) ELSE fill[g]]
    /\ UNCHANGED <<server, page>>

\* The browser evicts the storage of a site that is not in use.
Evict ==
    /\ order # <<>>
    /\ \A t \in Tabs : page[t] = Closed
    /\ \A f \in Fills : fill[f] = Idle
    /\ order' = <<>>
    /\ shell' = [v \in Versions |-> 0]
    /\ assets' = [v \in Versions |-> {}]
    /\ torn' = [v \in Versions |-> FALSE]
    /\ UNCHANGED <<server, active, fill, page>>

-----------------------------------------------------------------------------
(* The world *)

Deploy ==
    /\ server < MaxBuild
    /\ server' = server + 1
    /\ UNCHANGED <<active, storeVars, fill, page>>

Next ==
    \/ \E t \in Tabs : Navigate(t) \/ NavigateUncontrolled(t) \/ Reload(t) \/ Close(t)
    \/ \E t \in Tabs, a \in Assets : FetchAsset(t, a)
    \/ \E f \in Fills : FillStep(f) \/ Kill(f) \/ Register(f) \/ Activate(f)
    \/ Evict \/ Deploy

Spec == Init /\ [][Next]_vars

\* The browser runs a worker's code to its end, the reconnecting page's timer
\* fires, and a network that is asked again and again answers some time.
\* Users, deployments and kills are not fair.
FairSpec ==
    /\ Spec
    /\ \A f \in Fills : WF_vars(FillStep(f)) /\ SF_vars(FetchShell(f))
    /\ \A t \in Tabs : WF_vars(Reload(t))

-----------------------------------------------------------------------------
(* Properties *)

\* Every variable has its type; a window that shows the application runs some
\* build.
TypeOK ==
    /\ server \in Builds
    /\ active \in Versions \cup {0}
    /\ order \in Seq(Versions)
    /\ shell \in [Versions -> Builds \cup {0}]
    /\ assets \in [Versions -> SUBSET Assets]
    /\ torn \in [Versions -> BOOLEAN]
    /\ fill \in [Fills -> [pc : {"idle", "shell", "manifest", "assets", "put", "installed"},
                           ver : Versions \cup {0}, shell : Builds \cup {0},
                           manifest : Builds \cup {0}, awaited : BOOLEAN]]
    /\ page \in [Tabs -> {Closed} \cup {Open(b) : b \in Builds}
                         \cup [at : {"waiting", "spinner", "error"}, build : {0}]]

\* A shell that a revalidation stored while one build was deployed has all of
\* that build's files beside it, whatever launches, versions and deletions of
\* caches it overlapped with: it boots without a network.
WholeShellIsBootable ==
    \A v \in Versions : shell[v] # 0 /\ ~torn[v] => Files[shell[v]] \subseteq assets[v]

\* The comment on the fetch handler: "the cached shell always has matching
\* cached assets".  An installation stores the shell first and lets nothing
\* stop it, and a deployment between a revalidation's fetches pairs a shell
\* with another build's files.
CachedShellIsComplete ==
    active # 0 /\ CachedShell # 0 /\ (\A f \in Fills : fill[f] = Idle)
        => \A a \in Files[CachedShell] : CachedAsset(a)

\* As long as launches revalidate again and again, the shell that is served
\* ends up as the deployed one: neither an old answer that is stored late nor a
\* cache an older version created anew keeps an old build on the screen.
Revalidated == \E f \in Fills : PutShell(f) /\ fill[f].ver = active
LaunchesGetFresh == []<><<Revalidated>>_vars => <>[](CachedShell \in {0, server})

\* A reconnecting page does not reconnect for ever on a network that answers
\* some time: it goes on asking until it shows the application, or the error
\* page of the server or the browser, unless it is closed.
ReconnectEnds ==
    \A t \in Tabs : page[t].at = "spinner" ~> page[t].at \in {"open", "closed", "error"}

\* "shows 'reconnecting' and self-heals instead of a permanent white screen":
\* a reconnecting page ends in the application, unless it is closed.  An answer
\* that is an error stays on the screen: nothing reloads it.
ReconnectHeals ==
    \A t \in Tabs : page[t].at = "spinner" ~> page[t].at \in {"open", "closed"}

=============================================================================
