---------------------------- MODULE WorkerDeploy ----------------------------
(***************************************************************************)
(* The deployment of the inbound Email Workers: WorkerDeployer, the panel  *)
(* action and the commands that call it, cf:worker:sync, and the settings  *)
(* page that changes an account meanwhile.                                 *)
(*                                                                         *)
(* All of them run in the app container and share one rendered             *)
(* wrangler.toml, which wrangler reads again at each of its calls.  A      *)
(* deployer is a request or a command; the rows it works on are those it   *)
(* loaded when it started.  A Worker is named after the release's prefix   *)
(* and its account's slug and lives in a Cloudflare account; tokens made   *)
(* from the application's template may act on any of them.  Every account  *)
(* is connected from its registration on, so isConnected() never stops a   *)
(* deployment.                                                             *)
(***************************************************************************)
EXTENDS Naturals, FiniteSets

CONSTANTS
    Accounts,    \* rows of cloudflare_accounts; one slug and one secret each
    AccountIds,  \* values the account_id column may take
    WorkerVars,  \* APP_URL, script version, fallback address, inline limit
    NamePrefixes,\* values of CLOUDFLARE_WORKER_PREFIX
    Stubs,       \* contents of wrangler.toml.stub: compatibility, bindings
    Envs,        \* releases: what of each of these they have
    First,       \* the release that runs first
    Deployers,
    NoFile,      \* no wrangler.toml was rendered yet
    NoHash,      \* worker_config_hash is null
    NoSecret,    \* the Worker has no WEBHOOK_SECRET
    MaxStarts,   \* bound: deployers ever started
    MaxSaves,    \* bound: saves of the settings page
    MaxReleases  \* bound: releases of the app container

Configs == [worker : Accounts, id : AccountIds, prefix : NamePrefixes, values : WorkerVars, stub : Stubs]
Hashes == [id : AccountIds, values : WorkerVars, secret : Accounts]

ASSUME WorkerDeployAssumption ==
    /\ AccountIds # {} /\ First \in Envs
    /\ Envs \subseteq [values : WorkerVars, prefix : NamePrefixes, stub : Stubs]
    /\ NoFile \notin Configs /\ NoHash \notin Hashes /\ NoSecret \notin Accounts
    /\ MaxStarts \in Nat /\ MaxSaves \in Nat /\ MaxReleases \in Nat

VARIABLES
    env,       \* configuration of the running release
    id,        \* account_id of each account
    hash,      \* worker_config_hash of each account
    toml,      \* the rendered wrangler.toml
    workers,   \* at Cloudflare, by account id and Worker name (prefix and slug)
    run,       \* what each deployer is doing
    whole,     \* accounts whose last deployment ran alone, to its end, secret included
    starts, saves, releases

rowVars == <<id, hash>>
cloudVars == <<workers, whole>>
countVars == <<starts, saves, releases>>
vars == <<env, toml, rowVars, run, cloudVars, countVars>>

Stages == {"loop", "upload", "secret", "record"}
Rows == [id : AccountIds, hash : Hashes \cup {NoHash}]
Places == AccountIds \X NamePrefixes \X Accounts

\* A deployer at work.  `loaded` are the rows as it read them, `todo` the accounts
\* it has still to look at, `account` the one it is deploying, `fell` those whose
\* deployment threw, `alone` whether no other deployer was active meanwhile,
\* `refused` whether the secret it put last was refused.
Runs == [stage : Stages, forced : BOOLEAN, todo : SUBSET Accounts,
         account : SUBSET Accounts, loaded : [Accounts -> Rows],
         fell : SUBSET Accounts, alone : BOOLEAN, refused : BOOLEAN]
Idle == [stage |-> "idle"]

Active == {d \in Deployers : run[d] # Idle}
At(d, s) == run[d].stage = s
Account(d) == CHOOSE a \in run[d].account : TRUE
Loaded(d) == run[d].loaded[Account(d)]

Init ==
    /\ env = First
    /\ id \in [Accounts -> AccountIds]
    /\ hash = [a \in Accounts |-> NoHash]
    /\ toml = NoFile
    /\ workers = [w \in Places |-> [config |-> NoFile, secret |-> NoSecret]]
    /\ run = [d \in Deployers |-> Idle]
    /\ whole = {}
    /\ starts = 0 /\ saves = 0 /\ releases = 0

-----------------------------------------------------------------------------
(* The configuration and its hash *)

\* renderWrangler.
RenderWrangler(a, i) ==
    [worker |-> a, id |-> i, prefix |-> env.prefix, values |-> env.values, stub |-> env.stub]

\* Mutated form of ConfigHash: the account id is not hashed.
HashWithoutId(a, i) == [values |-> env.values, secret |-> a]

\* configHash: neither the Worker's name nor what else the stub says is in it.
\* The webhook secret is drawn once for an account, which stands for it.
ConfigHash(a, i) == [id |-> i, values |-> env.values, secret |-> a]

IsDrifted(a, row) == row.hash # ConfigHash(a, row.id)
Row(a) == [id |-> id[a], hash |-> hash[a]]

-----------------------------------------------------------------------------
(* Deployers *)

\* The panel action, cf:deploy-worker and cf:doctor --deploy take one account
\* and deploy it; cf:worker:sync loads them all and deploys what has drifted.
Start(d) ==
    /\ d \notin Active /\ starts < MaxStarts
    /\ \E forced \in BOOLEAN, a \in Accounts :
        run' = [e \in Deployers |->
            IF e = d
            THEN [stage |-> "loop", forced |-> forced,
                  todo |-> IF forced THEN {a} ELSE Accounts, account |-> {},
                  loaded |-> [x \in Accounts |-> Row(x)], fell |-> {},
                  alone |-> Active = {}, refused |-> FALSE]
            ELSE IF e \in Active THEN [run[e] EXCEPT !.alone = FALSE] ELSE Idle]
    /\ starts' = starts + 1
    /\ UNCHANGED <<env, toml, rowVars, cloudVars, saves, releases>>

\* The loop skips an account whose row, as it was loaded, shows no drift.
Skip(d) ==
    /\ At(d, "loop") /\ ~ run[d].forced
    /\ \E a \in run[d].todo :
        /\ ~ IsDrifted(a, run[d].loaded[a])
        /\ run' = [run EXCEPT ![d].todo = @ \ {a}]
    /\ UNCHANGED <<env, toml, rowVars, cloudVars, countVars>>

\* Mutated form of Render: a file is only written when there is one to replace.
RenderOver(d) ==
    /\ At(d, "loop")
    /\ \E a \in run[d].todo :
        /\ run[d].forced \/ IsDrifted(a, run[d].loaded[a])
        /\ toml' = IF toml = NoFile THEN NoFile ELSE RenderWrangler(a, run[d].loaded[a].id)
        /\ run' = [run EXCEPT ![d].stage = "upload", ![d].todo = @ \ {a},
                              ![d].account = {a}, ![d].refused = FALSE]
    /\ UNCHANGED <<env, rowVars, cloudVars, countVars>>

\* deploy() begins: the file is written over whatever is there.  A missing stub
\* ends this deployment before that, and a failed npm install after it.
Render(d) ==
    /\ At(d, "loop")
    /\ \E a \in run[d].todo :
        LET file == RenderWrangler(a, run[d].loaded[a].id) IN
        /\ run[d].forced \/ IsDrifted(a, run[d].loaded[a])
        /\ \/ /\ toml' = file
              /\ run' = [run EXCEPT ![d].stage = "upload", ![d].todo = @ \ {a},
                                    ![d].account = {a}, ![d].refused = FALSE]
           \/ /\ toml' \in {toml, file}
              /\ run' = [run EXCEPT ![d].todo = @ \ {a}, ![d].fell = @ \cup {a}]
    /\ UNCHANGED <<env, rowVars, cloudVars, countVars>>

\* The Cloudflare accounts a wrangler call may act on: the one in the file it
\* finds, or the one in its environment.
Targets(d) == {toml.id, Loaded(d).id}

\* What is known of the two accounts' Workers no longer counts until the
\* deployment is recorded.
Unsettle(d) == whole' = whole \ {toml.worker, Account(d)}

\* wrangler changes the Worker the file names, in one of them.
Named(i) == <<i, toml.prefix, toml.worker>>

Deployed(d) ==
    /\ \E i \in Targets(d) : workers' = [workers EXCEPT ![Named(i)].config = toml]
    /\ Unsettle(d)

Signed(d) ==
    /\ \E i \in Targets(d) : workers' = [workers EXCEPT ![Named(i)].secret = Account(d)]
    /\ Unsettle(d)

\* Mutated form of Throws: the exception ends the whole pass.
ThrowsOut(d) ==
    run' = [run EXCEPT ![d].stage = "loop", ![d].fell = @ \cup {Account(d)},
                       ![d].account = {}, ![d].todo = {}]

\* deploy() throws; its caller reports it, and the sync goes on.
Throws(d) ==
    run' = [run EXCEPT ![d].stage = "loop", ![d].fell = @ \cup {Account(d)},
                       ![d].account = {}]

\* `wrangler deploy`: it succeeds, or it fails or times out with or without
\* having taken effect.  A Worker keeps the secret it has.
Upload(d) ==
    /\ At(d, "upload")
    /\ \/ Deployed(d) /\ run' = [run EXCEPT ![d].stage = "secret"]
       \/ Deployed(d) /\ Throws(d)
       \/ Throws(d) /\ UNCHANGED cloudVars
    /\ UNCHANGED <<env, toml, rowVars, countVars>>

\* `wrangler secret put`, with the secret of the row: nobody looks at its exit
\* code, but a time-out throws.
PutSecret(d) ==
    /\ At(d, "secret")
    /\ \/ Signed(d) /\ run' = [run EXCEPT ![d].stage = "record"]
       \/ /\ run' = [run EXCEPT ![d].stage = "record", ![d].refused = TRUE]
          /\ UNCHANGED cloudVars
       \/ Signed(d) /\ Throws(d)
       \/ Throws(d) /\ UNCHANGED cloudVars
    /\ UNCHANGED <<env, toml, rowVars, countVars>>

\* Saving the model writes the columns that differ from the row as loaded.
SaveRow(a, row) ==
    /\ hash' = IF IsDrifted(a, row) THEN [hash EXCEPT ![a] = ConfigHash(a, row.id)] ELSE hash
    /\ UNCHANGED id

Record(d) ==
    LET a == Account(d) IN
    /\ At(d, "record")
    /\ SaveRow(a, Loaded(d))
    /\ run' = [run EXCEPT ![d].stage = "loop", ![d].account = {}]
    /\ whole' = IF run[d].alone /\ ~ run[d].refused THEN whole \cup {a} ELSE whole \ {a}
    /\ UNCHANGED <<env, toml, workers, countVars>>

Finish(d) ==
    /\ At(d, "loop") /\ run[d].todo = {}
    /\ run' = [run EXCEPT ![d] = Idle]
    /\ UNCHANGED <<env, toml, rowVars, cloudVars, countVars>>

\* The request or the command is killed.
Die(d) ==
    /\ d \in Active
    /\ run' = [run EXCEPT ![d] = Idle]
    /\ UNCHANGED <<env, toml, rowVars, cloudVars, countVars>>

-----------------------------------------------------------------------------
(* The rest of the application *)

\* Settings::save.
SaveSettings(a) ==
    /\ saves < MaxSaves /\ saves' = saves + 1
    /\ \E i \in AccountIds : id' = [id EXCEPT ![a] = i]
    /\ UNCHANGED <<env, toml, hash, run, cloudVars, starts, releases>>

\* A new container takes over, forwards or back: its image has no rendered
\* file, and what ran in the old one is gone.
Release ==
    /\ releases < MaxReleases /\ releases' = releases + 1
    /\ env' \in Envs
    /\ toml' = NoFile
    /\ run' = [d \in Deployers |-> Idle]
    /\ UNCHANGED <<rowVars, cloudVars, starts, saves>>

Step(d) ==
    \/ Start(d) \/ Skip(d) \/ Render(d) \/ Upload(d) \/ PutSecret(d) \/ Record(d)
    \/ Finish(d) \/ Die(d)

Next ==
    \/ \E d \in Deployers : Step(d)
    \/ \E a \in Accounts : SaveSettings(a)
    \/ Release

Spec == Init /\ [][Next]_vars

-----------------------------------------------------------------------------
(* Properties *)

TypeOK ==
    /\ env \in Envs
    /\ id \in [Accounts -> AccountIds]
    /\ hash \in [Accounts -> Hashes \cup {NoHash}]
    /\ toml \in Configs \cup {NoFile}
    /\ workers \in [Places -> [config : Configs \cup {NoFile}, secret : Accounts \cup {NoSecret}]]
    /\ run \in [Deployers -> Runs \cup {Idle}]
    /\ whole \subseteq Accounts
    /\ starts \in 0..MaxStarts /\ saves \in 0..MaxSaves /\ releases \in 0..MaxReleases
    /\ \A d \in Active :
        ~ At(d, "loop") => toml # NoFile /\ \E a \in Accounts : run[d].account = {a}

\* In the Cloudflare account of a's row there is a Worker of a that has what the
\* hash covers, and whose signature the webhook accepts.  Its prefix and the rest
\* of its stub are those of the release that deployed it.
Delivers(a) ==
    \E c \in Configs :
        /\ c.worker = a /\ c.id = id[a] /\ c.values = env.values
        /\ workers[<<c.id, c.prefix, a>>] = [config |-> c, secret |-> a]

\* One undisturbed deployment settles an account for good, whatever went wrong
\* before it and whatever settings and releases change after it, also those
\* saved while it worked with the row it had loaded: as long as no later
\* deployment touches a Worker of the account, "not drifted" means that one
\* delivers.
DriftIsHonest == \A a \in whole : ~ IsDrifted(a, Row(a)) => Delivers(a)

\* A sync pass that nothing ran beside has brought every account up to what it
\* loaded, except those whose own deployment threw.
SyncPassIsThorough ==
    \A d \in Active :
        At(d, "loop") /\ run[d].todo = {} /\ run[d].alone /\ ~ run[d].forced =>
            \A a \in Accounts \ run[d].fell : hash[a] = ConfigHash(a, run[d].loaded[a].id)

\* What the hash is for, without the restriction: a Worker that is not shown as
\* drifted, and is not being deployed, has what the hash covers and its secret.
NotDriftedIsDeployed ==
    Active = {} => \A a \in Accounts : ~ IsDrifted(a, Row(a)) => Delivers(a)

\* configHash's docblock: the hash is of everything that affects the deployed
\* Worker, so what is not drifted is what would be rendered.
NotDriftedIsRendered ==
    \A a \in whole : ~ IsDrifted(a, Row(a)) =>
        LET file == RenderWrangler(a, id[a])
        IN  workers[<<file.id, file.prefix, a>>].config = file

\* Each Worker is given the secret of its own account.
OwnSecretOnly == \A w \in Places : workers[w].secret \in {w[3], NoSecret}
=============================================================================
