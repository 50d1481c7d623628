-------------------------- MODULE Cloudflare_proofs --------------------------
(***************************************************************************)
(* Proofs about what the panel keeps alike at Cloudflare and at home.      *)
(* First the deployment of the Email Workers, for any accounts, Cloudflare *)
(* accounts, releases and deployers; then the mirror of Email Routing, for *)
(* any rules, addresses and requests.                                      *)
(***************************************************************************)
EXTENDS WorkerDeploy, RoutingSync, FiniteSetTheorems, SequenceTheorems, TLAPS

(***************************************************************************)
(* Between two accounts a deployer has none in hand; the one in hand is    *)
(* not looked at again.                                                    *)
(***************************************************************************)
InHand(d) ==
    /\ run[d].account \cap run[d].todo = {}
    /\ At(d, "loop") => run[d].account = {}

TypeInv == TypeOK /\ \A d \in Active : InHand(d)

\* The Worker that d deploys: this release's name of it, in the account its row names.
Worker(d) == workers[<<Loaded(d).id, env.prefix, Account(d)>>]

(***************************************************************************)
(* Nobody else is at work.  The accounts ahead have the hashes that were   *)
(* loaded, the file is the one d rendered, and what wrangler was told so   *)
(* far is at Cloudflare.                                                   *)
(***************************************************************************)
Undisturbed(d) ==
    /\ Active = {d}
    /\ \A a \in run[d].todo \cup run[d].account : hash[a] = run[d].loaded[a].hash
    /\ ~ At(d, "loop") => toml = RenderWrangler(Account(d), Loaded(d).id)
    /\ At(d, "secret") \/ At(d, "record") => Worker(d).config = toml
    /\ At(d, "record") /\ ~ run[d].refused => Worker(d).secret = Account(d)

\* The accounts a pass has behind it, but for those whose deployment threw, have
\* the hash of the configuration it loaded.
Behind(d) ==
    ~ run[d].forced =>
        \A a \in Accounts \ (run[d].fell \cup run[d].todo \cup run[d].account) :
            hash[a] = ConfigHash(a, run[d].loaded[a].id)

AloneInv == \A d \in Active : run[d].alone => Undisturbed(d) /\ Behind(d)

\* What a hash was recorded for is at Cloudflare, with the account's secret.
SettledBy(a, c) ==
    /\ c.worker = a /\ hash[a] = [id |-> c.id, values |-> c.values, secret |-> a]
    /\ workers[<<c.id, c.prefix, a>>] = [config |-> c, secret |-> a]

Settled(a) == \E c \in Configs : SettledBy(a, c)

WholeInv == \A a \in whole : Settled(a)

-----------------------------------------------------------------------------
(* Deployment: type correctness *)

LEMMA InitTyped == Init => TypeInv
  <1> SUFFICES ASSUME Init PROVE TypeInv
    OBVIOUS
  <1>1. Active = {}
    BY DEF Init, Active
  <1>2. TypeOK
    BY <1>1, WorkerDeployAssumption DEF Init, TypeOK
  <1> QED
    BY <1>1, <1>2 DEF TypeInv

\* A deployer is idle or at one of the stages.
LEMMA IdleIsNoStage == \A r \in Runs : r # Idle /\ r.stage # "idle"
  BY DEF Runs, Stages, Idle

LEMMA AtWork ==
    ASSUME TypeInv, NEW d \in Deployers, NEW s \in Stages, At(d, s)
    PROVE  d \in Active /\ run[d] \in Runs /\ InHand(d)
  <1>1. run[d] # Idle
    BY DEF At, Stages, Idle
  <1> QED
    BY <1>1 DEF TypeInv, TypeOK, Active

LEMMA ActiveTyped ==
    ASSUME TypeInv, NEW d \in Active
    PROVE  d \in Deployers /\ run[d] \in Runs /\ InHand(d)
  BY DEF TypeInv, TypeOK, Active

\* A deployer past its loop has one account in hand, and there is a file.
LEMMA OneInHand ==
    ASSUME TypeInv, NEW d \in Active, ~ At(d, "loop")
    PROVE  /\ Account(d) \in Accounts /\ run[d].account = {Account(d)}
           /\ Loaded(d) \in Rows /\ toml \in Configs
  <1>1. run[d] \in Runs
    BY ActiveTyped
  <1>2. PICK a \in Accounts : run[d].account = {a}
    BY DEF TypeInv, TypeOK
  <1>3. Account(d) = a
    BY <1>2 DEF Account
  <1>4. toml \in Configs
    BY DEF TypeInv, TypeOK
  <1>5. Loaded(d) \in Rows
    BY <1>1, <1>3 DEF Loaded, Runs
  <1> QED
    BY <1>2, <1>3, <1>4, <1>5

\* A step of one deployer, by what it is doing afterwards.
LEMMA DeployerStepTyped ==
    ASSUME TypeInv, NEW d \in Deployers, NEW r \in Runs, run' = [run EXCEPT ![d] = r],
           toml' = toml \/ toml' \in Configs,
           r.account \cap r.todo = {},
           r.stage = "loop" => r.account = {},
           r.stage # "loop" => toml' # NoFile /\ \E a \in Accounts : r.account = {a},
           hash' \in [Accounts -> Hashes \cup {NoHash}],
           workers' \in [Places ->
                           [config : Configs \cup {NoFile}, secret : Accounts \cup {NoSecret}]],
           whole' \subseteq Accounts,
           UNCHANGED <<env, id, countVars>>
    PROVE  TypeInv'
  <1>1. run' \in [Deployers -> Runs \cup {Idle}]
    BY DEF TypeInv, TypeOK
  <1>2. run'[d] = r /\ \A e \in Deployers \ {d} : run'[e] = run[e]
    BY DEF TypeInv, TypeOK
  <1>3. toml' \in Configs \cup {NoFile} /\ (toml # NoFile => toml' # NoFile)
    BY WorkerDeployAssumption DEF TypeInv, TypeOK
  <1>4. \A e \in Active' : /\ InHand(e)'
                           /\ ~ At(e, "loop")' => toml' # NoFile /\ \E a \in Accounts : run'[e].account = {a}
    <2> SUFFICES ASSUME NEW e \in Active'
                 PROVE  /\ InHand(e)'
                        /\ ~ At(e, "loop")' => toml' # NoFile /\ \E a \in Accounts : run'[e].account = {a}
      OBVIOUS
    <2>1. CASE e = d
      BY <1>2, <2>1 DEF InHand, At
    <2>2. CASE e # d
      <3>1. e \in Active /\ run'[e] = run[e]
        BY <1>2, <2>2 DEF Active
      <3> QED
        BY <1>3, <3>1 DEF TypeInv, TypeOK, InHand, At
    <2> QED
      BY <2>1, <2>2
  <1>5. TypeOK'
    BY <1>1, <1>3, <1>4 DEF TypeInv, TypeOK, countVars
  <1> QED
    BY <1>4, <1>5 DEF TypeInv

\* A deployer stops.
LEMMA StopsTyped ==
    ASSUME TypeInv, NEW d \in Deployers, run' = [run EXCEPT ![d] = Idle],
           UNCHANGED <<env, toml, rowVars, cloudVars, countVars>>
    PROVE  TypeInv'
  <1>1. \A e \in Active' : e \in Active /\ run'[e] = run[e]
    BY DEF Active, TypeInv, TypeOK
  <1>2. run' \in [Deployers -> Runs \cup {Idle}]
    BY DEF TypeInv, TypeOK
  <1>3. TypeOK'
    BY <1>1, <1>2 DEF TypeInv, TypeOK, At, rowVars, cloudVars, countVars
  <1> QED
    BY <1>1, <1>3 DEF TypeInv, InHand, At

LEMMA ReleaseTyped == TypeInv => /\ env \in [values : WorkerVars, prefix : NamePrefixes, stub : Stubs]
                                 /\ env.values \in WorkerVars /\ env.prefix \in NamePrefixes /\ env.stub \in Stubs
  <1> SUFFICES ASSUME TypeInv
               PROVE  env \in [values : WorkerVars, prefix : NamePrefixes, stub : Stubs]
    OBVIOUS
  <1>1. env \in Envs
    BY DEF TypeInv, TypeOK
  <1>2. Envs \subseteq [values : WorkerVars, prefix : NamePrefixes, stub : Stubs]
    BY WorkerDeployAssumption
  <1> QED
    BY <1>1, <1>2

LEMMA RenderedTyped ==
    TypeInv => \A a \in Accounts, i \in AccountIds :
                  RenderWrangler(a, i) \in Configs /\ ConfigHash(a, i) \in Hashes
  <1> SUFFICES ASSUME TypeInv, NEW a \in Accounts, NEW i \in AccountIds
               PROVE  RenderWrangler(a, i) \in Configs /\ ConfigHash(a, i) \in Hashes
    OBVIOUS
  <1>1. env.values \in WorkerVars /\ env.prefix \in NamePrefixes /\ env.stub \in Stubs
    BY ReleaseTyped
  <1> QED
    BY <1>1 DEF RenderWrangler, Configs, ConfigHash, Hashes

\* A deployer that starts, as it is from then on.
Started(d, r) ==
    run' = [e \in Deployers |->
        IF e = d THEN r ELSE IF e \in Active THEN [run[e] EXCEPT !.alone = FALSE] ELSE Idle]

LEMMA StartMakes ==
    ASSUME TypeInv, NEW d \in Deployers, Start(d)
    PROVE  \E r \in Runs : /\ Started(d, r)
                           /\ r.stage = "loop" /\ r.account = {} /\ (~ r.forced => r.todo = Accounts)
                           /\ r.loaded = [x \in Accounts |-> Row(x)] /\ r.alone = (Active = {})
  <1>1. PICK forced \in BOOLEAN, a \in Accounts :
          Started(d, [stage |-> "loop", forced |-> forced,
                      todo |-> IF forced THEN {a} ELSE Accounts, account |-> {},
                      loaded |-> [x \in Accounts |-> Row(x)], fell |-> {},
                      alone |-> Active = {}, refused |-> FALSE])
    BY DEF Start, Started
  <1>2. \A x \in Accounts : Row(x) \in Rows
    BY DEF TypeInv, TypeOK, Row, Rows
  <1>3. [x \in Accounts |-> Row(x)] \in [Accounts -> Rows]
    BY <1>2
  <1> DEFINE r == [stage |-> "loop", forced |-> forced,
                   todo |-> IF forced THEN {a} ELSE Accounts, account |-> {},
                   loaded |-> [x \in Accounts |-> Row(x)], fell |-> {},
                   alone |-> Active = {}, refused |-> FALSE]
  <1>4. (Active = {}) \in BOOLEAN
    OBVIOUS
  <1>5. r \in Runs
    BY <1>3, <1>4 DEF Runs, Stages
  <1>6. /\ r.stage = "loop" /\ r.account = {} /\ (~ r.forced => r.todo = Accounts)
        /\ r.loaded = [x \in Accounts |-> Row(x)] /\ r.alone = (Active = {})
    OBVIOUS
  <1> QED
    BY <1>1, <1>5, <1>6

LEMMA StartTyped ==
    ASSUME TypeInv, NEW d \in Deployers, Start(d)
    PROVE  TypeInv'
  <1>1. PICK r \in Runs : Started(d, r) /\ r.stage = "loop" /\ r.account = {}
    BY StartMakes
  <1>2. \A e \in Deployers : run'[e] = IF e = d THEN r ELSE IF e \in Active THEN [run[e] EXCEPT !.alone = FALSE] ELSE Idle
    BY <1>1 DEF Started
  <1>3. \A e \in Active : [run[e] EXCEPT !.alone = FALSE] \in Runs
    BY ActiveTyped DEF Runs
  <1>4. run' \in [Deployers -> Runs \cup {Idle}]
    BY <1>1, <1>3 DEF Started
  <1>5. \A e \in Active' \ {d} :
          /\ e \in Active /\ run'[e].stage = run[e].stage
          /\ run'[e].account = run[e].account /\ run'[e].todo = run[e].todo
    BY <1>2, ActiveTyped DEF Active, Runs
  <1>6. starts' \in 0..MaxStarts
    BY WorkerDeployAssumption DEF Start, TypeInv, TypeOK
  <1>7. \A e \in Active' : InHand(e)'
    BY <1>1, <1>2, <1>5 DEF TypeInv, InHand, At, Active
  <1>8. \A e \in Active' : ~ At(e, "loop")' => toml' # NoFile /\ \E a \in Accounts : run'[e].account = {a}
    BY <1>1, <1>2, <1>5 DEF Start, TypeInv, TypeOK, At, Active
  <1>9. TypeOK'
    BY <1>4, <1>6, <1>8 DEF Start, TypeInv, TypeOK, rowVars, cloudVars
  <1> QED
    BY <1>7, <1>9 DEF TypeInv

LEMMA SkipTyped ==
    ASSUME TypeInv, NEW d \in Deployers, Skip(d)
    PROVE  TypeInv'
  <1>1. PICK a \in run[d].todo : run' = [run EXCEPT ![d].todo = @ \ {a}]
    BY DEF Skip
  <1>2. run[d] \in Runs /\ InHand(d) /\ At(d, "loop")
    BY AtWork DEF Skip, Stages
  <1> DEFINE r == [run[d] EXCEPT !.todo = @ \ {a}]
  <1>3. r \in Runs /\ r.stage = "loop" /\ r.account = {} /\ r.account \cap r.todo = {}
    BY <1>2 DEF Runs, InHand, At
  <1>4. run' = [run EXCEPT ![d] = r]
    BY <1>1
  <1> HIDE DEF r
  <1> QED
    BY <1>3, <1>4, DeployerStepTyped DEF Skip, TypeInv, TypeOK, rowVars, cloudVars

\* What Render does, by outcome.
Rendered(d, a) ==
    /\ toml' = RenderWrangler(a, run[d].loaded[a].id)
    /\ run' = [run EXCEPT ![d].stage = "upload", ![d].todo = @ \ {a},
                          ![d].account = {a}, ![d].refused = FALSE]

NotRendered(d, a) ==
    /\ run' = [run EXCEPT ![d].todo = @ \ {a}, ![d].fell = @ \cup {a}]
    /\ toml' \in {toml, RenderWrangler(a, run[d].loaded[a].id)}

LEMMA RenderTyped ==
    ASSUME TypeInv, NEW d \in Deployers, Render(d)
    PROVE  TypeInv'
  <1>1. PICK a \in run[d].todo : Rendered(d, a) \/ NotRendered(d, a)
    BY DEF Render, Rendered, NotRendered
  <1>2. run[d] \in Runs /\ InHand(d) /\ At(d, "loop")
    BY AtWork DEF Render, Stages
  <1>3. a \in Accounts /\ run[d].loaded[a].id \in AccountIds
    BY <1>2 DEF Runs, Rows
  <1>4. CASE Rendered(d, a)
    <2> DEFINE r == [run[d] EXCEPT !.stage = "upload", !.todo = @ \ {a}, !.account = {a}, !.refused = FALSE]
    <2>1. r \in Runs /\ r.stage = "upload" /\ r.account = {a} /\ r.account \cap r.todo = {}
      BY <1>2, <1>3 DEF Runs, Stages
    <2>2. run' = [run EXCEPT ![d] = r]
      BY <1>4 DEF Rendered
    <2>3. toml' \in Configs /\ toml' # NoFile
      BY <1>3, <1>4, RenderedTyped, WorkerDeployAssumption DEF Rendered
    <2> HIDE DEF r
    <2> QED
      BY <1>3, <2>1, <2>2, <2>3, DeployerStepTyped DEF Render, TypeInv, TypeOK, rowVars, cloudVars
  <1>5. CASE NotRendered(d, a)
    <2> DEFINE r == [run[d] EXCEPT !.todo = @ \ {a}, !.fell = @ \cup {a}]
    <2>1. r \in Runs /\ r.stage = "loop" /\ r.account = {} /\ r.account \cap r.todo = {}
      BY <1>2, <1>3 DEF Runs, InHand, At
    <2>2. run' = [run EXCEPT ![d] = r]
      BY <1>5 DEF NotRendered
    <2>3. toml' = toml \/ toml' \in Configs
      BY <1>3, <1>5, RenderedTyped DEF NotRendered
    <2> HIDE DEF r
    <2> QED
      BY <1>5, <2>1, <2>2, <2>3, DeployerStepTyped DEF Render, TypeInv, TypeOK, rowVars, cloudVars
  <1> QED
    BY <1>1, <1>4, <1>5

\* What a step past the loop makes of its deployer.
Throwing(d) == [run[d] EXCEPT !.stage = "loop", !.fell = @ \cup {Account(d)}, !.account = {}]
Moved(d, s) == [run[d] EXCEPT !.stage = s]
Refused(d) == [run[d] EXCEPT !.stage = "record", !.refused = TRUE]
Recorded(d) == [run[d] EXCEPT !.stage = "loop", !.account = {}]

LEMMA AfterTyped ==
    ASSUME TypeInv, NEW d \in Active, ~ At(d, "loop"), NEW s \in {"secret", "record"}
    PROVE  /\ Throwing(d) \in Runs /\ Moved(d, s) \in Runs /\ Refused(d) \in Runs /\ Recorded(d) \in Runs
           /\ Throwing(d).stage = "loop" /\ Throwing(d).account = {}
           /\ Recorded(d).stage = "loop" /\ Recorded(d).account = {}
           /\ Moved(d, s).stage = s /\ Refused(d).stage = "record"
           /\ Moved(d, s).account = run[d].account /\ Moved(d, s).todo = run[d].todo
           /\ Refused(d).account = run[d].account /\ Refused(d).todo = run[d].todo
  BY ActiveTyped, OneInHand DEF Throwing, Moved, Refused, Recorded, Runs, Stages

\* A call changes the Worker the file names in one Cloudflare account.
LEMMA CallTyped ==
    ASSUME TypeInv, NEW d \in Active, ~ At(d, "loop")
    PROVE  /\ Deployed(d) \/ Signed(d) \/ UNCHANGED cloudVars =>
                /\ workers' \in [Places ->
                                   [config : Configs \cup {NoFile}, secret : Accounts \cup {NoSecret}]]
                /\ whole' \subseteq Accounts
  <1>1. toml \in Configs /\ Account(d) \in Accounts /\ Loaded(d).id \in AccountIds
    BY OneInHand DEF Rows
  <1>2. Targets(d) \subseteq AccountIds /\ \A i \in AccountIds : Named(i) \in Places
    BY <1>1 DEF Targets, Configs, Named, Places
  <1>3. CASE Deployed(d)
    <2>1. PICK i \in AccountIds : workers' = [workers EXCEPT ![Named(i)].config = toml]
      BY <1>2, <1>3 DEF Deployed
    <2> QED
      BY <1>1, <1>2, <1>3, <2>1 DEF Deployed, Unsettle, TypeInv, TypeOK
  <1>4. CASE Signed(d)
    <2>1. PICK i \in AccountIds : workers' = [workers EXCEPT ![Named(i)].secret = Account(d)]
      BY <1>2, <1>4 DEF Signed
    <2> QED
      BY <1>1, <1>2, <1>4, <2>1 DEF Signed, Unsettle, TypeInv, TypeOK
  <1>5. CASE UNCHANGED cloudVars
    BY <1>5 DEF cloudVars, TypeInv, TypeOK
  <1> QED
    BY <1>3, <1>4, <1>5

LEMMA UploadMakes ==
    ASSUME TypeInv, NEW d \in Deployers, Upload(d)
    PROVE  \E r \in {Moved(d, "secret"), Throwing(d)} :
              /\ run' = [run EXCEPT ![d] = r]
              /\ Deployed(d) \/ (r = Throwing(d) /\ UNCHANGED cloudVars)
  <1>1. Throws(d) => run' = [run EXCEPT ![d] = Throwing(d)]
    BY DEF Throws, Throwing
  <1>2. run' = [run EXCEPT ![d].stage = "secret"] => run' = [run EXCEPT ![d] = Moved(d, "secret")]
    BY DEF Moved
  <1>3. CASE Deployed(d) /\ run' = [run EXCEPT ![d].stage = "secret"]
    BY <1>2, <1>3, Zenon
  <1>4. CASE Throws(d) /\ (Deployed(d) \/ UNCHANGED cloudVars)
    BY <1>1, <1>4, Zenon
  <1> QED
    BY <1>3, <1>4, Zenon DEF Upload

LEMMA PutSecretMakes ==
    ASSUME TypeInv, NEW d \in Deployers, PutSecret(d)
    PROVE  \E r \in {Moved(d, "record"), Refused(d), Throwing(d)} :
              /\ run' = [run EXCEPT ![d] = r]
              /\ Signed(d) \/ (r \in {Refused(d), Throwing(d)} /\ UNCHANGED cloudVars)
  <1>1. Throws(d) => run' = [run EXCEPT ![d] = Throwing(d)]
    BY DEF Throws, Throwing
  <1>2. run' = [run EXCEPT ![d].stage = "record"] => run' = [run EXCEPT ![d] = Moved(d, "record")]
    BY DEF Moved
  <1>3. run' = [run EXCEPT ![d].stage = "record", ![d].refused = TRUE] => run' = [run EXCEPT ![d] = Refused(d)]
    BY DEF Refused
  <1>4. CASE Signed(d) /\ run' = [run EXCEPT ![d].stage = "record"]
    BY <1>2, <1>4, Zenon
  <1>5. CASE /\ run' = [run EXCEPT ![d].stage = "record", ![d].refused = TRUE]
             /\ UNCHANGED cloudVars
    BY <1>3, <1>5, Zenon
  <1>6. CASE Throws(d) /\ (Signed(d) \/ UNCHANGED cloudVars)
    BY <1>1, <1>6, Zenon
  <1> QED
    BY <1>4, <1>5, <1>6, Zenon DEF PutSecret

LEMMA CallStepTyped ==
    ASSUME TypeInv, NEW d \in Deployers, Upload(d) \/ PutSecret(d)
    PROVE  TypeInv'
  <1>1. d \in Active /\ ~ At(d, "loop") /\ InHand(d)
    BY AtWork DEF Upload, PutSecret, Stages, At
  <1>2. PICK r \in {Moved(d, "secret"), Moved(d, "record"), Refused(d), Throwing(d)} :
          /\ run' = [run EXCEPT ![d] = r]
          /\ Deployed(d) \/ Signed(d) \/ UNCHANGED cloudVars
    BY UploadMakes, PutSecretMakes
  <1>3. \/ r = Throwing(d) /\ r.stage = "loop" /\ r.account = {}
        \/ r.stage \in {"secret", "record"} /\ r.account = run[d].account /\ r.todo = run[d].todo
    BY <1>1, AfterTyped
  <1>4. r \in Runs
    BY <1>1, AfterTyped
  <1>5. run[d].account \cap run[d].todo = {} /\ Account(d) \in Accounts
        /\ run[d].account = {Account(d)} /\ toml # NoFile
    BY <1>1, OneInHand, WorkerDeployAssumption DEF InHand
  <1>6. /\ r.account \cap r.todo = {}
        /\ r.stage = "loop" => r.account = {}
        /\ r.stage # "loop" => \E a \in Accounts : r.account = {a}
    BY <1>3, <1>5
  <1>7. toml' = toml /\ UNCHANGED <<env, rowVars, countVars>>
    BY DEF Upload, PutSecret
  <1> QED
    BY <1>1, <1>2, <1>4, <1>5, <1>6, <1>7, CallTyped, DeployerStepTyped
       DEF TypeInv, TypeOK, rowVars

LEMMA RecordTyped ==
    ASSUME TypeInv, NEW d \in Deployers, Record(d)
    PROVE  TypeInv'
  <1>1. d \in Active /\ ~ At(d, "loop")
    BY AtWork DEF Record, Stages, At
  <1>2. /\ Account(d) \in Accounts /\ ConfigHash(Account(d), Loaded(d).id) \in Hashes
    BY <1>1, OneInHand, RenderedTyped DEF Rows
  <1>3. /\ run' = [run EXCEPT ![d] = Recorded(d)] /\ Recorded(d) \in Runs
        /\ Recorded(d).stage = "loop" /\ Recorded(d).account = {}
    BY <1>1, AfterTyped DEF Record, Recorded
  <1>4. hash' \in [Accounts -> Hashes \cup {NoHash}] /\ whole' \subseteq Accounts
    BY <1>2 DEF Record, SaveRow, TypeInv, TypeOK
  <1>5. /\ UNCHANGED <<env, id, countVars>> /\ toml' = toml
        /\ workers' \in [Places ->
                           [config : Configs \cup {NoFile}, secret : Accounts \cup {NoSecret}]]
    BY DEF Record, SaveRow, TypeInv, TypeOK
  <1> QED
    BY <1>3, <1>4, <1>5, DeployerStepTyped

LEMMA StepTyped == TypeInv /\ [Next]_vars => TypeInv'
  <1> SUFFICES ASSUME TypeInv, [Next]_vars PROVE TypeInv'
    OBVIOUS
  <1>1. ASSUME NEW d \in Deployers, Step(d)
        PROVE  TypeInv'
    <2>1. CASE Start(d) \/ Skip(d) \/ Render(d)
      BY <2>1, StartTyped, SkipTyped, RenderTyped
    <2>2. CASE Upload(d) \/ PutSecret(d) \/ Record(d)
      BY <2>2, CallStepTyped, RecordTyped
    <2>3. CASE Finish(d) \/ Die(d)
      BY <2>3, StopsTyped DEF Finish, Die
    <2> QED
      BY <1>1, <2>1, <2>2, <2>3 DEF Step
  <1>2. ASSUME NEW a \in Accounts, SaveSettings(a)
        PROVE  TypeInv'
    <2>1. saves' \in 0..MaxSaves /\ id' \in [Accounts -> AccountIds]
      BY <1>2, WorkerDeployAssumption DEF SaveSettings, TypeInv, TypeOK
    <2>2. TypeOK'
      BY <1>2, <2>1 DEF SaveSettings, TypeInv, TypeOK, Active, At, cloudVars
    <2> QED
      BY <1>2, <2>2 DEF SaveSettings, TypeInv, InHand, Active, At
  <1>3. CASE Release
    <2>1. releases' \in 0..MaxReleases /\ Active' = {} /\ run' \in [Deployers -> Runs \cup {Idle}]
      BY <1>3, WorkerDeployAssumption DEF Release, TypeInv, TypeOK, Active
    <2>2. TypeOK'
      BY <1>3, <2>1 DEF Release, TypeInv, TypeOK, rowVars, cloudVars
    <2> QED
      BY <2>1, <2>2 DEF TypeInv
  <1>4. CASE UNCHANGED vars
    BY <1>4 DEF vars, rowVars, cloudVars, countVars, TypeInv, TypeOK, Active, At, InHand
  <1> QED
    BY <1>1, <1>2, <1>3, <1>4 DEF Next

LEMMA TypeInvAlways == Spec => []TypeInv
  BY InitTyped, StepTyped, PTL DEF Spec

\* Whatever deployments, failures, settings and releases do in whatever order,
\* the rows, the file and the Workers keep their types, and a deployment past
\* its first step has a file and one account.
THEOREM TypeCorrect == Spec => []TypeOK
  <1>1. TypeInv => TypeOK
    BY DEF TypeInv
  <1> QED
    BY <1>1, TypeInvAlways, PTL

-----------------------------------------------------------------------------
(* Deployment: a deployer with nobody beside it *)

AloneTypeInv == TypeInv /\ AloneInv

\* Whoever was alone before a step of d was d.
LEMMA DeployerStepAlone ==
    ASSUME AloneTypeInv, NEW d \in Active, NEW r \in Runs, run' = [run EXCEPT ![d] = r],
           r.alone = run[d].alone,
           run[d].alone /\ Undisturbed(d) /\ Behind(d) /\ Active' = {d} /\ run'[d] = r =>
               Undisturbed(d)' /\ Behind(d)'
    PROVE  AloneInv'
  <1>1. d \in Deployers /\ run'[d] = r /\ \A e \in Deployers \ {d} : run'[e] = run[e]
    BY DEF AloneTypeInv, TypeInv, TypeOK, Active
  <1>2. Active' = Active
    BY <1>1, IdleIsNoStage DEF Active
  <1> SUFFICES ASSUME NEW e \in Active', run'[e].alone
               PROVE  Undisturbed(e)' /\ Behind(e)'
    BY DEF AloneInv
  <1>3. run[e].alone /\ e \in Active
    BY <1>1, <1>2 DEF Active
  <1>4. Undisturbed(e) /\ Behind(e)
    BY <1>3 DEF AloneTypeInv, AloneInv
  <1>5. e = d /\ Active = {d}
    BY <1>4 DEF Undisturbed
  <1> QED
    BY <1>1, <1>2, <1>3, <1>4, <1>5

LEMMA StopsAlone ==
    ASSUME AloneTypeInv, NEW d \in Deployers, run' = [run EXCEPT ![d] = Idle], d \in Active
    PROVE  AloneInv'
  <1> SUFFICES ASSUME NEW e \in Active', run'[e].alone PROVE FALSE
    BY DEF AloneInv
  <1>1. e # d /\ e \in Active /\ run[e].alone
    BY DEF AloneTypeInv, TypeInv, TypeOK, Active
  <1> QED
    BY <1>1 DEF AloneTypeInv, AloneInv, Undisturbed

LEMMA StartAlone ==
    ASSUME AloneTypeInv, NEW d \in Deployers, Start(d)
    PROVE  AloneInv'
  <1>1. PICK r \in Runs : /\ Started(d, r)
                          /\ r.stage = "loop" /\ r.account = {} /\ (~ r.forced => r.todo = Accounts)
                          /\ r.loaded = [x \in Accounts |-> Row(x)] /\ r.alone = (Active = {})
    BY StartMakes DEF AloneTypeInv
  <1>2. \A e \in Deployers : run'[e] = IF e = d THEN r ELSE IF e \in Active THEN [run[e] EXCEPT !.alone = FALSE] ELSE Idle
    BY <1>1 DEF Started
  <1> SUFFICES ASSUME NEW e \in Active', run'[e].alone
               PROVE  Undisturbed(e)' /\ Behind(e)'
    BY DEF AloneInv
  <1>3. e = d
    <2> SUFFICES ASSUME e # d PROVE FALSE
      OBVIOUS
    <2>1. e \in Active /\ run'[e] = [run[e] EXCEPT !.alone = FALSE]
      BY <1>2 DEF Active
    <2>2. run[e] \in Runs
      BY <2>1, ActiveTyped DEF AloneTypeInv
    <2> QED
      BY <2>1, <2>2 DEF Runs
  <1>4. run'[d] = r /\ Active = {}
    BY <1>1, <1>2, <1>3
  <1>5. Active' = {d}
    BY <1>2, <1>3, <1>4 DEF Active
  <1>6. \A a \in run'[d].todo \cup run'[d].account : hash'[a] = run'[d].loaded[a].hash
    <2>1. run'[d].todo \subseteq Accounts /\ run'[d].account = {}
      BY <1>1, <1>4 DEF Runs
    <2> QED
      BY <1>1, <1>4, <2>1 DEF Start, Row, rowVars
  <1> QED
    BY <1>1, <1>3, <1>4, <1>5, <1>6 DEF Undisturbed, Behind, At

LEMMA SkipAlone ==
    ASSUME AloneTypeInv, NEW d \in Deployers, Skip(d)
    PROVE  AloneInv'
  <1>1. PICK a \in run[d].todo : ~ IsDrifted(a, run[d].loaded[a]) /\ run' = [run EXCEPT ![d].todo = @ \ {a}]
    BY DEF Skip
  <1>2. d \in Active /\ run[d] \in Runs /\ InHand(d) /\ At(d, "loop")
    BY AtWork DEF AloneTypeInv, Skip, Stages
  <1> DEFINE r == [run[d] EXCEPT !.todo = @ \ {a}]
  <1>3. /\ r \in Runs /\ r.alone = run[d].alone /\ r.stage = "loop" /\ r.account = run[d].account
        /\ r.todo = run[d].todo \ {a} /\ r.loaded = run[d].loaded /\ r.fell = run[d].fell
        /\ r.forced = run[d].forced
    BY <1>2 DEF Runs, At
  <1>4. run' = [run EXCEPT ![d] = r]
    BY <1>1
  <1> HIDE DEF r
  <1>5. hash' = hash /\ env' = env
    BY DEF Skip, rowVars
  <1>6. ASSUME Undisturbed(d), Behind(d), Active' = {d}, run'[d] = r
        PROVE  Undisturbed(d)' /\ Behind(d)'
    <2>1. hash[a] = ConfigHash(a, run[d].loaded[a].id)
      BY <1>1, <1>6 DEF Undisturbed, IsDrifted
    <2>2. \A x, i : ConfigHash(x, i)' = ConfigHash(x, i)
      BY <1>5 DEF ConfigHash, RenderWrangler
    <2>3. Undisturbed(d)'
      BY <1>3, <1>5, <1>6 DEF Undisturbed, At
    <2>4. Behind(d)'
      BY <1>3, <1>5, <1>6, <2>1, <2>2 DEF Behind
    <2> QED
      BY <2>3, <2>4
  <1> QED
    BY <1>2, <1>3, <1>4, <1>6, DeployerStepAlone

LEMMA HashUnmoved ==
    ASSUME env' = env
    PROVE  \A x, i : ConfigHash(x, i)' = ConfigHash(x, i) /\ RenderWrangler(x, i)' = RenderWrangler(x, i)
  BY DEF ConfigHash, RenderWrangler

LEMMA RenderAlone ==
    ASSUME AloneTypeInv, NEW d \in Deployers, Render(d)
    PROVE  AloneInv'
  <1>1. PICK a \in run[d].todo : Rendered(d, a) \/ NotRendered(d, a)
    BY DEF Render, Rendered, NotRendered
  <1>2. d \in Active /\ run[d] \in Runs /\ InHand(d) /\ At(d, "loop")
    BY AtWork DEF AloneTypeInv, Render, Stages
  <1>3. a \in Accounts /\ run[d].account = {}
    BY <1>2 DEF Runs, InHand
  <1>4. hash' = hash /\ env' = env
    BY DEF Render, rowVars
  <1>5. CASE Rendered(d, a)
    <2> DEFINE r == [run[d] EXCEPT !.stage = "upload", !.todo = @ \ {a}, !.account = {a}, !.refused = FALSE]
    <2>1. /\ r \in Runs /\ r.alone = run[d].alone /\ r.stage = "upload" /\ r.account = {a}
          /\ r.todo = run[d].todo \ {a} /\ r.loaded = run[d].loaded /\ r.fell = run[d].fell
          /\ r.forced = run[d].forced
      BY <1>2, <1>3 DEF Runs, Stages
    <2>2. run' = [run EXCEPT ![d] = r]
      BY <1>5 DEF Rendered
    <2> HIDE DEF r
    <2>3. ASSUME Undisturbed(d), Behind(d), Active' = {d}, run'[d] = r
          PROVE  Undisturbed(d)' /\ Behind(d)'
      <3>1. Account(d)' = a
        BY <2>1, <2>3 DEF Account
      <3>2. Loaded(d)' = run[d].loaded[a]
        BY <2>1, <2>3, <3>1 DEF Loaded
      <3>3. toml' = RenderWrangler(a, run[d].loaded[a].id)
        BY <1>5 DEF Rendered
      <3>4. Undisturbed(d)'
        BY <1>4, <2>1, <2>3, <3>1, <3>2, <3>3, HashUnmoved DEF Undisturbed, At
      <3>5. Behind(d)'
        BY <1>3, <1>4, <2>1, <2>3, HashUnmoved DEF Behind
      <3> QED
        BY <3>4, <3>5
    <2> QED
      BY <1>2, <2>1, <2>2, <2>3, DeployerStepAlone
  <1>6. CASE NotRendered(d, a)
    <2> DEFINE r == [run[d] EXCEPT !.todo = @ \ {a}, !.fell = @ \cup {a}]
    <2>1. /\ r \in Runs /\ r.alone = run[d].alone /\ r.stage = "loop" /\ r.account = {}
          /\ r.todo = run[d].todo \ {a} /\ r.loaded = run[d].loaded /\ r.fell = run[d].fell \cup {a}
          /\ r.forced = run[d].forced
      BY <1>2, <1>3 DEF Runs, At
    <2>2. run' = [run EXCEPT ![d] = r]
      BY <1>6 DEF NotRendered
    <2> HIDE DEF r
    <2>3. ASSUME Undisturbed(d), Behind(d), Active' = {d}, run'[d] = r
          PROVE  Undisturbed(d)' /\ Behind(d)'
      <3>1. Undisturbed(d)'
        BY <1>4, <2>1, <2>3 DEF Undisturbed, At
      <3>2. Behind(d)'
        BY <1>3, <1>4, <2>1, <2>3, HashUnmoved DEF Behind
      <3> QED
        BY <3>1, <3>2
    <2> QED
      BY <1>2, <2>1, <2>2, <2>3, DeployerStepAlone
  <1> QED
    BY <1>1, <1>5, <1>6

\* What the results of a step past the loop have of the deployer before it.
LEMMA AfterKeeps ==
    ASSUME AloneTypeInv, NEW d \in Active, ~ At(d, "loop"), NEW s \in {"secret", "record"},
           NEW r \in {Throwing(d), Moved(d, s), Refused(d), Recorded(d)}
    PROVE  /\ r \in Runs
           /\ r.alone = run[d].alone /\ r.todo = run[d].todo
           /\ r.loaded = run[d].loaded /\ r.forced = run[d].forced
           /\ r.fell = IF r = Throwing(d) THEN run[d].fell \cup {Account(d)} ELSE run[d].fell
  <1>1. run[d] \in Runs
    BY ActiveTyped DEF AloneTypeInv
  <1>2. r \in Runs
    BY AfterTyped DEF AloneTypeInv
  <1>3. CASE r = Throwing(d)
    BY <1>1, <1>2, <1>3 DEF Throwing, Runs
  <1>4. CASE r # Throwing(d)
    BY <1>1, <1>2, <1>4 DEF Moved, Refused, Recorded, Runs
  <1> QED
    BY <1>3, <1>4

\* A deployment that throws leaves nothing of it but its account's name.
LEMMA ThrowAlone ==
    ASSUME AloneTypeInv, NEW d \in Active, ~ At(d, "loop"),
           Undisturbed(d), Behind(d), Active' = {d}, run'[d] = Throwing(d),
           hash' = hash, env' = env
    PROVE  Undisturbed(d)' /\ Behind(d)'
  <1> DEFINE r == Throwing(d)
  <1>1. /\ r.todo = run[d].todo /\ r.loaded = run[d].loaded /\ r.forced = run[d].forced
        /\ r.fell = run[d].fell \cup {Account(d)}
    BY AfterKeeps
  <1>2. r.stage = "loop" /\ r.account = {}
    BY AfterTyped DEF AloneTypeInv
  <1>3. run[d].account = {Account(d)}
    BY OneInHand DEF AloneTypeInv
  <1> HIDE DEF r
  <1>4. run'[d] = r
    BY DEF r
  <1>5. Undisturbed(d)'
    BY <1>1, <1>2, <1>4 DEF Undisturbed, At
  <1>6. Behind(d)'
    BY <1>1, <1>2, <1>3, <1>4, HashUnmoved DEF Behind
  <1> QED
    BY <1>5, <1>6

LEMMA UploadAlone ==
    ASSUME AloneTypeInv, NEW d \in Deployers, Upload(d)
    PROVE  AloneInv'
  <1>1. d \in Active /\ At(d, "upload") /\ ~ At(d, "loop")
    BY AtWork DEF AloneTypeInv, Upload, Stages, At
  <1>2. PICK r \in {Moved(d, "secret"), Throwing(d)} :
          /\ run' = [run EXCEPT ![d] = r]
          /\ Deployed(d) \/ (r = Throwing(d) /\ UNCHANGED cloudVars)
    BY UploadMakes DEF AloneTypeInv
  <1>3. r \in Runs /\ r.alone = run[d].alone
    BY <1>1, AfterKeeps
  <1>4. toml' = toml /\ hash' = hash /\ env' = env
    BY DEF Upload, rowVars
  <1>5. ASSUME Undisturbed(d), Behind(d), Active' = {d}, run'[d] = r
        PROVE  Undisturbed(d)' /\ Behind(d)'
    <2>1. CASE r = Throwing(d)
      BY <1>1, <1>4, <1>5, <2>1, ThrowAlone
    <2>2. CASE r # Throwing(d)
      <3>1. r = Moved(d, "secret") /\ Deployed(d)
        BY <1>2, <2>2
      <3>2. /\ r.todo = run[d].todo /\ r.loaded = run[d].loaded /\ r.forced = run[d].forced
            /\ r.fell = run[d].fell /\ r.stage = "secret" /\ r.account = run[d].account
        BY <1>1, <2>2, <3>1, AfterKeeps, AfterTyped DEF AloneTypeInv
      <3>3. Account(d)' = Account(d) /\ Loaded(d)' = Loaded(d)
        BY <1>5, <3>2 DEF Account, Loaded
      <3>4. toml = RenderWrangler(Account(d), Loaded(d).id)
        BY <1>1, <1>5 DEF Undisturbed
      <3>5. workers' = [workers EXCEPT ![<<Loaded(d).id, env.prefix, Account(d)>>].config = toml]
        BY <3>1, <3>4 DEF Deployed, Targets, Named, RenderWrangler
      <3>6. <<Loaded(d).id, env.prefix, Account(d)>> \in Places
        <4>1. Loaded(d).id \in AccountIds /\ Account(d) \in Accounts
          BY <1>1, OneInHand DEF AloneTypeInv, Rows
        <4>2. env.prefix \in NamePrefixes
          BY ReleaseTyped DEF AloneTypeInv
        <4> QED
          BY <4>1, <4>2 DEF Places
      <3>7. Worker(d)'.config = toml
        BY <1>4, <3>3, <3>5, <3>6 DEF Worker, AloneTypeInv, TypeInv, TypeOK
      <3>8. Undisturbed(d)'
        BY <1>4, <1>5, <3>2, <3>3, <3>4, <3>7, HashUnmoved DEF Undisturbed, At
      <3>9. Behind(d)'
        BY <1>4, <1>5, <3>2, HashUnmoved DEF Behind
      <3> QED
        BY <3>8, <3>9
    <2> QED
      BY <2>1, <2>2
  <1> QED
    BY <1>1, <1>2, <1>3, <1>5, DeployerStepAlone

LEMMA PutSecretAlone ==
    ASSUME AloneTypeInv, NEW d \in Deployers, PutSecret(d)
    PROVE  AloneInv'
  <1>1. d \in Active /\ At(d, "secret") /\ ~ At(d, "loop")
    BY AtWork DEF AloneTypeInv, PutSecret, Stages, At
  <1>2. PICK r \in {Moved(d, "record"), Refused(d), Throwing(d)} :
          /\ run' = [run EXCEPT ![d] = r]
          /\ Signed(d) \/ (r \in {Refused(d), Throwing(d)} /\ UNCHANGED cloudVars)
    BY PutSecretMakes DEF AloneTypeInv
  <1>3. r \in Runs /\ r.alone = run[d].alone
    BY <1>1, AfterKeeps
  <1>4. toml' = toml /\ hash' = hash /\ env' = env
    BY DEF PutSecret, rowVars
  <1>5. ASSUME Undisturbed(d), Behind(d), Active' = {d}, run'[d] = r
        PROVE  Undisturbed(d)' /\ Behind(d)'
    <2>1. CASE r = Throwing(d)
      BY <1>1, <1>4, <1>5, <2>1, ThrowAlone
    <2>2. CASE r # Throwing(d)
      <3>1. /\ r.todo = run[d].todo /\ r.loaded = run[d].loaded /\ r.forced = run[d].forced
            /\ r.fell = run[d].fell /\ r.stage = "record" /\ r.account = run[d].account
        <4>1. /\ r.todo = run[d].todo /\ r.loaded = run[d].loaded /\ r.forced = run[d].forced
              /\ r.fell = run[d].fell
          BY <1>1, <1>2, <2>2, AfterKeeps
        <4>2. r.stage = "record" /\ r.account = run[d].account
          BY <1>1, <1>2, <2>2, AfterTyped DEF AloneTypeInv
        <4> QED
          BY <4>1, <4>2
      <3>2. Account(d)' = Account(d) /\ Loaded(d)' = Loaded(d)
        BY <1>5, <3>1 DEF Account, Loaded
      <3>3. toml = RenderWrangler(Account(d), Loaded(d).id) /\ Worker(d).config = toml
        BY <1>1, <1>5 DEF Undisturbed
      <3>4. <<Loaded(d).id, env.prefix, Account(d)>> \in Places
        <4>1. Loaded(d).id \in AccountIds /\ Account(d) \in Accounts
          BY <1>1, OneInHand DEF AloneTypeInv, Rows
        <4>2. env.prefix \in NamePrefixes
          BY ReleaseTyped DEF AloneTypeInv
        <4> QED
          BY <4>1, <4>2 DEF Places
      <3>5. \/ workers' = workers /\ r = Refused(d)
            \/ workers' = [workers EXCEPT ![<<Loaded(d).id, env.prefix, Account(d)>>].secret = Account(d)]
        BY <1>2, <2>2, <3>3 DEF Signed, Targets, Named, RenderWrangler, cloudVars
      <3>6. r = Refused(d) => r.refused
        BY <1>1, ActiveTyped DEF AloneTypeInv, Refused, Runs
      <3>7. /\ Worker(d)'.config = toml
            /\ ~ r.refused => Worker(d)'.secret = Account(d)
        BY <1>4, <3>2, <3>3, <3>4, <3>5, <3>6 DEF Worker, AloneTypeInv, TypeInv, TypeOK
      <3>8. Undisturbed(d)'
        BY <1>4, <1>5, <3>1, <3>2, <3>3, <3>7, HashUnmoved DEF Undisturbed, At
      <3>9. Behind(d)'
        BY <1>4, <1>5, <3>1, HashUnmoved DEF Behind
      <3> QED
        BY <3>8, <3>9
    <2> QED
      BY <2>1, <2>2
  <1> QED
    BY <1>1, <1>2, <1>3, <1>5, DeployerStepAlone

LEMMA SaveRowSaves ==
    ASSUME TypeInv, NEW a \in Accounts, NEW row, SaveRow(a, row)
    PROVE  /\ \A b \in Accounts \ {a} : hash'[b] = hash[b]
           /\ hash[a] = row.hash => hash'[a] = ConfigHash(a, row.id)
  BY DEF SaveRow, IsDrifted, TypeInv, TypeOK

LEMMA RecordAlone ==
    ASSUME AloneTypeInv, NEW d \in Deployers, Record(d)
    PROVE  AloneInv'
  <1>1. d \in Active /\ ~ At(d, "loop") /\ InHand(d)
    BY AtWork DEF AloneTypeInv, Record, Stages, At
  <1> DEFINE r == Recorded(d)
             a == Account(d)
  <1>2. a \in Accounts /\ run[d].account = {a}
    BY <1>1, OneInHand DEF AloneTypeInv
  <1>3. run' = [run EXCEPT ![d] = r] /\ env' = env
    BY DEF Record, Recorded
  <1>4. r \in Runs /\ r.alone = run[d].alone /\ r.todo = run[d].todo /\ r.loaded = run[d].loaded
        /\ r.forced = run[d].forced /\ run[d].fell \subseteq r.fell
    BY <1>1, AfterKeeps
  <1>5. r.stage = "loop" /\ r.account = {}
    BY <1>1, AfterTyped DEF AloneTypeInv
  <1>6. /\ \A b \in Accounts \ {a} : hash'[b] = hash[b]
        /\ hash[a] = Loaded(d).hash => hash'[a] = ConfigHash(a, Loaded(d).id)
    BY <1>2, SaveRowSaves DEF Record, AloneTypeInv
  <1> HIDE DEF r
  <1>7. ASSUME Undisturbed(d), Behind(d), Active' = {d}, run'[d] = r
        PROVE  Undisturbed(d)' /\ Behind(d)'
    <2>1. a \notin run[d].todo /\ run[d].todo \subseteq Accounts
      BY <1>1, <1>2, ActiveTyped DEF AloneTypeInv, InHand, Runs
    <2>2. hash'[a] = ConfigHash(a, run[d].loaded[a].id)
      BY <1>2, <1>6, <1>7 DEF Undisturbed, Loaded
    <2> HIDE DEF a
    <2>3. Undisturbed(d)'
      BY <1>4, <1>5, <1>6, <1>7, <2>1 DEF Undisturbed, At
    <2>4. Behind(d)'
      BY <1>2, <1>3, <1>4, <1>5, <1>6, <1>7, <2>2, HashUnmoved DEF Behind
    <2> QED
      BY <2>3, <2>4
  <1> QED
    BY <1>1, <1>3, <1>4, <1>7, DeployerStepAlone

LEMMA StepAlone == AloneTypeInv /\ [Next]_vars => AloneTypeInv'
  <1> SUFFICES ASSUME AloneTypeInv, [Next]_vars PROVE AloneInv'
    BY StepTyped DEF AloneTypeInv
  <1>1. ASSUME NEW d \in Deployers, Step(d)
        PROVE  AloneInv'
    <2>1. CASE Start(d) \/ Skip(d) \/ Render(d)
      BY <2>1, StartAlone, SkipAlone, RenderAlone
    <2>2. CASE Upload(d) \/ PutSecret(d) \/ Record(d)
      BY <2>2, UploadAlone, PutSecretAlone, RecordAlone
    <2>3. CASE Finish(d) \/ Die(d)
      <3>1. d \in Active
        BY <2>3, AtWork DEF AloneTypeInv, Finish, Die, Stages
      <3> QED
        BY <2>3, <3>1, StopsAlone DEF Finish, Die
    <2> QED
      BY <1>1, <2>1, <2>2, <2>3 DEF Step
  <1>2. CASE (\E a \in Accounts : SaveSettings(a)) \/ UNCHANGED vars
    <2>1. UNCHANGED <<env, toml, hash, run, workers>>
      BY <1>2 DEF SaveSettings, vars, rowVars, cloudVars
    <2>2. \A d : /\ Account(d)' = Account(d) /\ Loaded(d)' = Loaded(d) /\ Worker(d)' = Worker(d)
      BY <2>1 DEF Account, Loaded, Worker
    <2>3. Active' = Active
      BY <2>1 DEF Active
    <2>4. \A d \in Active : Undisturbed(d) => Undisturbed(d)'
      BY <2>1, <2>2, <2>3, HashUnmoved DEF Undisturbed, At
    <2>5. \A d \in Active : Behind(d) => Behind(d)'
      BY <2>1, HashUnmoved DEF Behind
    <2> QED
      BY <2>1, <2>3, <2>4, <2>5 DEF AloneTypeInv, AloneInv
  <1>3. CASE Release
    <2>1. Active' = {}
      BY <1>3 DEF Release, Active
    <2> QED
      BY <2>1 DEF AloneInv
  <1> QED
    BY <1>1, <1>2, <1>3 DEF Next

LEMMA AloneTypeInvAlways == Spec => []AloneTypeInv
  <1>1. Init => AloneTypeInv
    BY InitTyped DEF Init, Active, AloneTypeInv, AloneInv
  <1> QED
    BY <1>1, StepAlone, PTL DEF Spec

\* A sync pass that nothing ran beside has brought every account's hash to the
\* configuration it loaded, except those whose own deployment threw, however
\* calls failed and whatever settings were saved meanwhile.
THEOREM SyncIsThorough == Spec => []SyncPassIsThorough
  <1>1. AloneTypeInv => SyncPassIsThorough
    <2> SUFFICES ASSUME AloneTypeInv, NEW d \in Active,
                        At(d, "loop"), run[d].todo = {}, run[d].alone, ~ run[d].forced
                 PROVE  \A a \in Accounts \ run[d].fell : hash[a] = ConfigHash(a, run[d].loaded[a].id)
      BY DEF SyncPassIsThorough
    <2>1. Behind(d) /\ run[d].account = {}
      BY DEF AloneTypeInv, AloneInv, TypeInv, InHand
    <2> QED
      BY <2>1 DEF Behind
  <1> QED
    BY <1>1, AloneTypeInvAlways, PTL

-----------------------------------------------------------------------------
(* Deployment: what a whole one leaves *)

\* An account that stays whole stays settled when neither its hash nor a Worker
\* of it is touched.
LEMMA StaysSettled ==
    ASSUME WholeInv, whole' \subseteq whole,
           \A a \in whole' : /\ hash'[a] = hash[a]
                              /\ \A i \in AccountIds, p \in NamePrefixes :
                                    workers'[<<i, p, a>>] = workers[<<i, p, a>>]
    PROVE  WholeInv'
  <1> SUFFICES ASSUME NEW a \in whole' PROVE Settled(a)'
    BY DEF WholeInv
  <1>1. PICK c \in Configs : SettledBy(a, c)
    BY DEF WholeInv, Settled
  <1>2. c.id \in AccountIds /\ c.prefix \in NamePrefixes
    BY DEF Configs
  <1>3. hash'[a] = hash[a] /\ workers'[<<c.id, c.prefix, a>>] = workers[<<c.id, c.prefix, a>>]
    BY <1>2
  <1>4. SettledBy(a, c)'
    BY <1>1, <1>3 DEF SettledBy
  <1> QED
    BY <1>4 DEF Settled

\* A wrangler call touches one Worker, which no longer counts.
LEMMA CallSettled ==
    ASSUME TypeInv, WholeInv, NEW d \in Active, ~ At(d, "loop"), hash' = hash,
           Deployed(d) \/ Signed(d) \/ UNCHANGED cloudVars
    PROVE  WholeInv'
  <1>1. CASE Deployed(d) \/ Signed(d)
    <2>1. whole' = whole \ {toml.worker, Account(d)}
      BY <1>1 DEF Deployed, Signed, Unsettle
    <2>2. \A a \in whole' : a \in Accounts /\ a # toml.worker
      BY <2>1 DEF TypeInv, TypeOK
    <2>3. \A a \in whole', i \in AccountIds, p \in NamePrefixes :
             workers'[<<i, p, a>>] = workers[<<i, p, a>>]
      <3> SUFFICES ASSUME NEW a \in whole', NEW i \in AccountIds, NEW p \in NamePrefixes
                   PROVE  workers'[<<i, p, a>>] = workers[<<i, p, a>>]
        OBVIOUS
      <3>1. \A j \in AccountIds : Named(j) # <<i, p, a>>
        BY <2>2 DEF Named
      <3>2. <<i, p, a>> \in Places /\ Targets(d) \subseteq AccountIds
        BY <2>2, OneInHand DEF Places, Targets, Configs, Rows
      <3>3. CASE Deployed(d)
        <4>1. PICK j \in Targets(d) : workers' = [workers EXCEPT ![Named(j)].config = toml]
          BY <3>3 DEF Deployed
        <4> QED
          BY <3>1, <3>2, <4>1 DEF TypeInv, TypeOK
      <3>4. CASE Signed(d)
        <4>1. PICK j \in Targets(d) : workers' = [workers EXCEPT ![Named(j)].secret = Account(d)]
          BY <3>4 DEF Signed
        <4> QED
          BY <3>1, <3>2, <4>1 DEF TypeInv, TypeOK
      <3> QED
        BY <1>1, <3>3, <3>4
    <2> QED
      BY <2>1, <2>3, StaysSettled
  <1>2. CASE UNCHANGED cloudVars
    BY <1>2, StaysSettled DEF cloudVars
  <1> QED
    BY <1>1, <1>2

LEMMA RecordSettled ==
    ASSUME AloneTypeInv, WholeInv, NEW d \in Deployers, Record(d)
    PROVE  WholeInv'
  <1>1. d \in Active /\ ~ At(d, "loop") /\ At(d, "record")
    BY AtWork DEF AloneTypeInv, Record, Stages, At
  <1>2. PICK a \in Accounts, i \in AccountIds :
          /\ a = Account(d) /\ i = Loaded(d).id
          /\ run[d].account = {a} /\ Loaded(d) = run[d].loaded[a]
    BY <1>1, OneInHand DEF AloneTypeInv, Rows, Loaded
  <1>3. /\ \A b \in Accounts \ {a} : hash'[b] = hash[b]
        /\ hash[a] = Loaded(d).hash => hash'[a] = ConfigHash(a, i)
    BY <1>2, SaveRowSaves DEF Record, AloneTypeInv
  <1>4. /\ workers' = workers
        /\ whole' = whole \ {a} \/ (whole' = whole \cup {a} /\ run[d].alone /\ ~ run[d].refused)
    BY <1>2 DEF Record
  <1>5. \A b \in whole' \ {a} : Settled(b)'
    <2> SUFFICES ASSUME NEW b \in whole' \ {a} PROVE Settled(b)'
      OBVIOUS
    <2>1. b \in whole /\ hash'[b] = hash[b]
      BY <1>3, <1>4 DEF AloneTypeInv, TypeInv, TypeOK
    <2> QED
      BY <1>4, <2>1 DEF WholeInv, Settled, SettledBy
  <1>6. ASSUME run[d].alone, ~ run[d].refused
        PROVE  Settled(a)'
    <2>1. Undisturbed(d)
      BY <1>1, <1>6 DEF AloneTypeInv, AloneInv
    <2>2. hash'[a] = ConfigHash(a, i)
      BY <1>2, <1>3, <2>1 DEF Undisturbed
    <2> DEFINE c == RenderWrangler(a, i)
    <2>3. Worker(d).config = c /\ Worker(d).secret = a
      BY <1>1, <1>2, <1>6, <2>1 DEF Undisturbed
    <2>4. c \in Configs /\ c.worker = a /\ c.id = i /\ c.prefix = env.prefix /\ c.values = env.values
      BY <1>2, RenderedTyped DEF AloneTypeInv, RenderWrangler
    <2>5. Worker(d) = workers[<<c.id, c.prefix, a>>] /\ <<c.id, c.prefix, a>> \in Places
      BY <1>2, <2>4 DEF Worker, Places, Configs
    <2>6. Worker(d) \in [config : Configs \cup {NoFile}, secret : Accounts \cup {NoSecret}]
      BY <2>5 DEF AloneTypeInv, TypeInv, TypeOK
    <2>7. workers[<<c.id, c.prefix, a>>] = [config |-> c, secret |-> a]
      BY <2>3, <2>5, <2>6
    <2>8. hash'[a] = [id |-> c.id, values |-> c.values, secret |-> a]
      BY <2>2, <2>4 DEF ConfigHash
    <2> HIDE DEF c
    <2> QED
      BY <1>4, <2>4, <2>7, <2>8 DEF Settled, SettledBy
  <1> QED
    BY <1>4, <1>5, <1>6 DEF WholeInv

LEMMA StepSettled == AloneTypeInv /\ WholeInv /\ [Next]_vars => WholeInv'
  <1> SUFFICES ASSUME AloneTypeInv, WholeInv, [Next]_vars PROVE WholeInv'
    OBVIOUS
  <1>1. ASSUME NEW d \in Deployers, Upload(d) \/ PutSecret(d)
        PROVE  WholeInv'
    <2>1. d \in Active /\ ~ At(d, "loop")
      BY <1>1, AtWork DEF AloneTypeInv, Upload, PutSecret, Stages, At
    <2>2. hash' = hash /\ (Deployed(d) \/ Signed(d) \/ UNCHANGED cloudVars)
      BY <1>1 DEF Upload, PutSecret, rowVars
    <2> QED
      BY <2>1, <2>2, CallSettled DEF AloneTypeInv
  <1>2. ASSUME NEW d \in Deployers, Record(d)
        PROVE  WholeInv'
    BY <1>2, RecordSettled
  <1>3. ASSUME NEW d \in Deployers, Start(d) \/ Skip(d) \/ Render(d) \/ Finish(d) \/ Die(d)
        PROVE  WholeInv'
    BY <1>3, StaysSettled DEF Start, Skip, Render, Finish, Die, rowVars, cloudVars
  <1>4. CASE (\E a \in Accounts : SaveSettings(a)) \/ Release \/ UNCHANGED vars
    BY <1>4, StaysSettled DEF SaveSettings, Release, vars, rowVars, cloudVars
  <1> QED
    BY <1>1, <1>2, <1>3, <1>4 DEF Next, Step

\* "Not drifted" is the truth, as far as the hash goes, about every account
\* whose last deployment ran alone and to its end: a Worker of it, under the name
\* its release gave it, has the row's Cloudflare account, the values the release
\* hashes and the row's secret, whatever failed before and whatever settings and
\* releases changed since.  The hash does not cover this release's Worker name or
\* the rest of its stub, so nothing is said of them.
THEOREM DriftTellsTheTruth == Spec => []DriftIsHonest
  <1>1. AloneTypeInv /\ WholeInv => DriftIsHonest
    <2> SUFFICES ASSUME AloneTypeInv, NEW a \in whole, Settled(a), ~ IsDrifted(a, Row(a))
                 PROVE  Delivers(a)
      BY DEF WholeInv, DriftIsHonest
    <2>1. PICK c \in Configs : SettledBy(a, c)
      BY DEF Settled
    <2>2. hash[a] = [id |-> id[a], values |-> env.values, secret |-> a]
      BY DEF IsDrifted, Row, ConfigHash
    <2>3. c.id = id[a] /\ c.values = env.values
      BY <2>1, <2>2 DEF SettledBy
    <2> QED
      BY <2>1, <2>3 DEF Delivers, SettledBy
  <1>2. Init => WholeInv
    BY DEF Init, WholeInv
  <1> QED
    BY <1>1, <1>2, StepSettled, AloneTypeInvAlways, PTL DEF Spec

-----------------------------------------------------------------------------
(* Routing: the mirror's rows *)

\* The least of some numbers is one of them, and none is less.
LEMMA MinOfNumbers ==
    ASSUME NEW S, S \subseteq Nat, S # {}
    PROVE  Min(S) \in S /\ \A n \in S : Min(S) <= n
  <1>1. PICK m \in S : \A n \in S : ~ (<<n, m>> \in OpToRel(<, Nat))
    BY WFMin, NatLessThanWellFounded
  <1>2. \A n \in S : m <= n
    <2>1. ASSUME NEW n \in S, n < m
          PROVE  FALSE
      <3>1. <<n, m>> \in Nat \X Nat /\ <<n, m>>[1] < <<n, m>>[2]
        BY <2>1
      <3>2. <<n, m>> \in OpToRel(<, Nat)
        BY ONLY <3>1 DEF OpToRel
      <3> QED
        BY <1>1, <3>2
    <2> QED
      BY <2>1
  <1> QED
    BY <1>2 DEF Min

\* The items are of three kinds, and a step of the sync lists one of two.
LEMMA Kinds ==
    /\ CatchAll \in Items /\ Rules \subseteq Items /\ Addresses \subseteq Items
    /\ Rules \cap Addresses = {} /\ CatchAll \notin Rules \cup Addresses
    /\ ItemsOf(1) = {} /\ ItemsOf(2) = Addresses /\ ItemsOf(3) = Rules /\ ItemsOf(4) = {}
  BY RoutingSyncAssumption DEF Items, ItemsOf

LEMMA ValuesAreOthers == Absent \notin Values /\ Deleted \notin Values /\ Absent # Deleted
  BY RoutingSyncAssumption

\* The rows that are there, and the first of them.
LEMMA RowsThere ==
    ASSUME RSTypeOK, NEW i \in Items
    PROVE  /\ Live(i) \subseteq 1..Len(rows[i]) /\ Len(rows[i]) \in Nat /\ Len(rows[i]) <= MaxRows
           /\ DOMAIN rows[i] = 1..Len(rows[i])
           /\ \A k \in Live(i) : k \in 1..MaxRows /\ rows[i][k] \in Values
           /\ FirstRow(i) \in 0..MaxRows
           /\ Live(i) = {} => FirstRow(i) = 0
           /\ Live(i) # {} => FirstRow(i) \in Live(i) /\ FirstRow(i) # 0
           /\ \A k \in Live(i) : FirstRow(i) <= k
  <1>1. /\ rows[i] \in Seq(Values \cup {Deleted})
        /\ Len(rows[i]) \in Nat /\ Len(rows[i]) <= MaxRows /\ MaxRows \in Nat
        /\ DOMAIN rows[i] = 1..Len(rows[i])
    BY RoutingSyncAssumption DEF RSTypeOK
  <1>2. Live(i) \subseteq 1..Len(rows[i]) /\ \A k \in Live(i) : rows[i][k] \in Values
    BY <1>1 DEF Live
  <1>3. ASSUME Live(i) # {}
        PROVE  FirstRow(i) \in Live(i) /\ \A k \in Live(i) : FirstRow(i) <= k
    <2>1. Live(i) \subseteq Nat
      BY <1>1, <1>2
    <2> QED
      BY <1>3, <2>1, MinOfNumbers DEF FirstRow
  <1>4. Live(i) = {} => FirstRow(i) = 0
    BY DEF FirstRow
  <1> QED
    BY <1>1, <1>2, <1>3, <1>4

\* The mirror agrees when there is one row for what is there, and none for what is not.
LEMMA AgreesIs ==
    ASSUME RSTypeOK, NEW i \in Items
    PROVE  Agrees(i) <=> IF Exists(i) THEN \E k : Live(i) = {k} /\ rows[i][k] = remote[i]
                                      ELSE Live(i) = {}
  <1>1. Live(i) \in SUBSET (1..Len(rows[i])) /\ Len(rows[i]) \in Int
    BY RowsThere
  <1>2. IsFiniteSet(Live(i))
    <2>1. IsFiniteSet(1..Len(rows[i]))
      BY <1>1, FS_Interval
    <2> QED
      BY <1>1, <2>1, FS_Subset
  <1>3. Cardinality(Live(i)) = 1 <=> \E k : Live(i) = {k}
    BY <1>2, FS_Singleton
  <1>4. \A k : Live(i) = {k} => FirstRow(i) = k
    BY RowsThere
  <1> QED
    BY <1>3, <1>4 DEF Agrees

\* What is said of an item depends on its value and its rows alone.
LEMMA SameRows ==
    ASSUME NEW i \in Items, rows'[i] = rows[i]
    PROVE  Live(i)' = Live(i) /\ FirstRow(i)' = FirstRow(i)
  BY DEF Live, FirstRow

LEMMA SameItem ==
    ASSUME NEW i \in Items, rows'[i] = rows[i], remote'[i] = remote[i]
    PROVE  /\ Live(i)' = Live(i) /\ FirstRow(i)' = FirstRow(i)
           /\ Exists(i)' = Exists(i) /\ Agrees(i)' = Agrees(i)
  BY SameRows DEF Exists, Agrees

\* What Eloquent writes is a row.
LEMMA MergedIsValue ==
    ASSUME NEW old \in Values, NEW read \in Values, NEW want \in Values
    PROVE  /\ Merged(old, read, want) \in Values
           /\ old = read => Merged(old, read, want) = want
  BY DEF Merged, Values

\* A row that is changed to something else.
LEMMA RowSet ==
    ASSUME RSTypeOK, NEW i \in Items, NEW k \in 1..Len(rows[i]),
           NEW v \in Values \cup {Deleted}, rows' = [rows EXCEPT ![i][k] = v]
    PROVE  /\ rows' \in [Items -> Seq(Values \cup {Deleted})]
           /\ \A j \in Items : Len(rows'[j]) <= MaxRows
           /\ \A j \in Items \ {i} : rows'[j] = rows[j]
           /\ DOMAIN rows'[i] = DOMAIN rows[i]
           /\ \A l \in DOMAIN rows[i] : rows'[i][l] = IF l = k THEN v ELSE rows[i][l]
  <1>1. rows \in [Items -> Seq(Values \cup {Deleted})]
    BY DEF RSTypeOK
  <1>2. rows'[i] = [rows[i] EXCEPT ![k] = v] /\ \A j \in Items \ {i} : rows'[j] = rows[j]
    BY <1>1
  <1>3. /\ [rows[i] EXCEPT ![k] = v] \in Seq(Values \cup {Deleted})
        /\ Len([rows[i] EXCEPT ![k] = v]) = Len(rows[i])
        /\ \A l \in 1..Len(rows[i]) : [rows[i] EXCEPT ![k] = v][l] = IF l = k THEN v ELSE rows[i][l]
    <2>1. rows[i] \in Seq(Values \cup {Deleted})
      BY <1>1
    <2> QED
      BY <2>1, ExceptSeq
  <1>4. rows' \in [Items -> Seq(Values \cup {Deleted})]
    BY <1>1, <1>2, <1>3
  <1>5. \A j \in Items : Len(rows'[j]) <= MaxRows
    BY <1>2, <1>3 DEF RSTypeOK
  <1>6. DOMAIN rows[i] = 1..Len(rows[i]) /\ DOMAIN rows'[i] = 1..Len(rows[i])
    BY <1>1, <1>2
  <1> QED
    BY <1>2, <1>3, <1>4, <1>5, <1>6

\* A row that is not there stays as it is.
LEMMA NoSuchRow ==
    ASSUME RSTypeOK, NEW i \in Items, NEW k, k \notin 1..Len(rows[i]),
           NEW v, rows' = [rows EXCEPT ![i][k] = v]
    PROVE  rows' = rows
  <1>1. rows \in [Items -> Seq(Values \cup {Deleted})] /\ rows[i] \in Seq(Values \cup {Deleted})
    BY DEF RSTypeOK
  <1>2. DOMAIN rows[i] = 1..Len(rows[i])
    BY <1>1
  <1>3. [rows[i] EXCEPT ![k] = v] = rows[i]
    BY <1>1, <1>2
  <1> QED
    BY <1>1, <1>3

\* What an update that is carried out has done.
Updated(i, k, read, want) ==
    /\ rows' \in [Items -> Seq(Values \cup {Deleted})]
    /\ \A j \in Items : Len(rows'[j]) <= MaxRows
    /\ \A j \in Items \ {i} : rows'[j] = rows[j]
    /\ \A j \in Items : Live(j)' = Live(j) /\ FirstRow(j)' = FirstRow(j)
    /\ \A l \in Live(i) : rows'[i][l] = IF l = k THEN Merged(rows[i][l], read, want) ELSE rows[i][l]

\* An update keeps which rows there are, and writes what it changes into one of them.
LEMMA UpdateIs ==
    ASSUME RSTypeOK, NEW i \in Items, NEW k, NEW read \in Values, NEW want \in Values,
           Update(i, k, read, want)
    PROVE  Updated(i, k, read, want)
  <1> USE DEF Updated
  <1> DEFINE new == IF rows[i][k] = Deleted THEN rows[i][k] ELSE Merged(rows[i][k], read, want)
  <1>1. rows \in [Items -> Seq(Values \cup {Deleted})] /\ rows[i] \in Seq(Values \cup {Deleted})
    BY DEF RSTypeOK
  <1>2. rows' = [rows EXCEPT ![i][k] = new]
    BY DEF Update
  <1>3. DOMAIN rows[i] = 1..Len(rows[i])
    BY <1>1
  <1>4. CASE k \notin 1..Len(rows[i])
    <2>1. rows' = rows
      BY <1>2, <1>4, NoSuchRow
    <2>2. \A j \in Items : Live(j)' = Live(j) /\ FirstRow(j)' = FirstRow(j)
      BY <2>1, SameRows
    <2>3. k \notin Live(i)
      BY <1>3, <1>4 DEF Live
    <2> QED
      BY <1>1, <2>1, <2>2, <2>3 DEF RSTypeOK
  <1>5. CASE k \in 1..Len(rows[i])
    <2>1. rows[i][k] \in Values \cup {Deleted}
      BY <1>1, <1>5, ElementOfSeq
    <2>2. new \in Values \cup {Deleted} /\ (new \in Values <=> rows[i][k] \in Values)
      BY <2>1, MergedIsValue, ValuesAreOthers
    <2>3. k \in Live(i) => new = Merged(rows[i][k], read, want)
      BY ValuesAreOthers DEF Live
    <2> HIDE DEF new
    <2>4. /\ rows' \in [Items -> Seq(Values \cup {Deleted})]
          /\ \A j \in Items : Len(rows'[j]) <= MaxRows
          /\ \A j \in Items \ {i} : rows'[j] = rows[j]
          /\ DOMAIN rows'[i] = DOMAIN rows[i]
          /\ \A l \in DOMAIN rows[i] : rows'[i][l] = IF l = k THEN new ELSE rows[i][l]
      BY <1>2, <1>5, <2>2, RowSet
    <2>5. Live(i)' = Live(i)
      BY <2>2, <2>4 DEF Live
    <2>6. FirstRow(i)' = FirstRow(i)
      BY <2>5 DEF FirstRow
    <2>7. \A l \in Live(i) : l \in DOMAIN rows[i]
      BY DEF Live
    <2> QED
      BY <2>3, <2>4, <2>5, <2>6, <2>7, SameRows
  <1> QED
    BY <1>4, <1>5

\* Deleting a row leaves the others.
LEMMA DeletionIs ==
    ASSUME RSTypeOK, NEW i \in Items, NEW k, rows' = [rows EXCEPT ![i][k] = Deleted]
    PROVE  /\ rows' \in [Items -> Seq(Values \cup {Deleted})]
           /\ \A j \in Items : Len(rows'[j]) <= MaxRows
           /\ \A j \in Items \ {i} : rows'[j] = rows[j]
           /\ Live(i)' = Live(i) \ {k}
  <1>1. rows \in [Items -> Seq(Values \cup {Deleted})] /\ rows[i] \in Seq(Values \cup {Deleted})
    BY DEF RSTypeOK
  <1>2. DOMAIN rows[i] = 1..Len(rows[i])
    BY <1>1
  <1>3. CASE k \notin 1..Len(rows[i])
    <2>1. rows' = rows
      BY <1>3, NoSuchRow
    <2>2. k \notin Live(i) /\ Live(i)' = Live(i)
      BY <1>2, <1>3, <2>1, SameRows DEF Live
    <2> QED
      BY <1>1, <2>1, <2>2 DEF RSTypeOK
  <1>4. CASE k \in 1..Len(rows[i])
    <2>1. /\ rows' \in [Items -> Seq(Values \cup {Deleted})]
          /\ \A j \in Items : Len(rows'[j]) <= MaxRows
          /\ \A j \in Items \ {i} : rows'[j] = rows[j]
          /\ DOMAIN rows'[i] = DOMAIN rows[i]
          /\ \A l \in DOMAIN rows[i] : rows'[i][l] = IF l = k THEN Deleted ELSE rows[i][l]
      BY <1>4, RowSet
    <2>2. Live(i)' = Live(i) \ {k}
      BY <2>1, ValuesAreOthers DEF Live
    <2> QED
      BY <2>1, <2>2
  <1> QED
    BY <1>3, <1>4

\* A row is appended after the others, to a list of an item that may have another.
LEMMA AppendedIs ==
    ASSUME RSTypeOK, NEW i \in Items, NEW want \in Values, Len(rows[i]) < MaxRows,
           rows' = [rows EXCEPT ![i] = Append(@, want)]
    PROVE  /\ rows' \in [Items -> Seq(Values \cup {Deleted})]
           /\ \A j \in Items : Len(rows'[j]) <= MaxRows
           /\ \A j \in Items \ {i} : rows'[j] = rows[j]
           /\ \E k : /\ k \notin Live(i) /\ k # 0
                     /\ Live(i)' = Live(i) \cup {k} /\ rows'[i][k] = want
           /\ \A l \in Live(i) : rows'[i][l] = rows[i][l]
  <1>1. rows \in [Items -> Seq(Values \cup {Deleted})] /\ rows[i] \in Seq(Values \cup {Deleted})
    BY DEF RSTypeOK
  <1>2. rows'[i] = Append(rows[i], want) /\ \A j \in Items \ {i} : rows'[j] = rows[j]
    BY <1>1
  <1>3. /\ Append(rows[i], want) \in Seq(Values \cup {Deleted})
        /\ Len(Append(rows[i], want)) = Len(rows[i]) + 1
        /\ \A l \in 1..Len(rows[i]) : Append(rows[i], want)[l] = rows[i][l]
        /\ Append(rows[i], want)[Len(rows[i]) + 1] = want
    BY <1>1, AppendProperties
  <1>4. rows' \in [Items -> Seq(Values \cup {Deleted})]
    BY <1>1, <1>2, <1>3
  <1>5. Len(rows[i]) \in Nat /\ MaxRows \in Nat
    BY <1>1, RoutingSyncAssumption
  <1>6. \A j \in Items : Len(rows'[j]) <= MaxRows
    BY <1>2, <1>3, <1>5 DEF RSTypeOK
  <1>7. DOMAIN rows[i] = 1..Len(rows[i]) /\ DOMAIN rows'[i] = 1..(Len(rows[i]) + 1)
    BY <1>1, <1>2, <1>3
  <1>8. Live(i)' = Live(i) \cup {Len(rows[i]) + 1} /\ Len(rows[i]) + 1 \notin Live(i)
    BY <1>2, <1>3, <1>5, <1>7 DEF Live
  <1>9. \A l \in Live(i) : rows'[i][l] = rows[i][l]
    BY <1>2, <1>3, <1>7 DEF Live
  <1>10. Len(rows[i]) + 1 # 0 /\ rows'[i][Len(rows[i]) + 1] = want
    BY <1>2, <1>3, <1>5
  <1> QED
    BY <1>2, <1>4, <1>6, <1>8, <1>9, <1>10

-----------------------------------------------------------------------------
(* Routing: type correctness *)

(***************************************************************************)
(* Where a request may be in its operation.  The items it has listed and   *)
(* not yet upserted are its step's, or the one it created; what it is      *)
(* about to write is one of them.                                          *)
(***************************************************************************)
Control(q) ==
    /\ req[q].pc = "idle" <=> req[q].job = "none"
    /\ req[q].job \in {"put", "delete"} => req[q].pc \in {"remote", "local"}
    /\ req[q].job = "post" => /\ req[q].pc \in {"remote", "select", "write"}
                              /\ \A t \in req[q].todo : t[1] = req[q].item
    /\ req[q].job = "sync" => req[q].pc \in {"list", "select", "write"}
    /\ req[q].job = "sync" /\ req[q].pc \in {"select", "write"} =>
         /\ req[q].step \in 1..3
         /\ \A t \in req[q].todo : t[1] \in ItemsOf(req[q].step)
    /\ req[q].pc = "write" => <<req[q].item, req[q].want>> \in req[q].todo

RSTypeInv == RSTypeOK /\ \A q \in Requests : Control(q)

LEMMA RestingIs ==
    /\ Resting \in ReqStates
    /\ Resting.job = "none" /\ Resting.pc = "idle" /\ Resting.todo = {}
    /\ Resting.step = 1 /\ Resting.errors = {} /\ Resting.id = 0 /\ Resting.item = CatchAll
  BY Kinds, RoutingSyncAssumption
  DEF Resting, ReqStates, Jobs, Pcs, Value, Values

\* What is to be shown of the next state of a request's step.
LEMMA RSTypeStep ==
    ASSUME RSTypeInv, NEW q \in Requests,
           req' \in [Requests -> ReqStates], \A p \in Requests \ {q} : req'[p] = req[p],
           Control(q)',
           remote' \in [Items -> Values \cup {Absent, Deleted}],
           rows' \in [Items -> Seq(Values \cup {Deleted})],
           \A i \in Items : Len(rows'[i]) <= MaxRows,
           standing' \in [Items -> {"inSync", "disturbed", "synced"}],
           clean' \in [Requests -> SUBSET Items],
           ops' \in 0..MaxOps, edits' \in 0..MaxEdits
    PROVE  RSTypeInv'
  <1>1. \A p \in Requests \ {q} : Control(p)'
    BY DEF RSTypeInv, Control
  <1> QED
    BY <1>1 DEF RSTypeInv, RSTypeOK

\* The history stays typed.
LEMMA HistoryTyped ==
    ASSUME RSTypeOK, NEW q \in Requests
    PROVE  /\ \A i \in Items : StartsOn(q, i) =>
                /\ standing' \in [Items -> {"inSync", "disturbed", "synced"}]
                /\ clean' \in [Requests -> SUBSET Items]
           /\ \A S \in SUBSET Items : StartsStep(q, S) =>
                /\ standing' \in [Items -> {"inSync", "disturbed", "synced"}]
                /\ clean' \in [Requests -> SUBSET Items]
           /\ UNCHANGED historyVars =>
                /\ standing' \in [Items -> {"inSync", "disturbed", "synced"}]
                /\ clean' \in [Requests -> SUBSET Items]
  BY DEF RSTypeOK, StartsOn, StartsStep, historyVars

LEMMA OpsTyped ==
    ASSUME RSTypeOK, OneMoreOp
    PROVE  ops' \in 0..MaxOps
  BY RoutingSyncAssumption DEF RSTypeOK, OneMoreOp

(***************************************************************************)
(* What each step makes of the request that takes it.                      *)
(***************************************************************************)
LEMMA RestIs ==
    ASSUME RSTypeOK, NEW q \in Requests, Rest(q)
    PROVE  /\ req' \in [Requests -> ReqStates]
           /\ \A p \in Requests \ {q} : req'[p] = req[p]
           /\ req'[q] = Resting /\ Control(q)'
  <1>1. /\ req' \in [Requests -> ReqStates] /\ req'[q] = Resting
        /\ \A p \in Requests \ {q} : req'[p] = req[p]
    BY RestingIs DEF Rest, RSTypeOK
  <1>2. Control(q)'
    BY <1>1, RestingIs DEF Control
  <1> QED
    BY <1>1, <1>2

LEMMA LoadIs ==
    ASSUME RSTypeOK, NEW q \in Requests, NEW job \in {"put", "delete"}, NEW i \in Items,
           NEW k, NEW want \in Values, Load(q, job, i, k, want)
    PROVE  /\ req' \in [Requests -> ReqStates]
           /\ \A p \in Requests \ {q} : req'[p] = req[p]
           /\ req'[q].job = job /\ req'[q].pc = "remote" /\ req'[q].item = i
           /\ req'[q].id = k /\ req'[q].loaded = rows[i][k] /\ req'[q].want = want
           /\ Control(q)'
  <1> DEFINE r == [Resting EXCEPT
                     !.job = job, !.pc = "remote", !.item = i, !.id = k,
                     !.loaded = rows[i][k], !.want = want]
  <1>1. k \in Live(i) /\ k \in 0..MaxRows /\ rows[i][k] \in Values
    BY RowsThere DEF Load
  <1>2. /\ r \in ReqStates /\ r.job = job /\ r.pc = "remote" /\ r.item = i /\ r.id = k
        /\ r.loaded = rows[i][k] /\ r.want = want
    BY <1>1, RestingIs DEF ReqStates, Jobs, Pcs
  <1>3. req' = [req EXCEPT ![q] = r] /\ req \in [Requests -> ReqStates]
    BY DEF Load, RSTypeOK
  <1> HIDE DEF r
  <1>4. /\ req' \in [Requests -> ReqStates] /\ req'[q] = r
        /\ \A p \in Requests \ {q} : req'[p] = req[p]
    BY <1>2, <1>3
  <1>5. Control(q)'
    BY <1>2, <1>4 DEF Control
  <1> QED
    BY <1>2, <1>4, <1>5

LEMMA LocalIs ==
    ASSUME RSTypeInv, NEW q \in Requests, Goto(q, "local"),
           req[q].pc = "remote", req[q].job \in {"put", "delete"}
    PROVE  /\ req' \in [Requests -> ReqStates]
           /\ \A p \in Requests \ {q} : req'[p] = req[p]
           /\ req'[q].job = req[q].job /\ req'[q].pc = "local" /\ req'[q].item = req[q].item
           /\ req'[q].id = req[q].id /\ req'[q].loaded = req[q].loaded
           /\ req'[q].want = req[q].want
           /\ Control(q)'
  <1>1. req \in [Requests -> ReqStates] /\ Control(q) /\ req[q] \in ReqStates
    BY DEF RSTypeInv, RSTypeOK
  <1> DEFINE r == [req[q] EXCEPT !.pc = "local"]
  <1>2. /\ r \in ReqStates /\ r.job = req[q].job /\ r.pc = "local" /\ r.item = req[q].item
        /\ r.id = req[q].id /\ r.loaded = req[q].loaded /\ r.want = req[q].want
        /\ r.todo = req[q].todo
    BY <1>1 DEF ReqStates, Pcs
  <1>3. req' = [req EXCEPT ![q] = r]
    BY <1>1 DEF Goto
  <1> HIDE DEF r
  <1>4. /\ req' \in [Requests -> ReqStates] /\ req'[q] = r
        /\ \A p \in Requests \ {q} : req'[p] = req[p]
    BY <1>1, <1>2, <1>3
  <1>5. Control(q)'
    BY <1>1, <1>2, <1>4 DEF Control
  <1> QED
    BY <1>2, <1>4, <1>5

LEMMA CreateIs ==
    ASSUME RSTypeOK, NEW q \in Requests, NEW i \in Rules \cup Addresses, NEW v \in Values,
           Create(q, i, v)
    PROVE  /\ req' \in [Requests -> ReqStates]
           /\ \A p \in Requests \ {q} : req'[p] = req[p]
           /\ req'[q].job = "post" /\ req'[q].pc = "remote" /\ req'[q].item = i
           /\ Control(q)'
  <1> DEFINE r == [Resting EXCEPT !.job = "post", !.pc = "remote", !.item = i, !.want = v]
  <1>1. i \in Items
    BY Kinds
  <1>2. /\ r \in ReqStates /\ r.job = "post" /\ r.pc = "remote" /\ r.item = i
        /\ r.todo = {}
    BY <1>1, RestingIs DEF ReqStates, Jobs, Pcs
  <1>3. req' = [req EXCEPT ![q] = r] /\ req \in [Requests -> ReqStates]
    BY DEF Create, RSTypeOK
  <1> HIDE DEF r
  <1>4. /\ req' \in [Requests -> ReqStates] /\ req'[q] = r
        /\ \A p \in Requests \ {q} : req'[p] = req[p]
    BY <1>2, <1>3
  <1>5. Control(q)'
    BY <1>2, <1>4 DEF Control
  <1> QED
    BY <1>2, <1>4, <1>5

LEMMA PostIs ==
    ASSUME RSTypeInv, NEW q \in Requests, PostAnswered(q)
    PROVE  /\ req' \in [Requests -> ReqStates]
           /\ \A p \in Requests \ {q} : req'[p] = req[p]
           /\ req'[q].job = "post" /\ req'[q].pc = "select" /\ req'[q].item = req[q].item
           /\ req'[q].todo = {<<req[q].item, req[q].want>>}
           /\ Control(q)'
  <1> DEFINE i == req[q].item
             r == [req[q] EXCEPT !.pc = "select", !.todo = {<<i, req[q].want>>}]
  <1>1. req \in [Requests -> ReqStates] /\ req[q] \in ReqStates /\ req[q].job = "post"
    BY DEF RSTypeInv, RSTypeOK, PostAnswered
  <1>2. {<<i, req[q].want>>} \in SUBSET (Items \X Values)
    BY <1>1 DEF ReqStates
  <1>3. /\ r \in ReqStates /\ r.job = "post" /\ r.pc = "select" /\ r.item = i
        /\ r.todo = {<<i, req[q].want>>}
    BY <1>1, <1>2 DEF ReqStates, Pcs
  <1>4. req' = [req EXCEPT ![q] = r]
    BY <1>1 DEF PostAnswered
  <1> HIDE DEF r
  <1>5. /\ req' \in [Requests -> ReqStates] /\ req'[q] = r
        /\ \A p \in Requests \ {q} : req'[p] = req[p]
    BY <1>1, <1>3, <1>4
  <1>6. Control(q)'
    BY <1>3, <1>5 DEF Control
  <1> QED
    BY <1>3, <1>5, <1>6

LEMMA BeginIs ==
    ASSUME RSTypeOK, NEW q \in Requests, BeginSync(q)
    PROVE  /\ req' \in [Requests -> ReqStates]
           /\ \A p \in Requests \ {q} : req'[p] = req[p]
           /\ req'[q].job = "sync" /\ req'[q].pc = "list" /\ req'[q].step = 1
           /\ Control(q)'
  <1> DEFINE r == [Resting EXCEPT !.job = "sync", !.pc = "list"]
  <1>1. r \in ReqStates /\ r.job = "sync" /\ r.pc = "list" /\ r.step = 1
    BY RestingIs DEF ReqStates, Jobs, Pcs
  <1>2. req' = [req EXCEPT ![q] = r] /\ req \in [Requests -> ReqStates]
    BY DEF BeginSync, RSTypeOK
  <1> HIDE DEF r
  <1>3. /\ req' \in [Requests -> ReqStates] /\ req'[q] = r
        /\ \A p \in Requests \ {q} : req'[p] = req[p]
    BY <1>1, <1>2
  <1>4. Control(q)'
    BY <1>1, <1>3 DEF Control
  <1> QED
    BY <1>1, <1>3, <1>4

LEMMA StepsAre ==
    /\ Len(Steps) = 3
    /\ \A s \in 1..3 : Steps[s] \in {"domains", "addresses", "rules"}
    /\ \A s, t \in 1..3 : Steps[s] = Steps[t] => s = t
  BY DEF Steps

\* The items that a step finds at Cloudflare.
Here(s) == {i \in ItemsOf(s) : Exists(i)}

LEMMA ListIs ==
    ASSUME RSTypeInv, NEW q \in Requests, List(q)
    PROVE  /\ req' \in [Requests -> ReqStates]
           /\ \A p \in Requests \ {q} : req'[p] = req[p]
           /\ req[q].job = "sync" /\ req[q].step \in 1..3
           /\ req'[q].job = "sync" /\ req'[q].pc = "select" /\ req'[q].step = req[q].step
           /\ req'[q].errors = req[q].errors
           /\ \E page \in kSubset(Min({PageSize, Cardinality(Here(req[q].step))}), Here(req[q].step)) :
                  /\ page \subseteq Here(req[q].step)
                  /\ req'[q].todo = {<<i, remote[i]>> : i \in page}
           /\ Control(q)'
  <1>1. /\ req \in [Requests -> ReqStates] /\ Control(q) /\ req[q] \in ReqStates
        /\ req[q].pc = "list" /\ req[q].step <= 3
    BY StepsAre DEF RSTypeInv, RSTypeOK, List
  <1>2. req[q].job = "sync" /\ req[q].step \in 1..3
    BY <1>1 DEF Control, ReqStates, Jobs
  <1>3. PICK page \in kSubset(Min({PageSize, Cardinality(Here(req[q].step))}), Here(req[q].step)) :
           req' = [req EXCEPT ![q].pc = "select", ![q].todo = {<<i, remote[i]>> : i \in page}]
    BY DEF List, Here
  <1>4. page \subseteq Here(req[q].step)
    BY DEF kSubset
  <1> DEFINE todo == {<<i, remote[i]>> : i \in page}
             r == [req[q] EXCEPT !.pc = "select", !.todo = todo]
  <1>5. todo \in SUBSET (Items \X Values) /\ \A t \in todo : t[1] \in ItemsOf(req[q].step)
    BY <1>2, <1>4, Kinds DEF Here, Exists
  <1>6. req' = [req EXCEPT ![q] = r]
    BY <1>1, <1>3
  <1> HIDE DEF todo
  <1>7. /\ r \in ReqStates /\ r.job = req[q].job /\ r.pc = "select" /\ r.step = req[q].step
        /\ r.errors = req[q].errors /\ r.todo = todo
    BY <1>1, <1>5 DEF ReqStates, Pcs
  <1> HIDE DEF r
  <1>8. /\ req' \in [Requests -> ReqStates] /\ req'[q] = r
        /\ \A p \in Requests \ {q} : req'[p] = req[p]
    BY <1>1, <1>6, <1>7
  <1>9. Control(q)'
    BY <1>2, <1>5, <1>7, <1>8 DEF Control
  <1>10. req'[q].todo = {<<i, remote[i]>> : i \in page}
    BY <1>7, <1>8 DEF todo
  <1> QED
    BY <1>2, <1>4, <1>7, <1>8, <1>9, <1>10

LEMMA ThrowsIs ==
    ASSUME RSTypeInv, NEW q \in Requests, StepThrows(q)
    PROVE  /\ req' \in [Requests -> ReqStates]
           /\ \A p \in Requests \ {q} : req'[p] = req[p]
           /\ req[q].job = "sync" /\ req[q].pc = "list" /\ req[q].step \in 1..3
           /\ req'[q].job = "sync" /\ req'[q].pc = "list" /\ req'[q].step = req[q].step + 1
           /\ req'[q].errors = req[q].errors \cup {Steps[req[q].step]}
           /\ Control(q)'
  <1>1. /\ req \in [Requests -> ReqStates] /\ Control(q) /\ req[q] \in ReqStates
        /\ req[q].pc = "list" /\ req[q].step <= 3
    BY StepsAre DEF RSTypeInv, RSTypeOK, StepThrows
  <1>2. req[q].job = "sync" /\ req[q].step \in 1..3
    BY <1>1 DEF Control, ReqStates, Jobs
  <1> DEFINE errors == req[q].errors \cup {Steps[req[q].step]}
             step == req[q].step + 1
             r == [req[q] EXCEPT !.errors = errors, !.step = step]
  <1>3. errors \in SUBSET {"domains", "addresses", "rules"} /\ step \in 1..4
    BY <1>1, <1>2, StepsAre DEF ReqStates
  <1>4. req' = [req EXCEPT ![q] = r]
    BY <1>1 DEF StepThrows
  <1> HIDE DEF errors, step
  <1>5. /\ r \in ReqStates /\ r.job = req[q].job /\ r.pc = req[q].pc /\ r.step = step
        /\ r.errors = errors /\ r.todo = req[q].todo
    BY <1>1, <1>3 DEF ReqStates
  <1> HIDE DEF r
  <1>6. /\ req' \in [Requests -> ReqStates] /\ req'[q] = r
        /\ \A p \in Requests \ {q} : req'[p] = req[p]
    BY <1>1, <1>4, <1>5
  <1>7. Control(q)'
    BY <1>1, <1>2, <1>5, <1>6 DEF Control
  <1> QED
    BY <1>1, <1>2, <1>5, <1>6, <1>7 DEF errors, step

LEMMA SelectIs ==
    ASSUME RSTypeInv, NEW q \in Requests, Select(q)
    PROVE  /\ req' \in [Requests -> ReqStates]
           /\ \A p \in Requests \ {q} : req'[p] = req[p]
           /\ req[q].pc = "select"
           /\ req'[q].job = req[q].job /\ req'[q].pc = "write" /\ req'[q].step = req[q].step
           /\ req'[q].todo = req[q].todo /\ req'[q].errors = req[q].errors
           /\ <<req'[q].item, req'[q].want>> \in req[q].todo
           /\ req'[q].id = FirstRow(req'[q].item)
           /\ req'[q].id # 0 => req'[q].loaded = rows[req'[q].item][req'[q].id]
           /\ req'[q].job = "post" => req'[q].item = req[q].item
           /\ Control(q)'
  <1>1. /\ req \in [Requests -> ReqStates] /\ Control(q) /\ req[q] \in ReqStates
        /\ req[q].pc = "select"
    BY DEF RSTypeInv, RSTypeOK, Select
  <1>2. req[q].job \in {"post", "sync"}
    BY <1>1 DEF Control, ReqStates, Jobs
  <1>3. PICK t \in req[q].todo :
            req' = [req EXCEPT ![q].pc = "write", ![q].item = t[1], ![q].id = FirstRow(t[1]),
                       ![q].want = t[2],
                       ![q].loaded = IF FirstRow(t[1]) = 0 THEN t[2] ELSE rows[t[1]][FirstRow(t[1])]]
    BY DEF Select
  <1> DEFINE i == t[1]
             v == t[2]
             k == FirstRow(t[1])
             loaded == IF FirstRow(t[1]) = 0 THEN t[2] ELSE rows[t[1]][FirstRow(t[1])]
             r == [req[q] EXCEPT !.pc = "write", !.item = i, !.id = k, !.want = v, !.loaded = loaded]
  <1>4. i \in Items /\ v \in Values /\ t = <<i, v>>
    BY <1>1 DEF ReqStates
  <1>5. k \in 0..MaxRows /\ (k # 0 => k \in Live(i)) /\ k = FirstRow(i)
    BY <1>4, RowsThere DEF RSTypeInv
  <1>6. loaded \in Values /\ (k # 0 => loaded = rows[i][k])
    BY <1>4, <1>5 DEF Live
  <1>7. req' = [req EXCEPT ![q] = r]
    BY <1>1, <1>3
  <1>8. <<i, v>> \in req[q].todo
    BY <1>4
  <1>9. req[q].job = "post" => i = req[q].item
    BY <1>1 DEF Control
  <1>10. req[q].job = "sync" => req[q].step \in 1..3 /\ \A u \in req[q].todo : u[1] \in ItemsOf(req[q].step)
    BY <1>1 DEF Control
  <1>11. req[q].job = "post" => \A u \in req[q].todo : u[1] = req[q].item
    BY <1>1 DEF Control
  <1> HIDE DEF i, v, k, loaded
  <1>12. /\ r \in ReqStates /\ r.job = req[q].job /\ r.pc = "write" /\ r.item = i /\ r.id = k
         /\ r.want = v /\ r.loaded = loaded /\ r.step = req[q].step /\ r.todo = req[q].todo
         /\ r.errors = req[q].errors
    BY <1>1, <1>4, <1>5, <1>6 DEF ReqStates, Pcs
  <1> HIDE DEF r
  <1>13. /\ req' \in [Requests -> ReqStates] /\ req'[q] = r
         /\ \A p \in Requests \ {q} : req'[p] = req[p]
    BY <1>1, <1>7, <1>12
  <1>14. Control(q)'
    BY <1>2, <1>8, <1>9, <1>10, <1>11, <1>12, <1>13 DEF Control
  <1> QED
    BY <1>1, <1>5, <1>6, <1>8, <1>9, <1>12, <1>13, <1>14

LEMMA WriteIs ==
    ASSUME RSTypeInv, NEW q \in Requests, Write(q)
    PROVE  /\ req' \in [Requests -> ReqStates]
           /\ \A p \in Requests \ {q} : req'[p] = req[p]
           /\ req[q].pc = "write" /\ req[q].job \in {"post", "sync"}
           /\ req'[q].job = req[q].job /\ req'[q].pc = "select" /\ req'[q].step = req[q].step
           /\ req'[q].todo = req[q].todo \ {<<req[q].item, req[q].want>>}
           /\ req'[q].errors = req[q].errors
           /\ req[q].job = "post" => req'[q].item = req[q].item
           /\ Control(q)'
  <1>1. /\ req \in [Requests -> ReqStates] /\ Control(q) /\ req[q] \in ReqStates
        /\ req[q].pc = "write"
    BY DEF RSTypeInv, RSTypeOK, Write
  <1>2. req[q].job \in {"post", "sync"}
    BY <1>1 DEF Control, ReqStates, Jobs
  <1> DEFINE todo == req[q].todo \ {<<req[q].item, req[q].want>>}
             item == IF req[q].job = "post" THEN req[q].item ELSE Resting.item
             r == [Resting EXCEPT !.job = req[q].job, !.pc = "select", !.item = item,
                      !.step = req[q].step, !.todo = todo, !.errors = req[q].errors]
  <1>3. todo \in SUBSET (Items \X Values) /\ item \in Items
    BY <1>1, RestingIs DEF ReqStates
  <1>4. req' = [req EXCEPT ![q] = r]
    BY DEF Write
  <1>5. req[q].job = "post" => item = req[q].item
    OBVIOUS
  <1>6. req[q].job = "sync" => req[q].step \in 1..3 /\ \A u \in todo : u[1] \in ItemsOf(req[q].step)
    BY <1>1 DEF Control
  <1>7. req[q].job = "post" => \A u \in todo : u[1] = req[q].item
    BY <1>1 DEF Control
  <1> HIDE DEF item
  <1>8. /\ r \in ReqStates /\ r.job = req[q].job /\ r.pc = "select" /\ r.item = item
        /\ r.step = req[q].step /\ r.todo = todo /\ r.errors = req[q].errors
    BY <1>1, <1>3, RestingIs DEF ReqStates, Pcs
  <1> HIDE DEF r
  <1>9. /\ req' \in [Requests -> ReqStates] /\ req'[q] = r
        /\ \A p \in Requests \ {q} : req'[p] = req[p]
    BY <1>1, <1>4, <1>8
  <1>10. Control(q)'
    BY <1>2, <1>5, <1>6, <1>7, <1>8, <1>9 DEF Control
  <1> QED
    BY <1>1, <1>2, <1>5, <1>8, <1>9, <1>10

LEMMA LoopEnds ==
    ASSUME RSTypeInv, NEW q \in Requests, EndLoop(q)
    PROVE  /\ req' \in [Requests -> ReqStates]
           /\ \A p \in Requests \ {q} : req'[p] = req[p]
           /\ req[q].pc = "select" /\ req[q].todo = {}
           /\ req[q].job = "post" => req'[q] = Resting
           /\ req[q].job # "post" =>
                /\ req[q].job = "sync" /\ req[q].step \in 1..3
                /\ req'[q].job = "sync" /\ req'[q].pc = "list"
                /\ req'[q].step = req[q].step + 1 /\ req'[q].errors = req[q].errors
           /\ Control(q)'
  <1>1. /\ req \in [Requests -> ReqStates] /\ Control(q) /\ req[q] \in ReqStates
        /\ req[q].pc = "select" /\ req[q].todo = {}
    BY DEF RSTypeInv, RSTypeOK, EndLoop
  <1>2. CASE req[q].job = "post"
    BY <1>1, <1>2, RestIs DEF EndLoop, RSTypeInv
  <1>3. CASE req[q].job # "post"
    <2>1. req[q].job = "sync" /\ req[q].step \in 1..3
      BY <1>1, <1>3 DEF Control, ReqStates, Jobs
    <2> DEFINE step == req[q].step + 1
               r == [req[q] EXCEPT !.pc = "list", !.step = step]
    <2>2. req' = [req EXCEPT ![q].pc = "list", ![q].step = req[q].step + 1]
      BY <1>3 DEF EndLoop
    <2>3. req' = [req EXCEPT ![q] = r]
      BY <1>1, <2>2
    <2>4. step \in 1..4
      BY <2>1
    <2> HIDE DEF step
    <2>5. /\ r \in ReqStates /\ r.job = "sync" /\ r.pc = "list" /\ r.step = step
          /\ r.errors = req[q].errors
      BY <1>1, <2>1, <2>4 DEF ReqStates, Pcs
    <2> HIDE DEF r
    <2>6. /\ req' \in [Requests -> ReqStates] /\ req'[q] = r
          /\ \A p \in Requests \ {q} : req'[p] = req[p]
      BY <1>1, <2>5, <2>3
    <2>7. Control(q)'
      BY <2>5, <2>6 DEF Control
    <2> QED
      BY <1>1, <1>3, <2>1, <2>5, <2>6, <2>7 DEF step
  <1> QED
    BY <1>2, <1>3

\* What the second half of an upsert does to the rows.
LEMMA WriteRowsIs ==
    ASSUME RSTypeInv, NEW q \in Requests, Write(q)
    PROVE  /\ req[q].item \in Items /\ req[q].want \in Values /\ req[q].loaded \in Values
           /\ req[q].id # 0 => Update(req[q].item, req[q].id, req[q].loaded, req[q].want)
           /\ req[q].id = 0 => Insert(req[q].item, req[q].want)
  <1>1. req[q] \in ReqStates
    BY DEF RSTypeInv, RSTypeOK
  <1> QED
    BY <1>1 DEF Write, ReqStates

LEMMA WriteRowsTyped ==
    ASSUME RSTypeInv, NEW q \in Requests, Write(q)
    PROVE  /\ rows' \in [Items -> Seq(Values \cup {Deleted})]
           /\ \A i \in Items : Len(rows'[i]) <= MaxRows
           /\ \A i \in Items \ {req[q].item} : rows'[i] = rows[i]
  <1> DEFINE i == req[q].item
             want == req[q].want
  <1>1. i \in Items /\ want \in Values /\ RSTypeOK
    BY WriteRowsIs DEF RSTypeInv
  <1>2. CASE req[q].id # 0
    BY <1>1, <1>2, WriteRowsIs, UpdateIs DEF Updated
  <1>3. CASE req[q].id = 0
    <2>1. Insert(i, want)
      BY <1>3, WriteRowsIs
    <2>2. CASE i \in Addresses /\ Live(i) # {}
      <3>1. Update(i, FirstRow(i), rows[i][FirstRow(i)], want)
        BY <2>1, <2>2 DEF Insert
      <3>2. rows[i][FirstRow(i)] \in Values
        BY <1>1, <2>2, RowsThere
      <3> QED
        BY <1>1, <3>1, <3>2, UpdateIs DEF Updated
    <2>3. CASE ~ (i \in Addresses /\ Live(i) # {})
      <3>1. Len(rows[i]) < MaxRows /\ rows' = [rows EXCEPT ![i] = Append(@, want)]
        BY <2>1, <2>3 DEF Insert
      <3> QED
        BY <1>1, <3>1, AppendedIs
    <2> QED
      BY <2>2, <2>3
  <1> QED
    BY <1>2, <1>3

\* Every operation of the panel but the creations begins with loading a row.
LoadsRow(q) ==
    \E job \in {"put", "delete"}, i \in Items, k \in 1..MaxRows, want \in Values :
        Load(q, job, i, k, want)

LEMMA PanelLoads ==
    ASSUME RSTypeOK, NEW q \in Requests
    PROVE  /\ \A i \in Items, k \in 1..MaxRows : ToggleRule(q, i, k) \/ Delete(q, i, k) => LoadsRow(q)
           /\ SetCatchAllToWorker(q) \/ DisableCatchAll(q) => LoadsRow(q)
  <1>1. Value(TRUE, NoActions) \in Values /\ Value(FALSE, NoActions) \in Values /\ 1 \in 1..MaxRows
    BY RoutingSyncAssumption DEF Value, Values
  <1>2. ASSUME NEW i \in Items, NEW k \in 1..MaxRows, ToggleRule(q, i, k)
        PROVE  LoadsRow(q)
    <2>1. rows[i][k] \in Values
      BY <1>2 DEF ToggleRule, Live
    <2>2. [rows[i][k] EXCEPT !.flag = ~ @] \in Values
      BY <2>1 DEF Values
    <2> QED
      BY <1>2, <2>2 DEF ToggleRule, LoadsRow
  <1>3. ASSUME NEW i \in Items, NEW k \in 1..MaxRows, Delete(q, i, k)
        PROVE  LoadsRow(q)
    BY <1>1, <1>3 DEF Delete, LoadsRow
  <1>4. SetCatchAllToWorker(q) \/ DisableCatchAll(q) => LoadsRow(q)
    BY <1>1, Kinds DEF SetCatchAllToWorker, DisableCatchAll, LoadsRow
  <1> QED
    BY <1>2, <1>3, <1>4

\* A step is one of these.
LEMMA StepKinds ==
    ASSUME RSTypeOK, RSNext
    PROVE  \/ \E q \in Requests :
                \/ LoadsRow(q) \/ PutAnswered(q) \/ DeleteAnswered(q) \/ SaveMirror(q) \/ DeleteRow(q)
                \/ \E i \in Rules \cup Addresses, v \in Values : Create(q, i, v)
                \/ PostAnswered(q) \/ \E j \in Rules : TryLost(q, j)
                \/ BeginSync(q) \/ List(q) \/ StepThrows(q) \/ Report(q)
                \/ Select(q) \/ Write(q) \/ EndLoop(q) \/ BreaksOff(q)
           \/ \E i \in Items : Dashboard(i)
  BY PanelLoads DEF RSNext, Panel, Sync

LEMMA GoneTyped ==
    ASSUME NEW i
    PROVE  Gone(i) \in {Absent, Deleted} /\ Gone(i) \notin Values
  BY ValuesAreOthers DEF Gone

LEMMA RSInitTyped == RSInit => RSTypeInv
  <1> SUFFICES ASSUME RSInit PROVE RSTypeInv
    OBVIOUS
  <1>1. Value(FALSE, NoActions) \in Values
    BY DEF Value, Values
  <1>2. /\ req = [q \in Requests |-> Resting] /\ standing = [i \in Items |-> "inSync"]
        /\ clean = [q \in Requests |-> {}] /\ ops = 0 /\ edits = 0
        /\ remote = [i \in Items |-> IF i = CatchAll THEN Value(FALSE, NoActions) ELSE Absent]
        /\ rows = [i \in Items |-> IF i = CatchAll THEN <<Value(FALSE, NoActions)>> ELSE << >>]
    BY DEF RSInit
  <1>3. req \in [Requests -> ReqStates] /\ \A q \in Requests : Control(q)
    BY <1>2, RestingIs DEF Control
  <1> DEFINE v == Value(FALSE, NoActions)
             S == Values \cup {Deleted}
  <1> HIDE DEF S
  <1>4. <<v>> \in Seq(S) /\ Len(<<v>>) = 1 /\ << >> \in Seq(S) /\ Len(<< >>) = 0
    <2>1. v \in S
      BY <1>1 DEF S
    <2> HIDE DEF v
    <2> QED
      BY <2>1
  <1> HIDE DEF v
  <1>5. rows = [i \in Items |-> IF i = CatchAll THEN <<v>> ELSE << >>]
    BY <1>2 DEF v
  <1>6. rows \in [Items -> Seq(S)] /\ \A i \in Items : Len(rows[i]) <= MaxRows
    BY <1>4, <1>5, RoutingSyncAssumption
  <1>7. remote \in [Items -> Values \cup {Absent, Deleted}]
    BY <1>1, <1>2
  <1>8. /\ standing \in [Items -> {"inSync", "disturbed", "synced"}]
        /\ clean \in [Requests -> SUBSET Items] /\ ops \in 0..MaxOps /\ edits \in 0..MaxEdits
    BY <1>2, RoutingSyncAssumption
  <1> QED
    BY <1>3, <1>6, <1>7, <1>8 DEF RSTypeInv, RSTypeOK, S

LEMMA RSTypePreserved ==
    ASSUME RSTypeInv, [RSNext]_rsVars
    PROVE  RSTypeInv'
  <1> USE DEF historyVars, boundVars
  <1>1. /\ RSTypeOK /\ req \in [Requests -> ReqStates]
        /\ remote \in [Items -> Values \cup {Absent, Deleted}]
        /\ rows \in [Items -> Seq(Values \cup {Deleted})]
        /\ \A i \in Items : Len(rows[i]) <= MaxRows
        /\ standing \in [Items -> {"inSync", "disturbed", "synced"}]
        /\ clean \in [Requests -> SUBSET Items]
        /\ ops \in 0..MaxOps /\ edits \in 0..MaxEdits
    BY DEF RSTypeInv, RSTypeOK
  <1>2. ASSUME NEW q \in Requests
        PROVE  req[q] \in ReqStates /\ req[q].item \in Items /\ req[q].want \in Values
               /\ req[q].loaded \in Values
    BY <1>1 DEF ReqStates
  <1>3. ASSUME NEW q \in Requests, LoadsRow(q)
        PROVE  RSTypeInv'
    <2>1. PICK job \in {"put", "delete"}, i \in Items, k \in 1..MaxRows, want \in Values :
              Load(q, job, i, k, want)
      BY <1>3 DEF LoadsRow
    <2>2. StartsOn(q, i) /\ OneMoreOp /\ UNCHANGED <<remote, rows, edits>>
      BY <2>1 DEF Load
    <2>3. /\ standing' \in [Items -> {"inSync", "disturbed", "synced"}]
          /\ clean' \in [Requests -> SUBSET Items] /\ ops' \in 0..MaxOps
      BY <1>1, <2>2, HistoryTyped, OpsTyped
    <2>4. /\ req' \in [Requests -> ReqStates] /\ \A p \in Requests \ {q} : req'[p] = req[p]
          /\ Control(q)'
      BY <1>1, <2>1, LoadIs
    <2> QED
      BY <1>1, <2>2, <2>3, <2>4, RSTypeStep
  <1>4. ASSUME NEW q \in Requests, PutAnswered(q) \/ DeleteAnswered(q)
        PROVE  RSTypeInv'
    <2>1. /\ req[q].pc = "remote" /\ req[q].job \in {"put", "delete"} /\ Goto(q, "local")
          /\ UNCHANGED <<rows, historyVars, boundVars>>
      BY <1>4 DEF PutAnswered, DeleteAnswered
    <2>2. remote' \in [Items -> Values \cup {Absent, Deleted}]
      BY <1>1, <1>2, <1>4, GoneTyped DEF PutAnswered, DeleteAnswered
    <2>3. /\ req' \in [Requests -> ReqStates] /\ \A p \in Requests \ {q} : req'[p] = req[p]
          /\ Control(q)'
      BY <2>1, LocalIs
    <2> QED
      BY <1>1, <2>1, <2>2, <2>3, RSTypeStep
  <1>5. ASSUME NEW q \in Requests, SaveMirror(q) \/ DeleteRow(q)
        PROVE  RSTypeInv'
    <2>1. Rest(q) /\ UNCHANGED <<remote, historyVars, boundVars>>
      BY <1>5 DEF SaveMirror, DeleteRow
    <2>2. SaveMirror(q) => Update(req[q].item, req[q].id, req[q].loaded, req[q].want)
      BY DEF SaveMirror
    <2>3. DeleteRow(q) => rows' = [rows EXCEPT ![req[q].item][req[q].id] = Deleted]
      BY DEF DeleteRow
    <2>4. /\ rows' \in [Items -> Seq(Values \cup {Deleted})]
          /\ \A i \in Items : Len(rows'[i]) <= MaxRows
      BY <1>1, <1>2, <1>5, <2>2, <2>3, UpdateIs, DeletionIs DEF Updated
    <2>5. /\ req' \in [Requests -> ReqStates] /\ \A p \in Requests \ {q} : req'[p] = req[p]
          /\ Control(q)'
      BY <1>1, <2>1, RestIs
    <2> QED
      BY <1>1, <2>1, <2>4, <2>5, RSTypeStep
  <1>6. ASSUME NEW q \in Requests, NEW i \in Rules \cup Addresses, NEW v \in Values, Create(q, i, v)
        PROVE  RSTypeInv'
    <2>1. StartsOn(q, i) /\ OneMoreOp /\ UNCHANGED <<remote, rows, edits>> /\ i \in Items
      BY <1>6, Kinds DEF Create
    <2>2. /\ standing' \in [Items -> {"inSync", "disturbed", "synced"}]
          /\ clean' \in [Requests -> SUBSET Items] /\ ops' \in 0..MaxOps
      BY <1>1, <2>1, HistoryTyped, OpsTyped
    <2>3. /\ req' \in [Requests -> ReqStates] /\ \A p \in Requests \ {q} : req'[p] = req[p]
          /\ Control(q)'
      BY <1>1, <1>6, CreateIs
    <2> QED
      BY <1>1, <2>1, <2>2, <2>3, RSTypeStep
  <1>7. ASSUME NEW q \in Requests, BeginSync(q)
        PROVE  RSTypeInv'
    <2>1. OneMoreOp /\ UNCHANGED <<remote, rows, historyVars, edits>>
      BY <1>7 DEF BeginSync
    <2>2. ops' \in 0..MaxOps
      BY <1>1, <2>1, OpsTyped
    <2> QED
      BY <1>1, <1>7, <2>1, <2>2, BeginIs, RSTypeStep
  <1>8. ASSUME NEW q \in Requests, List(q) \/ StepThrows(q)
        PROVE  RSTypeInv'
    <2>1. StartsStep(q, ItemsOf(req[q].step)) /\ UNCHANGED <<remote, rows, boundVars>>
      BY <1>8 DEF List, StepThrows
    <2>2. /\ req' \in [Requests -> ReqStates] /\ \A p \in Requests \ {q} : req'[p] = req[p]
          /\ Control(q)' /\ req[q].step \in 1..3
      BY <1>8, ListIs, ThrowsIs
    <2>3. ItemsOf(req[q].step) \in SUBSET Items
      BY <2>2, Kinds
    <2>4. /\ standing' \in [Items -> {"inSync", "disturbed", "synced"}]
          /\ clean' \in [Requests -> SUBSET Items]
      BY <1>1, <2>1, <2>3, HistoryTyped
    <2> QED
      BY <1>1, <2>1, <2>2, <2>4, RSTypeStep
  <1>9. ASSUME NEW q \in Requests, Report(q) \/ BreaksOff(q)
        PROVE  RSTypeInv'
    <2>1. Rest(q) /\ UNCHANGED <<remote, rows, boundVars>>
      BY <1>9 DEF Report, BreaksOff
    <2>2. /\ standing' \in [Items -> {"inSync", "disturbed", "synced"}]
          /\ clean' \in [Requests -> SUBSET Items]
      BY <1>1, <1>9 DEF Report, BreaksOff
    <2> QED
      BY <1>1, <2>1, <2>2, RestIs, RSTypeStep
  <1>10. ASSUME NEW q \in Requests, Select(q) \/ EndLoop(q)
         PROVE  RSTypeInv'
    <2>1. UNCHANGED <<remote, rows, historyVars, boundVars>>
      BY <1>10 DEF Select, EndLoop
    <2> QED
      BY <1>1, <1>10, <2>1, SelectIs, LoopEnds, RSTypeStep
  <1>11. ASSUME NEW q \in Requests, Write(q)
         PROVE  RSTypeInv'
    <2>1. UNCHANGED <<remote, historyVars, boundVars>>
      BY <1>11 DEF Write
    <2>2. /\ rows' \in [Items -> Seq(Values \cup {Deleted})]
          /\ \A i \in Items : Len(rows'[i]) <= MaxRows
      BY <1>11, WriteRowsTyped
    <2> QED
      BY <1>1, <1>11, <2>1, <2>2, WriteIs, RSTypeStep
  <1>12. ASSUME NEW i \in Items, Dashboard(i)
         PROVE  RSTypeInv'
    <2>1. /\ UNCHANGED <<rows, req, ops>> /\ edits < MaxEdits /\ edits' = edits + 1 /\ Disturb({i})
          /\ \E v \in {Gone(i)} \cup Values : remote' = [remote EXCEPT ![i] = v]
      BY <1>12 DEF Dashboard
    <2>2. remote' \in [Items -> Values \cup {Absent, Deleted}]
      BY <1>1, <2>1, GoneTyped
    <2>3. edits' \in 0..MaxEdits
      BY <1>1, <2>1, RoutingSyncAssumption
    <2>4. /\ standing' \in [Items -> {"inSync", "disturbed", "synced"}]
          /\ clean' \in [Requests -> SUBSET Items]
      BY <1>1, <2>1 DEF Disturb
    <2>5. \A q \in Requests : Control(q)'
      BY <2>1 DEF RSTypeInv, Control
    <2> QED
      BY <1>1, <2>1, <2>2, <2>3, <2>4, <2>5 DEF RSTypeInv, RSTypeOK
  <1>13. ASSUME NEW q \in Requests, PostAnswered(q)
         PROVE  RSTypeInv'
    <2>1. UNCHANGED <<rows, historyVars, boundVars>>
      BY <1>13 DEF PostAnswered
    <2>2. remote' \in [Items -> Values \cup {Absent, Deleted}]
      BY <1>1, <1>2, <1>13 DEF PostAnswered
    <2> QED
      BY <1>1, <1>13, <2>1, <2>2, PostIs, RSTypeStep
  <1>14. ASSUME NEW q \in Requests, NEW j \in Rules, TryLost(q, j)
         PROVE  RSTypeInv'
    <2>1. UNCHANGED <<rows, req, boundVars>> /\ Disturb({j}) /\ j \in Items
      BY <1>14, Kinds DEF TryLost
    <2>2. remote' \in [Items -> Values \cup {Absent, Deleted}]
      BY <1>1, <1>2, <1>14, <2>1 DEF TryLost
    <2>3. /\ standing' \in [Items -> {"inSync", "disturbed", "synced"}]
          /\ clean' \in [Requests -> SUBSET Items]
      BY <1>1, <2>1 DEF Disturb
    <2>4. \A p \in Requests : Control(p)'
      BY <2>1 DEF RSTypeInv, Control
    <2> QED
      BY <1>1, <2>1, <2>2, <2>3, <2>4 DEF RSTypeInv, RSTypeOK
  <1>15. CASE UNCHANGED rsVars
    BY <1>15 DEF RSTypeInv, RSTypeOK, Control, rsVars
  <1> QED
    BY <1>1, <1>3, <1>4, <1>5, <1>6, <1>7, <1>8, <1>9, <1>10, <1>11, <1>12, <1>13, <1>14, <1>15, StepKinds

(***************************************************************************)
(* Every reachable state is well typed: RoutingManager and                 *)
(* AccountSynchronizer, whatever they meet, write rows that are rows and   *)
(* leave a sync at one of its steps.                                       *)
(***************************************************************************)
THEOREM RoutingTypeCorrect == RSSpec => []RSTypeOK
  <1>1. RSTypeInv => RSTypeOK
    BY DEF RSTypeInv
  <1> QED
    BY <1>1, RSInitTyped, RSTypePreserved, PTL DEF RSSpec

-----------------------------------------------------------------------------
(* Routing: the mirror and what it mirrors *)

\* q has the item in hand: as the one it changes, or as one of those its sync is
\* going through.
Owns(q, i) == req[q].job \in {"put", "delete", "post"} /\ req[q].item = i
Loops(q, i) ==
    /\ req[q].job = "sync" /\ req[q].pc \in {"select", "write"}
    /\ i \in ItemsOf(req[q].step)
Works(q, i) == Owns(q, i) \/ Loops(q, i)

\* Something is to be said of the item: its history is an undisturbed one, or a sync
\* is about to repair it.
Known(i) == standing[i] # "disturbed" \/ \E q \in Requests : i \in clean[q]

(***************************************************************************)
(* What a sync has to itself is an item of its step, or of one behind it;  *)
(* two requests never work on a known item; and no sync has to itself what *)
(* an operation of the panel works on.                                     *)
(***************************************************************************)
CleanOK(q, i) ==
    i \in clean[q] =>
        /\ req[q].job = "sync"
        /\ \E s \in {2, 3} :
               /\ i \in ItemsOf(s)
               /\ s < req[q].step \/ (s = req[q].step /\ req[q].pc # "list")
Alone(p, q, i) == Known(i) /\ Works(p, i) /\ Works(q, i) => p = q
Apart(p, q, i) == Owns(q, i) => i \notin clean[p]

(***************************************************************************)
(* An operation that has an undisturbed item in hand has read the row as   *)
(* it is, and Cloudflare has what it had, until it is told; before a POST  *)
(* is answered there is nothing, and afterwards its row is the only one.   *)
(***************************************************************************)
OwnOK(q, i) ==
    Owns(q, i) /\ standing[i] # "disturbed" =>
        /\ req[q].job \in {"put", "delete"} =>
             Live(i) = {req[q].id} /\ rows[i][req[q].id] = req[q].loaded
        /\ req[q].job \in {"put", "delete"} /\ req[q].pc = "remote" =>
             Exists(i) /\ remote[i] = req[q].loaded
        /\ req[q].job = "put" /\ req[q].pc = "local" => Exists(i) /\ remote[i] = req[q].want
        /\ req[q].job = "delete" /\ req[q].pc = "local" => ~ Exists(i)
        /\ req[q].job = "post" /\ req[q].pc = "remote" => ~ Exists(i) /\ Live(i) = {}
        /\ req[q].job = "post" /\ req[q].pc # "remote" =>
             /\ Exists(i)
             /\ \A t \in req[q].todo : t[2] = remote[i]
             /\ req[q].todo = {} => Agrees(i)
             /\ req[q].todo # {} => Live(i) = {}
             /\ req[q].pc = "write" => req[q].id = 0

(***************************************************************************)
(* A sync has listed a known item as it is at Cloudflare, and knows its    *)
(* first row as it is.                                                     *)
(***************************************************************************)
LoopOK(q, i) ==
    Known(i) /\ Loops(q, i) =>
        /\ \A t \in req[q].todo : t[1] = i => t[2] = remote[i] /\ Exists(i)
        /\ req[q].pc = "write" /\ req[q].item = i =>
             /\ req[q].id = FirstRow(i)
             /\ req[q].id # 0 => req[q].loaded = rows[i][req[q].id]

Sound(i) == standing[i] = "inSync" /\ (\A q \in Requests : ~ Owns(q, i)) => Agrees(i)

\* The unique index of destination_addresses.
UniqueRow(i) == i \in Addresses => \A k, l \in Live(i) : k = l

ItemInv(i) ==
    /\ \A q \in Requests : CleanOK(q, i) /\ OwnOK(q, i) /\ LoopOK(q, i)
    /\ \A p, q \in Requests : Alone(p, q, i) /\ Apart(p, q, i)
    /\ Sound(i) /\ UniqueRow(i)

MirrorInv == RSTypeInv /\ \A i \in Items : ItemInv(i)

\* Busy is to have something in hand.
LEMMA BusyIsWorking ==
    ASSUME RSTypeInv, NEW q \in Requests, NEW i
    PROVE  i \in Busy(q) <=> Works(q, i)
  <1>1. Control(q) /\ req[q] \in ReqStates
    BY DEF RSTypeInv, RSTypeOK
  <1> QED
    BY <1>1 DEF Busy, Works, Owns, Loops

LEMMA BusyBesideIs ==
    ASSUME RSTypeInv, NEW q \in Requests, NEW i
    PROVE  i \in BusyBeside(q) <=> \E p \in Requests \ {q} : Works(p, i)
  BY BusyIsWorking DEF BusyBeside

\* Whoever does nothing with an item, and whose item nobody else touches, is where it was.
LEMMA Bystander ==
    ASSUME NEW p \in Requests, NEW i \in Items, req'[p] = req[p],
           OwnOK(p, i), LoopOK(p, i),
           \/ ~ Works(p, i)
           \/ ~ Known(i)'
           \/ /\ remote'[i] = remote[i] /\ rows'[i] = rows[i] /\ Known(i)
              /\ standing'[i] # "disturbed" => standing[i] # "disturbed" \/ ~ Owns(p, i)
    PROVE  OwnOK(p, i)' /\ LoopOK(p, i)'
  <1>1. /\ Owns(p, i)' <=> Owns(p, i)
        /\ Loops(p, i)' <=> Loops(p, i)
    BY DEF Owns, Loops
  <1>2. CASE ~ Works(p, i)
    BY <1>1, <1>2 DEF OwnOK, LoopOK, Works
  <1>3. CASE ~ Known(i)'
    BY <1>3 DEF OwnOK, LoopOK, Known
  <1>4. CASE /\ remote'[i] = remote[i] /\ rows'[i] = rows[i] /\ Known(i)
             /\ standing'[i] # "disturbed" => standing[i] # "disturbed" \/ ~ Owns(p, i)
    <2>1. /\ Live(i)' = Live(i) /\ FirstRow(i)' = FirstRow(i)
          /\ Exists(i)' = Exists(i) /\ Agrees(i)' = Agrees(i)
      BY <1>4, SameItem
    <2>2. OwnOK(p, i)'
      BY <1>1, <1>4, <2>1 DEF OwnOK
    <2>3. LoopOK(p, i)'
      BY <1>1, <1>4, <2>1 DEF LoopOK
    <2> QED
      BY <2>2, <2>3
  <1> QED
    BY <1>2, <1>3, <1>4

\* What a sync has to itself stays what it was while others take steps.
LEMMA OthersClean ==
    ASSUME NEW p \in Requests, NEW i \in Items, req'[p] = req[p], CleanOK(p, i),
           i \in clean'[p] => i \in clean[p]
    PROVE  CleanOK(p, i)'
  BY DEF CleanOK

\* No new company: whoever works on the item did so before.
LEMMA SameCompany ==
    ASSUME NEW q \in Requests, NEW i \in Items,
           \A p \in Requests \ {q} : req'[p] = req[p],
           \A p, r \in Requests : Alone(p, r, i) /\ Apart(p, r, i),
           Known(i)' => Known(i), \A p \in Requests : i \in clean'[p] => i \in clean[p],
           Works(q, i)' => Works(q, i), Owns(q, i)' => Owns(q, i)
    PROVE  \A p, r \in Requests : Alone(p, r, i)' /\ Apart(p, r, i)'
  <1>1. \A p \in Requests : (Works(p, i)' => Works(p, i)) /\ (Owns(p, i)' => Owns(p, i))
    <2>1. \A p \in Requests \ {q} : (Works(p, i)' <=> Works(p, i)) /\ (Owns(p, i)' <=> Owns(p, i))
      BY DEF Works, Owns, Loops
    <2> QED
      BY <2>1
  <1> QED
    BY <1>1 DEF Alone, Apart

(***************************************************************************)
(* The item is left as it is, and q works on it no more than before.       *)
(***************************************************************************)
LEMMA ItemLeft ==
    ASSUME NEW q \in Requests, NEW i \in Items, ItemInv(i),
           \A p \in Requests \ {q} : req'[p] = req[p],
           remote'[i] = remote[i], rows'[i] = rows[i],
           Known(i)' => Known(i), \A p \in Requests : i \in clean'[p] => i \in clean[p],
           standing'[i] = "inSync" => standing[i] = "inSync",
           standing'[i] # "disturbed" => \/ standing[i] # "disturbed"
                                         \/ \A p \in Requests : ~ Owns(p, i),
           Works(q, i)' => Works(q, i), Owns(q, i)' => Owns(q, i),
           standing'[i] = "inSync" /\ Owns(q, i) => Owns(q, i)' \/ Agrees(i),
           CleanOK(q, i)', OwnOK(q, i)', LoopOK(q, i)'
    PROVE  ItemInv(i)'
  <1>1. \A p, r \in Requests : Alone(p, r, i)' /\ Apart(p, r, i)'
    BY SameCompany DEF ItemInv
  <1>2. \A p \in Requests : CleanOK(p, i)'
    BY OthersClean DEF ItemInv
  <1>3. \A p \in Requests \ {q} : OwnOK(p, i)' /\ LoopOK(p, i)'
    BY Bystander DEF ItemInv
  <1>4. \A p \in Requests \ {q} : Owns(p, i)' <=> Owns(p, i)
    BY DEF Owns
  <1>5. Agrees(i)' = Agrees(i) /\ Live(i)' = Live(i)
    BY SameItem
  <1>6. Sound(i)'
    <2>1. SUFFICES ASSUME standing'[i] = "inSync", \A p \in Requests : ~ Owns(p, i)'
                   PROVE  Agrees(i)
      BY <1>5 DEF Sound
    <2>2. CASE Owns(q, i)
      BY <2>1, <2>2
    <2>3. CASE ~ Owns(q, i)
      BY <1>4, <2>1, <2>3 DEF ItemInv, Sound
    <2> QED
      BY <2>2, <2>3
  <1>7. UniqueRow(i)'
    BY <1>5 DEF ItemInv, UniqueRow
  <1> QED
    BY <1>1, <1>2, <1>3, <1>6, <1>7 DEF ItemInv

\* In the common case q does not work on it at all, and its history stays.
LEMMA ItemElsewhere ==
    ASSUME NEW q \in Requests, NEW i \in Items, ItemInv(i),
           \A p \in Requests \ {q} : req'[p] = req[p],
           remote'[i] = remote[i], rows'[i] = rows[i],
           \A p \in Requests : i \in clean'[p] => i \in clean[p],
           standing'[i] = standing[i],
           ~ Works(q, i), ~ Works(q, i)', CleanOK(q, i)'
    PROVE  ItemInv(i)'
  <1>1. Known(i)' => Known(i)
    BY DEF Known
  <1>2. OwnOK(q, i)' /\ LoopOK(q, i)' /\ ~ Owns(q, i) /\ ~ Owns(q, i)'
    BY DEF OwnOK, LoopOK, Works
  <1> QED
    BY <1>1, <1>2, ItemLeft

\* q, which has the item in hand, changes it.
LEMMA ItemWorked ==
    ASSUME NEW q \in Requests, NEW i \in Items, ItemInv(i), Works(q, i),
           \A p \in Requests \ {q} : req'[p] = req[p], UNCHANGED historyVars,
           Owns(q, i)' => Owns(q, i),
           CleanOK(q, i)', OwnOK(q, i)', LoopOK(q, i)', Sound(i)', UniqueRow(i)'
    PROVE  ItemInv(i)'
  <1>1. Known(i)' <=> Known(i)
    BY DEF Known, historyVars
  <1>2. clean' = clean
    BY DEF historyVars
  <1>3. \A p, r \in Requests : Alone(p, r, i)' /\ Apart(p, r, i)'
    BY <1>1, <1>2, SameCompany DEF ItemInv
  <1>4. \A p \in Requests : CleanOK(p, i)'
    BY <1>2, OthersClean DEF ItemInv
  <1>5. \A p \in Requests \ {q} : OwnOK(p, i)' /\ LoopOK(p, i)'
    <2>1. \A p \in Requests \ {q} : ~ Works(p, i) \/ ~ Known(i)'
      BY <1>1 DEF ItemInv, Alone
    <2> QED
      BY <2>1, Bystander DEF ItemInv
  <1> QED
    BY <1>3, <1>4, <1>5 DEF ItemInv

\* What the beginning of an operation says of the history.
LEMMA StartsOnIs ==
    ASSUME RSTypeInv, NEW q \in Requests, NEW i \in Items, StartsOn(q, i)
    PROVE  /\ standing'[i] # "disturbed" =>
                /\ standing'[i] = standing[i] /\ Agrees(i)
                /\ \A p \in Requests \ {q} : ~ Works(p, i)
           /\ \A p \in Requests : i \notin clean'[p]
           /\ \A j \in Items \ {i} :
                /\ standing'[j] = standing[j]
                /\ \A p \in Requests : j \in clean'[p] => j \in clean[p]
  <1>1. /\ standing \in [Items -> {"inSync", "disturbed", "synced"}]
        /\ clean \in [Requests -> SUBSET Items]
    BY DEF RSTypeInv, RSTypeOK
  <1>2. /\ standing'[i] = IF i \in BusyBeside(q) \/ ~ Agrees(i) THEN "disturbed" ELSE standing[i]
        /\ \A j \in Items \ {i} : standing'[j] = standing[j]
    BY <1>1 DEF StartsOn
  <1>3. \A p \in Requests : clean'[p] = clean[p] \ {i}
    BY <1>1 DEF StartsOn
  <1> QED
    BY <1>2, <1>3, BusyBesideIs

\* q takes the item in hand.
LEMMA ItemBegun ==
    ASSUME RSTypeInv, NEW q \in Requests, NEW i \in Items, ItemInv(i), StartsOn(q, i),
           \A p \in Requests \ {q} : req'[p] = req[p],
           Owns(q, i)', ~ Loops(q, i)', OwnOK(q, i)', UniqueRow(i)'
    PROVE  ItemInv(i)'
  <1>1. /\ standing'[i] # "disturbed" =>
                /\ standing'[i] = standing[i] /\ Agrees(i)
                /\ \A p \in Requests \ {q} : ~ Works(p, i)
        /\ \A p \in Requests : i \notin clean'[p]
    BY StartsOnIs
  <1>2. Known(i)' <=> standing'[i] # "disturbed"
    BY <1>1 DEF Known
  <1>3. \A p \in Requests : CleanOK(p, i)'
    BY <1>1 DEF CleanOK
  <1>4. \A p \in Requests \ {q} : OwnOK(p, i)' /\ LoopOK(p, i)'
    BY <1>1, <1>2, Bystander DEF ItemInv
  <1>5. LoopOK(q, i)' /\ Sound(i)'
    BY DEF LoopOK, Sound
  <1>6. \A p \in Requests \ {q} : Works(p, i)' <=> Works(p, i)
    BY DEF Works, Owns, Loops
  <1>7. \A p, r \in Requests : Alone(p, r, i)'
    BY <1>1, <1>2, <1>6 DEF Alone
  <1>8. \A p, r \in Requests : Apart(p, r, i)'
    BY <1>1 DEF Apart
  <1> QED
    BY <1>3, <1>4, <1>5, <1>7, <1>8 DEF ItemInv

\* Who is idle works on nothing and has nothing to itself.
LEMMA IdleIs ==
    ASSUME RSTypeInv, NEW q \in Requests, req[q].job = "none" \/ req[q].pc = "idle", NEW i \in Items
    PROVE  ~ Works(q, i) /\ (CleanOK(q, i) => i \notin clean[q])
  <1>1. Control(q) /\ req[q].job = "none"
    BY DEF RSTypeInv, Control
  <1> QED
    BY <1>1 DEF Works, Owns, Loops, CleanOK

\* What the beginning of a sync's step says of the history.
LEMMA StartsStepIs ==
    ASSUME RSTypeInv, NEW q \in Requests, NEW i \in Items, ItemInv(i),
           req[q].job = "sync", req[q].pc = "list", req[q].step \in 1..3,
           StartsStep(q, ItemsOf(req[q].step))
    PROVE  /\ ~ Works(q, i)
           /\ i \notin ItemsOf(req[q].step) =>
                /\ standing'[i] = standing[i]
                /\ \A p \in Requests : i \in clean'[p] <=> i \in clean[p]
           /\ i \in ItemsOf(req[q].step) =>
                \/ ~ Known(i)'
                \/ /\ standing'[i] = standing[i] /\ i \in clean'[q]
                   /\ \A p \in Requests \ {q} : ~ Works(p, i) /\ (i \in clean'[p] <=> i \in clean[p])
           /\ \A p \in Requests \ {q} : i \in clean'[p] => i \in clean[p]
           /\ i \in clean'[q] => i \in clean[q] \/ i \in ItemsOf(req[q].step)
  <1> DEFINE S == ItemsOf(req[q].step)
             clash == S \cap BusyBeside(q)
  <1>1. /\ standing \in [Items -> {"inSync", "disturbed", "synced"}]
        /\ clean \in [Requests -> SUBSET Items]
    BY DEF RSTypeInv, RSTypeOK
  <1>2. standing'[i] = IF i \in clash THEN "disturbed" ELSE standing[i]
    BY <1>1 DEF StartsStep
  <1>3. /\ clean'[q] = clean[q] \cup (S \ clash)
        /\ \A p \in Requests \ {q} : clean'[p] = clean[p] \ clash
    BY <1>1 DEF StartsStep
  <1>4. i \in S => i \notin clean[q]
    <2>1. SUFFICES ASSUME i \in S, i \in clean[q]
                   PROVE  FALSE
      OBVIOUS
    <2>2. PICK s \in {2, 3} : i \in ItemsOf(s) /\ s < req[q].step
      BY <2>1 DEF ItemInv, CleanOK
    <2>3. req[q].step = 3 /\ s = 2
      BY <2>2
    <2> QED
      BY <2>1, <2>2, <2>3, Kinds
  <1>5. ~ Works(q, i)
    BY DEF Works, Owns, Loops
  <1>6. i \in BusyBeside(q) <=> \E p \in Requests \ {q} : Works(p, i)
    BY BusyBesideIs
  <1> HIDE DEF S
  <1>7. CASE i \in clash
    <2>1. standing'[i] = "disturbed" /\ \A p \in Requests : i \notin clean'[p]
      BY <1>2, <1>3, <1>4, <1>7
    <2>2. ~ Known(i)'
      BY <2>1 DEF Known
    <2> QED
      BY <1>5, <1>7, <2>1, <2>2 DEF S
  <1>8. CASE i \notin clash
    <2>1. standing'[i] = standing[i] /\ \A p \in Requests \ {q} : i \in clean'[p] <=> i \in clean[p]
      BY <1>2, <1>3, <1>8
    <2>2. i \in S => i \in clean'[q] /\ \A p \in Requests \ {q} : ~ Works(p, i)
      BY <1>3, <1>6, <1>8
    <2>3. i \in clean'[q] <=> i \in clean[q] \/ i \in S
      BY <1>3, <1>8
    <2> QED
      BY <1>5, <2>1, <2>2, <2>3 DEF S
  <1> QED
    BY <1>7, <1>8

\* A sync begins a step, or gives it up: an item it lists is its own, or not known any more.
LEMMA ItemListed ==
    ASSUME RSTypeInv, NEW q \in Requests, NEW i \in Items, ItemInv(i),
           req[q].job = "sync", req[q].pc = "list", req[q].step \in 1..3,
           StartsStep(q, ItemsOf(req[q].step)), UNCHANGED <<remote, rows>>,
           \A p \in Requests \ {q} : req'[p] = req[p],
           req'[q].job = "sync", req'[q].step \in {req[q].step, req[q].step + 1},
           req'[q].step = req[q].step => req'[q].pc # "list",
           Loops(q, i)' => i \in ItemsOf(req[q].step),
           LoopOK(q, i)'
    PROVE  ItemInv(i)'
  <1> DEFINE S == ItemsOf(req[q].step)
  <1>1. /\ ~ Works(q, i)
        /\ i \notin S => /\ standing'[i] = standing[i]
                         /\ \A p \in Requests : i \in clean'[p] <=> i \in clean[p]
        /\ i \in S =>
             \/ ~ Known(i)'
             \/ /\ standing'[i] = standing[i] /\ i \in clean'[q]
                /\ \A p \in Requests \ {q} : ~ Works(p, i) /\ (i \in clean'[p] <=> i \in clean[p])
        /\ \A p \in Requests \ {q} : i \in clean'[p] => i \in clean[p]
        /\ i \in clean'[q] => i \in clean[q] \/ i \in S
    BY StartsStepIs
  <1>2. CleanOK(q, i)'
    <2>1. SUFFICES ASSUME i \in clean'[q]
                   PROVE  \E s \in {2, 3} :
                              /\ i \in ItemsOf(s)
                              /\ s < req'[q].step \/ (s = req'[q].step /\ req'[q].pc # "list")
      BY DEF CleanOK, ItemsOf
    <2>2. CASE i \in clean[q]
      <3>1. PICK s \in {2, 3} : i \in ItemsOf(s) /\ s < req[q].step
        BY <2>2 DEF ItemInv, CleanOK
      <3> QED
        BY <3>1
    <2>3. CASE i \in S
      <3>1. req[q].step \in {2, 3}
        BY <2>3, Kinds
      <3> QED
        BY <2>3, <3>1
    <2> QED
      BY <1>1, <2>1, <2>2, <2>3
  <1>3. ~ Owns(q, i) /\ ~ Owns(q, i)' /\ OwnOK(q, i)'
    BY DEF Owns, OwnOK
  <1> HIDE DEF S
  <1>4. CASE i \notin S
    <2>1. ~ Works(q, i)'
      BY <1>3, <1>4 DEF Works, S
    <2> QED
      BY <1>1, <1>2, <1>4, <2>1, ItemElsewhere
  <1>5. CASE i \in S
    <2>1. \A p \in Requests \ {q} : (Works(p, i)' <=> Works(p, i)) /\ (Owns(p, i)' <=> Owns(p, i))
      BY DEF Works, Owns, Loops
    <2>2. \A p, r \in Requests : Alone(p, r, i)'
      BY <1>1, <1>5, <2>1 DEF Alone
    <2>3. \A p, r \in Requests : Apart(p, r, i)'
      <3>1. ASSUME NEW p \in Requests, NEW r \in Requests, Owns(r, i)', i \in clean'[p]
            PROVE  FALSE
        <4>1. r # q /\ Owns(r, i)
          BY <1>3, <2>1, <3>1
        <4>2. Works(r, i)
          BY <4>1 DEF Works
        <4>3. ~ Known(i)'
          BY <1>1, <1>5, <4>1, <4>2
        <4> QED
          BY <3>1, <4>3 DEF Known
      <3> QED
        BY <3>1 DEF Apart
    <2>4. \A p \in Requests : CleanOK(p, i)'
      BY <1>1, <1>2, OthersClean DEF ItemInv
    <2>5. \A p \in Requests \ {q} : OwnOK(p, i)' /\ LoopOK(p, i)'
      BY <1>1, <1>5, Bystander DEF ItemInv
    <2>6. Agrees(i)' = Agrees(i) /\ Live(i)' = Live(i)
      BY SameItem
    <2>7. Sound(i)'
      <3>1. SUFFICES ASSUME standing'[i] = "inSync", \A p \in Requests : ~ Owns(p, i)'
                     PROVE  Agrees(i)
        BY <2>6 DEF Sound
      <3>2. Known(i)'
        BY <3>1 DEF Known
      <3>3. standing[i] = "inSync" /\ \A p \in Requests : ~ Owns(p, i)
        BY <1>1, <1>3, <1>5, <2>1, <3>1, <3>2
      <3> QED
        BY <3>3 DEF ItemInv, Sound
    <2>8. UniqueRow(i)'
      BY <2>6 DEF ItemInv, UniqueRow
    <2> QED
      BY <1>3, <2>2, <2>3, <2>4, <2>5, <2>7, <2>8 DEF ItemInv
  <1> QED
    BY <1>4, <1>5

\* AgreesIs and RowsThere, of the next state.
LEMMA AgreesEverywhere ==
    RSTypeOK => \A i \in Items :
        /\ Agrees(i) <=> IF Exists(i) THEN \E k : Live(i) = {k} /\ rows[i][k] = remote[i]
                                      ELSE Live(i) = {}
        /\ Live(i) = {} => FirstRow(i) = 0
        /\ Live(i) # {} => FirstRow(i) \in Live(i) /\ FirstRow(i) # 0
  BY AgreesIs, RowsThere

LEMMA AgreesNext ==
    (RSTypeOK => \A i \in Items :
        /\ Agrees(i) <=> IF Exists(i) THEN \E k : Live(i) = {k} /\ rows[i][k] = remote[i]
                                      ELSE Live(i) = {}
        /\ Live(i) = {} => FirstRow(i) = 0
        /\ Live(i) # {} => FirstRow(i) \in Live(i) /\ FirstRow(i) # 0)'
  BY AgreesEverywhere, PTL

LEMMA LoadKeeps ==
    ASSUME MirrorInv, NEW q \in Requests, LoadsRow(q), NEW j \in Items
    PROVE  ItemInv(j)'
  <1>1. PICK job \in {"put", "delete"}, i \in Items, k \in 1..MaxRows, want \in Values :
            Load(q, job, i, k, want)
    BY DEF LoadsRow
  <1>2. RSTypeInv /\ RSTypeOK /\ ItemInv(j) /\ ItemInv(i)
    BY DEF MirrorInv, RSTypeInv
  <1>3. /\ req[q].pc = "idle" /\ k \in Live(i) /\ StartsOn(q, i)
        /\ remote' = remote /\ rows' = rows
    BY <1>1 DEF Load, AtRest
  <1>4. /\ \A p \in Requests \ {q} : req'[p] = req[p]
        /\ req'[q].job = job /\ req'[q].pc = "remote" /\ req'[q].item = i
        /\ req'[q].id = k /\ req'[q].loaded = rows[i][k] /\ req'[q].want = want
    BY <1>1, <1>2, LoadIs
  <1>5. \A l \in Items : (Owns(q, l)' <=> l = i) /\ ~ Loops(q, l)'
    BY <1>4 DEF Owns, Loops
  <1>6. CASE j # i
    <2>1. /\ standing'[j] = standing[j]
          /\ \A p \in Requests : j \in clean'[p] => j \in clean[p]
      BY <1>2, <1>3, <1>6, StartsOnIs
    <2>2. ~ Works(q, j) /\ j \notin clean[q]
      BY <1>2, <1>3, IdleIs DEF ItemInv
    <2>3. ~ Works(q, j)' /\ CleanOK(q, j)'
      BY <1>5, <1>6, <2>1, <2>2 DEF Works, CleanOK
    <2> QED
      BY <1>2, <1>3, <1>4, <2>1, <2>2, <2>3, ItemElsewhere
  <1>7. CASE j = i
    <2>1. /\ Live(i)' = Live(i) /\ Exists(i)' = Exists(i)
      BY <1>3, SameItem
    <2>2. standing'[i] # "disturbed" => Agrees(i)
      BY <1>2, <1>3, StartsOnIs
    <2>3. Agrees(i) => Exists(i) /\ Live(i) = {k} /\ rows[i][k] = remote[i]
      BY <1>2, <1>3, AgreesIs
    <2>4. OwnOK(q, i)'
      BY <1>3, <1>4, <2>1, <2>2, <2>3 DEF OwnOK
    <2>5. UniqueRow(i)'
      BY <1>2, <2>1 DEF ItemInv, UniqueRow
    <2> QED
      BY <1>2, <1>3, <1>4, <1>5, <1>7, <2>4, <2>5, ItemBegun
  <1> QED
    BY <1>6, <1>7

LEMMA CreateKeeps ==
    ASSUME MirrorInv, NEW q \in Requests, NEW i \in Rules \cup Addresses, NEW v \in Values,
           Create(q, i, v), NEW j \in Items
    PROVE  ItemInv(j)'
  <1>1. RSTypeInv /\ RSTypeOK /\ ItemInv(j) /\ ItemInv(i) /\ i \in Items
    BY Kinds DEF MirrorInv, RSTypeInv
  <1>2. /\ req[q].pc = "idle" /\ remote[i] = Absent /\ StartsOn(q, i)
        /\ remote' = remote /\ rows' = rows
    BY DEF Create, AtRest
  <1>3. /\ \A p \in Requests \ {q} : req'[p] = req[p]
        /\ req'[q].job = "post" /\ req'[q].pc = "remote" /\ req'[q].item = i
    BY <1>1, CreateIs
  <1>4. \A l \in Items : (Owns(q, l)' <=> l = i) /\ ~ Loops(q, l)'
    BY <1>3 DEF Owns, Loops
  <1>5. CASE j # i
    <2>1. /\ standing'[j] = standing[j]
          /\ \A p \in Requests : j \in clean'[p] => j \in clean[p]
      BY <1>1, <1>2, <1>5, StartsOnIs
    <2>2. ~ Works(q, j) /\ j \notin clean[q]
      BY <1>1, <1>2, IdleIs DEF ItemInv
    <2>3. ~ Works(q, j)' /\ CleanOK(q, j)'
      BY <1>4, <1>5, <2>1, <2>2 DEF Works, CleanOK
    <2> QED
      BY <1>1, <1>2, <1>3, <1>5, <2>1, <2>2, <2>3, ItemElsewhere
  <1>6. CASE j = i
    <2>1. /\ Live(i)' = Live(i) /\ Exists(i)' = Exists(i)
      BY <1>1, <1>2, SameItem
    <2>2. standing'[i] # "disturbed" => Agrees(i)
      BY <1>1, <1>2, StartsOnIs
    <2>3. ~ Exists(i) /\ (Agrees(i) => Live(i) = {})
      BY <1>1, <1>2, AgreesIs, ValuesAreOthers DEF Exists
    <2>4. OwnOK(q, i)'
      BY <1>3, <2>1, <2>2, <2>3 DEF OwnOK
    <2>5. UniqueRow(i)'
      BY <1>1, <2>1 DEF ItemInv, UniqueRow
    <2> QED
      BY <1>1, <1>2, <1>3, <1>4, <1>6, <2>4, <2>5, ItemBegun
  <1> QED
    BY <1>5, <1>6

LEMMA PostKeeps ==
    ASSUME MirrorInv, NEW q \in Requests, PostAnswered(q), NEW j \in Items
    PROVE  ItemInv(j)'
  <1> DEFINE i == req[q].item
             v == req[q].want
  <1>1. RSTypeInv /\ RSTypeOK /\ ItemInv(j) /\ req[q] \in ReqStates
    BY DEF MirrorInv, RSTypeInv, RSTypeOK
  <1>2. i \in Items /\ v \in Values
    BY <1>1 DEF ReqStates
  <1>3. /\ req[q].job = "post" /\ req[q].pc = "remote" /\ rows' = rows
        /\ remote' = [remote EXCEPT ![i] = v] /\ UNCHANGED historyVars
    BY DEF PostAnswered
  <1>4. /\ \A p \in Requests \ {q} : req'[p] = req[p]
        /\ req'[q].job = "post" /\ req'[q].pc = "select" /\ req'[q].item = i
        /\ req'[q].todo = {<<i, v>>}
    BY <1>1, PostIs
  <1>5. remote'[i] = v /\ \A l \in Items \ {i} : remote'[l] = remote[l]
    BY <1>1, <1>2, <1>3 DEF RSTypeOK
  <1>6. \A l \in Items : /\ Owns(q, l) <=> l = i
                         /\ Owns(q, l)' <=> l = i
                         /\ ~ Loops(q, l) /\ ~ Loops(q, l)'
    BY <1>3, <1>4 DEF Owns, Loops
  <1>7. j \notin clean[q] /\ clean' = clean /\ standing' = standing
    BY <1>1, <1>3 DEF ItemInv, CleanOK, historyVars
  <1>8. CleanOK(q, j)' /\ LoopOK(q, j)'
    BY <1>6, <1>7 DEF CleanOK, LoopOK
  <1> HIDE DEF i, v
  <1>9. CASE j # i
    <2>1. ~ Works(q, j) /\ ~ Works(q, j)'
      BY <1>6, <1>9 DEF Works
    <2> QED
      BY <1>1, <1>3, <1>4, <1>5, <1>7, <1>8, <1>9, <2>1, ItemElsewhere
  <1>10. CASE j = i
    <2>1. Owns(q, j) /\ Works(q, j) /\ Owns(q, j)'
      BY <1>6, <1>10 DEF Works
    <2>2. Live(j)' = Live(j) /\ Exists(j)'
      BY <1>2, <1>3, <1>5, <1>10, SameRows DEF Exists
    <2>3. standing[j] # "disturbed" => Live(j) = {}
      BY <1>1, <1>3, <2>1 DEF ItemInv, OwnOK
    <2>4. (\A t \in req'[q].todo : t[2] = remote'[j]) /\ req'[q].todo # {}
      BY <1>4, <1>5, <1>10
    <2>5. OwnOK(q, j)'
      BY <1>4, <1>7, <2>2, <2>3, <2>4 DEF OwnOK
    <2>6. Sound(j)' /\ UniqueRow(j)'
      BY <1>1, <2>1, <2>2 DEF ItemInv, Sound, UniqueRow
    <2> QED
      BY <1>1, <1>3, <1>4, <1>8, <2>1, <2>5, <2>6, ItemWorked
  <1> QED
    BY <1>9, <1>10

LEMMA AnswerKeeps ==
    ASSUME MirrorInv, NEW q \in Requests, PutAnswered(q) \/ DeleteAnswered(q), NEW j \in Items
    PROVE  ItemInv(j)'
  <1> DEFINE i == req[q].item
  <1>1. RSTypeInv /\ RSTypeOK /\ ItemInv(j) /\ req[q] \in ReqStates
    BY DEF MirrorInv, RSTypeInv, RSTypeOK
  <1>2. i \in Items /\ req[q].want \in Values
    BY <1>1 DEF ReqStates
  <1>3. /\ req[q].pc = "remote" /\ req[q].job \in {"put", "delete"} /\ Goto(q, "local")
        /\ rows' = rows /\ UNCHANGED historyVars
        /\ req[q].job = "put" => remote' = [remote EXCEPT ![i] = req[q].want]
        /\ req[q].job = "delete" => remote' = [remote EXCEPT ![i] = Gone(i)]
    BY DEF PutAnswered, DeleteAnswered
  <1>4. /\ \A p \in Requests \ {q} : req'[p] = req[p]
        /\ req'[q].job = req[q].job /\ req'[q].pc = "local" /\ req'[q].item = i
        /\ req'[q].id = req[q].id /\ req'[q].loaded = req[q].loaded /\ req'[q].want = req[q].want
    BY <1>1, <1>3, LocalIs
  <1>5. /\ \A l \in Items \ {i} : remote'[l] = remote[l]
        /\ req[q].job = "put" => remote'[i] = req[q].want
        /\ req[q].job = "delete" => remote'[i] = Gone(i)
    BY <1>1, <1>2, <1>3 DEF RSTypeOK
  <1>6. \A l \in Items : /\ Owns(q, l) <=> l = i
                         /\ Owns(q, l)' <=> l = i
                         /\ ~ Loops(q, l) /\ ~ Loops(q, l)'
    BY <1>3, <1>4 DEF Owns, Loops
  <1>7. j \notin clean[q] /\ clean' = clean /\ standing' = standing
    BY <1>1, <1>3 DEF ItemInv, CleanOK, historyVars
  <1>8. CleanOK(q, j)' /\ LoopOK(q, j)'
    BY <1>6, <1>7 DEF CleanOK, LoopOK
  <1> HIDE DEF i
  <1>9. CASE j # i
    <2>1. ~ Works(q, j) /\ ~ Works(q, j)'
      BY <1>6, <1>9 DEF Works
    <2> QED
      BY <1>1, <1>3, <1>4, <1>5, <1>7, <1>8, <1>9, <2>1, ItemElsewhere
  <1>10. CASE j = i
    <2>1. Owns(q, j) /\ Works(q, j) /\ Owns(q, j)'
      BY <1>6, <1>10 DEF Works
    <2>2. Live(j)' = Live(j) /\ rows'[j] = rows[j]
      BY <1>3, SameRows
    <2>3. Exists(j)' <=> req[q].job = "put"
      BY <1>2, <1>3, <1>5, <1>10, GoneTyped DEF Exists
    <2>4. OwnOK(q, j)'
      BY <1>1, <1>3, <1>4, <1>5, <1>7, <1>10, <2>1, <2>2, <2>3 DEF ItemInv, OwnOK
    <2>5. Sound(j)' /\ UniqueRow(j)'
      BY <1>1, <2>1, <2>2 DEF ItemInv, Sound, UniqueRow
    <2> QED
      BY <1>1, <1>3, <1>4, <1>8, <2>1, <2>4, <2>5, ItemWorked
  <1> QED
    BY <1>9, <1>10

\* Its operation over, q has nothing in hand.
LEMMA AtRestIs ==
    ASSUME NEW q \in Requests, req'[q] = Resting, NEW i
    PROVE  /\ ~ Owns(q, i)' /\ ~ Loops(q, i)' /\ ~ Works(q, i)'
           /\ OwnOK(q, i)' /\ LoopOK(q, i)'
           /\ i \notin clean'[q] => CleanOK(q, i)'
  BY RestingIs DEF Owns, Loops, Works, OwnOK, LoopOK, CleanOK

\* The second write of an operation: an undisturbed item's mirror agrees after it.
LEMMA SaveDoes ==
    ASSUME MirrorInv, RSTypeInv', NEW q \in Requests, SaveMirror(q) \/ DeleteRow(q),
           NEW i \in Items, i = req[q].item
    PROVE  /\ \A l \in Items \ {i} : rows'[l] = rows[l]
           /\ Live(i)' \subseteq Live(i)
           /\ standing[i] # "disturbed" => Agrees(i)'
  <1>1. RSTypeInv /\ RSTypeOK /\ ItemInv(i) /\ req[q] \in ReqStates
    BY DEF MirrorInv, RSTypeInv, RSTypeOK
  <1>2. req[q].id \in 0..MaxRows /\ req[q].want \in Values /\ req[q].loaded \in Values
    BY <1>1 DEF ReqStates
  <1> PICK k \in 0..MaxRows, read \in Values, want \in Values :
          k = req[q].id /\ read = req[q].loaded /\ want = req[q].want
    BY <1>2
  <1>3. /\ req[q].pc = "local" /\ req[q].job \in {"put", "delete"} /\ remote' = remote
        /\ req[q].job = "put" => Update(i, k, read, want)
        /\ req[q].job = "delete" => rows' = [rows EXCEPT ![i][k] = Deleted]
    BY DEF SaveMirror, DeleteRow
  <1>4. Owns(q, i) /\ (Exists(i)' <=> Exists(i))
    BY <1>3 DEF Owns, Exists
  <1>5. standing[i] # "disturbed" => Live(i) = {k} /\ rows[i][k] = read
    BY <1>1, <1>3, <1>4 DEF ItemInv, OwnOK
  <1>6. CASE req[q].job = "put"
    <2>1. RSTypeOK /\ Update(i, k, read, want)
      BY <1>1, <1>3, <1>6
    <2>2. /\ rows' \in [Items -> Seq(Values \cup {Deleted})]
          /\ \A l \in Items : Len(rows'[l]) <= MaxRows
          /\ \A l \in Items \ {i} : rows'[l] = rows[l]
          /\ \A l \in Items : Live(l)' = Live(l) /\ FirstRow(l)' = FirstRow(l)
          /\ \A l \in Live(i) : rows'[i][l] =
                IF l = k THEN Merged(rows[i][l], read, want) ELSE rows[i][l]
      <3>1. Updated(i, k, read, want)
        BY ONLY <2>1, UpdateIs
      <3> QED
        BY ONLY <3>1 DEF Updated
    <2>3. ASSUME standing[i] # "disturbed"
          PROVE  Agrees(i)'
      <3>1. Exists(i) /\ remote[i] = want
        BY <1>1, <1>3, <1>4, <1>6, <2>3 DEF ItemInv, OwnOK
      <3>2. Live(i)' = {k} /\ rows'[i][k] = want
        BY <1>5, <2>2, <2>3, MergedIsValue
      <3> QED
        BY <1>3, <1>4, <3>1, <3>2, AgreesNext DEF RSTypeInv
    <2> QED
      BY <2>2, <2>3
  <1>7. CASE req[q].job = "delete"
    <2>1. (\A l \in Items \ {i} : rows'[l] = rows[l]) /\ Live(i)' = Live(i) \ {k}
      BY <1>1, <1>3, <1>7, DeletionIs
    <2>2. ASSUME standing[i] # "disturbed"
          PROVE  Agrees(i)'
      <3>1. ~ Exists(i)
        BY <1>1, <1>3, <1>4, <1>7, <2>2 DEF ItemInv, OwnOK
      <3>2. Live(i)' = {}
        BY <1>5, <2>1, <2>2
      <3> QED
        BY <1>4, <3>1, <3>2, AgreesNext DEF RSTypeInv
    <2> QED
      BY <2>1, <2>2
  <1> QED
    BY <1>3, <1>6, <1>7

LEMMA SaveKeeps ==
    ASSUME MirrorInv, RSTypeInv', NEW q \in Requests, SaveMirror(q) \/ DeleteRow(q), NEW j \in Items
    PROVE  ItemInv(j)'
  <1>1. RSTypeInv /\ RSTypeOK /\ ItemInv(j) /\ req[q].item \in Items
    BY DEF MirrorInv, RSTypeInv, RSTypeOK, ReqStates
  <1> PICK i \in Items : i = req[q].item
    BY <1>1
  <1>2. /\ req[q].job \in {"put", "delete"} /\ Rest(q)
        /\ remote' = remote /\ UNCHANGED historyVars
    BY DEF SaveMirror, DeleteRow
  <1>3. /\ \A p \in Requests \ {q} : req'[p] = req[p]
        /\ req'[q] = Resting
    BY <1>1, <1>2, RestIs
  <1>4. (Owns(q, j) <=> j = i) /\ ~ Loops(q, j)
    BY <1>2 DEF Owns, Loops
  <1>5. j \notin clean[q] /\ clean' = clean /\ standing' = standing
    BY <1>1, <1>2 DEF ItemInv, CleanOK, historyVars
  <1>6. /\ ~ Owns(q, j)' /\ ~ Works(q, j)' /\ OwnOK(q, j)' /\ LoopOK(q, j)' /\ CleanOK(q, j)'
    BY <1>3, <1>5, AtRestIs
  <1>7. /\ \A l \in Items \ {i} : rows'[l] = rows[l]
        /\ Live(i)' \subseteq Live(i)
        /\ standing[i] # "disturbed" => Agrees(i)'
    BY SaveDoes
  <1>8. CASE j # i
    BY <1>1, <1>2, <1>3, <1>4, <1>5, <1>6, <1>7, <1>8, ItemElsewhere DEF Works
  <1>9. CASE j = i
    <2>1. UniqueRow(j)'
      BY <1>1, <1>7, <1>9 DEF ItemInv, UniqueRow
    <2>2. Sound(j)'
      BY <1>5, <1>7, <1>9 DEF Sound
    <2> QED
      BY <1>1, <1>2, <1>3, <1>4, <1>6, <1>9, <2>1, <2>2, ItemWorked DEF Works
  <1> QED
    BY <1>8, <1>9

LEMMA BeginKeeps ==
    ASSUME MirrorInv, NEW q \in Requests, BeginSync(q), NEW j \in Items
    PROVE  ItemInv(j)'
  <1>1. RSTypeInv /\ RSTypeOK /\ ItemInv(j)
    BY DEF MirrorInv, RSTypeInv
  <1>2. /\ req[q].pc = "idle" /\ remote' = remote /\ rows' = rows
        /\ standing' = standing /\ clean' = clean
    BY DEF BeginSync, AtRest, historyVars
  <1>3. /\ \A p \in Requests \ {q} : req'[p] = req[p]
        /\ req'[q].job = "sync" /\ req'[q].pc = "list"
    BY <1>1, BeginIs
  <1>4. ~ Works(q, j) /\ j \notin clean[q]
    BY <1>1, <1>2, IdleIs DEF ItemInv
  <1>5. ~ Works(q, j)' /\ CleanOK(q, j)'
    BY <1>2, <1>3, <1>4 DEF Works, Owns, Loops, CleanOK
  <1> QED
    BY <1>1, <1>2, <1>3, <1>4, <1>5, ItemElsewhere

LEMMA ListKeeps ==
    ASSUME MirrorInv, NEW q \in Requests, List(q), NEW j \in Items
    PROVE  ItemInv(j)'
  <1>1. RSTypeInv /\ RSTypeOK /\ ItemInv(j)
    BY DEF MirrorInv, RSTypeInv
  <1>2. req[q].pc = "list" /\ UNCHANGED <<remote, rows>> /\ StartsStep(q, ItemsOf(req[q].step))
    BY DEF List
  <1>3. /\ \A p \in Requests \ {q} : req'[p] = req[p]
        /\ req[q].job = "sync" /\ req[q].step \in 1..3
        /\ req'[q].job = "sync" /\ req'[q].pc = "select" /\ req'[q].step = req[q].step
    BY <1>1, ListIs
  <1>4. PICK page \in SUBSET Here(req[q].step) : req'[q].todo = {<<i, remote[i]>> : i \in page}
    BY <1>1, ListIs
  <1>5. Exists(j)' <=> Exists(j)
    BY <1>2 DEF Exists
  <1>6. \A t \in req'[q].todo : t[1] = j => t[2] = remote'[j] /\ Exists(j)'
    BY <1>2, <1>4, <1>5 DEF Here
  <1>7. LoopOK(q, j)'
    BY <1>3, <1>6 DEF LoopOK
  <1>8. Loops(q, j)' => j \in ItemsOf(req[q].step)
    BY <1>3 DEF Loops
  <1> QED
    BY <1>1, <1>2, <1>3, <1>7, <1>8, ItemListed

LEMMA ThrowsKeeps ==
    ASSUME MirrorInv, NEW q \in Requests, StepThrows(q), NEW j \in Items
    PROVE  ItemInv(j)'
  <1>1. RSTypeInv /\ RSTypeOK /\ ItemInv(j)
    BY DEF MirrorInv, RSTypeInv
  <1>2. UNCHANGED <<remote, rows>> /\ StartsStep(q, ItemsOf(req[q].step))
    BY DEF StepThrows
  <1>3. /\ \A p \in Requests \ {q} : req'[p] = req[p]
        /\ req[q].job = "sync" /\ req[q].pc = "list" /\ req[q].step \in 1..3
        /\ req'[q].job = "sync" /\ req'[q].pc = "list" /\ req'[q].step = req[q].step + 1
    BY <1>1, ThrowsIs
  <1>4. ~ Loops(q, j)' /\ LoopOK(q, j)' /\ req'[q].step # req[q].step
    BY <1>3 DEF Loops, LoopOK
  <1> QED
    BY <1>1, <1>2, <1>3, <1>4, ItemListed

LEMMA ReportKeeps ==
    ASSUME MirrorInv, NEW q \in Requests, Report(q), NEW j \in Items
    PROVE  ItemInv(j)'
  <1>1. RSTypeInv /\ RSTypeOK /\ ItemInv(j) /\ Control(q) /\ req[q] \in ReqStates
        /\ clean \in [Requests -> SUBSET Items]
    BY DEF MirrorInv, RSTypeInv, RSTypeOK
  <1>2. /\ req[q].pc = "list" /\ Rest(q) /\ remote' = remote /\ rows' = rows
        /\ standing'[j] = IF j \in clean[q] \cap Covered(req[q].errors) THEN "synced" ELSE standing[j]
        /\ clean' = [clean EXCEPT ![q] = {}]
    BY DEF Report
  <1>3. req[q].job = "sync"
    BY <1>1, <1>2 DEF Control, ReqStates, Jobs
  <1>4. /\ \A p \in Requests \ {q} : req'[p] = req[p]
        /\ req'[q] = Resting
    BY <1>1, <1>2, RestIs
  <1>5. j \notin clean'[q] /\ \A p \in Requests : j \in clean'[p] => j \in clean[p]
    BY <1>1, <1>2
  <1>6. /\ ~ Owns(q, j)' /\ ~ Works(q, j)' /\ OwnOK(q, j)' /\ LoopOK(q, j)' /\ CleanOK(q, j)'
    BY <1>4, <1>5, AtRestIs
  <1>7. ~ Owns(q, j)
    BY <1>3 DEF Owns
  <1>8. standing'[j] # standing[j] => standing'[j] = "synced" /\ j \in clean[q]
    BY <1>2
  <1>9. j \in clean[q] => Known(j) /\ \A p \in Requests : ~ Owns(p, j)
    BY <1>1 DEF ItemInv, Apart, Known
  <1>10. Known(j)' => Known(j)
    BY <1>5, <1>8, <1>9 DEF Known
  <1>11. /\ standing'[j] = "inSync" => standing[j] = "inSync"
         /\ standing'[j] # "disturbed" => standing[j] # "disturbed" \/ \A p \in Requests : ~ Owns(p, j)
    BY <1>8, <1>9
  <1> QED
    BY <1>1, <1>2, <1>4, <1>5, <1>6, <1>7, <1>10, <1>11, ItemLeft

\* An operation that breaks off before it wrote leaves what it found.
LEMMA BreakLeaves ==
    ASSUME MirrorInv, NEW q \in Requests, BreaksOff(q), NEW j \in Items,
           standing'[j] # "disturbed", Owns(q, j)
    PROVE  Agrees(j)
  <1>1. RSTypeInv /\ RSTypeOK /\ ItemInv(j) /\ Control(q)
    BY DEF MirrorInv, RSTypeInv
  <1>2. standing'[j] = IF j \in HalfDone(q) THEN "disturbed" ELSE standing[j]
    BY DEF BreaksOff
  <1>3. standing[j] # "disturbed" /\ j \notin HalfDone(q)
    BY <1>2
  <1>4. req[q].pc = "remote" /\ req[q].job \in {"put", "delete", "post"}
    BY <1>1, <1>3 DEF HalfDone, Owns, Control
  <1>5. CASE req[q].job \in {"put", "delete"}
    <2>1. Live(j) = {req[q].id} /\ rows[j][req[q].id] = remote[j] /\ Exists(j)
      BY <1>1, <1>3, <1>4, <1>5 DEF ItemInv, OwnOK
    <2> QED
      BY <1>1, <2>1, AgreesIs
  <1>6. CASE req[q].job = "post"
    <2>1. Live(j) = {} /\ ~ Exists(j)
      BY <1>1, <1>3, <1>4, <1>6 DEF ItemInv, OwnOK
    <2> QED
      BY <1>1, <2>1, AgreesIs
  <1> QED
    BY <1>4, <1>5, <1>6

LEMMA BreakKeeps ==
    ASSUME MirrorInv, NEW q \in Requests, BreaksOff(q), NEW j \in Items
    PROVE  ItemInv(j)'
  <1>1. RSTypeInv /\ RSTypeOK /\ ItemInv(j) /\ Control(q) /\ req[q] \in ReqStates
        /\ clean \in [Requests -> SUBSET Items]
    BY DEF MirrorInv, RSTypeInv, RSTypeOK
  <1>2. /\ Rest(q) /\ remote' = remote /\ rows' = rows
        /\ standing'[j] = IF j \in HalfDone(q) THEN "disturbed" ELSE standing[j]
        /\ \A p \in Requests : clean'[p] = IF p = q THEN {} ELSE clean[p] \ HalfDone(q)
    BY DEF BreaksOff
  <1>3. /\ \A p \in Requests \ {q} : req'[p] = req[p]
        /\ req'[q] = Resting
    BY <1>1, <1>2, RestIs
  <1>4. j \notin clean'[q] /\ \A p \in Requests : j \in clean'[p] => j \in clean[p]
    BY <1>2
  <1>5. /\ ~ Owns(q, j)' /\ ~ Works(q, j)' /\ OwnOK(q, j)' /\ LoopOK(q, j)' /\ CleanOK(q, j)'
    BY <1>3, <1>4, AtRestIs
  <1>6. Known(j)' => Known(j)
    BY <1>2, <1>4 DEF Known
  <1>7. standing'[j] = "inSync" /\ Owns(q, j) => Agrees(j)
    BY BreakLeaves
  <1>8. /\ standing'[j] = "inSync" => standing[j] = "inSync"
        /\ standing'[j] # "disturbed" => standing[j] # "disturbed"
    BY <1>2
  <1> QED
    BY <1>1, <1>2, <1>3, <1>4, <1>5, <1>6, <1>7, <1>8, ItemLeft

LEMMA SelectKeeps ==
    ASSUME MirrorInv, NEW q \in Requests, Select(q), NEW j \in Items
    PROVE  ItemInv(j)'
  <1>1. RSTypeInv /\ RSTypeOK /\ ItemInv(j) /\ Control(q) /\ req[q] \in ReqStates
    BY DEF MirrorInv, RSTypeInv, RSTypeOK
  <1>2. remote' = remote /\ rows' = rows /\ standing' = standing /\ clean' = clean
    BY DEF Select, historyVars
  <1>3. /\ \A p \in Requests \ {q} : req'[p] = req[p]
        /\ req[q].pc = "select"
        /\ req'[q].job = req[q].job /\ req'[q].pc = "write" /\ req'[q].step = req[q].step
        /\ req'[q].todo = req[q].todo
        /\ <<req'[q].item, req'[q].want>> \in req[q].todo
        /\ req'[q].id = FirstRow(req'[q].item)
        /\ req'[q].id # 0 => req'[q].loaded = rows[req'[q].item][req'[q].id]
        /\ req'[q].job = "post" => req'[q].item = req[q].item
    BY <1>1, SelectIs
  <1>4. req[q].job \in {"post", "sync"}
    BY <1>1, <1>3 DEF Control, ReqStates, Jobs
  <1>5. (Owns(q, j)' <=> Owns(q, j)) /\ (Loops(q, j)' <=> Loops(q, j))
    BY <1>3, <1>4 DEF Owns, Loops
  <1>6. CleanOK(q, j)'
    BY <1>1, <1>2, <1>3 DEF ItemInv, CleanOK
  <1>7. /\ Live(j)' = Live(j) /\ FirstRow(j)' = FirstRow(j)
        /\ Exists(j)' = Exists(j) /\ Agrees(j)' = Agrees(j)
    BY <1>2, SameItem
  <1>8. Known(j)' <=> Known(j)
    BY <1>2 DEF Known
  <1>9. OwnOK(q, j)'
    <2>1. SUFFICES ASSUME Owns(q, j), standing[j] # "disturbed"
                   PROVE  OwnOK(q, j)'
      BY <1>2, <1>5 DEF OwnOK
    <2>2. req[q].job = "post" /\ req'[q].item = j /\ req'[q].job = "post"
      BY <1>3, <1>4, <2>1 DEF Owns
    <2>3. /\ Exists(j) /\ (\A t \in req[q].todo : t[2] = remote[j])
          /\ req[q].todo = {} => Agrees(j)
          /\ req[q].todo # {} => Live(j) = {}
      BY <1>1, <1>3, <2>1, <2>2 DEF ItemInv, OwnOK
    <2>4. Live(j) = {} /\ FirstRow(j) = 0
      BY <1>1, <1>3, <2>3, RowsThere
    <2> QED
      BY <1>2, <1>3, <1>7, <2>2, <2>3, <2>4 DEF OwnOK
  <1>10. LoopOK(q, j)'
    <2>1. SUFFICES ASSUME Loops(q, j), Known(j)
                   PROVE  LoopOK(q, j)'
      BY <1>5, <1>8 DEF LoopOK
    <2>2. \A t \in req'[q].todo : t[1] = j => t[2] = remote'[j] /\ Exists(j)'
      BY <1>1, <1>2, <1>3, <1>7, <2>1 DEF ItemInv, LoopOK
    <2> QED
      BY <1>2, <1>3, <1>7, <2>2 DEF LoopOK
  <1> QED
    BY <1>1, <1>2, <1>3, <1>5, <1>6, <1>8, <1>9, <1>10, ItemLeft DEF Works

LEMMA EndKeeps ==
    ASSUME MirrorInv, NEW q \in Requests, EndLoop(q), NEW j \in Items
    PROVE  ItemInv(j)'
  <1>1. RSTypeInv /\ RSTypeOK /\ ItemInv(j)
    BY DEF MirrorInv, RSTypeInv
  <1>2. remote' = remote /\ rows' = rows /\ standing' = standing /\ clean' = clean
    BY DEF EndLoop, historyVars
  <1>3. /\ \A p \in Requests \ {q} : req'[p] = req[p]
        /\ req[q].todo = {} /\ req[q].pc = "select"
        /\ req[q].job = "post" => req'[q] = Resting
        /\ req[q].job # "post" =>
             /\ req[q].job = "sync" /\ req[q].step \in 1..3
             /\ req'[q].job = "sync" /\ req'[q].pc = "list"
             /\ req'[q].step = req[q].step + 1
    BY <1>1, LoopEnds DEF EndLoop
  <1>4. Known(j)' <=> Known(j)
    BY <1>2 DEF Known
  <1>5. CASE req[q].job = "post"
    <2>1. j \notin clean'[q]
      BY <1>1, <1>2, <1>5 DEF ItemInv, CleanOK
    <2>2. /\ ~ Owns(q, j)' /\ ~ Works(q, j)' /\ OwnOK(q, j)' /\ LoopOK(q, j)' /\ CleanOK(q, j)'
      BY <1>3, <1>5, <2>1, AtRestIs
    <2>3. standing[j] = "inSync" /\ Owns(q, j) => Agrees(j)
      BY <1>1, <1>3, <1>5 DEF ItemInv, OwnOK
    <2> QED
      BY <1>1, <1>2, <1>3, <1>4, <2>2, <2>3, ItemLeft
  <1>6. CASE req[q].job # "post"
    <2>1. ~ Owns(q, j) /\ ~ Owns(q, j)' /\ ~ Loops(q, j)' /\ OwnOK(q, j)' /\ LoopOK(q, j)'
      BY <1>3, <1>6 DEF Owns, Loops, OwnOK, LoopOK
    <2>2. CleanOK(q, j)'
      <3>1. SUFFICES ASSUME j \in clean[q]
                     PROVE  \E s \in {2, 3} : j \in ItemsOf(s) /\ s < req'[q].step
        BY <1>2, <1>3, <1>6 DEF CleanOK, ItemsOf
      <3>2. PICK s \in {2, 3} : /\ j \in ItemsOf(s)
                                /\ s < req[q].step \/ s = req[q].step
        BY <1>1, <3>1 DEF ItemInv, CleanOK
      <3> QED
        BY <1>3, <1>6, <3>2
    <2> QED
      BY <1>1, <1>2, <1>3, <1>4, <2>1, <2>2, ItemLeft DEF Works
  <1> QED
    BY <1>5, <1>6

(***************************************************************************)
(* The second half of an upsert: whatever it finds, an address has one row *)
(* after it; and where the row is still as it was read, the first row      *)
(* becomes what was listed.                                                *)
(***************************************************************************)
LEMMA WriteDoes ==
    ASSUME RSTypeInv, NEW q \in Requests, Write(q),
           NEW i \in Items, i = req[q].item, NEW want \in Values, want = req[q].want,
           UniqueRow(i)
    PROVE  /\ \A j \in Items \ {i} : rows'[j] = rows[j]
           /\ UniqueRow(i)'
           /\ /\ req[q].id = FirstRow(i)
              /\ req[q].id # 0 => req[q].loaded = rows[i][req[q].id]
              => /\ Live(i) # {} => Live(i)' = Live(i) /\ FirstRow(i)' = FirstRow(i)
                 /\ Live(i) = {} => \E k : Live(i)' = {k}
                 /\ \A k : k = FirstRow(i)' => rows'[i][k] = want
  <1>1. RSTypeOK /\ RSTypeInv'
    <2>1. RSTypeOK
      BY DEF RSTypeInv
    <2>2. [RSNext]_rsVars
      BY DEF RSNext, Sync
    <2> QED
      BY <2>1, <2>2, RSTypePreserved
  <1>2. /\ req[q].loaded \in Values
        /\ req[q].id # 0 => Update(i, req[q].id, req[q].loaded, want)
        /\ req[q].id = 0 => Insert(i, want)
    BY WriteRowsIs
  <1>3. /\ FirstRow(i) = 0 <=> Live(i) = {}
        /\ Live(i) # {} => FirstRow(i) \in Live(i)
    BY <1>1, RowsThere
  <1>4. /\ (Live(i) = {})' => FirstRow(i)' = 0
        /\ (Live(i) # {})' => FirstRow(i)' \in Live(i)' /\ FirstRow(i)' # 0
    BY <1>1, AgreesNext DEF RSTypeInv
  <1>5. ASSUME NEW k, NEW read \in Values, Update(i, k, read, want)
        PROVE  /\ \A j \in Items \ {i} : rows'[j] = rows[j]
               /\ UniqueRow(i)' /\ Live(i)' = Live(i) /\ FirstRow(i)' = FirstRow(i)
               /\ k \in Live(i) /\ read = rows[i][k] => rows'[i][k] = want
    <2>1. /\ rows' \in [Items -> Seq(Values \cup {Deleted})]
          /\ \A j \in Items : Len(rows'[j]) <= MaxRows
          /\ \A j \in Items \ {i} : rows'[j] = rows[j]
          /\ \A j \in Items : Live(j)' = Live(j) /\ FirstRow(j)' = FirstRow(j)
          /\ \A l \in Live(i) : rows'[i][l] =
                IF l = k THEN Merged(rows[i][l], read, want) ELSE rows[i][l]
      <3>1. Updated(i, k, read, want)
        BY ONLY <1>1, <1>5, UpdateIs
      <3> QED
        BY ONLY <3>1 DEF Updated
    <2>2. UniqueRow(i)'
      BY <2>1 DEF UniqueRow
    <2>3. k \in Live(i) /\ read = rows[i][k] => rows'[i][k] = want
      BY <2>1, MergedIsValue
    <2> QED
      BY <2>1, <2>2, <2>3
  <1>6. CASE req[q].id # 0
    <2>1. PICK k \in 0..MaxRows, read \in Values : k = req[q].id /\ read = req[q].loaded
      <3>1. req[q] \in ReqStates
        BY DEF RSTypeInv, RSTypeOK
      <3> QED
        BY <1>2, <3>1 DEF ReqStates
    <2>2. Update(i, k, read, want)
      BY <1>2, <1>6, <2>1
    <2> QED
      BY <1>3, <1>5, <1>6, <2>1, <2>2
  <1>7. CASE req[q].id = 0
    <2>1. CASE i \in Addresses /\ Live(i) # {}
      <3>1. PICK k \in Live(i), read \in Values : k = FirstRow(i) /\ read = rows[i][k]
        BY <1>1, <1>3, <2>1, RowsThere
      <3>2. Update(i, k, read, want)
        BY <1>2, <1>7, <2>1, <3>1 DEF Insert
      <3>3. \A j \in Items \ {i} : rows'[j] = rows[j]
        BY <1>5, <3>2
      <3> QED
        BY <1>3, <1>5, <1>7, <2>1, <3>2, <3>3
    <2>2. CASE ~ (i \in Addresses /\ Live(i) # {})
      <3>1. Len(rows[i]) < MaxRows /\ rows' = [rows EXCEPT ![i] = Append(@, want)]
        BY <1>2, <1>7, <2>2 DEF Insert
      <3>2. /\ \A j \in Items \ {i} : rows'[j] = rows[j]
            /\ \E k : /\ k \notin Live(i) /\ k # 0
                      /\ Live(i)' = Live(i) \cup {k} /\ rows'[i][k] = want
        <4>1. RSTypeOK
          BY <1>1
        <4>2. /\ rows' \in [Items -> Seq(Values \cup {Deleted})]
              /\ \A j \in Items : Len(rows'[j]) <= MaxRows
              /\ \A j \in Items \ {i} : rows'[j] = rows[j]
              /\ \E k : /\ k \notin Live(i) /\ k # 0
                        /\ Live(i)' = Live(i) \cup {k} /\ rows'[i][k] = want
              /\ \A l \in Live(i) : rows'[i][l] = rows[i][l]
          BY ONLY <3>1, <4>1, AppendedIs
        <4> QED
          BY <4>2
      <3>3. PICK k : /\ k \notin Live(i) /\ k # 0
                     /\ Live(i)' = Live(i) \cup {k} /\ rows'[i][k] = want
        BY <3>2
      <3>4. UniqueRow(i)'
        BY <2>2, <3>3 DEF UniqueRow
      <3>5. Live(i) = {} => Live(i)' = {k} /\ FirstRow(i)' = k
        BY <1>4, <3>3
      <3> QED
        BY <1>3, <1>7, <3>2, <3>3, <3>4, <3>5
    <2> QED
      BY <2>1, <2>2
  <1> QED
    BY <1>6, <1>7

LEMMA WriteKeeps ==
    ASSUME MirrorInv, NEW q \in Requests, Write(q), NEW j \in Items
    PROVE  ItemInv(j)'
  <1>1. RSTypeInv /\ RSTypeOK /\ ItemInv(j) /\ Control(q) /\ req[q] \in ReqStates
    BY DEF MirrorInv, RSTypeInv, RSTypeOK
  <1>2. remote' = remote /\ standing' = standing /\ clean' = clean
    BY DEF Write, historyVars
  <1>3. /\ \A p \in Requests \ {q} : req'[p] = req[p]
        /\ req[q].pc = "write" /\ req[q].job \in {"post", "sync"}
        /\ req'[q].job = req[q].job /\ req'[q].pc = "select" /\ req'[q].step = req[q].step
        /\ req'[q].todo = req[q].todo \ {<<req[q].item, req[q].want>>}
        /\ req[q].job = "post" => req'[q].item = req[q].item
    BY <1>1, WriteIs
  <1>4. (Owns(q, j)' <=> Owns(q, j)) /\ (Loops(q, j)' <=> Loops(q, j))
    BY <1>3 DEF Owns, Loops
  <1>5. CleanOK(q, j)'
    BY <1>1, <1>2, <1>3 DEF ItemInv, CleanOK
  <1>6. (Known(j)' <=> Known(j)) /\ (Exists(j)' <=> Exists(j))
    BY <1>2 DEF Known, Exists
  <1>7. LoopOK(q, j)'
    <2>1. SUFFICES ASSUME Loops(q, j), Known(j)
                   PROVE  \A t \in req'[q].todo : t[1] = j => t[2] = remote'[j] /\ Exists(j)'
      BY <1>3, <1>4, <1>6 DEF LoopOK
    <2> QED
      BY <1>1, <1>2, <1>3, <1>6, <2>1 DEF ItemInv, LoopOK
  <1>8. PICK i \in Items, want \in Values : i = req[q].item /\ want = req[q].want
    BY <1>1 DEF ReqStates
  <1>9. <<i, want>> \in req[q].todo
    BY <1>1, <1>3, <1>8 DEF Control
  <1>10. UniqueRow(i)
    BY <1>8 DEF MirrorInv, ItemInv
  <1>11. /\ \A l \in Items \ {i} : rows'[l] = rows[l]
         /\ UniqueRow(i)'
         /\ /\ req[q].id = FirstRow(i)
            /\ req[q].id # 0 => req[q].loaded = rows[i][req[q].id]
            => /\ Live(i) # {} => Live(i)' = Live(i) /\ FirstRow(i)' = FirstRow(i)
               /\ Live(i) = {} => \E k : Live(i)' = {k}
               /\ \A k : k = FirstRow(i)' => rows'[i][k] = want
    BY <1>1, <1>8, <1>10, WriteDoes
  <1>12. CASE j # i
    <2>1. ~ Owns(q, j) /\ ~ Owns(q, j)' /\ OwnOK(q, j)'
      BY <1>4, <1>8, <1>12 DEF Owns, OwnOK
    <2> QED
      BY <1>1, <1>2, <1>3, <1>4, <1>5, <1>6, <1>7, <1>11, <1>12, <2>1, ItemLeft DEF Works
  <1>13. CASE j = i
    <2>1. RSTypeOK'
      <3>1. [RSNext]_rsVars
        BY DEF RSNext, Sync
      <3> QED
        BY <1>1, <3>1, RSTypePreserved DEF RSTypeInv
    <2>2. Works(q, j)
      BY <1>1, <1>3, <1>8, <1>9, <1>13 DEF Works, Owns, Loops, Control
    <2>3. (\A k : Live(j)' = {k} => FirstRow(j)' = k)
      BY <2>1, AgreesNext
    <2>4. CASE req[q].job = "post"
      <3>1. Owns(q, j) /\ Owns(q, j)'
        BY <1>3, <1>4, <1>8, <1>13, <2>4 DEF Owns
      <3>2. ASSUME standing[j] # "disturbed"
            PROVE  /\ Exists(j)' /\ Agrees(j)'
                   /\ req'[q].todo = {}
        <4>1. /\ Exists(j) /\ (\A t \in req[q].todo : t[2] = remote[j])
              /\ Live(j) = {} /\ req[q].id = 0
          BY <1>1, <1>3, <1>9, <2>4, <3>1, <3>2 DEF ItemInv, OwnOK
        <4>2. FirstRow(j) = 0
          BY <1>1, <4>1, RowsThere
        <4>3. PICK k : Live(j)' = {k} /\ rows'[j][k] = want
          BY <1>11, <1>13, <2>3, <4>1, <4>2
        <4>4. want = remote[j]
          BY <1>9, <4>1
        <4>5. Agrees(j)'
          BY <1>2, <1>6, <2>1, <4>1, <4>3, <4>4, AgreesNext
        <4>6. \A t \in req[q].todo : t = <<i, want>>
          <5>1. \A t \in req[q].todo : t \in Items \X Values /\ t[1] = i
            BY <1>1, <1>8, <2>4 DEF ReqStates, Control
          <5> QED
            BY <4>1, <4>4, <5>1
        <4>7. req'[q].todo = {}
          BY <1>3, <1>8, <4>6
        <4> QED
          BY <1>6, <4>1, <4>5, <4>7
      <3>3. OwnOK(q, j)'
        BY <1>2, <1>3, <2>4, <3>1, <3>2 DEF OwnOK
      <3>4. Sound(j)'
        BY <3>1 DEF Sound
      <3> QED
        BY <1>1, <1>2, <1>3, <1>5, <1>7, <1>11, <1>13, <2>2, <3>1, <3>3, <3>4, ItemWorked DEF historyVars
    <2>5. CASE req[q].job = "sync"
      <3>1. ~ Owns(q, j) /\ ~ Owns(q, j)' /\ OwnOK(q, j)' /\ Loops(q, j)
        BY <1>3, <1>4, <2>2, <2>5 DEF Owns, OwnOK, Works
      <3>2. ASSUME standing[j] = "inSync", Agrees(j)
            PROVE  Agrees(j)'
        <4>1. Known(j)
          BY <3>2 DEF Known
        <4>2. /\ want = remote[j] /\ Exists(j)
              /\ req[q].id = FirstRow(j)
              /\ req[q].id # 0 => req[q].loaded = rows[j][req[q].id]
          BY <1>1, <1>3, <1>8, <1>9, <1>13, <3>1, <4>1 DEF ItemInv, LoopOK
        <4>3. PICK k : Live(j) = {k}
          BY <1>1, <3>2, <4>2, AgreesIs
        <4>4. Live(j)' = {k} /\ FirstRow(j)' = k
          BY <1>11, <1>13, <2>3, <4>2, <4>3
        <4>5. rows'[j][k] = want
          BY <1>11, <1>13, <4>2, <4>4
        <4> QED
          BY <1>2, <1>6, <2>1, <4>2, <4>4, <4>5, AgreesNext
      <3>3. \A p \in Requests : Owns(p, j)' <=> Owns(p, j)
        BY <1>3, <3>1 DEF Owns
      <3>4. Sound(j)'
        BY <1>1, <1>2, <3>2, <3>3 DEF ItemInv, Sound
      <3> QED
        BY <1>1, <1>2, <1>3, <1>5, <1>7, <1>11, <1>13, <2>2, <3>1, <3>4, ItemWorked DEF historyVars
    <2> QED
      BY <1>3, <2>4, <2>5
  <1> QED
    BY <1>12, <1>13

\* Cloudflare's value of an item becomes another, and no request of the panel knows.
ChangesThere(i) ==
    rows' = rows /\ req' = req /\ Disturb({i}) /\ \E v : remote' = [remote EXCEPT ![i] = v]

LEMMA ThereIs ==
    /\ \A i \in Items : Dashboard(i) => ChangesThere(i)
    /\ \A q \in Requests, j \in Rules : TryLost(q, j) => ChangesThere(j) /\ j \in Items
  BY Kinds DEF Dashboard, TryLost, ChangesThere

LEMMA ThereKeeps ==
    ASSUME MirrorInv, NEW i \in Items, ChangesThere(i), NEW j \in Items
    PROVE  ItemInv(j)'
  <1>1. /\ RSTypeInv /\ RSTypeOK /\ ItemInv(j)
        /\ remote \in [Items -> Values \cup {Absent, Deleted}]
        /\ standing \in [Items -> {"inSync", "disturbed", "synced"}]
        /\ clean \in [Requests -> SUBSET Items]
    BY DEF MirrorInv, RSTypeInv, RSTypeOK
  <1>2. /\ rows' = rows /\ req' = req /\ Disturb({i})
        /\ \E v : remote' = [remote EXCEPT ![i] = v]
    BY DEF ChangesThere
  <1>3. \A l \in Items \ {i} : remote'[l] = remote[l]
    BY <1>1, <1>2
  <1>4. /\ standing'[j] = IF j = i THEN "disturbed" ELSE standing[j]
        /\ \A p \in Requests : j \in clean'[p] <=> j \in clean[p] /\ j # i
    BY <1>1, <1>2 DEF Disturb
  <1>5. \A p \in Requests : /\ Works(p, j)' <=> Works(p, j)
                            /\ Owns(p, j)' <=> Owns(p, j)
    BY <1>2 DEF Works, Owns, Loops
  <1>6. IF j = i THEN ~ Known(j)' ELSE Known(j)' <=> Known(j)
    BY <1>4 DEF Known
  <1>7. \A p \in Requests : CleanOK(p, j)'
    BY <1>1, <1>2, <1>4, OthersClean DEF ItemInv
  <1>8. \A p, r \in Requests : Alone(p, r, j)' /\ Apart(p, r, j)'
    BY <1>1, <1>4, <1>5, <1>6 DEF ItemInv, Alone, Apart
  <1>9. ASSUME NEW p \in Requests
        PROVE  OwnOK(p, j)' /\ LoopOK(p, j)'
    <2>1. \/ ~ Works(p, j)
          \/ ~ Known(j)'
          \/ /\ remote'[j] = remote[j] /\ rows'[j] = rows[j] /\ Known(j)
             /\ standing'[j] # "disturbed" => standing[j] # "disturbed" \/ ~ Owns(p, j)
      BY <1>2, <1>3, <1>4, <1>6
    <2> QED
      BY <1>1, <1>2, <2>1, Bystander DEF ItemInv
  <1>10. UniqueRow(j)'
    BY <1>1, <1>2, SameRows DEF ItemInv, UniqueRow
  <1>11. Sound(j)'
    <2>1. CASE j = i
      BY <1>4, <2>1 DEF Sound
    <2>2. CASE j # i
      <3>1. Agrees(j)' = Agrees(j)
        BY <1>2, <1>3, <2>2, SameItem
      <3> QED
        BY <1>1, <1>4, <1>5, <2>2, <3>1 DEF ItemInv, Sound
    <2> QED
      BY <2>1, <2>2
  <1> QED
    BY <1>7, <1>8, <1>9, <1>10, <1>11 DEF ItemInv

LEMMA MirrorInit == RSInit => MirrorInv
  <1> SUFFICES ASSUME RSInit PROVE MirrorInv
    OBVIOUS
  <1>1. RSTypeInv /\ RSTypeOK
    BY RSInitTyped DEF RSTypeInv
  <1>2. /\ req = [q \in Requests |-> Resting] /\ clean = [q \in Requests |-> {}]
        /\ remote = [i \in Items |-> IF i = CatchAll THEN Value(FALSE, NoActions) ELSE Absent]
        /\ rows = [i \in Items |-> IF i = CatchAll THEN <<Value(FALSE, NoActions)>> ELSE << >>]
    BY DEF RSInit
  <1>3. ASSUME NEW i \in Items, NEW q \in Requests
        PROVE  ~ Owns(q, i) /\ ~ Loops(q, i) /\ i \notin clean[q]
    BY <1>2, RestingIs DEF Owns, Loops
  <1>4. ASSUME NEW i \in Items
        PROVE  Agrees(i) /\ UniqueRow(i)
    <2>1. CASE i # CatchAll
      <3>1. Live(i) = {} /\ ~ Exists(i)
        BY <1>2, <2>1, ValuesAreOthers DEF Live, Exists
      <3> QED
        BY <1>1, <3>1, AgreesIs DEF UniqueRow
    <2>2. CASE i = CatchAll
      <3> DEFINE v == Value(FALSE, NoActions)
      <3>1. rows[i] = <<v>> /\ remote[i] = v /\ v \in Values
        BY <1>2, <2>2 DEF Value, Values
      <3> HIDE DEF v
      <3>2. DOMAIN rows[i] = {1} /\ rows[i][1] = v
        BY <3>1
      <3>3. Live(i) = {1} /\ rows[i][1] = remote[i] /\ Exists(i)
        BY <3>1, <3>2 DEF Live, Exists
      <3> QED
        BY <1>1, <2>2, <3>3, AgreesIs, Kinds DEF UniqueRow
    <2> QED
      BY <2>1, <2>2
  <1>5. \A i \in Items : ItemInv(i)
    BY <1>3, <1>4 DEF ItemInv, CleanOK, OwnOK, LoopOK, Alone, Apart, Works, Sound
  <1> QED
    BY <1>1, <1>5 DEF MirrorInv

LEMMA MirrorPreserved ==
    ASSUME MirrorInv, [RSNext]_rsVars
    PROVE  MirrorInv'
  <1>1. RSTypeInv /\ RSTypeOK /\ RSTypeInv'
    BY RSTypePreserved DEF MirrorInv, RSTypeInv
  <1>2. CASE RSNext
    <2>1. ASSUME NEW j \in Items
          PROVE  ItemInv(j)'
      BY <1>1, <1>2, StepKinds, LoadKeeps, AnswerKeeps, SaveKeeps, CreateKeeps, BeginKeeps, ListKeeps,
         ThrowsKeeps, ReportKeeps, SelectKeeps, WriteKeeps, EndKeeps, BreakKeeps, PostKeeps, ThereIs, ThereKeeps
    <2> QED
      BY <1>1, <2>1 DEF MirrorInv
  <1>3. CASE UNCHANGED rsVars
    <2>1. /\ remote' = remote /\ rows' = rows /\ req' = req /\ standing' = standing /\ clean' = clean
      BY <1>3 DEF rsVars, historyVars
    <2>2. ASSUME NEW j \in Items
          PROVE  ItemInv(j)'
      <3>1. ItemInv(j)
        BY DEF MirrorInv
      <3>2. Agrees(j)' = Agrees(j) /\ Live(j)' = Live(j) /\ FirstRow(j)' = FirstRow(j) /\ Exists(j)' = Exists(j)
        BY <2>1, SameItem
      <3> QED
        BY <2>1, <3>1, <3>2
        DEF ItemInv, CleanOK, OwnOK, LoopOK, Alone, Apart, Works, Owns, Loops, Known, Sound, UniqueRow
    <2> QED
      BY <1>1, <2>2 DEF MirrorInv
  <1> QED
    BY <1>2, <1>3

(***************************************************************************)
(* While an item has seen only whole operations of the panel, one after    *)
(* another, the mirror has of it what Cloudflare has, in one row: for any  *)
(* number of rules, addresses and requests, whatever happens to the rest.  *)
(***************************************************************************)
THEOREM MirrorFollows == RSSpec => []MirrorAgrees
  <1>1. MirrorInv => MirrorAgrees
    <2>1. SUFFICES ASSUME MirrorInv, NEW i \in Items, Quiet(i), standing[i] = "inSync"
                   PROVE  Agrees(i)
      BY DEF MirrorAgrees
    <2>2. \A q \in Requests : ~ Owns(q, i)
      BY <2>1, BusyIsWorking DEF MirrorInv, Quiet, Works
    <2> QED
      BY <2>1, <2>2 DEF MirrorInv, ItemInv, Sound
  <1> QED
    BY <1>1, MirrorInit, MirrorPreserved, PTL DEF RSSpec

-----------------------------------------------------------------------------
(* Routing: what a sync repairs *)

\* The first row of the item is as Cloudflare has it.
Repaired(i) == Exists(i) => Live(i) # {} /\ rows[i][FirstRow(i)] = remote[i]

(***************************************************************************)
(* A synced item with no operation in hand is repaired.  A sync that has a *)
(* listed item to itself has it still to write, or has repaired it; and    *)
(* has repaired those of the steps behind it that it has no error of.      *)
(***************************************************************************)
Mended(i) == standing[i] = "synced" /\ (\A q \in Requests : ~ Owns(q, i)) => Repaired(i)
Listed(q, i) ==
    i \in clean[q] /\ Loops(q, i) =>
        Repaired(i) \/ (Exists(i) => <<i, remote[i]>> \in req[q].todo)
Past(q, i) ==
    \A s \in {2, 3} :
        i \in clean[q] /\ i \in ItemsOf(s) /\ s < req[q].step /\ Steps[s] \notin req[q].errors
        => Repaired(i)

ItemMended(i) == Mended(i) /\ \A q \in Requests : Listed(q, i) /\ Past(q, i)

RepairInv == MirrorInv /\ \A i \in Items : ItemMended(i)

\* On one page, a step of the sync lists all it finds.
LEMMA WholePage ==
    ASSUME OnePage, NEW s \in 1..3,
           NEW page \in kSubset(Min({PageSize, Cardinality(Here(s))}), Here(s))
    PROVE  page = Here(s)
  <1>1. IsFiniteSet(ItemsOf(s)) /\ Cardinality(ItemsOf(s)) <= PageSize
    BY Kinds, FS_EmptySet, RoutingSyncAssumption DEF OnePage
  <1>2. Here(s) \in SUBSET ItemsOf(s)
    BY DEF Here
  <1>3. /\ IsFiniteSet(Here(s)) /\ Cardinality(Here(s)) <= Cardinality(ItemsOf(s))
        /\ Cardinality(Here(s)) \in Nat /\ Cardinality(ItemsOf(s)) \in Nat
    BY <1>1, <1>2, FS_Subset, FS_CardinalityType
  <1>4. Cardinality(Here(s)) <= PageSize /\ PageSize \in Nat
    BY <1>1, <1>3, RoutingSyncAssumption
  <1> DEFINE n == Cardinality(Here(s))
  <1> HIDE DEF n
  <1>5. Min({PageSize, n}) = n
    <2>1. {PageSize, n} \subseteq Nat /\ n <= PageSize
      BY <1>3, <1>4 DEF n
    <2>2. Min({PageSize, n}) \in {PageSize, n} /\ Min({PageSize, n}) <= n
      BY <2>1, MinOfNumbers
    <2> QED
      BY <2>1, <2>2
  <1>6. page \in SUBSET Here(s) /\ Cardinality(page) = n
    BY <1>5 DEF kSubset, n
  <1> QED
    BY <1>3, <1>6, FS_Subset DEF n

LEMMA AgreesIsRepaired ==
    ASSUME RSTypeOK, NEW i \in Items, Agrees(i)
    PROVE  Repaired(i)
  BY AgreesIs, RowsThere DEF Repaired

LEMMA RepairedNext ==
    (RSTypeOK => \A i \in Items : Agrees(i) => Repaired(i))'
  <1>1. RSTypeOK => \A i \in Items : Agrees(i) => Repaired(i)
    BY AgreesIsRepaired
  <1> QED
    BY <1>1, PTL

\* Nothing is to be shown of an item that an operation has in hand, or that is not known.
LEMMA NotToBeMended ==
    ASSUME NEW i \in Items, \A p \in Requests : i \notin clean'[p],
           \/ standing'[i] # "synced"
           \/ \E q \in Requests : Owns(q, i)'
           \/ Repaired(i)'
    PROVE  ItemMended(i)'
  BY DEF ItemMended, Mended, Listed, Past

\* The item stays repaired, or is left as it is, by a step of q.
LEMMA MendedStays ==
    ASSUME NEW q \in Requests, NEW i \in Items, ItemMended(i),
           \A p \in Requests \ {q} : req'[p] = req[p],
           remote'[i] = remote[i],
           rows'[i] = rows[i] \/ Repaired(i)',
           \A p \in Requests \ {q} : i \in clean'[p] => i \in clean[p],
           standing'[i] = "synced" => standing[i] = "synced" \/ Repaired(i),
           standing'[i] = "synced" /\ Owns(q, i) => Owns(q, i)' \/ Repaired(i) \/ Repaired(i)',
           Listed(q, i)', Past(q, i)'
    PROVE  ItemMended(i)'
  <1>1. Repaired(i) => Repaired(i)'
    BY SameRows DEF Repaired, Exists
  <1>2. ASSUME NEW p \in Requests \ {q}
        PROVE  /\ Owns(p, i)' <=> Owns(p, i)
               /\ Listed(p, i)' /\ Past(p, i)'
    <2>1. Listed(p, i) /\ Past(p, i)
      BY DEF ItemMended
    <2>2. (Owns(p, i)' <=> Owns(p, i)) /\ (Loops(p, i)' <=> Loops(p, i)) /\ (Exists(i)' <=> Exists(i))
      BY DEF Owns, Loops, Exists
    <2>3. Listed(p, i)'
      BY <1>1, <2>1, <2>2 DEF Listed
    <2>4. Past(p, i)'
      BY <1>1, <2>1 DEF Past, ItemsOf, Steps
    <2> QED
      BY <2>2, <2>3, <2>4
  <1>3. Mended(i)'
    <2>1. SUFFICES ASSUME standing'[i] = "synced", \A p \in Requests : ~ Owns(p, i)'
                   PROVE  Repaired(i)'
      BY DEF Mended
    <2>2. CASE Owns(q, i)
      BY <1>1, <2>1, <2>2
    <2>3. CASE ~ Owns(q, i)
      <3>1. \A p \in Requests : ~ Owns(p, i)
        BY <1>2, <2>1, <2>3
      <3> QED
        BY <1>1, <2>1, <3>1 DEF ItemMended, Mended
    <2> QED
      BY <2>2, <2>3
  <1> QED
    BY <1>2, <1>3 DEF ItemMended

\* In the common case q is not at the item and has not got it to itself.
LEMMA MendedElsewhere ==
    ASSUME NEW q \in Requests, NEW i \in Items, ItemMended(i),
           \A p \in Requests \ {q} : req'[p] = req[p],
           remote'[i] = remote[i], rows'[i] = rows[i],
           \A p \in Requests \ {q} : i \in clean'[p] => i \in clean[p],
           standing'[i] = standing[i], ~ Owns(q, i), i \notin clean'[q]
    PROVE  ItemMended(i)'
  <1>1. Listed(q, i)' /\ Past(q, i)'
    BY DEF Listed, Past
  <1> QED
    BY <1>1, MendedStays

LEMMA LoadMends ==
    ASSUME RepairInv, NEW q \in Requests, LoadsRow(q), NEW j \in Items
    PROVE  ItemMended(j)'
  <1>1. PICK job \in {"put", "delete"}, i \in Items, k \in 1..MaxRows, want \in Values :
            Load(q, job, i, k, want)
    BY DEF LoadsRow
  <1>2. RSTypeInv /\ RSTypeOK /\ ItemInv(j) /\ ItemMended(j)
    BY DEF RepairInv, MirrorInv, RSTypeInv
  <1>3. req[q].pc = "idle" /\ StartsOn(q, i) /\ remote' = remote /\ rows' = rows
    BY <1>1 DEF Load, AtRest
  <1>4. /\ \A p \in Requests \ {q} : req'[p] = req[p]
        /\ req'[q].job = job /\ req'[q].item = i
    BY <1>1, <1>2, LoadIs
  <1>5. /\ \A p \in Requests : i \notin clean'[p]
        /\ j # i => /\ standing'[j] = standing[j]
                    /\ \A p \in Requests : j \in clean'[p] => j \in clean[p]
    BY <1>2, <1>3, StartsOnIs
  <1>6. CASE j = i
    BY <1>4, <1>5, <1>6, NotToBeMended DEF Owns
  <1>7. CASE j # i
    <2>1. ~ Works(q, j) /\ j \notin clean[q]
      BY <1>2, <1>3, IdleIs DEF ItemInv
    <2> QED
      BY <1>2, <1>3, <1>4, <1>5, <1>7, <2>1, MendedElsewhere DEF Works
  <1> QED
    BY <1>6, <1>7

LEMMA CreateMends ==
    ASSUME RepairInv, NEW q \in Requests, NEW i \in Rules \cup Addresses, NEW v \in Values,
           Create(q, i, v), NEW j \in Items
    PROVE  ItemMended(j)'
  <1>1. RSTypeInv /\ RSTypeOK /\ ItemInv(j) /\ ItemMended(j) /\ i \in Items
    BY Kinds DEF RepairInv, MirrorInv, RSTypeInv
  <1>2. /\ req[q].pc = "idle" /\ StartsOn(q, i)
        /\ remote' = remote /\ rows' = rows
    BY DEF Create, AtRest
  <1>3. /\ \A p \in Requests \ {q} : req'[p] = req[p]
        /\ req'[q].job = "post" /\ req'[q].item = i
    BY <1>1, CreateIs
  <1>4. \A l \in Items \ {i} : remote'[l] = remote[l]
    BY <1>1, <1>2 DEF RSTypeOK
  <1>5. /\ \A p \in Requests : i \notin clean'[p]
        /\ j # i => /\ standing'[j] = standing[j]
                    /\ \A p \in Requests : j \in clean'[p] => j \in clean[p]
    BY <1>1, <1>2, StartsOnIs
  <1>6. CASE j = i
    BY <1>3, <1>5, <1>6, NotToBeMended DEF Owns
  <1>7. CASE j # i
    <2>1. ~ Works(q, j) /\ j \notin clean[q]
      BY <1>1, <1>2, IdleIs DEF ItemInv
    <2> QED
      BY <1>1, <1>2, <1>3, <1>4, <1>5, <1>7, <2>1, MendedElsewhere DEF Works
  <1> QED
    BY <1>6, <1>7

LEMMA PostMends ==
    ASSUME RepairInv, NEW q \in Requests, PostAnswered(q), NEW j \in Items
    PROVE  ItemMended(j)'
  <1>1. RSTypeInv /\ RSTypeOK /\ ItemInv(j) /\ ItemMended(j) /\ req[q].item \in Items
    BY DEF RepairInv, MirrorInv, RSTypeInv, RSTypeOK, ReqStates
  <1>2. /\ req[q].job = "post" /\ rows' = rows /\ clean' = clean /\ standing' = standing
        /\ remote' = [remote EXCEPT ![req[q].item] = req[q].want]
    BY DEF PostAnswered, historyVars
  <1>3. /\ \A p \in Requests \ {q} : req'[p] = req[p]
        /\ req'[q].job = "post" /\ req'[q].item = req[q].item
    BY <1>1, PostIs
  <1>4. \A l \in Items \ {req[q].item} : remote'[l] = remote[l]
    BY <1>1, <1>2 DEF RSTypeOK
  <1>5. CASE j = req[q].item
    <2>1. Owns(q, j) /\ Owns(q, j)'
      BY <1>2, <1>3, <1>5 DEF Owns
    <2>2. \A p \in Requests : j \notin clean'[p]
      BY <1>1, <1>2, <2>1 DEF ItemInv, Apart
    <2> QED
      BY <2>1, <2>2, NotToBeMended
  <1>6. CASE j # req[q].item
    <2>1. ~ Owns(q, j) /\ j \notin clean'[q]
      BY <1>1, <1>2, <1>6 DEF Owns, ItemInv, CleanOK
    <2> QED
      BY <1>1, <1>2, <1>3, <1>4, <1>6, <2>1, MendedElsewhere
  <1> QED
    BY <1>5, <1>6

LEMMA AnswerMends ==
    ASSUME RepairInv, NEW q \in Requests, PutAnswered(q) \/ DeleteAnswered(q), NEW j \in Items
    PROVE  ItemMended(j)'
  <1>1. RSTypeInv /\ RSTypeOK /\ ItemInv(j) /\ ItemMended(j) /\ req[q].item \in Items
    BY DEF RepairInv, MirrorInv, RSTypeInv, RSTypeOK, ReqStates
  <1>2. /\ req[q].pc = "remote" /\ req[q].job \in {"put", "delete"} /\ Goto(q, "local")
        /\ rows' = rows /\ clean' = clean /\ standing' = standing
        /\ \E v : remote' = [remote EXCEPT ![req[q].item] = v]
    BY DEF PutAnswered, DeleteAnswered, historyVars
  <1>3. /\ \A p \in Requests \ {q} : req'[p] = req[p]
        /\ req'[q].job = req[q].job /\ req'[q].item = req[q].item
    BY <1>1, <1>2, LocalIs
  <1>4. \A l \in Items \ {req[q].item} : remote'[l] = remote[l]
    BY <1>1, <1>2 DEF RSTypeOK
  <1>5. CASE j = req[q].item
    <2>1. Owns(q, j) /\ Owns(q, j)'
      BY <1>2, <1>3, <1>5 DEF Owns
    <2>2. \A p \in Requests : j \notin clean'[p]
      BY <1>1, <1>2, <2>1 DEF ItemInv, Apart
    <2> QED
      BY <2>1, <2>2, NotToBeMended
  <1>6. CASE j # req[q].item
    <2>1. ~ Owns(q, j) /\ j \notin clean'[q]
      BY <1>1, <1>2, <1>6 DEF Owns, ItemInv, CleanOK
    <2> QED
      BY <1>1, <1>2, <1>3, <1>4, <1>6, <2>1, MendedElsewhere
  <1> QED
    BY <1>5, <1>6

LEMMA SaveMends ==
    ASSUME RepairInv, RSTypeInv', NEW q \in Requests, SaveMirror(q) \/ DeleteRow(q), NEW j \in Items
    PROVE  ItemMended(j)'
  <1>1. MirrorInv /\ RSTypeInv /\ RSTypeOK /\ ItemInv(j) /\ ItemMended(j) /\ req[q].item \in Items
    BY DEF RepairInv, MirrorInv, RSTypeInv, RSTypeOK, ReqStates
  <1> PICK i \in Items : i = req[q].item
    BY <1>1
  <1>2. /\ req[q].job \in {"put", "delete"} /\ Rest(q)
        /\ remote' = remote /\ clean' = clean /\ standing' = standing
    BY DEF SaveMirror, DeleteRow, historyVars
  <1>3. \A p \in Requests \ {q} : req'[p] = req[p]
    BY <1>1, <1>2, RestIs
  <1>4. /\ \A l \in Items \ {i} : rows'[l] = rows[l]
        /\ standing[i] # "disturbed" => Agrees(i)'
    BY <1>1, SaveDoes
  <1>5. CASE j = i
    <2>1. Owns(q, j)
      BY <1>2, <1>5 DEF Owns
    <2>2. \A p \in Requests : j \notin clean'[p]
      BY <1>1, <1>2, <2>1 DEF ItemInv, Apart
    <2>3. standing'[j] # "synced" \/ Repaired(j)'
      BY <1>2, <1>4, <1>5, RepairedNext DEF RSTypeInv
    <2> QED
      BY <2>2, <2>3, NotToBeMended
  <1>6. CASE j # i
    <2>1. ~ Owns(q, j) /\ j \notin clean'[q]
      BY <1>1, <1>2, <1>6 DEF Owns, ItemInv, CleanOK
    <2> QED
      BY <1>1, <1>2, <1>3, <1>4, <1>6, <2>1, MendedElsewhere
  <1> QED
    BY <1>5, <1>6

LEMMA BeginMends ==
    ASSUME RepairInv, NEW q \in Requests, BeginSync(q), NEW j \in Items
    PROVE  ItemMended(j)'
  <1>1. RSTypeInv /\ RSTypeOK /\ ItemInv(j) /\ ItemMended(j)
    BY DEF RepairInv, MirrorInv, RSTypeInv
  <1>2. /\ req[q].pc = "idle" /\ remote' = remote /\ rows' = rows
        /\ standing' = standing /\ clean' = clean
    BY DEF BeginSync, AtRest, historyVars
  <1>3. \A p \in Requests \ {q} : req'[p] = req[p]
    BY <1>1, BeginIs
  <1>4. ~ Works(q, j) /\ j \notin clean[q]
    BY <1>1, <1>2, IdleIs DEF ItemInv
  <1> QED
    BY <1>1, <1>2, <1>3, <1>4, MendedElsewhere DEF Works

\* A page that holds all there is leaves nothing of the step out.
LEMMA ListMends ==
    ASSUME OnePage, RepairInv, NEW q \in Requests, List(q), NEW j \in Items
    PROVE  ItemMended(j)'
  <1>1. RSTypeInv /\ RSTypeOK /\ ItemInv(j) /\ ItemMended(j)
    BY DEF RepairInv, MirrorInv, RSTypeInv
  <1>2. req[q].pc = "list" /\ remote' = remote /\ rows' = rows /\ StartsStep(q, ItemsOf(req[q].step))
    BY DEF List
  <1>3. /\ \A p \in Requests \ {q} : req'[p] = req[p]
        /\ req[q].job = "sync" /\ req[q].step \in 1..3
        /\ req'[q].job = "sync" /\ req'[q].step = req[q].step
        /\ req'[q].errors = req[q].errors
    BY <1>1, ListIs
  <1>4. req'[q].todo = {<<i, remote[i]>> : i \in Here(req[q].step)}
    <2>1. PICK page \in kSubset(Min({PageSize, Cardinality(Here(req[q].step))}), Here(req[q].step)) :
              req'[q].todo = {<<i, remote[i]>> : i \in page}
      BY <1>1, ListIs
    <2> PICK s \in 1..3 : s = req[q].step
      BY <1>3
    <2>2. page = Here(s)
      BY <2>1, WholePage
    <2> QED
      BY <2>1, <2>2
  <1>5. /\ ~ Works(q, j)
        /\ j \notin ItemsOf(req[q].step) => standing'[j] = standing[j]
        /\ j \in ItemsOf(req[q].step) => ~ Known(j)' \/ standing'[j] = standing[j]
        /\ \A p \in Requests \ {q} : j \in clean'[p] => j \in clean[p]
        /\ j \in clean'[q] => j \in clean[q] \/ j \in ItemsOf(req[q].step)
    BY <1>1, <1>2, <1>3, StartsStepIs
  <1>6. standing'[j] = "synced" => standing[j] = "synced"
    BY <1>5 DEF Known
  <1>7. Listed(q, j)'
    <2>1. SUFFICES ASSUME j \in ItemsOf(req[q].step), Exists(j)
                   PROVE  <<j, remote[j]>> \in req'[q].todo
      BY <1>2, <1>3 DEF Listed, Loops, Exists
    <2> QED
      BY <1>4, <2>1 DEF Here
  <1>8. Repaired(j)' <=> Repaired(j)
    BY <1>2, SameItem DEF Repaired
  <1>9. Past(q, j)'
    <2>1. SUFFICES ASSUME NEW s \in {2, 3}, j \in clean'[q], j \in ItemsOf(s), s < req[q].step,
                          Steps[s] \notin req[q].errors
                   PROVE  Repaired(j)
      BY <1>3, <1>8 DEF Past, ItemsOf, Steps
    <2>2. j \notin ItemsOf(req[q].step)
      BY <1>3, <2>1, Kinds
    <2> QED
      BY <1>1, <1>5, <2>1, <2>2 DEF ItemMended, Past
  <1> QED
    BY <1>1, <1>2, <1>3, <1>5, <1>6, <1>7, <1>9, MendedStays DEF Works

\* A step that threw is among the errors, and nothing is claimed of it.
LEMMA ThrowsMends ==
    ASSUME RepairInv, NEW q \in Requests, StepThrows(q), NEW j \in Items
    PROVE  ItemMended(j)'
  <1>1. RSTypeInv /\ RSTypeOK /\ ItemInv(j) /\ ItemMended(j)
    BY DEF RepairInv, MirrorInv, RSTypeInv
  <1>2. remote' = remote /\ rows' = rows /\ StartsStep(q, ItemsOf(req[q].step))
    BY DEF StepThrows
  <1>3. /\ \A p \in Requests \ {q} : req'[p] = req[p]
        /\ req[q].job = "sync" /\ req[q].pc = "list" /\ req[q].step \in 1..3
        /\ req'[q].job = "sync" /\ req'[q].pc = "list" /\ req'[q].step = req[q].step + 1
        /\ req'[q].errors = req[q].errors \cup {Steps[req[q].step]}
    BY <1>1, ThrowsIs
  <1>4. /\ ~ Works(q, j)
        /\ j \notin ItemsOf(req[q].step) => standing'[j] = standing[j]
        /\ j \in ItemsOf(req[q].step) => ~ Known(j)' \/ standing'[j] = standing[j]
        /\ \A p \in Requests \ {q} : j \in clean'[p] => j \in clean[p]
        /\ j \in clean'[q] => j \in clean[q] \/ j \in ItemsOf(req[q].step)
    BY <1>1, <1>2, <1>3, StartsStepIs
  <1>5. standing'[j] = "synced" => standing[j] = "synced"
    BY <1>4 DEF Known
  <1>6. Listed(q, j)'
    BY <1>3 DEF Listed, Loops
  <1>7. Repaired(j)' <=> Repaired(j)
    BY <1>2, SameItem DEF Repaired
  <1>8. Past(q, j)'
    <2>1. SUFFICES ASSUME NEW s \in {2, 3}, j \in clean'[q], j \in ItemsOf(s), s < req'[q].step,
                          Steps[s] \notin req'[q].errors
                   PROVE  Repaired(j)
      BY <1>7 DEF Past, ItemsOf, Steps
    <2>2. s # req[q].step /\ Steps[s] \notin req[q].errors
      BY <1>3, <2>1
    <2>3. s < req[q].step
      BY <1>3, <2>1, <2>2
    <2>4. j \notin ItemsOf(req[q].step)
      BY <1>3, <2>1, <2>3, Kinds
    <2> QED
      BY <1>1, <1>4, <2>1, <2>2, <2>3, <2>4 DEF ItemMended, Past
  <1> QED
    BY <1>1, <1>2, <1>3, <1>4, <1>5, <1>6, <1>8, MendedStays DEF Works

LEMMA SelectMends ==
    ASSUME RepairInv, NEW q \in Requests, Select(q), NEW j \in Items
    PROVE  ItemMended(j)'
  <1>1. RSTypeInv /\ ItemInv(j) /\ ItemMended(j) /\ Control(q) /\ req[q] \in ReqStates
    BY DEF RepairInv, MirrorInv, RSTypeInv, RSTypeOK
  <1>2. remote' = remote /\ rows' = rows /\ standing' = standing /\ clean' = clean
    BY DEF Select, historyVars
  <1>3. /\ \A p \in Requests \ {q} : req'[p] = req[p]
        /\ req[q].pc = "select"
        /\ req'[q].job = req[q].job /\ req'[q].pc = "write" /\ req'[q].step = req[q].step
        /\ req'[q].todo = req[q].todo /\ req'[q].errors = req[q].errors
        /\ req'[q].job = "post" => req'[q].item = req[q].item
    BY <1>1, SelectIs
  <1>4. req[q].job \in {"post", "sync"}
    BY <1>1, <1>3 DEF Control, ReqStates, Jobs
  <1>5. (Owns(q, j)' <=> Owns(q, j)) /\ (Loops(q, j)' <=> Loops(q, j))
    BY <1>3, <1>4 DEF Owns, Loops
  <1>6. (Repaired(j)' <=> Repaired(j)) /\ (Exists(j)' <=> Exists(j))
    BY <1>2, SameItem DEF Repaired
  <1>7. Listed(q, j)' /\ Past(q, j)'
    BY <1>1, <1>2, <1>3, <1>5, <1>6 DEF ItemMended, Listed, Past, ItemsOf, Steps
  <1> QED
    BY <1>1, <1>2, <1>3, <1>5, <1>7, MendedStays

\* An item that a sync has to itself is repaired by being written.
LEMMA WriteMends ==
    ASSUME RepairInv, NEW q \in Requests, Write(q), NEW j \in Items
    PROVE  ItemMended(j)'
  <1>1. RSTypeInv /\ RSTypeOK /\ ItemInv(j) /\ ItemMended(j) /\ Control(q) /\ req[q] \in ReqStates
    BY DEF RepairInv, MirrorInv, RSTypeInv, RSTypeOK
  <1>2. remote' = remote /\ standing' = standing /\ clean' = clean
    BY DEF Write, historyVars
  <1>3. /\ \A p \in Requests \ {q} : req'[p] = req[p]
        /\ req[q].pc = "write" /\ req[q].job \in {"post", "sync"}
        /\ req'[q].job = req[q].job /\ req'[q].pc = "select" /\ req'[q].step = req[q].step
        /\ req'[q].todo = req[q].todo \ {<<req[q].item, req[q].want>>}
        /\ req'[q].errors = req[q].errors
        /\ req[q].job = "post" => req'[q].item = req[q].item
    BY <1>1, WriteIs
  <1>4. (Owns(q, j)' <=> Owns(q, j)) /\ (Loops(q, j)' <=> Loops(q, j))
    BY <1>3 DEF Owns, Loops
  <1>5. PICK i \in Items, want \in Values : i = req[q].item /\ want = req[q].want
    BY <1>1 DEF ReqStates
  <1>6. <<i, want>> \in req[q].todo
    BY <1>1, <1>3, <1>5 DEF Control
  <1>7. UniqueRow(i)
    BY <1>5 DEF RepairInv, MirrorInv, ItemInv
  <1>8. /\ \A l \in Items \ {i} : rows'[l] = rows[l]
        /\ UniqueRow(i)'
        /\ /\ req[q].id = FirstRow(i)
           /\ req[q].id # 0 => req[q].loaded = rows[i][req[q].id]
           => /\ Live(i) # {} => Live(i)' = Live(i) /\ FirstRow(i)' = FirstRow(i)
              /\ Live(i) = {} => \E k : Live(i)' = {k}
              /\ \A k : k = FirstRow(i)' => rows'[i][k] = want
    BY <1>1, <1>5, <1>7, WriteDoes
  <1>9. CASE j # i
    <2>1. (Repaired(j)' <=> Repaired(j)) /\ (Exists(j)' <=> Exists(j))
      BY <1>2, <1>8, <1>9, SameItem DEF Repaired
    <2>2. Listed(q, j)'
      BY <1>1, <1>2, <1>3, <1>4, <1>5, <1>9, <2>1 DEF ItemMended, Listed
    <2>3. Past(q, j)'
      BY <1>1, <1>2, <1>3, <2>1 DEF ItemMended, Past, ItemsOf, Steps
    <2> QED
      BY <1>1, <1>2, <1>3, <1>4, <1>8, <1>9, <2>2, <2>3, MendedStays
  <1>10. CASE j = i /\ req[q].job = "post"
    <2>1. Owns(q, j) /\ Owns(q, j)'
      BY <1>4, <1>5, <1>10 DEF Owns
    <2>2. \A p \in Requests : j \notin clean'[p]
      BY <1>1, <1>2, <2>1 DEF ItemInv, Apart
    <2> QED
      BY <2>1, <2>2, NotToBeMended
  <1>11. CASE j = i /\ req[q].job = "sync"
    <2>1. CASE Known(j)
      <3>1. Loops(q, j) /\ ~ Owns(q, j)
        BY <1>1, <1>3, <1>5, <1>6, <1>11 DEF Loops, Owns, Control
      <3>2. /\ want = remote[j]
            /\ req[q].id = FirstRow(j)
            /\ req[q].id # 0 => req[q].loaded = rows[j][req[q].id]
        BY <1>1, <1>3, <1>5, <1>6, <1>11, <2>1, <3>1 DEF ItemInv, LoopOK
      <3>3. Live(j)' # {} /\ \A k : k = FirstRow(j)' => rows'[j][k] = remote'[j]
        BY <1>2, <1>8, <1>11, <3>2
      <3>4. Repaired(j)'
        BY <3>3 DEF Repaired
      <3>5. Listed(q, j)' /\ Past(q, j)'
        BY <3>4 DEF Listed, Past
      <3> QED
        BY <1>1, <1>2, <1>3, <3>1, <3>4, <3>5, MendedStays
    <2>2. CASE ~ Known(j)
      BY <1>2, <2>2, NotToBeMended DEF Known
    <2> QED
      BY <2>1, <2>2
  <1> QED
    BY <1>3, <1>9, <1>10, <1>11

LEMMA EndMends ==
    ASSUME RepairInv, NEW q \in Requests, EndLoop(q), NEW j \in Items
    PROVE  ItemMended(j)'
  <1>1. RSTypeInv /\ RSTypeOK /\ ItemInv(j) /\ ItemMended(j)
    BY DEF RepairInv, MirrorInv, RSTypeInv
  <1>2. remote' = remote /\ rows' = rows /\ standing' = standing /\ clean' = clean
    BY DEF EndLoop, historyVars
  <1>3. /\ \A p \in Requests \ {q} : req'[p] = req[p]
        /\ req[q].pc = "select" /\ req[q].todo = {}
        /\ req[q].job = "post" => req'[q] = Resting
        /\ req[q].job # "post" =>
             /\ req[q].job = "sync" /\ req[q].step \in 1..3
             /\ req'[q].job = "sync" /\ req'[q].pc = "list"
             /\ req'[q].step = req[q].step + 1 /\ req'[q].errors = req[q].errors
    BY <1>1, LoopEnds
  <1>4. Repaired(j)' <=> Repaired(j)
    BY <1>2, SameItem DEF Repaired
  <1>5. CASE req[q].job = "post"
    <2>1. j \notin clean'[q]
      BY <1>1, <1>2, <1>5 DEF ItemInv, CleanOK
    <2>2. Listed(q, j)' /\ Past(q, j)'
      BY <2>1 DEF Listed, Past
    <2>3. standing[j] = "synced" /\ Owns(q, j) => Repaired(j)
      BY <1>1, <1>3, <1>5, AgreesIsRepaired DEF ItemInv, OwnOK
    <2> QED
      BY <1>1, <1>2, <1>3, <2>2, <2>3, MendedStays
  <1>6. CASE req[q].job # "post"
    <2>1. ~ Owns(q, j) /\ Listed(q, j)'
      BY <1>3, <1>6 DEF Owns, Listed, Loops
    <2>2. Past(q, j)'
      <3>1. SUFFICES ASSUME NEW s \in {2, 3}, j \in clean[q], j \in ItemsOf(s), s < req[q].step + 1,
                            Steps[s] \notin req[q].errors
                     PROVE  Repaired(j)
        BY <1>2, <1>3, <1>4, <1>6 DEF Past, ItemsOf, Steps
      <3>2. CASE s < req[q].step
        BY <1>1, <3>1, <3>2 DEF ItemMended, Past
      <3>3. CASE s = req[q].step
        <4>1. Loops(q, j)
          BY <1>3, <1>6, <3>1, <3>3 DEF Loops
        <4>2. Repaired(j) \/ ~ Exists(j)
          BY <1>1, <1>3, <3>1, <4>1 DEF ItemMended, Listed
        <4> QED
          BY <4>2 DEF Repaired
      <3> QED
        BY <1>3, <1>6, <3>1, <3>2, <3>3
    <2> QED
      BY <1>1, <1>2, <1>3, <2>1, <2>2, MendedStays
  <1> QED
    BY <1>5, <1>6

\* What the report says of a step without an error is so.
LEMMA ReportMends ==
    ASSUME RepairInv, NEW q \in Requests, Report(q), NEW j \in Items
    PROVE  ItemMended(j)'
  <1>1. RSTypeInv /\ RSTypeOK /\ ItemInv(j) /\ ItemMended(j) /\ Control(q) /\ req[q] \in ReqStates
        /\ clean \in [Requests -> SUBSET Items]
    BY DEF RepairInv, MirrorInv, RSTypeInv, RSTypeOK
  <1>2. /\ req[q].pc = "list" /\ req[q].step = 4 /\ Rest(q) /\ remote' = remote /\ rows' = rows
        /\ standing'[j] = IF j \in clean[q] \cap Covered(req[q].errors) THEN "synced" ELSE standing[j]
        /\ clean' = [clean EXCEPT ![q] = {}]
    BY StepsAre DEF Report
  <1>3. req[q].job = "sync" /\ ~ Owns(q, j)
    BY <1>1, <1>2 DEF Control, ReqStates, Jobs, Owns
  <1>4. \A p \in Requests \ {q} : req'[p] = req[p]
    BY <1>1, <1>2, RestIs
  <1>5. j \notin clean'[q] /\ \A p \in Requests \ {q} : clean'[p] = clean[p]
    BY <1>1, <1>2
  <1>6. Listed(q, j)' /\ Past(q, j)'
    BY <1>5 DEF Listed, Past
  <1>7. ASSUME j \in clean[q], j \in Covered(req[q].errors)
        PROVE  Repaired(j)
    <2>1. PICK s \in 1..3 : Steps[s] \notin req[q].errors /\ j \in ItemsOf(s)
      BY <1>7, StepsAre DEF Covered
    <2>2. s \in {2, 3}
      BY <2>1, Kinds
    <2> QED
      BY <1>1, <1>2, <1>7, <2>1, <2>2 DEF ItemMended, Past
  <1>8. standing'[j] = "synced" => standing[j] = "synced" \/ Repaired(j)
    BY <1>2, <1>7
  <1> QED
    BY <1>1, <1>2, <1>3, <1>4, <1>5, <1>6, <1>8, MendedStays

LEMMA BreakMends ==
    ASSUME RepairInv, NEW q \in Requests, BreaksOff(q), NEW j \in Items
    PROVE  ItemMended(j)'
  <1>1. RSTypeInv /\ RSTypeOK /\ ItemMended(j) /\ MirrorInv
        /\ clean \in [Requests -> SUBSET Items]
    BY DEF RepairInv, MirrorInv, RSTypeInv, RSTypeOK
  <1>2. /\ Rest(q) /\ remote' = remote /\ rows' = rows
        /\ standing'[j] = IF j \in HalfDone(q) THEN "disturbed" ELSE standing[j]
        /\ \A p \in Requests : clean'[p] = IF p = q THEN {} ELSE clean[p] \ HalfDone(q)
    BY DEF BreaksOff
  <1>3. \A p \in Requests \ {q} : req'[p] = req[p]
    BY <1>1, <1>2, RestIs
  <1>4. j \notin clean'[q] /\ \A p \in Requests : j \in clean'[p] => j \in clean[p]
    BY <1>2
  <1>5. Listed(q, j)' /\ Past(q, j)'
    BY <1>4 DEF Listed, Past
  <1>6. standing'[j] = "synced" /\ Owns(q, j) => Repaired(j)
    BY <1>1, BreakLeaves, AgreesIsRepaired
  <1>7. standing'[j] = "synced" => standing[j] = "synced"
    BY <1>2
  <1> QED
    BY <1>1, <1>2, <1>3, <1>4, <1>5, <1>6, <1>7, MendedStays

LEMMA ThereMends ==
    ASSUME RepairInv, NEW i \in Items, ChangesThere(i), NEW j \in Items
    PROVE  ItemMended(j)'
  <1>1. /\ ItemMended(j)
        /\ remote \in [Items -> Values \cup {Absent, Deleted}]
        /\ standing \in [Items -> {"inSync", "disturbed", "synced"}]
        /\ clean \in [Requests -> SUBSET Items]
    BY DEF RepairInv, MirrorInv, RSTypeInv, RSTypeOK
  <1>2. /\ rows' = rows /\ req' = req /\ Disturb({i})
        /\ \E v : remote' = [remote EXCEPT ![i] = v]
    BY DEF ChangesThere
  <1>3. \A l \in Items \ {i} : remote'[l] = remote[l]
    BY <1>1, <1>2
  <1>4. /\ standing'[j] = IF j = i THEN "disturbed" ELSE standing[j]
        /\ \A p \in Requests : j \in clean'[p] <=> j \in clean[p] /\ j # i
    BY <1>1, <1>2 DEF Disturb
  <1>5. CASE j = i
    BY <1>4, <1>5, NotToBeMended
  <1>6. CASE j # i
    <2>1. (Repaired(j)' <=> Repaired(j)) /\ (Exists(j)' <=> Exists(j)) /\ remote'[j] = remote[j]
      BY <1>2, <1>3, <1>6, SameItem DEF Repaired
    <2>2. \A p \in Requests : (Owns(p, j)' <=> Owns(p, j)) /\ (Loops(p, j)' <=> Loops(p, j))
      BY <1>2 DEF Owns, Loops
    <2>3. \A p \in Requests : Listed(p, j)' /\ Past(p, j)'
      BY <1>1, <1>2, <1>4, <2>1, <2>2 DEF ItemMended, Listed, Past, ItemsOf, Steps
    <2>4. Mended(j)'
      BY <1>1, <1>4, <1>6, <2>1, <2>2 DEF ItemMended, Mended
    <2> QED
      BY <2>3, <2>4 DEF ItemMended
  <1> QED
    BY <1>5, <1>6

LEMMA RepairInit == RSInit => RepairInv
  <1> SUFFICES ASSUME RSInit PROVE RepairInv
    OBVIOUS
  <1>1. \A i \in Items : standing[i] = "inSync" /\ \A q \in Requests : i \notin clean[q]
    BY DEF RSInit
  <1> QED
    BY <1>1, MirrorInit DEF RepairInv, ItemMended, Mended, Listed, Past

LEMMA RepairPreserved ==
    ASSUME OnePage, RepairInv, [RSNext]_rsVars
    PROVE  RepairInv'
  <1>1. RSTypeOK /\ RSTypeInv' /\ MirrorInv'
    BY RSTypePreserved, MirrorPreserved DEF RepairInv, MirrorInv, RSTypeInv
  <1>2. ASSUME NEW j \in Items
        PROVE  ItemMended(j)'
    <2>1. CASE RSNext
      BY <1>1, <2>1, StepKinds, LoadMends, CreateMends, AnswerMends, SaveMends, BeginMends, ListMends,
         ThrowsMends, SelectMends, WriteMends, EndMends, ReportMends, BreakMends, PostMends, ThereIs, ThereMends
    <2>2. CASE UNCHANGED rsVars
      <3>1. /\ remote' = remote /\ rows' = rows /\ req' = req /\ standing' = standing /\ clean' = clean
        BY <2>2 DEF rsVars, historyVars
      <3>2. (Repaired(j)' <=> Repaired(j)) /\ (Exists(j)' <=> Exists(j))
        BY <3>1, SameItem DEF Repaired
      <3> QED
        BY <3>1, <3>2 DEF RepairInv, ItemMended, Mended, Listed, Past, Owns, Loops, ItemsOf, Steps
    <2> QED
      BY <2>1, <2>2
  <1> QED
    BY <1>1, <1>2 DEF RepairInv

(***************************************************************************)
(* A sync that had an item to itself and reported no error for its step    *)
(* leaves its first row as Cloudflare has it, and the row of an address is *)
(* the only one: for any rules, addresses and requests, as long as what an *)
(* account has fits on the one page that CloudflareClient reads.           *)
(***************************************************************************)
THEOREM SyncMends == ASSUME OnePage PROVE RSSpec => []SyncRepairs
  <1>1. RepairInv => SyncRepairs
    <2>1. SUFFICES ASSUME RepairInv, NEW i \in Items, Quiet(i), standing[i] = "synced", Exists(i)
                   PROVE  /\ Live(i) # {} /\ rows[i][FirstRow(i)] = remote[i]
                          /\ i \in Addresses => Agrees(i)
      BY DEF SyncRepairs
    <2>2. RSTypeInv /\ RSTypeOK /\ ItemInv(i) /\ ItemMended(i)
      BY <2>1 DEF RepairInv, MirrorInv, RSTypeInv
    <2>3. \A q \in Requests : ~ Owns(q, i)
      BY <2>1, <2>2, BusyIsWorking DEF Quiet, Works
    <2>4. Live(i) # {} /\ rows[i][FirstRow(i)] = remote[i]
      BY <2>1, <2>2, <2>3 DEF ItemMended, Mended, Repaired
    <2>5. i \in Addresses => Agrees(i)
      <3>1. SUFFICES ASSUME i \in Addresses
                     PROVE  \E k : Live(i) = {k} /\ rows[i][k] = remote[i]
        BY <2>1, <2>2, AgreesIs
      <3>2. FirstRow(i) \in Live(i) /\ \A k \in Live(i) : k = FirstRow(i)
        BY <2>2, <2>4, <3>1, RowsThere DEF ItemInv, UniqueRow
      <3> QED
        BY <2>4, <3>2
    <2> QED
      BY <2>4, <2>5
  <1>2. RepairInv /\ [RSNext]_rsVars => RepairInv'
    BY RepairPreserved
  <1> QED
    BY <1>1, <1>2, RepairInit, PTL DEF RSSpec
=============================================================================
