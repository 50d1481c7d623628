# A TLA+ model of Cloudflare Mailbox

Cloudflare Mailbox is a mail service built of a Cloudflare Email Worker, a Laravel
application (webhook, queue, scheduler, portal API, admin panel), a Vue single-page portal
and an optional IMAP/SMTP bridge. Most of what can go wrong in it goes wrong *between*
those parts: a job runs twice, a call is repeated that had taken effect, a container dies
half way, a row is written back that somebody else changed. The modules here model those
orders of events; TLC explores all of them on small instances, and TLAPS proves
every safety property those runs check, for every size of the system.

Paths below are relative to the repository.

## 1. The system and its parts

| part | state it keeps | operations | talks to |
|---|---|---|---|
| Email Worker (`cf/src/inbound-email.js`) | none | `email()` per delivery | webhook; forwards on failure |
| Webhook (`IncomingEmailController`, `WebhookSignature`) | none | verify, dispatch | queue |
| Queue (Redis, `config/queue.php`, the `worker` service) | ready and reserved entries, `failed_jobs` | pop, expire, release, delete, bury | `StoreIncomingEmail` |
| `StoreIncomingEmail` | `emails`, `attachments`, `events` rows | look up, create, attach, import invites, notify | database, disk, web push |
| Outbound (`Compose.vue`, `SendController`, `EmailSender`, `ApiMailSender`, `SmtpMailSender`, `CloudflareClient`) | `sent_emails`, attachment copies | press, check, call with retries, record, copy | Cloudflare Email Sending / SMTP |
| Calendar (`EventController`, `CalendarBackend`, invites, `calendar:remind`) | `events` with `reminded_at`, the `withoutOverlapping` mutex | create, move, delete, import, remind | scheduler, web push |
| Worker deployment (`WorkerDeployer`, its commands and panel action, Settings) | account rows with `worker_config_hash`, the rendered `wrangler.toml`, Workers at Cloudflare | deploy, sync, save settings | wrangler |
| Routing and sync (`RoutingManager`, `AccountSynchronizer`) | mirror of Cloudflare's rules, addresses, domains | add, toggle, delete, full sync | Cloudflare API |
| Portal session (`auth.js`, `App.vue`, `Login.vue`) | accounts and tokens, `localStorage`, counts, the badge | launch, refresh, sign in and out | portal API, service worker |
| Mail list (`Mailbox.vue`, `Conversation.vue`, `ui.js`) | rows, cache per account and folder, pane, undo | load, poll, star, read, trash, bulk, undo | portal API |
| Compose form (`Compose.vue`) | recipients, suggestions, files, text | add, pick, read, prefill, send | portal API, the profiles |
| Profile form (`Settings.vue`, `auth.js`) | profiles of the window's accounts | save, upload and remove the photo | portal API |
| Push on the device (`push.js`, `App.vue`, `Settings.vue`) | permission, subscription | prompt, register, test, click | browser, `PushController` |
| Service worker (`public/sw.js`) | caches by version | install, activate, serve, revalidate, notify | network, windows |
| Portal API (`InboxController`, `AuthController`, `PushController`) | flags, folders, push subscriptions | list, show, update, subscribe | database |
| IMAP/SMTP bridge (`mailserver/`) | per-session message list | list, store flags, expunge, submit | portal API |
| DAV, autodiscovery, iCalendar, avatars, admin forms | one row at a time | read, write | database |

What makes each hard, and what must hold:

- **Inbound.** The queue delivers at least once, and `retry_after` (90 s) is shorter than the
  time a job may take (120 s), so one entry can be in two workers at once; workers die and
  storage throws between any two statements. A message must be filed once per ingest key,
  its attachments once and in order, announced at most once and only when complete, and
  never vanish once the webhook said 202.
- **Outbound.** `retry(3)` repeats a POST that may have succeeded, the answer to the tab may
  be lost, the user presses again. Statuses must be honest, what is called sent must be in
  the Sent view, and one press may only produce a bounded number of copies.
- **Calendar.** Two schedulers run during a redeploy, each steps over some of its minutes,
  and people edit events while the command holds models it read. One reminder per event,
  none forgotten, no edit lost, one event per invite.
- **Worker deployment.** Minutes pass between loading the row and saving the hash; two
  deployments share one file; wrangler calls fail half way. The hash must say "up to date"
  only when it is, settings saved meanwhile must stay.
- **Routing and sync.** Remote first, mirror second, with no transaction across the two, while
  syncs write back lists they read earlier. The mirror may be wrong only after something that
  can go wrong, and a sync that says it succeeded must repair it.
- **Service worker.** A launch, its background revalidation, an installation and a deployment
  interleave over shared caches. A shell must boot with what is cached beside it, and no old
  build may stay on the screen for good.
- **Portal.** Every answer may arrive after the user has moved on: after an account was changed,
  signed out or signed in again, a row was trashed, the list reloaded, the pane closed. A row
  at rest must say what the server says, an account may vanish only for its own reasons, the
  badge must settle on the real count.
- **Compose form.** Files are read in parallel, the original of a reply arrives late, answers of
  the address book replace the list under the highlight, and the text the user edits is
  searched for the signature. What is posted must fit the limit and be the sender's own.
- **Push.** Registrations overlap on the one subscription a browser has, keys rotate, endpoints
  expire. A reopened app must end up reachable for every account that is signed in.
- **Bridge.** Sequence numbers name positions in a list that changes.

`PROJECT.json` lists every part with its status, and each hazard at its line.

## 2. The modules

### Inbound: `Inbox`, `Ingest`, `Ingest_proofs`

`Inbox` is the promise to a mailbox owner: a message that was accepted may be filed, once
per ingest key, and a filed message may be announced, once. It knows nothing of queues.

`Ingest` is the code. `edge` is where each `email()` invocation is; `enqueued` the deliveries
the webhook dispatched; `ready`, `reserved`, `failed` the queue; `pc`, `entry`, `row`, `next` the
control state and local variables of each `queue:work` process inside `handle()`; `emails` the
table, with the attachments and pushes of each row.

| action | code |
|---|---|
| `WebhookAccepts`, `WebhookRefuses` | the Worker's `email()` and `IncomingEmailController` |
| `Pop`, `Expire`, `Ack`, `Throw` (in `CreateEmail`, `HandleThrows`) | Laravel's Redis queue: the attempt is counted at pop, a reservation expires while its holder still runs, deleting an expired reservation deletes nothing |
| `CheckExists` | the lookup by `ingest_key` and the early return |
| `CreateEmail` | `Email::create`, against the unique index |
| `StoreAttachment` | one round of `storeAttachments` |
| `Notify` | the web push, which may have no subscription or throw |
| `HandleThrows`, `Crash`, `Timeout` | an exception, a dead process, `--timeout` |

The ingest key is the triple (account, Message-ID, recipient); `NoId` stands for a message
without a Message-ID, whose key contains a UUID drawn at each attempt and matches no row.
`ImplementsInbox` is `Inbox!Spec` under the mapping `accepted <- messages of enqueued
deliveries`, `inbox <- the emails table`.

### Outbound: `Outbound`, `Outbound_proofs`

A request is a pair (composer, press). `stage` walks through `EmailSender::send`: size check
and driver, the call with its attempts, the row, the attachment copies. `accepted` counts the
attempts for which the provider took the message, which the code cannot see when the
connection breaks afterwards. `ApiAnswers`, `ApiRefuses` and `ApiUnreachable` are the three
ways an attempt ends; `SmtpSends` is the other driver, which makes one attempt. `copies` counts the
attachments whose copy was stored and those whose copy failed, which `storeSentAttachments`
catches and passes over. `Kill` ends a request anywhere. The tab is independent of the request: `LoseAnswer` lets the user press
again while the first request still runs.

### Calendar: `Calendar`, `Calendar_proofs`

Time is counted in the five-minute marks of the schedule. `ranBy` and `missed` say which
scheduler started the command at a mark; `Tick` lets a scheduler step over a mark but not over
two in a row, which is what a loop of `schedule:run; sleep 60` does: its rounds are a little
longer than a minute. `lock` is the `withoutOverlapping` mutex, which becomes `Stale` when its
holder's container dies and expires after a day. `list` and `current` are the models the
command has read. The import of an invite is two steps, the lookup and the write of
`updateOrCreate`, which saves the columns that differ from what the lookup read: the start and
the all-day flag. A portal or CalDAV write is one step, since nothing it holds survives it. A
CalDAV client names the UID of what it puts, which becomes `source_uid`
(`CalendarBackend.php:150`), so it may put an event of an invite beside the imported one: `puts`
counts those. `overlaps` counts the lookups that found nothing while another import was about
to insert.

### Worker deployment: `WorkerDeploy`, `Cloudflare_proofs`

A deployer is a panel request, `cf:deploy-worker`, `cf:doctor --deploy` (all forced, one
account) or `cf:worker:sync` (all accounts, those that drifted). `run[d].loaded` are the rows as
it loaded them at its start. `toml` is the one `cf/wrangler.toml` of the container, `workers`
what exists at Cloudflare by account id and Worker name, with its configuration and secret.
A release gives the values rendered into the file, the prefix of the Workers' names and the
rest of the stub (`env`); a configuration is all of them with the account id.
`ConfigHash` is of the id, the values and the secret only (`WorkerDeployer.php:34-41`), so a
release that changes the prefix or the stub does not show as drift: `DriftIsHonest` promises no more
than what the hash covers, and section 4 has the rest. A failed `npm install` leaves the file
rendered (`Render`).
`Upload` and `PutSecret` are the wrangler calls: they read the file *as it is then*, and fail
with or without having taken effect. Which account wrangler acts on when the file and the
environment disagree is left open (`Targets`). `SaveRow` is Eloquent's save: the columns that
differ from the row as loaded. `Release` replaces the container, forwards or back.

`whole` is a history variable: the accounts whose last deployment ran with no other beside it
and got through all of its steps, the secret included.

### Routing and its mirror: `RoutingSync`, `Cloudflare_proofs`

An item is a rule, a destination address or the domain's catch-all (mirrored by
`inbound_capture`). `remote` is what Cloudflare has, `rows` the table's rows of each item with
their ids, `req` what each web request is doing with what it has read.

| action | code |
|---|---|
| `ToggleRule`, `Delete`, `SetCatchAllToWorker`, `DisableCatchAll` | the panel loads a row (`Load`) and calls `RoutingManager` |
| `PutAnswered`, `DeleteAnswered`; `SaveRow`, `DeleteRow` | the call to Cloudflare; the write to the mirror |
| `Create` | the start of `addDestinationAddress` or `createForwardRule`: no row is read |
| `PostAnswered`, `TryLost` | a try of its POST that is answered, and what is answered is upserted; a try that takes effect unanswered, which `retry(3)` repeats (`CloudflareClient.php:61-64`): it leaves a second rule without a row |
| `BeginSync`, `List`, `StepThrows`, `Report` | `AccountSynchronizer::full`, its three steps, and what the panel shows of them |
| `Select`, `Write` | the two statements of `updateOrCreate`; only addresses have a unique index, which turns a lost race into an update |
| `BreaksOff` | a refusal, a `ConnectionException`, a failing query or a death, wherever the request is |
| `Dashboard` | a change made at Cloudflare |

An update writes the columns that differ from what was read (`Merged`), and writes nothing
when the row has gone. No button calls `createForwardRule` and `disableCatchAll` yet; they are
modelled because they are `RoutingManager`'s and tested. The zone's other data and the
catch-all's own entry in the list of rules are left out. The specification is `RSSpec`: the module
marks what it shares the name of with `WorkerDeploy` (`RS...`), so that one module can hold the
proofs about both.

`standing` and `clean` are history variables. `standing` says whether an item has only seen
whole panel operations one after another (`inSync`), something that can leave the mirror wrong
since (`disturbed`: a dashboard change, an operation broken off between its writes, two
requests at once, a rule made by an unanswered try), or after that a sync that had it to itself (`synced`). `MirrorAgrees` and
`SyncRepairs` say what the mirror is worth in the first and in the last case.

### The application shell: `ServiceWorker`, `ServiceWorker_proofs`

A *fill* brings a shell and the files of a build into a cache: behind a launch served from the
cache, within a launch that found none, or while a version installs. Each of its steps is one
`await` of `sw.js`: `FetchShell`, `FetchManifest`, `AddAll` (all or nothing), `PutShell`;
`FetchFails`, `GiveUp` and `AddAllFails` are their errors. A launch without a cached shell whose
fetches fail gets the reconnecting page only if the last one threw; the 5xx of the last one, or
a 4xx, is handed to the window as it is (`sw.js:35`, `sw.js:44`, `sw.js:137`), an error page that reloads
nothing. `InstallShell` stores the shell first, as the
`install` handler does. `Deploy` replaces the build between any two of them: the files of the
old build are gone from the server. A version becomes active (`Activate`) when nothing of the
old one is awaited and drops the other caches; a fill of the old version may hold a `Cache` that
no longer exists (`ver = 0`) or create its cache anew. `page` are the windows, from `Start` over
`Respond` to an open page, the reconnecting one or an error page (`Failed`), which is also what a
launch gets whose worker the browser stops (`Kill`).

`torn` is a history variable: the shell in a cache came from another build than the manifest
its files were taken from, or was stored by an installation before its files.

### Accounts, tokens and the badge: `Session`, `Portal_proofs`

A token stands for the account object of a sign-in. `sync` are the `refreshUnread` calls under
way: which tokens are still asked about, which answers wait to be heard. `Hear` applies one
answer to the list *as it is then* (a 401 removes by address, not by token); `HearLast` is what
follows `Promise.all`: the list is stored and, for `syncUnread`, the badge set. `stored` is
`localStorage`, written by `persist`; its counts are left open, as every launch overwrites them.
`Tick`, `onVisible`, `AfterAction` and `Push` are the occasions of a refresh. The timer asks nothing while
the window is hidden (`App.vue:200`), and `Hide` and `onVisible` are when it goes to the background
and returns. A call is answered (`Answer`) or fails (`Fails`), of which the window makes nothing. `Revoke` is a token that goes at
the server.

### The list of mails: `MailList`, `MailList_proofs`

One view: a folder over the accounts that can be picked. A load or poll (`fetches`) is sent,
served and heard in three steps; an action on mails (`calls`) is sent with its optimistic change,
its changes are served one by one, each done or not and answered or not, and what the view
makes of the outcome is a step of its own (`HearToggle`, `HearMoved`, `HearNotMoved`, `HearUndone`,
`HearThread`, `HearReader`, `HearRest`). `known[m]` is the row object, which the list and the cache share;
a call whose object was replaced no longer reaches a row (`alive`), nor does a call of a
conversation that was unmounted. A conversation that could not be loaded asks again after a while
for the row the pane shows *then* (`HearNoThread`, `RetryThread`, `askedRow`). Mails are numbered by age, and a list is the set of those it
shows: `load` and `poll` sort what they show by age, and nothing else adds a row.

`of` and `excused` are history variables. A mail is excused, until a load or a poll brings its row
anew, when its row may be out of date by the way the code works, and `RowsAgree` speaks of the others. It is
excused when

- its list is not loaded, cached, or the empty one of a failed load;
- its row came with an answer from before a change of it, or from while a call for it was under way;
- two calls were under way for it at once, or a change of it was made whose answer was lost;
- a bulk change or a move of it failed, or it was undone, or changed by the buttons of the pane (the
  code does not look at what those calls return);
- its conversation was opened in the trash, or the call for it failed or was repeated, or its row was
  unread and the pane shows it already: `Mailbox.vue:239` marks such rows read, and the server perhaps
  does not;
- it arrived, or was changed, elsewhere.

So `RowsAgree` is about one action on a mail at a time, beside any loads, polls and actions on
other mails; what overlapping actions on one mail leave is not claimed, and is often wrong until the next poll.

### The compose form: `Profile`, `Composer`, `Portal_proofs`

A text is a sequence of lines, a file a weight. Typed addresses become chips on a separator,
on Enter or on leaving the field; a suggestion query is a timer (`FireQuery`) and an answer
(`HearRecipients`) that is shown whatever was typed since. `FileRead` ends one of several reads and
compares the total then. `Prefill` is the answer with the original, which replaces what the
user entered meanwhile. `bodyHtml` and `sigIndex` are the code's own search for the signature;
`linesHtml` makes a rule of the separator and escapes nothing (`Compose.vue:175-177`). The HTML part is what
stands before the card, the photo, the card and the rest, all as source; `Display` is what a mail
program shows of it, where `Shown` says what becomes of a line with angle brackets. `CardIsOwnSignature`
speaks of the source; `HtmlSaysTheText`, of the display, is false (section 4). `send` posts both parts. What the server does with the post is `Outbound`. The specification is
`CSpec`, for the same reason as `RSSpec`; `Lines` are the lines a text may have.

`Profile` holds the server's profile of each account (signature, photo, photo in the signature),
the window's copy of it, and the answers that carry one to the other: from the settings form
(`saveProfile`, `uploadAvatar`, `removeAvatar`) and from the refresh of the counts. A display name
is a constant. `Composer` extends it: the form takes the signature from the window's copy when it
is opened and looks for the signature of that copy when it sends, and `HearProfile` may come
between the two, in any order of the answers. A signature saved just before the form is opened may
thus miss the text, and a mail begun with the old one is sent without a card though the user
removed nothing (the comment at `Compose.vue:190` knows only that reason); the card that is sent
is right all the same.

### Push on the device: `Push`, `Push_proofs`

`runs` are the executions of `subscribeForAccounts`, each `await` a step: `GetSubscription`,
`Unsubscribe`, `Subscribe`, one `Post` for each account, `Finish`. They share the one subscription of
the browser (`subKey` is the key it was made with). Endpoints are `cur`, `old` and `other`: the
one the browser holds, one it held, another device's. `rows` is the table of
`PushController`. A run keeps the array of accounts it was called with, into which a sign-in
still pushes (`live`), while a sign-out replaces it.

`page.active` is the account in view or `UNIFIED`, `page.stored` what `localStorage` has of it:
`persist` does not clear that when the last account is signed out (`auth.js:37-39`), so a launch without
accounts may show a signed-out address (`auth.js:24`), until a sign-in; the type invariant says that the
view is one of the accounts, or all, while there are any. `Readable` is whether
the browser tells the key of its subscription (`applicationServerKey`): where it does not, `MatchesKey` keeps
whatever subscription there is (`push.js:95`).

### How the modules meet

`Composer` ends where `Outbound` begins (the POST). `Ingest` ends where `Push` begins: `Notify` in one is
`Notify` in the other. `ServiceWorker` decides which build's portal runs, and so the age of the
`vapidKey` in `Push!Launch`. `Session!Push` is the badge part of the service worker's push handler,
`Push!Notify` the notification. They are separate because no property relates the state of two of
them; `MailList` takes the accounts of `Session` as given.

## 3. The runs

| run | instance | what it shows |
|---|---|---|
| `ingest` | one message delivered twice, 2 workers, 2 tries, 1 attachment | all safety properties, `AcceptedMailSettles`, and the refinement of `Inbox` |
| `ingest_no_message_id` | one delivery without a Message-ID | violated: `RetriesNeverDuplicate` |
| `outbound` | one message, 2 presses, 3 attempts each, 1 attachment | `HonestStatus`, `SentIsRecorded`, `EveryPressEnds` |
| `calendar` | 2 schedulers, 2 imports of an invite that moves and stops being all-day, 3 events, 1 edit, 1 death, marks 0..3 | `RemindedOncePerDeath`, `DueIsHandledInTime`, `NoLostEdit`, `OneEventPerInvite` |
| `worker_deploy` | 2 accounts, 2 Cloudflare accounts, 2 deployers with 2 starts, 3 releases of which one has another prefix and stub only, 1 release, 1 change of settings | `DriftIsHonest`, `SyncPassIsThorough` |
| `routing_sync` | 2 rules with 2 possible actions, 1 address, the catch-all, 2 requests at once, 3 in all, any repeated POSTs, 1 dashboard change, 2 rows per item | `MirrorAgrees`, `SyncRepairs` |
| `service_worker` | 1 window, 3 builds of one file each, the third with a new cache name | `WholeShellIsBootable`, `LaunchesGetFresh`, `ReconnectEnds` |
| `session` | 1 window that is hidden and shown, 2 mailboxes, one signed into twice, 2 refreshes that overlap | `NextLaunchAgrees`, `VanishRightly` |
| `session_badge` | the same with 1 mailbox, whose unread mails change | `BadgeSettles`, `DeadTokensGo` |
| `mail_list` | 2 mails of one conversation, 2 accounts, inbox, starred or trash, 2 actions with the conversation's retries, 1 refresh or poll, 1 change elsewhere | `CacheIsOfItsKey`, `RowsAgree` |
| `composer` | 2 senders with a photo, one without a signature, an original with a From line in angle brackets, 2 people, 2 files of which one fits, 3 actions, the first of which may be a call of the settings form or a refresh | `AttachmentsFit`, `CardIsOwnSignature` |
| `push` | 2 mailboxes, one also on another device, 2 runs at once, 2 keys, 1 failure, 3 user actions, a browser that tells the key of its subscription | `StarvesNobody`, `ReopenedIsReachable` |

**Why the bounds are enough.** The inbound races are between two holders of a message: two
deliveries and two workers give every pair (two jobs of one message, two holders of one
entry), two tries give a first attempt, a last one and the burial, one attachment a state
between row and announcement. Messages do not interact except through the ingest key, and the
proofs remove the bounds for safety anyway. Outbound requests of different composers share
nothing; two presses of one composer overlap. For the calendar, two marks of lead and a
window that spans two marks are where a skipped mark matters: the real window has seven
marks, so the small one is the harder case. A death is bounded by one because the property
counts deaths; three events are those of two overlapping imports and one put by a client, and one edit
is between a reading and a save. In `WorkerDeploy` two deployers are enough for the file to change between any
two steps of a deployment, a third would only overlap in the same way; one change of settings
and one release suffice to make a recorded hash old, the release in what the hash covers or in what it
does not. In `RoutingSync` items are independent of each other except
within one sync and where a repeated POST makes a second rule, so two rules and one of each other kind
will do; three requests are an operation that leaves a row,
one that breaks off or overlaps on it, and the sync that repairs it; two rows are a duplicate. In `ServiceWorker` three builds and two cache names give a
deployment with and without a new worker version, one after the other; windows meet only in
the caches, and each has a fill of both kinds, so one window and an installation already
overlap. In `Session` a second sign-in under one address is what makes an answer old, and two refreshes are
what overlap: one asked for by a push, an action or the window's return, beside one under way, which it
may overtake. Accounts that vanish take two mailboxes, asked about in the same
refresh, while their counts do not matter; the badge takes counts that change, and with two mailboxes
would only add them up. In `MailList` two mails of one conversation are what row actions, bulk actions and the
reader treat differently, two calls and two fetches overlap in every order, and a second account
without mail is enough to leave the first; with two actions a change, its undo or a second change
meet. In `Composer` the limit admits one file of two; one call for a profile
(`MaxSettings`) is enough to change the signature that is looked for, as its answer is heard at any
later moment, and what several calls in any order leave in the window is a profile as well, for which
the proof stands. In `Push` two runs overlap, and three user actions are
a sign-in of each account and a prompt.

**Symmetry.** Schedulers, and in `WorkerDeploy` deployers, accounts and Cloudflare accounts, in
`RoutingSync` requests, actions and rules, in `MailList` the slots of fetches and of calls, in `session` those of refreshes, are interchangeable: no definition picks a particular one, and those runs check
safety only.

**Deadlock** is not checked where the system may come to rest: all mail settled, all presses
used, the last mark reached, all deployers done, all panel requests used, and in the portal's
modules the user's actions used up or all windows left as they are.

**Fairness.** `Ingest!FairSpec`: the shell loop around `queue:work` starts the process again
after every death, so a worker's next step is eventually taken; Redis migrates expired
reservations at each pop; the Workers runtime drives every invocation to its end. No fault is
fair. `Outbound!FairSpec`: PHP runs a request to its end and each call has a 30 s time-out; the
tab hears an answer that arrives. The user's presses, lost answers and kills are not fair.
`ServiceWorker!FairSpec`: a fill's next step is taken, its fetch of the shell succeeds some time
if it is tried again and again (strong fairness), and the reconnecting page reloads itself, as
its script does; an error page does not, and deployments, evictions and launches are not fair, so
`LaunchesGetFresh` assumes launches that go on and `ReconnectEnds` claims that the reconnecting
page ends, in the application or in an error. `Session!FairSpec`: the timer of 30 seconds fires in a window that
is visible, answers are heard, and calls made again and again are answered. Nobody has to bring a window to the
front, so `BadgeSettles` and `DeadTokensGo` are about a window that is visible or becomes so again and again
(`Seen`): a hidden one asks nothing, and a window that is shown asks at once. `Push!FairSpec`: a run that was started goes on, its calls may
fail a bounded number of times; `ReopenedIsReachable` assumes an app that is brought to the front again
and again. `MailList` and `Composer` state no liveness: their bounds count the user's actions.
`Calendar`, `WorkerDeploy` and `RoutingSync` state no liveness: nothing forces an administrator or a
deployment hook to act, and the scheduler's rhythm is in `Tick`.

## 4. What the violated properties show

Each states something a comment or a document of the repository says, or its code takes for granted. One is a listed run,
with the quoted line under "findings":

- `RetriesNeverDuplicate` (`MCIngestNoMessageId.cfg`): the UUID in the key of a message without a
  Message-ID is drawn at each attempt, so a retry files it again.

The others are kept with their configurations, to be run by hand
(`tlc -config MCX.cfg MCY.tla`); each is found violated within seconds, `ReopenedAnywhere` in about a minute:

| configuration | property | what is said | what the code does |
|---|---|---|---|
| `MCIngestComplete.cfg` | `SettledMailIsComplete` | `docs/ARCHITECTURE.md:372`: the job writes the mail and its attachments | a retry takes a half-filed message for done |
| `MCOutboundRecorded.cfg` | `DispatchedIsRecorded` | `EmailSender.php:15`: dispatches and records | a `ConnectionException` of the last attempt is caught by nobody |
| `MCCalendarMoved.cfg` | `RemindedBeforeItsTime` | `routes/console.php:11`: a reminder ~30 minutes before | nothing clears `reminded_at` when an event moves |
| `MCWorkerDeploySecret.cfg` | `NotDriftedIsDeployed` | the hash says "up to date" | the result of `wrangler secret put` is ignored |
| `MCWorkerDeployStub.cfg` | `NotDriftedIsRendered` | `WorkerDeployer.php:29`: the hash is of everything that affects the deployed Worker | it leaves out the Worker's name and the rest of the stub |
| `MCWorkerDeployRace.cfg` | `OwnSecretOnly` | each Worker gets the secret of its account | two deployments in one container share `wrangler.toml` |
| `MCRoutingSyncCopy.cfg` | `SyncedIsACopy` | `docs/ARCHITECTURE.md:120`: a synchronised copy | the sync only upserts |
| `MCRoutingSyncRepeated.cfg` | `OneRulePerOperation` | a button makes one rule | `retry(3)` repeats a POST whose answer was lost |
| `MCServiceWorkerAtomic.cfg` | `CachedShellIsComplete` | `sw.js:103`: shell and assets are cached together, assets first | the installation stores the shell first; a deployment between a revalidation's fetches pairs a shell with another build's files |
| `MCServiceWorkerHeals.cfg` | `ReconnectHeals` | `sw.js:12-15`: a launch without a network heals itself | a last 5xx, or a 4xx, is shown as it is and reloads nothing |
| `MCMailListOpened.cfg` | `OpenedIsShown` | `InboxController.php:125`: "All messages in the same conversation" as the mail | the query leaves the trash out (`InboxController.php:144`), a mail opened there included |
| `MCComposerHtml.cfg` | `HtmlSaysTheText` | both parts of a mail say the same | the text goes into the HTML part unescaped (`Compose.vue:176`); the From line of a quoted original (`Compose.vue:152`) loses its address |
| `MCPushUnreadable.cfg` | `ReopenedAnywhere` | `push.js:61-63`: a subscription made with an old key is dropped | one whose key cannot be read is kept (`push.js:95`) |

## 5. What is proved

`Ingest_proofs` proves, for any sets of deliveries, messages and workers, any number of
attachments and tries, from `IngestAssumption` alone:

| theorem | statement |
|---|---|
| `TypeCorrect` | `Spec => []TypeOK` |
| `FiledOncePerKey` | `Spec => []OneRowPerIngestKey` |
| `AttachmentsFiledOnce` | `Spec => []AttachmentsOnceInOrder` |
| `AnnouncedOnce` | `Spec => []AnnouncedOnceWhenComplete` |
| `NothingAcceptedIsLost` | `Spec => []AcceptedIsAccountedFor` |
| `IngestRefinesInbox` | `Spec => ImplementsInbox` |

The argument has three layers.

1. `TypeInv`: besides the types, a worker past `idle` holds an entry of the queue (`HoldsEntry`),
   and a worker that stores attachments or notifies holds a row of the table that no other
   worker holds (`OwnsRow`). Without these, `emails[row[w]]` in the actions would mean nothing.
2. `LoopInv`: the row a worker holds is its own message's, a worker in the attachment loop is
   exactly at attachment `Len + 1` of it, one about to notify has stored them all, and the row
   has no push yet. `AttachmentsOnceInOrder` and `AnnouncedOnceWhenComplete` are not inductive by
   themselves: they need to know that no second worker writes to the row, which is
   `OwnsRow` (only the attempt that created a row ever has its number). `OneRowPerIngestKey` needs only
   the unique index.
3. `HeldInv`: an accepted delivery is in the queue, in `failed_jobs`, or filed, and a worker that
   is about to delete its entry (`ack`) has filed its message. That last part is the
   strengthening: without it `Ack` could delete the only trace of a delivery.

The lemmas `RowsEvolve` and `FiledStays` say that rows are only ever appended or extended and
keep their message, so what was filed stays filed. The refinement follows step by step:
`CreateEmail` is `File` (the unique index is `File`'s guard), `Notify` is `Announce` (guarded by
`LoopInv`), `WebhookAccepts` is `Accept`, everything else leaves the mapped state alone
(`StepRefines`).

`ServiceWorker_proofs` proves, for any windows, builds, files and cache names, from
`ServiceWorkerAssumption` alone:

| theorem | statement |
|---|---|
| `TypeCorrect` | `Spec => []TypeOK` |
| `ShellBoots` | `Spec => []WholeShellIsBootable` |

1. `TypeInv` adds to the types what the steps rely on. `FillOK`: a fill that has still to open its
   cache names a version, and a launch past its first fetch holds a shell, so the response it
   gives is a page (`FetchedShellTyped`). `Controlled`: a window that waits or reconnects does so under an
   active worker, so the launch its reload starts has a cache to fill.
2. `BootInv` adds `FilesFirst` to the property, which is not inductive by itself: a fill about to store
   its shell has all files of its manifest in the cache it is about to write to. This is where
   the order of `revalidate` counts, `addAll` before `put`. `Activate` is the step that could break it,
   as it deletes files a fill has stored: the fill then holds a `Cache` that no longer exists
   (`ActivateBoots`).

`Outbound_proofs` proves, for any composers and any numbers of attachments, attempts and presses,
from `OutboundAssumption` alone:

| theorem | statement |
|---|---|
| `TypeCorrect` | `Spec => []TypeOK` |
| `SentRecorded` | `Spec => []SentIsRecorded` |
| `SentViewIsHonest` | `Spec => []HonestStatus` |

1. `TypeInv` says what the code in front of each stage has done (`Progress`: a call has attempts left, a
   request that ended as 201 has its row and went through all of its attachments, each of which was stored or whose
   copy failed; one with a row is still copying, ended as 201 or was killed, never as an error), that a press that did not happen has no request
   (`Unpressed`), and that a tab told "sent" was told so about a request that ended as 201 (`Told`).
   `SentIsRecorded` is `Told` and `Progress` together. The second press is where it could break:
   `PressSend` makes another request current while the first still runs.
2. `HonestInv` speaks of the result before it is recorded: it is "failed" or the provider took the
   message, and it is "bounced" exactly when a bounce was reported. A row is one of those results, so
   `HonestStatus` follows; the property alone says nothing of a result still to be written.

`Calendar_proofs` proves, for any schedulers, imports, starts and bounds, from `CalendarAssumption` alone:

| theorem | statement |
|---|---|
| `TypeCorrect` | `Spec => []TypeOK` |
| `RemindedOnce` | `Spec => []RemindedOncePerDeath` |
| `NoEditIsLost` | `Spec => []NoLostEdit` |
| `InvitesMakeOneEvent` | `Spec => []OneEventPerInvite` |
| `RemindedInTime` | `Spec => []DueIsHandledInTime` |

1. `RemindInv` is one induction. `Mutex`: who does not hold the lock has no list, so two schedulers never
   hold the same event. `Holdings`: a list has an event once, and not the one in hand. `Pushed`: a live event
   without its stamp that was pushed more often than there were deaths is the one some scheduler has in
   hand, and no event still on a list was. A run pushes an event of its list only, so at most
   once more than there were deaths.
2. `NoEditIsLost` rests on `Stamp` and `WriteInvite` writing single columns into the row as it is then.
3. `InviteInv` counts the imports about to insert with the events that are there: each but one of them was counted
   in `overlaps` when it looked, and each event a client put, or gave the UID, in `puts`. Inserting turns one of the
   former into one of the latter, so the number of live events is at most one more than both counts.
4. `SeenInv` follows an event through the marks. `DueIsHandledInTime` speaks of its last mark only and is
   not inductive. `Seen` says what every earlier mark has brought: a command that starts at the event's mark, or at
   the one before, takes it up if it was entered earlier; so at its mark it has been taken up if a command started at
   the mark before (`~missed`); and afterwards in any case, as no two marks in a row go without a
   command. The window's width matters in the first of these alone, and one mark is enough for it.

`Cloudflare_proofs` proves, for any accounts, Cloudflare accounts, releases and deployers, from
`WorkerDeployAssumption` alone, the first three of these, and for any rules, actions, addresses and requests, from
`RoutingSyncAssumption`, the others:

| theorem | statement |
|---|---|
| `TypeCorrect` | `Spec => []TypeOK` |
| `DriftTellsTheTruth` | `Spec => []DriftIsHonest` |
| `SyncIsThorough` | `Spec => []SyncPassIsThorough` |
| `RoutingTypeCorrect` | `RSSpec => []RSTypeOK` |
| `MirrorFollows` | `RSSpec => []MirrorAgrees` |
| `SyncMends` | `OnePage => (RSSpec => []SyncRepairs)` |

1. `TypeInv` adds `InHand`: between two accounts a deployer has none in hand, and does not come back to
   the one it has.
2. `AloneInv` is about a deployer with nobody beside it (`Undisturbed`): the hashes of the accounts ahead are those
   it loaded, the file is the one it rendered, and each stage it passed is at Cloudflare, the
   configuration before the secret. `Behind` is the sync pass so far. Both need each other's half: an
   account that is skipped for not having drifted is up to date only because its row is still as
   it was loaded.
3. `WholeInv` (`Settled`): what the hash of a whole account was made of is what its Worker has, with the
   account's secret. It does not mention the release or the settings, which change under it; that is what makes it
   inductive. `DriftIsHonest` compares it with them at the end, as far as the hash goes: the prefix and the rest of the
   stub are those of the release that deployed the Worker. The step that matters is a
   wrangler call of a deployer that is not alone: it may change a Worker of another account, and
   exactly the account named in the file stops being whole.
4. `RSTypeInv` adds `Control`, where a request may be in its operation: what it has listed and not yet upserted
   are items of its step, or the one it created.
5. `MirrorInv` takes each item by itself (`ItemInv`). No two requests work on an item of which anything is known
   (`Alone`, `Apart`), which is what `standing` and `clean` record. `OwnOK`: an operation of the panel with an
   undisturbed item in hand has read the row as it is, and which of its two writes is done follows from where it is.
   A repeated POST disturbs the rule it leaves behind, and no other item.
   `LoopOK`: a sync has listed a known item as it is at Cloudflare. `Sound` is `MirrorAgrees` without the syncs that are
   going through the item: they only write what is there already.
6. `RepairInv` follows a sync that has an item to itself: the item is still on its list, or repaired
   (`Listed`), and repaired once the step is over without an error (`Past`). `UniqueRow` is the unique index of the addresses,
   which makes the repaired row the only one. `OnePage` says that all the rules, and all the addresses, fit on the one page
   of 50 that `CloudflareClient` reads (`CloudflareClient.php:220`). It is a hypothesis of the theorem and not of the
   module, as nothing in the code ensures it; without it the statement is false, as TLC shows with
   `PageSize = 1` and two rules.

`Push_proofs` proves, for any mailboxes, runs, keys, failures and user actions, from `PushAssumption` alone:

| theorem | statement |
|---|---|
| `TypeCorrect` | `Spec => []TypeOK` |
| `NobodyStarves` | `Spec => StarvesNobody` |

`TypeInv` says that a run which posts has an endpoint, that no run takes an endpoint for the browser's when
there is no subscription (`RunsOK`), and that no row has one then (`RowsOK`). The view (in `TypeOK`) is an account of the
portal's while there are any, and then what is stored: a launch finds the two agreeing (`auth.js:24`), and what
it shows without accounts is left open. `StarvesNobody` is an
action property: every step adds rows, renames the browser's own endpoint, or drops one that is dead
(`OnlyDead`).

`Portal_proofs` proves, for any addresses, windows, refreshes under way, tokens and counts, from
`SessionAssumption` alone, the first three of these, and for any people, files, weights, profiles and texts, from
`ProfileAssumption` and `ComposerAssumption`, the others:

| theorem | statement |
|---|---|
| `NextLaunchIsRight` | `Spec => []NextLaunchAgrees` |
| `NothingVanishesWrongly` | `Spec => VanishRightly` |
| `AccountsTypeCorrect` | `Spec => []TypeOK` |
| `FormTypeCorrect` | `CSpec => []CTypeOK` |
| `WeightIsLimited` | `CSpec => []AttachmentsFit` |
| `CardIsHonest` | `CSpec => []CardIsOwnSignature` |

1. `IInv` says that every token anywhere (stored, in a list, asked for, in an answer, at the server) has been
   issued, and that a refused one is gone at the server. The first keeps the second: a token
   issued later is none of those already refused, so a refusal is still true when it is heard,
   however late. `NextLaunchAgrees` needs only the types beside itself (`LaunchInv`): each step that changes a
   list stores it, or changes counts alone. `VanishRightly` is an action property: `Vanishing` is shown of each
   step, from what `removed` and `Counted` take from a list.
2. `FineInv` adds that a list has one account of an address and `localStorage` one token of it; the one is
   kept by `removed` before a sign-in's account is added, the other by storing what is shown, and a launch needs it.
3. The badge and the weight of the attachments are sums by folds, whose order is that of a `CHOOSE`. That they
   are sums at all is shown without a schema of induction: a sum is the number of pairs of an element and a unit of
   its weight (`Cells`), so it is a cardinality; were the fold different from it on some set, it would be on a
   smallest one (`LeastSet`, from the well-foundedness of the strict subsets of a finite set), and there one
   round of the fold is wrong.
4. `FormInv` is the types of the form, with what is attached fitting before the post. A read that ends compares
   the total of that moment, so `WeightIsLimited` does not depend on what else is being read; removing a file lowers the sum.
5. `CardIsHonest` needs no history: the post is made in one step of the form as it is then, and what it says
   follows from `sigIndex`. A place it finds holds the signature of the sender's profile, above the first separator
   (`FoundAbove`), and the text is what stands before that place, there and after it; `linesHtml` goes line by line,
   so the source is made of the same three parts. Of what is displayed the theorem says nothing.

`MailList_proofs` proves, for any mails, conversations, accounts, loads, calls and actions, from
`MailListAssumption` alone:

| theorem | statement |
|---|---|
| `CacheIsItsOwn` | `Spec => []CacheIsOfItsKey` |
| `ListTypeCorrect` | `Spec => []TypeOK` |
| `RowsAreRight` | `Spec => []RowsAgree` |

1. `KeyInv` says what a load has found while its answer is on the way: mails of the account it was sent for,
   which need not be the one in view when it is heard.
2. `TypeInv` adds that what has a row, is cached, in an answer or in the pane has arrived: otherwise a late call could
   set a flag of a mail the server does not have. A conversation that can still be told to the
   pane has a pane with a mail selected; `Unmounted` keeps it.
3. `RowsInv` says of a mail that is not excused that at most one call is under way for it, that without one its row
   and the server agree (`Agreed`), and with one what that call will leave behind (`Awaited`), by its kind:
   a toggled row is the opposite of the server's until the call is served, and after a failure until it is flipped back,
   which the call can do because its row object is still the row's (`Toggling`); a row of a bulk flag is what the rest
   of the call will make of it (`Flagging`); a mail being moved has no row, and its box once no change of it is
   left (`Moving`); of an opened one the server lacks the read flag at most (`Opening`). The other kinds end with
   their mails excused and need nothing.
4. `CleanInv` is the other half, without which no excuse could ever end: what an answer on the way has seen of a mail
   it counts as clean is still true, and nothing is under way for it. Every call that starts and every change from elsewhere
   takes its mails off the clean ones of every fetch. `RowKept`, `RowStarted` and `RowFinished` then cover every step:
   it leaves the mail alone, starts its call or ends it.

Model-checked only: the liveness properties (`AcceptedMailSettles`, `EveryPressEnds`, `LaunchesGetFresh`,
`ReconnectEnds`, `BadgeSettles`, `DeadTokensGo`, `ReopenedIsReachable`), as liveness under fairness is out of reach of the
prover used here. The violated properties of section 4 are false, and so is `SyncRepairs` without `OnePage`.

## 6. What is left out

- *Data.* Message contents, headers, address parsing, wording, the HMAC. A message is a model
  value, a configuration a triple.
- *Redis under memory pressure.* With `allkeys-lru` and a limit of 256 MB the queue's own keys
  may be evicted; the models assume memory to spare.
- *Deletion of accounts and mailboxes.* Neither the panel nor a command deletes an account or
  an e-mail row, so the foreign keys' cascades never fire for the rows modelled here.
- *wrangler, Laravel and the browser* are external: modelled by what the code relies on.
- *Of the portal:* the search and paging of the list, drafts (there are none), the keyboard cursor,
  layout and gestures, the change of password, the calendar, people and tasks views. A `MailList` row is
  one mail; the server's limit of a page is left out.
- *The table of push subscriptions* has no unique index on mailbox and endpoint, and `updateOrCreate` looks before it
  inserts: two registrations at once may leave two rows of the same pair. `rows` is a set, in which they are one: a
  device is then notified twice, which no property is about.
- *What a client displays* of an HTML part is one line for one line (`Shown`): a tag that spans lines is not
  followed.
- *Several windows in `Session`* share `localStorage`; `Tabs` is a parameter, and the run has one window, for
  which `NextLaunchAgrees` is claimed. With two, each `persist` overwrites what the other stored.
- The parts with status `not_modelled` in `PROJECT.json`.

## 7. Plan

Done: `Inbox`, `Ingest`, `Outbound`, `Calendar`, `WorkerDeploy`, `RoutingSync`, `ServiceWorker`, `Session`,
`MailList`, `Profile`, `Composer`, `Push`, and the proofs of all safety properties that their runs check.

Next, in this order:

1. An abstract specification of the Sent view (a press may end in one record, whose status a provider's
   answer backs) that `Outbound` implements, and one of a mailbox's reminders for `Calendar`; their refinements proved as `Ingest`'s is.
2. `ImapBridge`: a session's list against a mailbox that grows and shrinks. Wanted: a flag lands
   on the message the client saw. Two messages, one arrival.
3. Orders of events in the portal that no property covers yet: two windows that overwrite each
   other's accounts (`auth.js:35`), the answer of an older conversation in the same pane
   (`Conversation.vue:46`), the keyboard cursor on rows that shift (`Mailbox.vue:397`), Send while a
   file is still being read (`Compose.vue:268`), answers of the address book for an older text
   (`Compose.vue:110`), push rows that survive a sign-out (`AuthController.php:45`).
4. Pure modules: all-day events through `toIcs` and `apply`; the DMARC verdict; threading; the
   collapsing of nested quotes (`MessageCard.vue:136`).
