# Turtle Chat in TLA+

Models, model-checking runs and machine-checked proofs for the parts of Turtle Chat that keep
shared state: who may run a chat now, what a user is entitled to and is charged, what a chat and
its media are, and what is left in the upstream accounts. Every definition names the lines it was
translated from in `PROJECT.json` (`map`); paths below are relative to the repository.

To check: `tlc -workers 2 -config <run>.cfg <module>.tla` for a run, `tlapm <module>.tla` for the
proofs in a `*Proofs` module.

## 1. The system

Open WebUI web processes (`branding/open-webui`, patched) serve users. A chat turn asks the
subscription cache what the user may do, the metering layer for a reservation in PostgreSQL, and
the concurrency coordinator for a slot in Redis; it writes its messages in one batch and streams
from the gateway (`src/chatgpt_web_gateway`), which leases one upstream account of a pool, calls
the private worker of that account, fails over to another account, and records what the turn left
in the account so that it can be cleaned up later. A call of the project API enters the gateway
directly and pays from a prepaid ledger.

| Component | State | Operations | Where it is hard |
|---|---|---|---|
| Concurrency coordinator, `turtle_chat/concurrency.py` | Redis: meta hash per request, wait and active sorted sets per scope (global, user, group, provider, account pool), a sequence; process: leases, events, pending releases | acquire, admission script, heartbeat, release, deferred release, wake-up listener | cancellation between script and reply, lost replies, TTLs of four kinds, duplicate identifiers, five queues at once |
| its memory backend, same file 569-705 | one ordered dictionary and a condition | acquire, release, clean-up, heartbeat | the capacity resolver is awaited under the condition |
| Subscription cache, `turtle_chat/subscription_cache.py` | Redis snapshot and lock per user and role, per-process locks and back-off | get, mutations, invalidate, lock renewal | lock lost or timed out, write of an old read after a mutation, detached database threads |
| Tracked clean-up, `chatgpt_web_gateway/upstream_cleanup.py` | `chat_upstream_resource` rows | record, schedule, mark_due, claim_due, complete, retry | turns that use a resource while it is deleted, interrupted batches, lost hooks |
| Account pool, `chatgpt_web_gateway/account_pool.py` | accounts, lanes, leases, bindings, cooldowns | acquire, release, renew, expire, probe, recovery of rate limits, begin_reauth | late answers of requests in flight, a claim that reads without a lock |
| Project usage ledger, `chatgpt_web_gateway/project_usage.py` | keys, permissions, balances, requests, credit entries | begin_request, record, grant_credit, revoke | expiry against late settlement, repeated and simultaneous calls |
| Gateway HTTP application, `chatgpt_web_gateway/app.py` | what one handler holds: a lease, a call to record | authenticate, reserve, attempt, stream, fail over, finish | a client that goes away at any await |
| Image stage registry, `image_stage.py` | staged images by token and session, a lock per session | remember, claim, prune | a lock given back while a waiter is about to wake |
| Login control, `login_control.py`, `remote_browser_sessions.py` | manifest, workers, a Chrome and its pid, one-time sessions | provision, start, verify, cancel, roll back | commands whose caller has given up, two administrators, a crash |
| Chat metering, `turtle_chat/metering.py`, `store.py` 4085-4600 | usage rows, allowance windows | reserve, first content, commit, release, stale sweep | a handler cancelled while its thread runs on, turns longer than an hour |
| Groups and policies, `store.py` | resource groups, model groups with rules, assignments, personal policies | create, rename, assign, delete, the projection at every start | look first and write later, renamed or deleted groups at a restart |
| Announcements, `store.py`, `model-controls.js` | announcements with revisions, receipts, tabs | create, change, delete, show, dismiss | a receipt for a text that has changed |
| Subscriptions, `store.py` | one row and a journal per user | provide the default, set, extend, cancel | the clock is read before the lock is had |
| Startup write batch, `turtle_chat/startup_batch.py` | the chat's document and its message rows | stage, commit, reconcile | a copy of the chat taken before the lock |
| Chat history, `turtle_chat/history.py` | a range index beside the chat's document | sync one message or all, invalidate, rebuild, page | the index is written in a second transaction; time stamps of a second |
| Media storage, `turtle_storage/` | file rows, objects in a bucket | reserve, complete, cancel, delete, thumbnails, sweep | completions, cancellations and the sweep take no lock |
| Sign-in and registration, `turtle_auth/` | one row of switches, a copy per process | save, show, register | a copy that is older than the row |
| Plan presets, account quotas, upstream client, private worker proxy, Claude web worker, administration routers, web front end, build and deployment | | | not modelled, see 6 |

The components meet in few places: metering holds a coordinator lease for the life of a stream and
looks at the subscription before it queues; the gateway holds an account lease and a ledger
reservation for the life of a turn, and clean-up looks at the same leases to see whether an account
is idle; the startup batch leaves the chat's index to the next reader of the history.

What makes each correct:

* coordinator, both backends: a running request is counted and no scope runs more than its limit,
  in Redis as long as the TTL of the scope's key;
  waiting requests keep their place and are served in order of arrival; every acquire ends; nothing
  is leaked, and what a crash orphans comes back.
* subscription cache: a change shows at once while the lock works, and within a bound whatever
  fails; the lock always comes free.
* clean-up: nothing left in an account is forgotten, nothing is deleted before its time, one worker
  at a time deals with a resource, and what a deleted chat left is removed in the end.
* account pool: an account runs at most one lease per slot and a chat one turn at a time; a lease
  that has lapsed is never taken up again; an account that waits for a new login is left alone;
  every lease ends and every rate-limited lane is
  tried again.
* ledger and gateway: credit is held back only for calls under way; a balance moves only with an
  entry; a call is let through once and paid once, however it is repeated; a turn gives its lease
  back and records its call wherever its client leaves, but at awaits that no handler protects.
* image stages and logins: a task goes only where all its images are; a ready account runs on the
  credentials of its own login, and a desktop session is one person's.
* metering: what is shown is charged, what is charged was shown to begin; a window never has more
  turns than its limit; a verdict never changes.
* groups, announcements, subscriptions, switches: no assignment dangles and everybody has rules; an
  announcement counts as read only if its present wording was on the screen; granted time is not
  taken away by reading; nobody registers past a closed registration.
* chats: no turn loses what another one wrote; an index that looks current is the document's, and
  its pages give each message once.
* media: what is listed is stored, and usage stays within the quota but for requests that the
  locks do not keep apart.

## 2. Plan

Done, in order of importance: admission (`ChatAdmission`, `RedisCoordinator`), `SubscriptionCache`,
`UpstreamCleanup`, `AccountPool`, `ProjectLedger` and `GatewayTurn`, `ChatMetering`,
`MemoryCoordinator`, `ChatGroups`, `Announcements`, `Subscriptions`, `StartupBatch`, `ChatHistory`,
`ImageStages`, `LoginRuntime`, `MediaStorage`, `SiteAccess`, and `SlotLeases`, the lease of a slot
that the pool provides and the gateway uses; each with its runs, and with a proof of every safety
property that the passing runs check.

Left, in this order:

1. Clean-up's "the account is idle" composed with the pool's leases, to state for how long that
   answer is used.
2. Metering composed with `ChatAdmission` and `Subscriptions`: how long a subscription that has
   ended may still reserve.
3. The policies of several clean-up processes, plan presets, and more than one account pool.

## 3. Modules

| Module | What it is |
|---|---|
| `ChatAdmission` | What a coordinator promises: join a line, be admitted when nobody earlier shares a first-come scope and every scope has room, leave, be forgotten. No Redis, no time. |
| `RedisCoordinator` | The four Lua scripts (one atomic action each) and the coroutines around them. Redis keys are functions (`state`, `wait`, `member`, ...) with the time they have left; `pc` says at which await a call is. Implements `ChatAdmission`. |
| `SlotLeases` | What the account pool promises who leases: a slot while one is free and no turn of the same chat has one, lost at any moment, never taken back. No rows, no time. |
| `MemoryCoordinator` | The backend of a deployment without Redis: one table, one condition. Implements `ChatAdmission` too. |
| `SubscriptionCache` | get() and _mutate() with the distributed lock, the per-process locks and Redis back-off; a subscription is a version number. |
| `UpstreamCleanup` | The rows, the workers (`run_once`) and the chat turns of one account. |
| `AccountPool` | Accounts, their leases and rate-limited lanes; chat turns with heartbeat and failover, the recovery monitor, health checks, edits and re-login. Implements `SlotLeases`. |
| `ProjectLedger` | Permissions, keys, reservations, charges and grants of the PostgreSQL store. |
| `GatewayTurn` | One chat completion from its arrival to the end of its answer, with the threads that outlive it. EXTENDS `ProjectLedger` and moves it by its own actions; of the pool it keeps the slots, and uses them as `SlotLeases` says. |
| `ImageStages` | The registry of staged images, the handler that fills a stage and the task that presents its token. |
| `LoginRuntime` | The gateway's routes for logins, the control service with its threads and lock, Chrome, the desktop's one-time sessions. |
| `MediaStorage` | The file table, the bucket and the handlers of two processes that keep the two together, each process with its own lock for the user. |
| `ChatMetering` | One usage row per turn, the allowance windows of its model, the handlers and the threads that outlive them. |
| `ChatGroups` | Groups, model groups, assignments and the projection at every start. |
| `Announcements` | Announcements with revisions, receipts, and the tabs of a user. |
| `Subscriptions` | The row and the journal of one user. |
| `StartupBatch` | The turns that start at once in one chat: copy, staged messages and links, commit, rows. |
| `ChatHistory` | The document of a chat, the index beside it, its writers and readers, the pages. |
| `SiteAccess` | The row of switches, its edits, each process's copy, registrations. |
| `MCRedisCoordinator`, `MCSubscriptionCache`, `MCUpstreamCleanup`, `MCAccountPool` | Small instances of one component. |
| `MCGateway`, `MCWebUI`, `MCOutside` | Small instances of several components side by side: `part` says of which one a behaviour is, the others stay as they began. They share a run and no state. |
| `RedisCoordinatorProofs`, `SubscriptionCacheProofs`, `UpstreamCleanupProofs`, `AccountPoolProofs` | Proofs about one component. |
| `GatewayTurnProofs` | Proofs about `ProjectLedger` and `GatewayTurn`. |
| `WebUIProofs` | Proofs about `ChatMetering`, `SiteAccess`, `Announcements`, `Subscriptions`, `MemoryCoordinator` and `ChatGroups`. |
| `ChatProofs` | Proofs about `StartupBatch` and `ChatHistory`. |
| `MediaProofs` | Proofs about `ImageStages`, `MediaStorage` and `LoginRuntime`. |

Correspondence to the code:

* A Lua script and a database transaction are one action. Everything between two awaits of a
  coroutine is one action; a cancellation is an action that may happen at each await, and a failed
  command one that leaves its target changed or not. A statement that runs in a worker thread is an
  action of its own wherever the code lets the thread outlive its caller (`jobs` in `ChatMetering`,
  the detached threads of `SubscriptionCache` and `LoginRuntime`).
* A transaction that looks before it has its lock, or holds no lock that conflicts, is two actions:
  the look and the write (`looked` in `ChatGroups`, `editing` in `Announcements`, `doing` in
  `Subscriptions`, `Claim` and `Commit` in `AccountPool`, the look of `grant_credit` in
  `ProjectLedger`, completions and cancellations in `MediaStorage`).
* In `RedisCoordinator` `EnqueueScript`, `TryAdmit*`, `ReleaseScript` and `HeartbeatScript` are the
  scripts, `Start` to `Finish` the path of `_acquire_redis` and `release`, `GiveUp`, `EndCleanup`,
  `Flush` the deferred releases, `Heartbeat` and `HeartbeatFails` the heartbeat loop. A client may
  send a request again under the same identifier: `IdsOf` says which identifiers a call may come
  with, `idOf` which one it has, and its scopes are those of the identifier, as a repeated send has
  the same user and model. Two history variables carry what the scripts do not tell: `lapsed`, whose
  slot fell with the TTL of a scope's key (admissions set it, heartbeats do not), and `crossed`, the
  calls from which another call of the same identifier has taken a place or a slot, by a release of
  it or by queueing again under it.
* In `SubscriptionCache` `Lookup`, `EnterLocal`, `Recheck`, `Lock`, `Fill`, `Read`, `Store`,
  `Release` are the stages of `get`, `Contend`, `Commit`, `Invalidate` those of `_mutate`,
  `LateCommit` is a database thread that outlives its cancelled call.
* In `UpstreamCleanup` `MarkDue`, `ClaimDue`, `Look`, `Take`, `Call`, `Complete`, `Retry` are the
  statements of `run_once`, `BeginTurn`, `Record`, `Use`, `EndTurn` a chat turn, `Schedule` the
  endpoint that Open WebUI calls. A conversation cache key is recorded before it is used and is the
  same for every turn of a chat; everything else is recorded afterwards (`Derived`). `overtaken`,
  `lapsed` and `untracked` are history variables: what a worker has claimed and somebody else has
  written since, what it has claimed and a later cycle took for interrupted, and the resources of
  which the code itself lets go (a failed record(), a late complete()).
* In `AccountPool` a transaction is one action, with what `_expire` does at its beginning
  (`AccountsNow`, `LeasesNow`). `Result` and `Checked` are `_apply_account_result` and
  `_apply_probe`, `Released` is `release`, whatever has happened to the lease meanwhile. `login` is a
  history variable: begin_reauth() sets it to "begun", or to "raced" when a recovery claim that has
  read the account is not committed yet, and a verified login, or an administrator who disables or
  moves the account, ends it.
* In `GatewayTurn` `pc` is the await a handler is at, and `Unprotected` lists the awaits at which a
  cancellation or an error of the store ends it with a debt open: the reservation, the pool (where
  only AccountUnavailable is caught), tracking, the first chunks, a response that is never iterated,
  finalize() itself, each release and the record. The store is called in threads, so `Stray` is the
  thread of a handler that is gone: it may still reserve, take a lease, give one back or record.
  `ReleaseFails` ends every caller but finalize(). Refusals of the upstream that are treated alike
  (401, 403, 429) are one outcome. `let`, `unrecorded`, `unreleased` and `cut` are history variables,
  and so are `shown` and `left` in `ChatMetering`, `seen` in `Announcements`, `overtaken` in
  `ChatHistory` and `retired` in `SiteAccess` and `SubscriptionCache`.
* In `MediaStorage` a request on a file is a `job` of one of four kinds, at most one of each kind on a
  file at a time (a named bound); a page that makes a thumbnail has its request in `page`. A
  process's `userLock` keeps its reservations and thumbnails apart, and nothing else: standard
  uploads, completions, cancellations, deletions and the sweep take no lock. `HourPasses` ages a file
  whoever is at work on it. `crossed` and `excess` are the history of room that was taken on an
  overtaken check, `overrun` that of thumbnails removed under a completion.
* In `ChatHistory` a message is its parent and the number of the write that changed it last, and
  `updated_at` counts whole seconds, as in the code, so that two writes may have one stamp.
  `sync_chat_history_index` is called without its session at `patch_open_webui.py:2124`; that call
  fails and the handler invalidates the index, which is how `DeleteMessage` has it.
* Time is counted in ticks, and TTLs, deadlines and delays are kept as the time they have left, so
  that the state space is finite without a bound on the clock. In `ImageStages` and `MediaStorage`
  what lapses may lapse at any moment.

## 4. Runs

| Run | Checks | Shows |
|---|---|---|
| admission_safety | HoldersCounted, HoldersWithinLimit, WaitersKeepPlace, CountedOnRecord, NothingLeaked, Implements | the scripts admit in order and within limits, leak nothing and keep running requests counted as long as their keys live, under cancellations, timeouts, heartbeats, repeated sends and one fault: a command, a capacity lookup or a process |
| admission_live | AcquireEnds, OrphansReclaimed | every acquire ends; what three faults orphan comes back |
| cache_patient | Coherent, SingleFlight | with healthy Redis and a patient lock a change shows at once, and one call at a time works on the database |
| cache_faults | StaleIsBounded, LockGivenBack | whatever fails, staleness is shorter than one read plus one TTL, and the lock comes free again |
| cleanup_single | Tracked, KeptForRetention, DeletedChatCleaned | one worker forgets nothing, takes nothing early because of another chat, and cleans what a deleted chat left in the end |
| cleanup_cleaners | OneCleaner | of the workers that come to a resource one has a sound claim, and its row is still its own: the others were overtaken, or have taken longer than a claim lasts |
| pool_login | OneTurnPerChat, ReadyIsUsable, LoginUndisturbed, LeasesAreSlots | turns that lapse, die, fail over and answer late, and a recovery probe, do not disturb an account that waits for its login, but for a claim that had read it before; a chat has one turn at a time; the leases are those of `SlotLeases` |
| pool_recovery | WithinCapacity, SlotReturned, LaneRetried | turns and probes never exceed an account's slots, every slot comes back, every rate-limited lane is tried again |
| gateway | CreditIsHeldByCalls, ExactUntilLateRecord, BalanceMovesWithLedger, DebtsPaid, AskedAgainOnlyIfEmpty, PaidOnce, StageSafety | whatever fails and wherever a client leaves, a completion pays its debts but at the awaits of `Unprotected` and for failures that are named, a project call is let through and charged once, and credit is held back only for calls under way; a task is sent only where all its images are |
| webui | TurnsSettled, AllowanceKept, GroupsSafety, AnnouncementsSafety, SubscriptionSafety, ChatsSafety, AccessSafety, MemorySafety | what the web server keeps for a user, while requests, tabs and administrators overlap: eight components, one after the other |
| outside | StorageSafety, LoginSafety | uploads, generated files, standard uploads and thumbnails in two processes against cancellations, sweeps and deletions; two requests that log accounts in, give up and undo each other |
| media_cancel (violated) | CompletedKept | finding: a cancellation that read `uploading` before the completion wrote `completed` discards the completed file (`turtle_storage/router.py:896`) |

Each property of a passing run is broken by a mutant of a mapped definition (`mutants`): a bug one
could plausibly make, such as a heartbeat that forgets the score, a lock taken without NX, a claim
that does not change the state, an index that counts as current by its time alone.

Things the code does that the models show and no property calls wrong, because the properties
excuse exactly this:

* a request that runs longer than the TTL of its scope's key, with no later admission in the scope,
  falls out of the count until its next heartbeat, and the scope may run one more than its limit
  (`concurrency.py:145`; HoldersCounted says when, HoldersWithinLimit leaves such requests out);
* the release of a cancelled repeated send takes the place or the slot of the first one
  (`concurrency.py:842`; `crossed`);
* a handler of the gateway that is cancelled, or whose store fails, at an unprotected await leaves a
  lease to its expiry or a call without a record (`app.py:2127`, 2352, 2411, 2438 and the others at
  DebtsPaid);
* standard uploads check the room without a lock, and two processes check it with two locks, so a
  user may end above the quota by what was under way at once (`patch_open_webui.py:2252`,
  `quota.py:18`; UsageWithinQuota says that nothing else goes over);
* the sweep, or another process, may remove a thumbnail under a completion that has seen it
  (`router.py:240`; `overrun`);
* a capacity lookup that fails between two attempts leaves the queued request behind
  (`concurrency.py:857`; NothingLeaked counts it as a fault, OrphansReclaimed has it given back); in
  the memory backend its entry stays in line for good (NobodyStays names it);
* a call recorded after its reservation lapsed takes reserved credit off twice, so that calls are let
  through that the balance does not cover (`project_usage.py:1724`): CreditIsHeldByCalls says that
  credit does not pile up, ExactUntilLateRecord that until a late record it is exact;
* a reader that gives up waiting for the lock may store an old row over a mutation
  (`subscription_cache.py:473`; StaleIsBounded says for how long);
* resources recorded under an image stage's name count as orphans from the first scan on
  (`upstream_cleanup.py:430`; KeptForRetention excuses what belongs to no chat);
* with two cycles, complete() of a worker that has lost its claim closes the row of the one that
  claimed it since, and a resource that came back meanwhile is forgotten (`upstream_cleanup.py:494`;
  Tracked excuses it, and what a failed record() never wrote);
* a recovery claim that read an account before begin_reauth() leases it afterwards, and if its probe
  succeeds the account is offered again without the login it waits for (`account_pool.py:2455`;
  LoginUndisturbed excuses the login that such a claim has raced with);
* a turn that runs for more than an hour may be shown for free (`store.py:4085`; TurnsSettled names
  that case), and the subscription is not looked at again after the queue;
* an index update that comes after a later write leaves an index that looks current
  (`history.py:493`; `overtaken` in ChatsSafety).

### Bounds

* `RedisCoordinator`: in admission_safety three calls are two rivals and one outsider who share the
  global scope; the third may be a repeated send of the first. A lease of 2 ticks may lapse during a
  run, and a run of 4 outlives the TTL of the active keys, which is 3. One failed command, lost
  reply, failed lookup or crash. admission_live has two calls and three faults.
* `SubscriptionCache`: four calls (two readers and two mutators in two processes) of one role
  without faults, three of two roles with two faults; a read takes one tick, a TTL two;
  `MaxVersion` counts mutations, two and one.
* `UpstreamCleanup`: two resources (a derived key and a file). cleanup_single has one worker, two
  chats, two turns and one fault; two turns are needed for a resource to come back after its
  deletion. cleanup_cleaners has two workers, two resources of a chat that may be deleted, two
  turns, one fault and records that may fail; a batch may take as long as the 2 ticks after which a
  claim lapses, so that a later cycle can take it for interrupted.
* `AccountPool`: a lease lasts three beats, as in the code (a third of the lease between beats); pool_login
  has two turns of one chat, a probe and two accounts, so that each turn can fail over, one fault,
  which is what a lease bears, and a threshold of one failure (three in the code).
  pool_recovery has three turns of two chats and a probe on an account with two slots and two lanes;
  no failover, as there is one account; its administrator is left out, since edits can make an
  account unusable for ever.
* gateway: two turns and two accounts of one slot, so that each attempt can fail over and the second
  turn finds an account taken; one failure or cancellation anywhere; one owner with one key and two
  request identifiers, so that the turns may make one call twice or two calls; one grant identifier
  given twice. Two stagers and one task with two images.
* webui: two of each actor that can race (turns, administrators, tabs, editors, readers), three
  where one waits for two others (callers of the memory backend, turns of a chat). Two models with a
  fallback, two windows, one cut; for a chat's index two writes in two seconds;
  two saves of the switches; a subscription span of seven half days, which may begin before now and
  end in the middle of a day.
* outside: one upload, one generated file and one standard upload, two processes, two pages and a
  quota of two, so that reservations are refused, fit, and overtake each other; one account, two
  requests, two logins.
* `MCGateway`, `MCWebUI`, `MCOutside`, pool_login and cleanup_cleaners take symmetric model values;
  none of them checks liveness.

The proofs need none of these bounds.

### Fairness

* Time passes (`WF(Tick)`, or `[]<><<Tick>>` in the cache, where a tick needs all coroutines parked).
* Each live coroutine is scheduled: weak fairness of its own next step, which asyncio gives. Nothing
  is assumed of faults, cancellations, new calls and new turns. A chat turn is assumed to end, since
  the gateway bounds a stream by timeouts.
* In `AccountPool` turns and probes end for the same reason, the monitor polls for ever, and a lane
  that is due again and again is claimed (`SF`): the monitor takes lanes in the order of
  `blocked_until`, and each claim moves a lane to the end. Turns need not be started, renewals may
  fail, and nobody has to log an account in.

The other runs check safety alone and state no fairness.

## 5. Proofs

TLAPS checks these for every value of the constants that the named assumptions allow; each component
has an assumption (`CoordinatorAssumption`, `PoolAssumption`, ...) that TLC evaluates in its run and
that says no more than what sort of thing a constant is, and which durations are positive.

Coordinator:

* All of them hold for runs of any length and for any use of identifiers: nothing is assumed but
  CoordinatorAssumption. The invariant of `SlotsOnRecord` (`OnRecord`, `InLine`) relates the lease of
  a member to its meta hash's TTL.
* `RunningIsCounted`, `PlacesKept`: the inductive invariant `CallInv` ties each call's `pc` to what
  Redis holds for its identifier (`CallsSafe`): a slot's key has at least as long to live as its
  admission gave it less the time the request has run, and a slot that has fallen with its key is
  back or comes back with the next heartbeat. `Alone` says that of two calls of one identifier one at
  most has something of its own, unless the other is in `crossed`.
* `LimitsKept`: an admission counts whoever is there, so the slots that never fell stay within the
  limit; with `CallInv` a running request that nobody crossed has one of them.
* `CoordinatorImplements`: each step is a step of `ChatAdmission`, where a request that was let in may
  be counted again (`Recount`), or changes nothing that it sees.
* `NothingIsLeaked`: until the first fault (a command, a capacity lookup, a process) nothing is
  leaked, also when identifiers are used again. NothingLeaked is not inductive: `Answered` adds that
  no command overtakes its call and that for every identifier on record some call still runs a stage
  that releases it.
* `MemoryAdmitsInOrder`: the same refinement for the memory backend, and that nobody's entry stays.
  `MemoryInv` says that an entry belongs to one call (`EntryOfCaller`, `OneCaller`), that places are
  numbered once, and that no time passes between the end of a run and the release (`NobodyStays`).
  MemoryAssumption has a beat shorter than a lease, which the code computes (a third of it, a minute
  at most).

Subscription cache:

* `CacheTypeCorrect`, `StalenessBounded`: the invariant `Fresh` splits staleness in four: a timely
  reader, a version not yet retired, an old value held by a reader, an old value in the snapshot,
  each bounded by what is left of a read or of a TTL.
* `ChangesShowAtOnce` and `OneFlight` assume `Patient`: no faults, a database call shorter than a
  reader's patience, one role. `Steady` says that who works holds the lock (`LockIsHeld`), holds the
  current version (`HolderIsCurrent`), and that whoever waits will be given a fill before its
  patience ends (`FillIsComing`). One role, because a reader of another role waits for a fill that
  never comes and then reads beside the lock's holder.

Clean-up:

* `RetentionKept`: with KeptForRetention only that a schedule call on its way is that of a chat
  which is gone (`HooksOfDeleted`).
* `ClaimsAreExclusive`: `Claims` adds to OneCleaner that a worker deals with one resource of its
  batch at a time and that a sound claim is no older than its batch, so that mark_due() does not
  take it for an interrupted one. Nothing is assumed of how long a batch takes or of who records
  meanwhile: what those do is in the definition of `Sound`.
* `NothingForgotten`: `Tracked` is not inductive. `Ownership` says that a claim which is not lost has
  its row in processing and is the only one, however old it is; for those claims `Undisturbed` says
  that a worker which found the account idle owns no row that a turn recorded since, and `Confirmed`
  that a confirmed deletion still holds at complete(); `Covered` extends Tracked to what a turn has
  recorded but not yet created. `OneWorkerTracksAll`: with one worker and a record() that succeeds,
  `untracked` stays empty, so that there Tracked has no exceptions.
* `CleanupTypeCorrect`.

Account pool:

* `PoolTypeCorrect`, `ReadyMeansUsable`: each function that writes an account row keeps its type and
  never leaves it ready without being enabled and having a session.
* `ChatsTakeTurns`: `Exclusive` (of the turns of a chat at most one has a lease that counts) and
  `Renewed` (the lease of a working turn is active with at least LeaseTime - faults beats left, one
  less while the heartbeat is due). Both need `Steady`: fewer failures than beats in a lease. The
  failures are counted over the whole behaviour, which is the cautious reading.
* `CapacityRespected`: `Room` says that leases fit and that the one claim under way, which holds the
  pool's lock, has room for one more; with `Renewed`, and with `ProbesHold` for the probes, who is at
  work has a lease that counts.
* `LoginIsUndisturbed`: LoginUndisturbed is not inductive; added are that the session of such an
  account stays expired (`AccountsWait`), that no lease of it is left to settle (`LeasesWait`), and
  that the claim under way is not of it (`ClaimsWait`).
* `PoolImplementsLeases`: each step grants one slot as `SlotLeases` says or takes slots away. It
  rests on `Room` and on what each operation does to the rows: a renewal or a release finds a lapsed
  lease and leaves it lapsed (`OnlyShrinks`).

Ledger and gateway, `GatewayTurnProofs`:

* `LedgerTypeCorrect`, `CreditHeld`, `EntriesAreUnique`, `ChargesAreRecorded` from one invariant,
  `LedgerInv`: what an owner's row reserves is at most the sum of what its calls hold. The sums are
  the cardinalities of sets of units, so that they need no recursion.
* `ExactUntilThen`: they are equal until a call is recorded after its reservation was released.
  `BalanceIsExplained`: a balance moves only with an entry that says by how much.
* `GatewayImplementsLedger`: every step of the gateway, those of its stray threads included, is a
  step of the ledger or leaves it alone, so all of that holds in the gateway (`GatewayTypeCorrect`). `LeasesAreGivenBack` and
  `LetCallsAreRecorded` (together `DebtsArePaid`), `PromptsAreNotRepeated`, `CallsAreLetOnce` and
  `CallsArePaidOnce` rest on invariants that say for each await what the handler there still owes
  (`LeaseInv`, `AskInv`, `LetInv`).
* `GatewayUsesLeases`: the leases of the turns are a behaviour of `SlotLeases`, the specification
  that `AccountPool` implements; a turn that asks for an account has none, nor has one whose thread
  is about to take one for it (`NoLeaseHere`). So what
  the gateway assumes of the pool is what is proved of the pool. The gateway's model leaves the rule
  of one turn for a chat to the pool (no rivals there).

Web server, `WebUIProofs`:

* `TurnsAreSettled`: `TurnOK` says for one turn what its phase, its row, its lease and the threads
  that still run for it have to do with each other; turns do not meet. `VerdictsStand` is its action
  property.
* `AllowanceIsKept` adds the windows: a row counts in the window of its model, of which there is one
  (`WindowsOpened`). The code counts by a sum, in the model a recursive function; the lemmas on sums
  show that removing a row lowers a sum and adding one raises it by its units.
  PolicyAssumption is what the rules' validation refuses (`store.py`).
* `SwitchesAreObeyed`: what a process shows was read recently (`ReadIsRecent`, `ShownIsRecent`), a
  registration has seen the row at some moment of its course, and the secret is there whenever
  Turnstile is on.
* `GrantedTimeIsKept`: the journal is empty exactly while there is no row, and no request has looked
  at a clock that is ahead.
* `ReadingIsSeeing`: whatever is under way (a page, a receipt sent, a receipt being written, an edit)
  knows no revision that is not there, and of the present one only its wording.
* `GroupsHoldTogether`: `WillWrite` says of each transaction that has looked what it may still
  assume when it writes; the rest says that references are kept and system groups stay.

Chats, `ChatProofs`:

* `TurnsOfAChatAreKept`: `StagedRight` and `CopiesLinked` say what a staged copy still knows of the
  chat, and `LinkedOrRaced` that a link is missing only to a turn that another one had not seen.
* `HistoryIsTrue`: documents are forests with a depth (`WellFormed`); an index that is not marked as
  overtaken follows the chat but for the message that is just being synced, or what a batch has left
  to the next reader (`IndexFollows`). The pages are a recursive function: `WalkExists` constructs
  its value as the intersection of closed sets, `WalkTiles` shows that the pages tile the depths.
* `ChatsStayWhole`: ChatsSafety, the conjunction of the two, of the composition `MCWebUI` as the run
  checks it.

Things outside the database, `MediaProofs`:

* `StagesKeepTheirWord`: for each stager and each task what its stage and its lock may be
  (`StagerInv`, `TaskInv`).
* `StorageKeepsItsWord`: `LockHeld` says that whoever is in a locked stage has the lock of a process.
  `Room` is the quota: what a request found free under its check is free when it writes, unless a
  request that its lock does not keep apart has taken room since (`crossed`); usage is a cardinality,
  and the lemmas on `Size` say how it moves when one file holds more or less. `UploadInv`, `ThumbInv`
  and `PageInv` say for each file what its row, its objects and the requests that have looked at it
  may be. Any number of files, pages and processes.
* `LoginsStandApart`: `RouteOK` says for each stage of a route what the host has; a newly onboarded
  account belongs to one route (`NewIsAlone`), one route verifies (`OneVerifier`).

Where a proof needs induction over data (a sum over a set, the depth of a message, the walk through
the pages) it is by least counterexample: a set of numbers has a least element (`LeastNumber`), and
a recursive function has the property because there is no least point at which it fails.

Only model-checked: the liveness properties AcquireEnds, OrphansReclaimed, LockGivenBack,
DeletedChatCleaned, SlotReturned and LaneRetried. They rest on fairness and on ENABLED, which these
provers cannot reason about. Every other property of a passing run is proved. CompletedKept, of the
run that expects a violation, does not hold.

## 6. What is not modelled

* Plan presets and the display of providers: rows an administrator saves and everybody reads, the
  last save wins. Account quotas: parsing, and one table in which the last report wins. The
  upstream client: one HTTP call at a time, whose outcomes are choices here. The private worker
  proxy, the launchers and the Claude web worker: byte forwarding and a stateless translation. The
  administration routes: they validate a form and call a component above. The web front end but for
  the tabs of `Announcements` and the pages of `ChatHistory`. Build, patches and deployment.
* Everywhere: lengths and formats of keys and messages, logging, SQL other than its effect on rows,
  locks on single rows and their deadlocks, reports and listings that only read.
* `RedisCoordinator`: status and snapshot reads, and a heartbeat that comes later than its lease: time
  passes only when no heartbeat is due. `SubscriptionCache`: get_many and the database semaphore.
  `UpstreamCleanup`: the policy, dry-run mode and more than one account; how stale the idle look is.
  `AccountPool`: quotas and dispatch budgets, changing an account's concurrency, more than one pool,
  creating and deleting accounts and pools, the in-memory store.
* `GatewayTurn`: start-up and the payload's translation. `ImageStages`: the bytes. `LoginRuntime`:
  files, ports, service definitions. `MediaStorage`: signed URLs, configuration, sizes other than 1, a
  deletion in the bucket whose reply is lost, failures of the database, and a process that dies
  between two steps of a request.
* `ChatMetering`: latency columns and reports, and the subscription before it. `ChatGroups`: more
  than one provider, the seed of the plan groups. `Announcements`: the single announcement of the
  first version. `StartupBatch`: files, models, the title. `ChatHistory`: cyclic documents, the
  shell, the lists of children in the index, and pages whose rows are of a later index than their range. `SiteAccess`: the file backend,
  the secret's encryption, Cloudflare's answer.

The hazards in PROJECT.json that no property covers carry a note.
