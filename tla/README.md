# TLA+ models of Probe

Probe reviews commits: the **CLI** (`app/`) runs a review on a work tree, the
**hub** (`hub/`) runs it for the repositories of its users and shows the
results, and the **desktop** application (`desktop/`) watches office documents.
This directory holds TLA+ models of the parts whose correctness depends on the
order in which things happen, the TLC runs that check them, and proofs, checked
by TLAPS, of the most important properties for every size of the system.

All paths below are relative to the repository.

## 1. Inventory

### The hub

| part | code | state | operations | what is hard |
|---|---|---|---|---|
| analysis queue | `hub/internal/analysis/analysis.go`, `activity.go` | slot table `active`, `perUser`, the job channel, the activity list, `Repo.Latest` and the records in the store | `Submit`, `Cancel`, the workers' `begin`/`process`/`release`, `publishRun`, pruning | handlers and workers interleave between two locks and a channel; a cancelled job stays in the channel; the queue and the quota fill up; store writes fail; the process stops |
| record index | `hub/internal/store/history.go`, `recent.go` | artifacts, checkpoint, watermark and dirty marker on disk; the index in memory | `PutRecord`, `load`, `prune`, `save`, `History`, `Recent` | the process may stop or the disk refuse between any two steps; directories of older releases |
| account | `hub/internal/accounts/accounts.go`, `server/tokens.go`, `server/auth.go` | the user record: sealed credential and agent tokens | `Token` (refresh), `Save`, sign-in, `issueAgentToken`, `handleDeleteToken`, `authenticateAgent` | a refresh token works once; whole records are written back after a network call |
| device login | `hub/internal/server/device.go`, `app/internal/hublogin/hublogin.go` | the maps of pending requests, the tokens, the CLI's loop | `start`, `pending`, `decide`, `poll`, token issue; `Login` | clock, lost and repeated messages, restarts, two accounts that decide |
| monitoring | `hub/internal/server/api.go`, `hooks.go` | repository, hook route, badge route; hooks at the forge | `handleMonitorOn`, `handleMonitorOff`, `syncRepo`, deliveries | five calls in a row without a common lock, each of which may fail |
| LLM gateway | `hub/internal/server/gateway.go` | requests in flight, shared slots, daily usage | `handleGatewayCompletions` | check before, count after; eight ways to return; midnight |
| limiter | `hub/internal/server/ratelimit.go` | counts of a window | `Allow`, `evict` | a bounded map must not punish a caller for another one |
| event broker and page | `hub/internal/events`, `hub/web/public/app.js` | subscribers and their buffers; the page's copy of each repository | `Subscribe`, `Publish`; `connectEvents`, `loadRepos`, `refreshDashboard` | a full buffer drops; events, late answers and whole lists overwrite one another |
| learning, feedback, reviews | `hub/internal/learning`, `server/feedback.go`, `server/reviews.go` | lists in the repository record | one `UpdateRepo` each | bounded lists used for deduplication |
| forges, secrets, configuration, reports, MCP, Postgres | the other packages | none of their own, or a database | clients, codecs, projections | outside (network, SQL) |

The handlers call the queue; the queue calls the account for a credential, runs
the CLI, writes the record through the index and publishes events; the store
serializes the updates of one user or one repository (`UpdateUser`,
`UpdateRepo`), but not a read followed by a later `PutUser` or `PutRepo`.

### The desktop application

`watch` keeps, for each document, a reviewed baseline and the report of its
changes; scans, the person's *Accept*, and AI explanations meet on it. `gdrive`
keeps a local image of a Google Drive folder, fed by a full listing, a feed of
changes and single requests; its manager connects accounts, whose tokens are in
the keychain and in memory and whose names are in the settings. `server` (with the automatic explanations of
`auto.go`), the accounts of `gdrive`, `update`, `office` (comparison of
documents) and the platform glue surround them. `update` replaces the
executable by a newer one, `app` hands over to it through a helper process, and
`instance` keeps one engine per machine by a lock file.

### The CLI

One process per review: `cli` drives `plan`, `harness`, `mutation`, `fuzz`,
`coverage`, `symbols`, `graph`, `linter` and `report` in sequence. Inside the
harness, the initial checks run side by side under one budget of sandbox time;
the existing tests a commit changes or reaches run on both sides of it, in two
stages whose conclusions the report derives again from the recorded runs;
`execcache` is a directory shared by processes, without a lock between them;
`hublogin` logs in to a hub; `jira`, `linear`, `notion`, `gdocs` fetch context.

### Correctness, part by part

* *Queue*: a commit is analyzed by one worker at a time; a withdrawn attempt
  never runs; the quota counter is exact; an accepted job is not lost; badge and
  activity list end up with the newest outcome; every slot is given back.
* *Index*: a restart never trusts a stale checkpoint; what a reader is told is
  complete, or is said not to be; retention removes the oldest records only.
* *Account*: no refresh token is presented twice unless something failed; the
  stored credential can be refreshed; nothing but a whole-record write undoes what
  was done to the tokens.
* *Device login*: one token per login, for the account that approved first; one
  token per machine; the maps agree and stay bounded; a login ends.
* *Monitoring*: a repository shown as monitored receives its pushes and serves
  its badge; no hook left behind is accepted.
* *Gateway*: places and slots are given back exactly once; the quota is overshot
  by a bounded amount and what stale records erased; every request ends.
* *Page*: a page with nothing under way shows what is stored, unless an event was
  lost or overtaken; and it shows it again in the end.
* *Limiter*: no key loses budget to another; memory is bounded.
* *Watcher*: the baseline is a version first found, kept by the source, or approved
  after a report had described it; a change is reported until it is approved; an explanation that is not
  marked outdated describes the changes it is shown with; left alone, the page ends up telling the truth.
* *Drive image*: no change before the cache's token is missing from it; it
  catches up with the drive.
* *Google account*: an account is listed exactly when its token is stored, a
  token stored is one Google accepts, a source has an account, and a
  disconnection leaves nothing behind, at Google or in memory.
* *Execution cache*: an entry rests on as many live runs as it claims; a verdict
  served is the verdict given; what is served was confirmed where it must be.
* *Sandbox budget*: the budget and its reserve hold; running the checks together
  gives none of them less time than running them one after the other.
* *Existing tests*: what a stage concludes of a test is what the report
  concludes from the recorded runs; every test has a result or the reason why it
  has none; a replayed baseline that a live run contradicted supports nothing.
* *Update*: the executable of the machine can be started, and only a version
  that failed is given up; an engine comes back after an update, whatever the
  new version does.

The hazards this list answers are in `PROJECT.json`, each at its line.

## 2. Modules

| module | models | state in the code |
|---|---|---|
| `AnalysisRunner` | the queue; one action per critical section of `Runner.mu` or of the store, channel operation, or publication | `active`, `perUser`, `queue`, `activity` are `Runner`'s fields; `latest`, `records` are in the store; `pc`, `cur`, `out` are the goroutines; `attempts` numbers the accepted `Submit`s, whose index is `queuedAt` |
| `JobLifecycle` | what the queue promises: an attempt is admitted, then dropped, withdrawn, or run once, one open attempt per job and at most `UserQuota` per account | abstract |
| `RecordIndex` | one repository's directory and its index; one action per change of the disk | `artifacts`, `checkpoint`, `watermark`, `dirty` are files; `mem`, `loaded`, `pending` are `recordIndex` |
| `WindowLimiter` | one limiter | `counts` is the map, `age` the time since `start` |
| `HubAccount` | one user record, the goroutines that hold a copy of it, and the forge that rotates refresh tokens (external) | `cred`, `tokens`; `mu` is `Manager.mu`; `copyCred`, `copyTokens` are the `*store.User` of a goroutine; `unread` says that the re-read under the mutex failed |
| `DeviceLogin` | the flow between CLI, hub and browser, with a clock in ticks | `status`, `codeOf`, `expires`, `pace`, `lastPoll`, `userKey` are `deviceGrant`; `byUser` the second map; `cli`, `wake`, `wait`, `deadline` are `Login` |
| `RepoMonitor` | the monitoring handlers and a sync on one repository; the forge's hooks (external) | `monitored`, `hookId`, `hookKey`, `badgeKey` are the repository; `routes`, `badges` the other two files; `step` is where a handler is, `copy` what it loaded |
| `LLMGateway` | requests from the quota check to the count, over days | `inflight`, `slots` are `gatewayState`; `used`, `usedDay` are `LLMUsage`; `copies` are the whole records that refreshes and sign-ins hold and will write back; `counted`, `erased` record what requests added and such writes removed |
| `RepoPage` | one repository and an open page: the requests and syncs that change the record, the events they send, and the ways the page replaces its copy | `stored` is the record, `held` the copy of a request; `buffer` is the channel of `Broker.subs`; `shown` is the page's `state.repos`, `load` its calls of `loadRepos`, `newest` is `reposLoadID` |
| `DocumentWatch` | one document, from the scan to the approval; one action per section under the lock and per file written | `mem` is the document in `Watcher.docs`, `disk` its copy in `state.json`; `baseFile`, `pendFile` are `baselines/<id>` and `<id>.next`; `scan`, `req`, `ask` are goroutines with the copy each works on |
| `DriveSource` | the image of a drive with one folder; one action per call to the Drive API and per section under the lock | `mem` is `Source.cache`, `disk` the saved copy; `list`, `stat` the calls under way |
| `DriveAccount` | a Google account: connections, disconnections, saved settings and calls that refresh a token, one action per access to the keychain, the memory, the settings or Google | `keychain`, `cached` are `KeyStore` and `Manager.tokens`; `listed`, `used` are in `Settings`; `conns` the goroutines of `Connect`, the last one being `Manager.generation`; `disc`, `save`, `calls` the handlers |
| `ExecutionCache` | one key of the cache directory, shared by several reviews | `file` is the entry; `rv` the reviews with what each has read |
| `SandboxBudget` | the time limits of the initial checks and of the stages after them | `ledger`, `spent`, `reserved` are the counters of `executionBudget`; `before` what a serial run would give |
| `ExistingTests` | the stages of changed and of impacted tests: planning into commands, runs on both sides, replayed baselines, splitting, the results recorded, and what the report makes of them | `units`, `step` are the loop of the stage, `own` and `base` the runs recorded for a test, `verdicts` and `items` what harness and report conclude, `used`, `stopped` its share of the budget |
| `SelfUpdate` | an installation of the desktop application, the engines and helpers that run from it, and the files they share | `exe`, `old`, `staged` are the executable, its `.old` copy and the downloaded one; `skip` is the file `update-skip`; `lock`, `info` are `instance.lock` and `instance.json`; `proc` the processes |
| `MC…` | instances for TLC: functions between model values, symmetry; `MCHub`, `MCRecords`, `MCLive`, `MCDevices`, `MCParts` and `MCDesktop` check several components in one run | |
| `AnalysisRunnerProofs`, `WindowLimiterProofs`, `LLMGatewayProofs`, `RecordsProofs` (`HubAccount`, `RepoPage`), `DeviceLoginProofs`, `HubProofs` (`RecordIndex`, `RepoMonitor`), `DesktopProofs` (`DocumentWatch`, `SelfUpdate`), `ExecutionCacheProofs` | theorems and proofs | |

Each module describes one component; `AnalysisRunner` is composed with
`JobLifecycle` by the refinement mapping at its end. `DeviceLogin` already holds
both sides of the protocol. `DeviceLogin` and `HubAccount` both contain
`issueAgentToken`, each with the detail its own question needs: the account
module counts tokens and sees their revocation, the login module sees which
machine asked. The per-minute limiter of the gateway is a `WindowLimiter`, which
may refuse any request; a refusal changes nothing, so the gateway module does not
carry its state.

`MCHub`, `MCRecords`, `MCLive`, `MCDevices`, `MCParts` and `MCDesktop` hold components
that share no state. A behaviour of theirs picks one component at the start (`part`) and is a behaviour of that one:
the state space is the sum, not the product.

Definitions named after a fault ("Mutant of …") sit before the definition they
distort. They are used by no specification: substituted for that definition,
they show that a property notices the mistake.

`PROJECT.json` maps every definition to the lines it stands for.

### What is abstracted

* Identities (users, repositories, commits, tokens, codes) are model values.
  Secrets are never equal by accident.
* Times are ticks or orders. An enqueue time is taken under `Runner.mu`, hence
  the position of the attempt. Credentials live equally long, hence the order of
  their numbers is the order of their expiry.
* `os.Rename` is atomic, and what was renamed is not undone by a power failure.
* `AnalysisRunner` leaves out what `analyze` does, `learnOutcomes` (it touches
  only the learning counters) and `publishStatus` (one call to the forge nothing
  reads).
* `RecordIndex` leaves out legacy records that are pending or undated, and read
  errors of a checkpoint that exists. The runs of a repository are enqueued at
  different times, and those of one commit one after the other (the guard of
  `BeginPut`): the runner admits one attempt of a commit at a time.
* `HubAccount` assumes that no credential expires within a sign-in that lasts
  seconds; the guard of `Expire` names it.
* `LLMGateway` abstracts the payload to the tokens consumed, at most `MaxCost`. The
  writers of whole records (`Manager.Save`, the sign-in) are one copy each, read at
  one moment and written back or dropped at another; `HubAccount` has the steps in
  between.
* `RepoPage` follows one repository on one page. A copy of the record is the set
  of the writes it reflects. `gap` says that nothing under way will tell the page
  what it misses. The runs of a repository, which the page merges one by one, and
  a page whose first load fails are left out.
* `DocumentWatch` follows one document. What a report lists is a constant: `Changes`
  gives each pair of contents a sequence of changes, a change being its kind and what
  was there before and after (`changeKey`), and `Truncated` the reports that were cut.
  An explanation is the report it was asked for (`of`), the one shown when it was stored
  (`on`) and its mark; what is kept of the findings of an outdated one is left out.
  Three variables only record what happened:
  `described` the contents an analysis made a report of, `reviewed` those that were
  first found or returned by the source, or approved once described, and `clash` the
  ways in which an approval and an analysis overwrote each other. A content is a number, a hash the bytes
  read: two exports of one version of a converted document may differ. The
  intermediate saves of a long scan are left out, and the snapshot of a save is
  taken in the step that releases the lock.
* `DriveSource` sees a document, and the folder it may be in or leave.
* `DriveAccount` follows one account. An access token is the refresh token it was
  asked with: Google stops both together, which is the stricter case for the
  code. The clock is left out: a cached token may be found expired at any time.
* `ExecutionCache` follows one key; a run of the baseline is one of four results, a
  candidate one of three. Whether a completed run may be stored (its exit code, a
  report that is cut or that redaction would change) is a choice, and so is whether it
  differs from the entry in its exit code or in the truncation of its log; a
  confirmation is on the status alone, as in the code, so a passed run with a cut log
  is completed too.
* `SandboxBudget` counts whole seconds.
* `ExistingTests`: a run is its status and an outcome for each name it was asked
  for; a log that was cut is the outcome `CUT`. The patterns that read a log, the
  staging of files and the choice of the tests are left out, and so are the checks of
  form that the report makes of names, paths and commands (`basetests.go:73-95`): they
  hold of what the harness records, and could differ only for data that redaction
  altered.
* `SelfUpdate`: a file is the version in it, a version either starts or does
  not. Downloads, signatures and windows are left out. Two guards are about time:
  the first check comes a minute after the start, when a hand-over is over, and
  a killed process is gone when its lock is tried again. The forty tries of the way
  back are one step, which succeeds or fails; a rename of it that fails after the
  removal leaves no executable, as in the code.

## 3. Runs

States are distinct states. All runs finish; where deadlock is not checked, a
bound (the clock, the hooks the forge creates, the quota of the last day) really
stops the system.

| run | bounds | properties | states |
|---|---|---|---|
| `runner_repo` | 1 repository, 2 commits, 2 handlers, 2 workers, 3 attempts, 1 cancel | `ExclusiveRun`, `StreamOrder`, `BadgeIsNewest`, `DeliveryInv` | 848 000 |
| `runner_faults` | 2 accounts, 3 jobs (one a plan), queue 1, quota 1, 2 attempts, 1 cancel, 1 failed write, 1 restart, 1 aged | `AcceptedNotLost`, `ImplementsLifecycle` | 871 000 |
| `runner_badge` | 1 attempt, 1 cancel | `BadgeSettles` is **violated** | |
| `live` | *Runner*: 2 commits, 2 handlers, 1 worker, queue 1. *Login*: 1 login, 2 accounts, TTL 5, 7 ticks, 2 faults. *Drive*: 1 document and its folder, 1 change, 1 fault. *Gateway*: 3 requests, 1 place, 1 slot, 1 day. *Page*: 1 change, 1 sync, 1 place, 1 fault | `AttemptsEnd`, `DeviceInv`, `ApprovedInTimeIsKept`, `LoginEnds`, `CatchesUp`, `RequestsEnd`, `PageCatchesUp` | 159 000 |
| `hub_store` | *index*: 2 commits and a plan, 2 kept, checkpoint every 2, 4 times, 3 writes, 1 failure, 1 restart. *Monitoring*: 2 requests at a time, 1 sync, 2 hooks, 1 fault | `RecordInv`, `RecentIsHonest`, `EvictsOldest`, `MonitorInv` | 2 220 000 |
| `account` | *account*: 2 calls, 1 sign-in, 1 agent, 2 tokens of one name, 3 credentials, 2 failures. *Page*: 2 changes (1 of this page), 1 sync, 2 places, 1 fault | `AccountInv`, `NoReplay`, `OnlySavesUndo`, `PageInv` | 2 870 000 |
| `account_revoked` | 1 call, 2 tokens | `RevokedStays` is **violated** | |
| `device_two` | *limiter*: 4 keys, 3 places, sample 2, limit 2. *Logins*: 2 logins, 2 machines, 1 pending, 1 token, TTL 2, 7 ticks, 1 fault | `LimiterInv`, `DeviceInv` | 1 470 000 |
| `parts` | *gateway*: 2 requests of one account, 1 writer of its record, 1 place, 1 slot, quota 1, 2 days. *Cache*: 2 reviews, 3 runs, 1 fault, 2 failures. *Budget*: 3 checks of up to 5 seconds, up to 3 at once, 3 later ones. *Existing tests*: 3 lists of 3 to 5 tests, 2 names a command, 3 tests, 2 commands, 3 seconds. *Drive*: 1 document and its folder, 2 changes, 2 faults. *Google account*: 4 operations of which 2 connections, 1 rotated token, 1 fault | `GatewayInv`, `QuotaOvershootIsBounded`, `CacheInv`, `VerdictsStand`, `BudgetInv`, `ReportAgrees`, `EveryTestIsAnswered`, `ContradictedSupportsNothing`, `TimeIsBounded`, `CacheMissesNothing`, `ConnectionInv` | 1 550 000 |
| `desktop` | *watcher*: 4 contents (one too large), 3 versions, 2 exports, 1 approval, 1 event. *Update*: 3 versions of which 2 may not start, 4 processes, 2 launches, 2 faults | `WatchInv`, `ChangeIsKeptWithoutClash`, `ExplanationIsOfTheseChanges`, `TruthComesBack`, `UpdateInv`, `EngineComesBack` | 521 000 |
| `watch_unseen` | 1 document, 1 approval | `NobodyApprovesUnseen` is **violated** | |
| `sync_forgets` | 1 change, 1 sync | `SyncKeepsOwnerWrites` is **violated** | |

Some properties are conjunctions of named parts: `DeliveryInv`, the inductive
invariant of the proofs about the queue, contains `IInv`; `RecordInv`, that of the proofs about the record index, contains
`IndexInv`, that is, `CheckpointIsFresh`, `CheckpointIsBounded` and `HistoryIsComplete`; `BudgetInv` is `BudgetHolds` and `SameAsSerial`, `LimiterInv` contains `OwnBudgetOnly`, `DeviceInv` contains
`MapsAgree`, `OneTokenPerLogin` and `OneTokenPerMachine`, `MonitorInv` contains `DeliveredWhenMonitored`, `WatchInv`, the inductive invariant of the proofs about the watcher, contains `BaselineIsReviewed` and `CopiesAreSound`, `CacheInv`, the inductive invariant of the proofs about the cache, contains `EntryIsBacked` and
`ServedIsAgreed`, and `ConnectionInv` is the seven statements before it in
`DriveAccount`.

Why these bounds are enough to meet the interesting cases:

* *Queue*. Three attempts of two commits are what it takes to cancel a commit,
  request it again while the first job is in the channel, and have another
  commit finish between them, with two workers. A channel of one place fills; a
  quota of one refuses; a plan shares the queue without touching the badge.
* *Index*. Keeping two records of three names evicts; a checkpoint every two
  writes puts writes before, at and after one. Four times order two runs and a
  window around an evicted one. The initial states include the two layouts of a
  version 1 directory, where a run was evicted before: three writes then evict
  twice. `HubProofs` has no such bounds.
* *Account*. Two calls race for one refresh; the third credential is the sign-in
  that overtakes both. Two tokens of one machine replace one another. Two failures
  are a re-read that fails and a second thing lost before or after it.
* *Device login*. A life of five intervals leaves room for several polls, for a
  late approval and for a duplicated poll; two logins are one more than may be
  pending.
* *Monitoring*. Requests repeat, so two at a time reach any history of the
  repository in which two overlap; two hooks are the stale one and its
  successor. The properties also held with a third hook (8.5 million states).
* *Gateway*. One slot and one place for two requests make them wait, or be refused
  (in `live` three requests compete for the slot); a quota of one and a cost of one
  let a request pass the check before another one is counted; the writer reads the
  record before a count and writes it back after; two days contain a midnight.
* *Page*. One change of this page, one of another and a sync make every order of
  three events; two places in the buffer fill; the fault is a failed write or
  load, a broken connection or a hidden page.
* *Watcher*. Two contents of a normal size make a change, its way back and a
  second change. The third differs from the second in its report only: from the first,
  the second lists one change twice and the third two different ones, which is what
  `carryExplanation` must tell apart; it occurs in a folder, next to the second. The
  fourth is the one that cannot be compared. Three versions
  leave one for a scan that overlaps an approval. The event is a stop, a failure,
  a setting, or a question to the model.
* *Drive*. A document and its folder move, disappear and come back while pages
  are listed; the second change is the one a late answer may hide.
* *Account*. Every pair of operations can overlap after the account was
  connected; with four operations, a third one can follow. Each exception in the
  properties is needed: without it, TLC finds a violation. The properties also
  held with five operations.
* *Cache*. Two reviews read, run and publish on one key; the third run is the one
  that contradicts the entry the first two agreed on.
* *Budget*. Three checks make groups of one, two and three; the reserve is none,
  part or all of the budget.
* *Existing tests*. The lists hold more names than a command takes, more tests
  or commands than a stage takes, a test given twice, and one that cannot be
  asked for by name. Three seconds end before all commands ran twice.
* *Update*. Two versions that do not start make the second failure follow the
  first; the launches let a user start the application during a hand-over, and
  a second engine find the lock taken; the faults are stops between any two
  steps, engines killed, and moves or starts that fail, on the way out and on the way
  back.

Symmetry is used for safety only, never in the runs with a liveness property: of the
logins, codes and machines in `device_two`, say, which no definition tells apart.

### Fairness

* `AnalysisRunner`: every goroutine goes on (the Go scheduler is fair), and
  `analyze` ends because of `AnalysisTimeout`. No request and no fault is fair.
* `DeviceLogin`: the clock ticks, the hub serves a request that reached it and
  the CLI goes on; the loop ends by its deadline at the latest. Decisions and
  faults are not fair.
* `LLMGateway`: a request that came in goes on; the wait for a slot ends by the
  timeout of its context, the relay by that of the client. No fairness promises a
  slot to a request that waits: with a `select` and a channel, none does.
* `RepoPage`: a request that began ends, `EventSource` connects again, the minute
  timer runs, a call of the page is answered, and a page is not hidden for ever.
  No request, sync or fault is fair.
* `DocumentWatch`: a scan that started goes on, and scans are started at their
  interval; a request that came in goes on. No save, approval or event is fair.
* `SelfUpdate`: every process goes on, and a lock is tried until its time is
  over. No user, check, installation or stop is fair.
* `DriveSource`: a listing is made at its interval and goes on, a call that was
  answered is applied, and days pass (a full listing is made once a day).

### Where code and text disagree

Four runs show a behaviour that a document or a comment excludes:

* `runner_badge` (`BadgeSettles`). `Submit` puts an attempt in the slot table,
  unlocks, and only then announces it (`analysis.go:192-197`). A `Cancel` in
  between falls back to the stored result, and the late announcement makes the
  withdrawn attempt the latest run again: the badge stays queued, which the
  comment at `analysis.go:266` says it does not.
* `account_revoked` (`RevokedStays`). `Manager.Save` stores the whole user record
  its caller read before asking the forge. A token revoked meanwhile is written
  back and works again, although `handleDeleteToken` "revokes a token at once"
  (`tokens.go:249`). `OnlySavesUndo` shows that this is the only way,
  and that nothing else drops a token nobody revoked.
* `watch_unseen` (`NobodyApprovesUnseen`). The page sends the identifier of a
  document only, and `Accept` approves the version it reads when it runs
  (`watch.go:877`). A version saved after the person looked is approved without
  ever having been shown.

* `sync_forgets` (`SyncKeepsOwnerWrites`). `syncRepo` reads the repository, asks
  the forge, and writes back all it read (`api.go:120-140`). Coding rules, a vote
  or a review mark stored meanwhile are gone, although they "are preserved across
  syncs" (`api.go:127`).

The models contain the following behaviours too; the passing properties are
stated so that the exception is visible in them:

* a second `Submit` of a commit is promised the first one's attempt, and hears
  nothing if that one then finds the channel full (`AcceptedNotLost`);
* a cancelled job keeps its place in the channel, so an account can fill the
  queue beyond its quota by cancelling;
* after a restart `Repo.Latest` may stay queued or running, as the queue was in
  memory;
* a sync that overlaps a change of monitoring writes back the repository it had
  read (`broken` in `RepoMonitor`); overlapping activations can leave hooks at
  the forge, which are not accepted (`MonitorInv`);
* a load of the list keeps an older copy that an event brought while it was under
  way; events sent between the first load of a page and its connection, and the
  refresh after a reconnection that finds another one under way, are lost until
  the next minute; the late answer to a request of the page overwrites a newer
  event (`gap` in `RepoPage`);
* a call of `Token` that cannot re-read the account under the mutex, or cannot open
  what it read, goes on with the copy it had (`accounts.go:92-99`) and presents a
  refresh token that another call has used (`unread` in `HubAccount`);
* a sign-in takes any error of the read of the account for a new account
  (`auth.go:81-84`) and stores it without its agent tokens and its usage
  (`LoadAccountFails`, `ReadAccountFails`);
* the usage of the day is in the user record: a refresh or a sign-in that read the
  record before a request was counted writes the older count back, and the account may
  consume that much again (`erased` in `LLMGateway`);
* a request relayed across midnight is counted on the day it was checked, and
  resets the count of the new day (`straddled` in `LLMGateway`);
* a poll that took the approval and could not issue the token ends the login
  without one (`IssueFails`, `IssueRefused` in `DeviceLogin`);
* an approval and a scan of the same document that overlap overwrite each other,
  and a change can be left without a report until the next one (`clash` in
  `DocumentWatch`);
* "Same modifications, saved again: the explanation still holds" (`watch.go:791`) is
  decided by the number of changes and by the presence of each earlier one: when a
  change made twice becomes two different changes, the explanation of the first report
  stays without the mark of one that "does not cover the newest changes"
  (`watch.go:75`). `ExplanationIsOfTheseChanges` excuses a report in which a change
  occurs twice, and nothing else;
* a document that was left in the cloud, or was too
  large, is not looked at again when the settings change;
* a converted document whose analyzed copy is missing when it is approved is to
  be analyzed again (`watch.go:908`), but a scan that reads the same bytes only
  restores its status, and the copy stays missing (`Touched`);
* a copy removed after the lock was released may be the next baseline: the
  document is reported as having lost it;
* a good version is given up when the user starts the application during the
  hand-over, or when it answers too late: the new engine finds the lock taken, and
  the helper takes that for a failure (`excused` in `SelfUpdate`);
* a stop between the two renames of an installation leaves no executable until
  the user installs again, and so does a failure of the second one whose way back
  fails too, on each try: it is logged, and the helper ends (`lost`). A new version that
  cannot be removed stays in place although it does not start, and a restart that fails
  is only logged, so that no engine runs until the user starts one (`unrestored`); a user who quits after an update is pending
  gets the application back, updated;
* saving the settings reads the list of Google accounts and writes it back in a
  second step (`server.go:481`), although that list is said to "only change through the
  connection flow": an account connected meanwhile is no longer listed and its
  token cannot be disconnected from the page; one disconnected meanwhile comes
  back without a token (`TokenIsListed`, `ListedHasToken` in `DriveAccount`);
* "an account still used by a source cannot be disconnected"
  (`desktop/README.md`), but the sources are checked before the token is revoked
  and the account is removed at the end: a source saved in between keeps none
  (`SourceIsConnected`);
* a call that refreshes a token while its account is disconnected caches the
  access token again, and stores a replaced refresh token again
  (`NothingCached`, `NothingForgotten`); a failure to store a replaced token is
  not looked at (`RotateFails`); a connection that was cancelled after Google
  answered still stores its token and lists its account;
* a metadata request to Drive that is overtaken by a listing puts back an older
  state until the next change or full listing (`outrun` in `DriveSource`);
* no code sets `Contradicted` in a cache entry: an entry that a confirmation
  contradicted is removed, and a later one may be served again;
* a reserve as large as the whole budget leaves the stages before it a limit of
  one nanosecond instead of skipping them (`SandboxBudget`).

## 4. Proofs

TLAPS checks every theorem for all values of the constants allowed by the
module's assumption.

**`AnalysisRunnerProofs`.** Slots are exclusive because an attempt is always in
the hands of one party: the handler that sends it, the channel, or one worker.
That is `Custody`. `ExclusiveRun` and `SlotAccounting` are not inductive without
it: `begin` checks the slot of *this* attempt, so one must know that no second
copy of the attempt is in the channel or with another worker, and that the slot
of a running attempt cannot be given to a later one. `IInv` is the conjunction of
`TypeOK`, `ThreadInv` (which places a goroutine can be in, with which outcome),
`SlotInv` (a slot belongs to an attempt of its key that was not withdrawn),
`Custody` and `SlotAccounting`. The proof has one lemma for each action and each
conjunct the action can disturb. `InvariantHolds` gives `TypeCorrect`,
`QuotaIsExact`, `AnalysesAreExclusive` and `WithdrawnNeverRuns`.

The same module proves the refinement, `RunnerImplementsLifecycle`: under the mapping
`PhaseOf`, and with `IInv`, every step of the runner is a step of `JobLifecycle`
or a stutter. A restart is its `Stop`.

The second part of the module is about what becomes of an accepted attempt: the events a
browser sees of it (`EventsAreOrdered`), its delivery to a worker
(`AcceptedIsDelivered`) and the badge of its repository (`BadgeIsRight`). All
three follow from `DeliveryInv` (`DeliveryHolds`), which adds to `IInv`:

* `RoleInv`: what each goroutine publishes (a handler "queued" or "cancelled", the
  latter for a withdrawn attempt only), and that a plan never reaches the badge;
* `HoldInv`: an attempt is announced by one handler, before `Job.ready` is closed
  and before a worker starts it, while it waits in the channel or with a worker.
  This is what the wait of `begin` buys;
* `PlaceInv`: an attempt that waits or is being sent keeps its slot unless it is
  withdrawn, and a slot is that of an attempt somebody has;
* `DeliveredInv` and `ListedInv`: a ready attempt waits, is in hand, was withdrawn,
  or gave its slot back; and the activity list shows it;
* `EventsInv`: the events an attempt has had, for what its goroutines still have to
  do. Two handlers may publish for one attempt, its announcer and the one that
  withdraws it, in either order; the worker comes after both or never;
* `BadgeInv`: a slot is that of the newest attempt of its commit (`NewestInv`); the
  record of a commit is no older than the last analysis that was recorded
  (`RecordsInv`); a badge that is not final belongs to an attempt that goes on, or
  was withdrawn (`LatestInv`); and the badge has reached every analysis that is over
  (`SettledInv`).

The step that could lower the badge is `StoreLatest`. A worker never does: it holds
the slot of its commit, so by `NewestInv` no run of that commit is newer, and
`Outdated` skips the newer runs of others. A handler does when its attempt lost the
slot, that is, was withdrawn, and a newer attempt of the same commit is the badge:
that is `Overtaken`. `CancelFallback` falls back to the newest record, which
`RecordsInv` says is no older than any analysis that is over. `Advances` says once
what every step does to the work in progress, so that the three badge lemmas look
only at the steps that write a record or a badge.

The proof corrected the model twice. An earlier form of `BadgeIsNewest` excused only
the attempts whose own commit had been withdrawn. It held in every run and could not
be made inductive: with three commits and four attempts, the late announcement of a
withdrawn attempt replaces the run of its successor, and the badge then accepts an
attempt that this run had kept out. TLC finds that behaviour too once it is given three
commits, four attempts and three workers: the bounds of the runs are one short of each.
And the three cases of `StreamRun` overlapped, for a plan that
is withdrawn, where the code returns at the first.

**`WindowLimiterProofs`.** `LimiterInv` relates each count to what the key really
received in this window: never more, and equal unless the key was evicted. From
it, `LimiterIsSound`, `LimiterMemory`, `LimiterLimits` and `LimiterIsolates` (a key
is refused only after it used its own budget).

**`LLMGatewayProofs`.** `GatewayInv` says that the two counters are the requests
that hold a place; its proof is the bookkeeping of every way out of the handler.
`QuotaOvershootIsBounded` is not inductive: a request that passed the check adds
its cost later, perhaps on the next day, perhaps after others did. `RoomForPending`
keeps the room for it: on a day the check has not been outrun by midnight, what is
counted plus `MaxCost` for every request between its check and its record is at most
the bound, to which stale records add what they erased on that day. `PastOnly` makes it
hold again when the day changes (nothing is counted on a day that has not come), and
keeps the records under way in their place: what is stored, and every copy of it, is at
most what was consumed on its day, so a record that is written back lowers
the stored count by no more than `erased` grows (`RecordErased`). `GatewayIInv` is the
conjunction.

**`RecordsProofs`, the account.** A refresh token is used once because the credential it comes
from is read under the mutex, or compared with the stored one there. `MutexInv` says
who holds the mutex. `CredInv` orders the credentials: what was used has expired,
what a sign-in is about to store has not. `SpentInv` is the heart: a used credential
is older than the stored one, or its successor is about to be stored by the holder of
the mutex, or that successor was lost in a failure; a call is about to present a used
one only if its re-read failed (`unread`). `NoTokenReplayed` follows, and needs `Expire`'s guard, which keeps a credential of a sign-in in progress from expiring
before it is stored. `TokensBounded` holds through stale whole-record writes because
every copy of the record is itself within the bound. `HandlersDoNotUndo` is an action
property: of all the steps, only the two writes of a whole record bring back a token
that was revoked, or drop one that is valid.

**`RecordsProofs`, the page.** `PageInv` speaks of a page with nothing under way; the
invariant says who will still tell it (`Shows`). Either there is a `gap`, or somebody
who wrote what is stored has not published it yet (`Told`), or the last copy in the
buffer is the stored one (`LastIsStored`), or no copy is in the buffer, the page shows
what is stored, and the newest list on its way, if it will be applied, is the stored
one (`ListIsStored`). The steps that could break it are those that replace
what the page shows: an event leaves no untouched list behind it (`LiveList`), and a list
that is applied was either read after the last write, or finds a copy in the buffer that
comes after it (`ApplyShows`). That a buffer which holds a copy has a last one
(`LastOfBuffer`) is the least distance from its end, by the order of the naturals. The
proof is for any number of requests and of syncs, and for a buffer of any length.

**`DeviceLoginProofs`.** Three invariants. `MapsInv` pairs the two maps: the sweep
empties the codes of exactly the requests it deletes, so a new request never takes a
code in use. `DecisionInv` follows one login: nothing is known of it before it starts,
a pending one was not decided, an approved one carries the account of its first
decision, and at any time there is at most one of a pending request, a grant on
its way to the store, and a token; `ApprovedOnce` follows for every duplicate, loss and
restart, and with the bounds of the maps the whole of `DeviceInv` (`PendingIsSound`). `TimeInv` is about the clock: without a fault, a poll is sent at most a tick
after the CLI wakes up, reaches the hub at most one later, and is never early
(`OnPace`), so that an approved request is polled again at most `Interval + 3` ticks
after the decision (`OnItsWay`). The bound of `ApprovedInTimeIsKept` is tight: the
case of a poll served just after the request expired uses all of it.

**`HubProofs`, the record index.** `IndexInv` is not inductive for three reasons, and each gives
a part of `RecordInv`. A removal that fails half way leaves runs in memory whose files
are gone, so the next prune starts from an index that differs from the directory:
`HistoryInv` says that `MaxRecords` newer runs are there for each of them. Whatever is
written next, `Newest` leaves them out again (`KeptAreThere`), and an index that fits
has none (`NothingExtra`): what `save` writes is the directory. `StageInv` says that no
checkpoint is on disk while an operation changes the directory, also after one that
failed. And `EvictionInv` says that the checkpoint, the watermark and the index in
memory each tell, alone, of every normal run that was removed, since a restart may
find any of the files without the others; the exception is a checkpoint of version 1
that was never loaded, which is the only watermark of its directory. `RecentIsHonest`
follows from `EvictionInv`, and `EvictsOldest` from `PruneInv`, which describes a prune
under way. That a finite set of runs has a latest one (`LatestRun`) is proved from a
least counterexample: the strict subsets of a finite set are well founded, and the
library's theorem of least elements takes no operator.

**`HubProofs`, the monitoring.** `DeliveredWhenMonitored` speaks of the moments when nothing is
under way; in between, a monitored repository often has no hook, no route or no badge.
The invariant says that somebody is then about to supply what is missing
(`ServedInv`): a hook that the stored repository names and the forge no longer has was
deleted by a request that is still on its way to store another one, or to switch
monitoring off (`RenewsHook`); a missing route or badge belongs to a request that
is about to put it, or to write the repository in turn (`RenewsRoute`, `RenewsBadge`). So
whatever the overlap of the requests, the last one to finish leaves the repository
served. It rests on `CreatedInv`: a new hook is known to its creator alone, and
nobody can delete it before it is stored. `AloneInv` is for the repair of a fault: a
request that overlaps no other finds what it wrote. That at most one hook is accepted needs
no induction: `hookInstallation` compares the identity of the hook, and `Accepts`
holds of the stored one only. The proof is for any number of owners' requests and of
syncs, where the run has two and one.

**`DesktopProofs`, the watcher.** The document is in many hands at once: in memory, in
`state.json`, with a scan, with the approvals, with the saves in the background. Each
may put its copy back later, and a restart takes whichever was saved last. The
invariant is therefore about every copy (`CopiesAreSound`), not about the one in
memory. A sound copy is

* of one piece (`WellFormed`): its report is of the bytes whose hash it records, a
  changed document has a report, a clean one has a reference and no report, and the
  reference is a file or a version, never both;
* of known content (`OfKnownContent`): its reference was reviewed, and the bytes last
  analyzed were described by a report or reviewed. This is what lets an approval write
  them: `ApprovalInv` says it writes what its snapshot names;
* of versions that were seen (`OfItsVersion`), and of the content of the current one
  when it was recorded with it (`OfItsContent`), unless an approval was put over another
  analysis than its own (`Overtaken`);
* explained by an answer that was stored for its own content and still holds of its
  report, in the sense of `carryExplanation` (`ExplainsItsVersion`).

None of it stops being true when the world goes on (`SoundStays`): versions are only
added, contents are only described and reviewed, and a copy recorded with the last
version is overtaken by the next one. So each step has to account for one document at
most (`CopiesStep`): the outcome of an analysis, of an approval or of an explanation,
each of which has its own lemma (`FailedSound` to `ExplainedSound`). `ScanInv` says
what a scan has read since the listing, `HistoryInv` and `QuestionInv` follow the
review that is recorded and the question that is asked. `WatchHolds` is the invariant,
`ChangesAreKept` and `ExplanationsAreOfTheseChanges` follow from the copy in memory. For
the second, an explanation may be carried over any number of reports: `StillHolds` is
transitive (`HoldsOn`, `CarryExplanationSound`). That its test, every earlier change present and as many
changes, means the same changes when the earlier ones are all different is the
pigeonhole principle (`NoneToSpare`, `SameChanges`): as many positions as there are
different changes leave none for another change, and none twice.

These proofs corrected the properties, which held in the run and were not inductive.
`BaselineIsReviewed` used to call reviewed what was in a report at the moment of the
approval, and excused clashes. With a fourth version that is false: a change is
reported, the document deleted (which clears the report and keeps the hash), restored,
and a scan of it fails; the approval then accepts the hash of the report that is gone.
The bytes had been described, so the statement now remembers what was (`described`),
and needs no excuse. `ChangeIsKeptWithoutClash` used to ask that nothing be under way;
a stop between the write of the baseline and the save of the document makes that form
false with four versions of a converted document. It now speaks of reviewed contents,
at every moment, and its excuse is narrower: the overlap of an approval with a scan,
or with a document that is gone, no longer counts, only an approval that ends on
another analysis than its own. With the statements above, TLC finds no violation with
four versions, two approvals or two events either.

**`DesktopProofs`, the update.** The three files and the processes that run from them
hold each other: `FilesInv` says that a live process runs from a file that is there and
holds its version, which is why `Removed` and `RemoveNew` cannot take the file of a
running engine. `AsideInv` says that at most one process is between moving the
executable aside and the end of its hand-over, that it runs from `.old`, and when the path
is empty: while it is, every process runs from `.old` and nobody else hands over
(`NobodyAtExe`). `ExecutableIsThere` and
`PreviousIsKept` follow: a move back that fails after the new version was removed is
the one step, beside a stop, that leaves the path empty, and it says so (`lost`). `LockInv` ties the lock to its owner, from `Acquire` to `Unlock`
or to the death of a killed engine; `EngineIsReachable` needs it, since an engine that
gives up `instance.json` might otherwise erase its successor's. `FailedInv`
follows the version of a failed hand-over to the step that records it, for
`SkipIsEarned`. The proof needs the two facts of the timing that `Check` and `Leave`
have in their guards. It made one definition say what it meant: the `CASE` of
`NotTakenOver` had two arms that could both be true, and TLC takes the first where the
semantics of `CASE` leaves the choice open.

**`ExecutionCacheProofs`.** An entry is a promise about the past, "this many live runs
agreed", written by reviews that read it at one moment and replace it at another.
`EntryIsBacked` is not inductive as a statement about the file: a review that read the
entry before another one extended it writes its own count later. The invariant
counts the runs of a status that are not written yet (`Unwritten`) and leaves room
for all of them beside the file, and beside every entry a review has read and is about to extend
(`Backed`): a run is counted when it ends, and uses its place when it is written, so two
reviews that overwrite each other lose a run and never invent one. `ServedIsAgreed`
needs what holds between two writes: while nobody removes an entry, the file says no
more than the last live runs in a row (`EntryIsAgreed`), a review that has not read it
yet knows its own run to be the last one, and one that is about to write was agreed with.
`OneRecords` is the shape that the absence of a clash leaves: two reviews record at the
same time only if one of them is about to remove the entry, whatever it says.
`ReviewInv` is about one review (only a result that may be stored goes through the
cache, and the others count for nothing, only a reproduction on a replay is confirmed), and `VerdictsStand` follows from it.
The proof is in two steps: the `Shape` lemmas say once what each action changes, and
the rest looks at those facts only.

The assumptions are those of the constants: finite sets where cardinalities are
compared, natural numbers for limits and times, `None`, `Nil` and `NoRun` (a nil
pointer, a missing file) outside the sets they stand beside, and, for the device login, a polling interval above zero, which
`devicePollInterval` (5 s) is.

Only model-checked: the liveness properties and what needs fairness (beyond this
prover); every property
of `DriveSource`, `DriveAccount`, `SandboxBudget` and `ExistingTests`.

## 5. Plan

Done, in this order: `JobLifecycle` and `AnalysisRunner`; `RecordIndex`;
`WindowLimiter`; `HubAccount`; `DeviceLogin`; `RepoMonitor`; `LLMGateway`; the
proofs of the runner, its refinement and the limiter; `DocumentWatch`;
`DriveSource`; `ExecutionCache`; `SandboxBudget`; `ExistingTests`; `SelfUpdate`;
`DriveAccount`; `RepoPage`; the proofs of the gateway, the account and the device
login; the proofs of the queue's events, delivery and badge; those of the record
index; those of the watcher, of the monitoring, of the execution cache, of the page and
of the update.

Next:

1. The runs of a repository on the page, composed with the runner's events, and
   the deduplication of outcomes in `learnOutcomes`.
2. `GeneratedTests`: what the harness records of a generated test
   (`harness.go`) and what the report accepts of it.
3. Proofs: `CacheMissesNothing`, `ConnectionInv` and `BudgetInv`.

## 6. Not modelled, and why

* The Postgres store: its atomicity is that of the database's transactions.
* Report parsing, office comparison, language analysis, mutation, fuzzing,
  coverage: pure functions over documents and syntax trees, with unit tests and no
  state that several actors share.
* Forge and tracker clients, secrets, configuration, MCP translation, pages,
  packaging: input and output, or one read and one answer.
* The rest of the harness (staging of files, parsing of logs, the experiments on
  intent, fuzzing and mutation) and of the CLI's pipeline: one process, in
  sequence, whose conditions are about texts and syntax trees.
* Signatures, digests and downloads of an update, and the application's window.

Most of the repository is of these kinds: parsers, comparisons, clients and
rendering. The modules follow the parts whose state several actors or several
runs share, which are a small share of the lines.
