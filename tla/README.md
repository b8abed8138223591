# Prezel, modelled in TLA+

Prezel is a self-hosted platform: it watches GitHub repositories, builds a docker
image for every commit it deploys, and serves each deployment behind a proxy that
starts containers when somebody asks for them and stops them when nobody does.
This directory holds TLA+ models of the part of it that is hard to get right by
testing -- who may build, start, serve, downgrade and remove a container while
everybody else does the same, how commits on GitHub become deployments, what
GitHub is told of their builds, what becomes of their databases, and how
certificates are ordered, written, served and renewed -- with TLC runs and TLAPS
proofs about them.

All paths below are relative to the repository (`src/...` is its Rust crate).

## 1. Inventory

| component | state | operations | talks to |
|---|---|---|---|
| background worker (`src/deployments/worker.rs`) | a bounded channel of `Notify`, the batch of the current round | `trigger`, `trigger_and_wait`, the loop | everybody who triggers |
| lazy container (`src/container/mod.rs`) | `status` and `result`, each behind its own lock, `last_access` | `access`, `start`, `build`, `enqueue`, `downgrade_if_unused` | docker, build worker, hooks |
| deployment map (`src/deployments/map.rs`, `manager.rs`) | `deployments`, `dbs`, `prod`, `names`, `custom_domains` behind one read-write lock | `read_db_and_build_updates`, `sync_with_db`, `full_sync_with_github`, lookups | database, containers, certificates, workers |
| build worker (`workers/build.rs`) | the container it is at | pick, build, sync | map, containers |
| docker worker (`workers/docker.rs`) | the ids it listed | list, check, stop and delete | docker, map |
| files worker (`workers/files.rs`) | none | looks for folders nobody uses; drops the futures that would remove them | map, disk |
| github worker (`workers/github.rs`) | none | one pass over the projects, insertion of missing commits | GitHub, database |
| status hooks (`src/hooks.rs`, `github.rs`) | a mutex around the bot, and what is on GitHub | result and build times of the row; comments and checks in spawned tasks | database, GitHub |
| database (`src/db/mod.rs`) | projects, deployments, env, domains, logs | one query per call, almost no transactions | |
| certificates (`src/tls/`) | the state of every domain (none, `Challenge`, `Ready`), the default certificate, two files per name | load at the start, `insert_domain` by a sync (a task that loads or orders), the renewing task, answers to challenges | Let's Encrypt, disk, proxy |
| proxy (`src/proxy.rs`, `listener.rs`, `label.rs`) | none of its own | resolve a host name, `access()`, forward | map, containers |
| branch databases (`src/sqlite_db.rs`, `container/sqld.rs`, `commit.rs`) | folders, one container per database | set up, clone file by file, serve | docker, disk, map |
| api (`src/api/`) | none of its own | create, update, delete, redeploy, sync, reads | database, manager |
| startup (`src/main.rs`) | | first full sync, proxy, api | |

How they interact: the api and the interval of `manager.rs:91` change rows and call
`sync_with_db`, which holds the map for writing while it makes the map follow the
database, queues production deployments found `Built`, downgrades idle containers,
and afterwards triggers the workers. The build worker builds one queued container
after the other with a sync after each. Requests look a container up under the read
lock of the map, keep an `Arc` of it, and then work on its status with no lock but
the one of the status, taken anew at every step. The docker worker removes every
docker container no `Ready` status remembers.

A full sync (`manager.rs:191-196`) waits for a pass of the github worker and then
syncs; main waits for one before the api starts. A sync also spawns a task for every
custom domain the certificate store does not have, and the store forgets none.

A hook of a build writes the row and spawns a task. The task waits for the one bot,
lists the open pull requests, and for each of the branch of the deployment reads the
comment of Prezel, which has a line per project, and writes it back; then it creates
or updates the check run of the commit. An error is logged or unwrapped, and nothing
is sent again. The build of a preview clones the production database before its status
becomes `Building`; from then on the status holds the container of the clone, and
whoever asks for the database of the preview finds it there.

What is hard: the status is written by four kinds of actor, and all of its writes
but one (the claim of a start) are unconditional; most decisions are taken on a
clone of the status; triggers may be dropped; any call of docker may fail; the
process may stop anywhere and finds only rows, files and docker containers when it
comes back; rows are looked up and inserted by separate queries; what is on GitHub is
read and written back by separate requests; a database is cloned file by file while
others write to it; a panic ends a task and nobody notices, be it that of the build
worker, of the docker worker, of the github worker or one that was spawned. What makes
each component correct:

- worker: no request is forgotten, an answer comes only from a run that began after
  the call;
- container: one start at a time, one build at a time and never both, until a request
  queues it late; a socket is answered only if something listened on it, what is served
  is on record;
- map: production follows the results and is never left to be built lazily;
- build worker: what is queued is picked in the end, unless a build panics;
- docker worker: what nobody holds is removed in the end, what somebody starts is not;
- github worker: a commit is deployed once, what a full sync was called for is on
  record when it is answered, and every head is in the end;
- status hooks: a pull request gets one comment and a commit one check run, no line of
  a project is lost to another project, what is shown is the row, the bot is never kept;
- branch databases: what is written to a database stays, a clone has every file of a
  state production was in and is made before anybody may write to it;
- files worker: it never takes a database from anybody;
- certificates: domains become ready, while there are syncs, and are renewed, a domain
  is stuck with a challenge only through a refusal, the two files of a name belong
  together.

PROJECT.json lists every hazard with its line; those without a property say why: most
of them are things that do go wrong, which the properties have to except.

## 2. Modules

| module | models | state and actions |
|---|---|---|
| `WorkerPromise` | what a worker promises, without its channel | calls, phase of the run, the calls it covers |
| `Worker` | `worker.rs` | `channel`, `loop`, `batch`, `waiter`; `TrySend` drops a message when the channel is full or the task dead |
| `LazyContainer` | the life a container is meant to have | `stage` and `owner` of a start, every move guarded; `Requeue` ends the life |
| `Container` | `container/mod.rs`, the requests | `status`, `idle` (a `last_access` over 30 s old), `docker`, one `pc` per request; one action per await of `access` and `start`; `late`, the containers a request has queued late |
| `DeploymentMap` | `map.rs`, `manager.rs`, `Deployment::new`, the deployments table | rows, results, `inMap`, `prod`; `sync` is the run that holds the map, and a reader of the map is an action with guard `MapReadable` |
| `Fleet` | everything above together with the build worker, `Container::build`, the hooks, the docker worker and a restart | `builder`, `cleaner`, which may be dead, `restarts`; fairness and properties |
| `FleetClaims` | what comments and docs say and the code does not keep | two properties of `Fleet` |
| `GithubSync` | `workers/github.rs`, the tables of `db/mod.rs`, the endpoints of the api that write them, main and the interval as callers | the variables of a `Worker`; `head`, `open` on GitHub; `project`, `rows`, `deleted`; the pass: `stage`, `todo`, `at`, `pulls`, `found`; one action per query or request |
| `Certificates` | `tls/`, `map.rs:142-149`, `proxy.rs:255-358` | `domains`; files `cert`, `key`; `pc` and `target` of every task; `todo` of the renewer, `up`, `served`; `interval`, whether the interval goes on; one action per await |
| `Notices` | `hooks.rs`, `github.rs` | `row`, `builder`; of every task `about`, `status`, `pc`, `turn`, `todo`, `at`, `read`, `found`; on GitHub `posted`, `ours`, `checks`; one action per hook and per request |
| `Databases` | `sqlite_db.rs`, `container/sqld.rs`, `workers/files.rs`, and what `map.rs` and `commit.rs` do with them | `rows`, `inMap`, `app`, `accessed`; `container` of every database; on disk `exists`, `content`; `builder`, which copies a file at a time and may die; of the clone of a preview, `raced` and `absent` |
| `WorkerProofs` | theorems about `Worker` | |
| `FleetProofs`, `ProdProofs`, `StartProofs` | theorems about `Fleet` | |
| `GithubProofs`, `CertificateProofs` | theorems about `GithubSync` and `Certificates` | |
| `NoticesProofs`, `DatabaseProofs` | theorems about `Notices` and `Databases` | |
| `MCWorker`, `MCFleet`, `MCNotices`, `MCDatabases` | instances for TLC | |

`Fleet` EXTENDS `DeploymentMap` EXTENDS `Container`. `Worker` INSTANCEs
`WorkerPromise` and `Fleet` INSTANCEs `LazyContainer`; each instance has a refinement
mapping, and the abstract specification is a property of a run. `GithubSync` INSTANCEs
`Worker` as the task around its passes: its actions conjoin those of `Worker`, and
`ImplementsWorker` says that nothing else moves the task.

`Notices` and `Databases` stand beside `Fleet`: the hooks are called from a build, and
the container of a database hangs on the status of its app, but neither ever changes
what `Fleet` is about. What they need of a build they have themselves: that it is one
at a time, and which statuses it writes.

A worker appears in `Fleet` as one bit, `buildSignal` or `cleanSignal`: "triggered
since the last run began". `Worker` justifies it: its `owed` is that bit, and
`OwedHasMessage` and `RequestsAreHonoured` say that the bit alone decides whether
another run follows, full channel or not. Nobody waits for an answer of these two.

A request that cloned the status `Built` writes `Queued` whatever the status has become
since (`container/mod.rs:376-397`). It comes late if the container is neither `Built` nor
`Queued` any more, and `late` remembers the container until the process restarts. What
`StartIsExclusive`, `BuildIsExclusive`, `ServedIsRecorded` and `LifeIsRespected` say is
said of a container until that happens to it, and of all the others after it has:
`OneStartAtATime` shows what comes of it. `late` decides nothing: no guard reads it.

The build of an image downloads the archive of the commit and unwraps what GitHub answers
(`github.rs:96-119`, from `container/commit.rs:128`), and so does the making of the docker
context (`docker.rs:226-228`). `BuildPanics`, in `Fleet` and in `Databases`, ends the task
of the build worker there: it is `dead` until the process restarts, and the status of the
container stays `Building`. In `Notices` nothing makes a build go on, so that one which
never ends is among its behaviours.

Definitions whose comment begins with `mutant:` are plausible bugs; they are part of no
specification and are substituted for the definition below them to see that a
property fails.

What is abstracted, and why it does not matter to the properties:

- images, env, host folders, commands, sockets: a docker container is an id, and a
  socket is the id it belongs to. An id nobody remembers may be issued again, which
  is more than docker does, so that a handful of ids stands for all of them;
- `last_access` is one bit per docker container, over 30 s or not; `trigger_access`
  is a number, later accesses having larger ones;
- a docker build is one step that succeeds, fails or panics;
- the row of a deployment is there, deleted or not yet there, with its result;
- a sync reads the rows and rebuilds the map in one step: rows inserted or deleted
  while it goes on are those of a later moment, and everybody who reads the map
  waits for the lock. The statuses, which have locks of their own, are read and
  written one by one, in two steps where the code takes two locks;
- `GithubSync` has one repository, which projects share as projects with different
  roots may; env and timestamps are left out, but the insertion of a row and of its
  env are two steps, since the foreign key may fail at either. `clone_deployment` is
  one step: a deletion in between comes to the same as one before or after it;
- in `Certificates` a certificate is its age, a key matches its certificate or not,
  and an order is the `pc` of its task. Let's Encrypt is nondeterministic: it may
  refuse anything, hand out an authorization that is valid already or one that
  another order shares, which `get_challenge` then waits for without end
  (`registration.rs:76`). Reading both files is one step;
- in `Notices` a comment is its number and its lines, a line is a status and the turn
  of the task that wrote it; the markdown and the JSON in the header are left out.
  What people write comes before the comment of Prezel, as many comments as
  `PostedBefore` allows: `list_comments` reads one page, the oldest comments, so that
  later ones change nothing, and if the page is full of others Prezel never finds its
  own and posts a new one at every status. A task asks for the bot in any order (tokio
  may run spawned tasks in any), and gets it in the order of asking (tokio's mutex is
  fair). All check runs of a commit are on one page;
- in `Databases` a file is the database that wrote it last, or it is `Empty` or
  `Missing`: a start makes those of `Base`, a transaction touches every file and makes
  what is missing of them, and `sqld` removes no file it has made. A start is one step,
  and `Building` and `StandBy` stand for every status that holds the container of the
  database. `accessed` is the order of the queued instants. The copy of a file is one
  step, which leaves alone what production does not have: `absent` remembers these files.
  That `recursive_copy` fails on a symbolic link that is there already is one of the
  errors `CopyFails` stands for. The `sqld` containers an earlier process left are
  not there: nothing connects to them.

## 3. Runs

| run | instance | properties |
|---|---|---|
| `worker` | 2 callers and plain triggers, channel of 3, batches of 2, panics | `TypeOK`, `OwedHasMessage`, `AnswersAreFresh` (implements `WorkerPromise`), `RequestsAreHonoured`, `AcceptedIsAnswered` |
| `fleet_core` | 1 deployment not in production, any row, 2 requests, 1 docker id, 1 syncing task, builds and copies fail, docker does what it is asked to | `TypeOK`, `StartIsExclusive`, `BuildIsExclusive`, `ServedIsRecorded`, `SocketWasOnline`, `LifeIsRespected` (implements `LazyContainer`) |
| `fleet_prod` | 2 deployments of the default branch, 1 request, any result in the rows, 1 restart | `ProdFollowsResults`, `ProdIsForced`, `QueuedIsAttended` |
| `fleet_live` | 1 deployment, any row, 1 request, 1 id, docker and copies of databases fail, containers exit, under `FairSpec` | `QueuedIsBuilt`, `LeaksAreCollected` |
| `github` | 1 project, a default and a pull branch, 2 commits, 3 ids, main and the interval as callers, 1 event, 1 refusal, 1 edit, under `FairSpec` | `TypeOK`, `OneRowPerCommit`, `AnsweredIsOnRecord`, `ImplementsWorker` (implements `Worker`), `ApiStarts`, `HeadsAreRecorded` |
| `certificates` | 1 custom domain and the default one, 2 ordering tasks, the renewer, 2 failures or crashes, under `FairSpec` | `TypeOK`, `NoStrandedChallenge`, `PairsMatch`, `DomainsSettle`, `ExpiringIsRenewed` |
| `notices` | a deployment of each of 2 projects, 1 pull request, 1 commit, 3 tasks, pages of 2, none or 2 comments before, 1 crash, under `FairSpec` | `TypeOK`, `OneCommentPerPage`, `OneCheckRun`, `GithubTellsTheRow`, `NoticesEnd`, `LinesMoveForward` |
| `databases` | 2 previews and a production deployment, 2 files, of which a start makes 1, 2 upsets (deletions, failed clones, late requeues, restarts) | `TypeOK`, `ProductionIsPreserved`, `PreviewIsPreserved`, `CloneWasProduction`, `NoCloneUnderServer` |
| `claim_docker_worker` | a deployment in production and its database, 1 request, 1 id, nothing fails | violated: `StartedIsNotRemoved` |
| `claim_two_starts` | 1 deployment with a built row, 2 requests, 2 ids, nothing fails | violated: `OneStartAtATime` |
| `claim_renewed` | as `certificates` | violated: `ServedIsRenewed` |
| `claim_pushed` | as `github`, no refusals | violated: `PushIsProduction` |

Bounds. A container's status is written by requests, a sync, a build and (by removing
what it stands for) the docker worker; two requests on one container show every pair of
them, and other containers add nothing since no write depends on another container. One
docker id is enough where a start excludes another: an id that was left behind is
removed and issued again, and a start that finds none waits. Docker fails in
`fleet_live`, and in the theorems; in `fleet_core` a start fails when the docker worker
has removed its container. Where two starts do meet, in `claim_two_starts`, there are
two. A channel of three with batches of two is the smallest in which a full channel, a
batch that leaves something behind and a message of nobody occur together. Two
deployments and one restart are enough for production to move by a build, a failure, an
insertion and a deletion. `MaxInstant` bounds the instants queued accesses carry;
`fleet_prod` has two, so that the older access is picked first. `fleet_prod` has no
docker ids: starts stop at `create_container` there, and are the business of the other
runs. Containers of production databases (`ProdDbs`) are in the instance of
`claim_docker_worker` alone, whose run is over when it finds what it looks for; the
theorems about `Fleet` are about any number of them.

`github`: a commit reached from two branches needs two branches and two commits, a copy
needs a third id, a call that comes while a pass is under way needs two callers (main
goes on to be a handler of the api once that is up), and one push, one refusal, one
deletion or redeployment each may fall between any two steps. The channel is as long as
there are callers, so that no message is dropped: the real one holds a thousand, and a
dropped message of `trigger_and_wait` is the business of `worker`. The run starts from
empty tables; the theorems also allow rows an earlier process left. `certificates`:
domains meet only in the loop of the renewer, so one custom domain and the default one
show every overlap; two tasks are the fewest that disturb each other, two faults are a
failure and a crash in either order. `notices`: two tasks of one project and one of
another is the least in which a line is overwritten, kept for somebody else and told out
of order; a page of two full of other comments is the case in which Prezel does not find
its own. Pull requests are told one after the other by the task that has the bot, so
that a second one adds nothing but length. `databases`: two previews compete for the
build worker and share nothing but production; two files are the fewest a clone can be
torn between, and the fewest of which production may have one and an earlier process
have left the other; two upsets let a clone fail and the process restart, or a preview
be requeued late and deleted. The previews are alike, and TLC takes them as symmetric.

The four violated runs are disagreements between the code and what it says of
itself, quoted under "findings" in PROJECT.json:

- the docker worker removes containers that are being started (`workers/docker.rs:18`
  asks not to);
- two requests create docker containers for the same container at the same time
  (`container/mod.rs:129` says they should not): the one that queues it late has it built
  again while the start of the other goes on (`container/mod.rs:392`);
- the listener goes on with the default certificate it copied at the start, which
  `renew` replaces in the store and on disk only (`proxy.rs:315`; `tls/mod.rs:76` says
  that certificates are renewed);
- a commit that was deployed for a pull request is never deployed again when the
  default branch is moved to it (`workers/github.rs:67`), so that this push makes no
  production deployment (`docs/pages/deployments.mdx:8`).

More things the models show go wrong, without a run of their own:

- what comes of a late requeue besides a second start: the container is built while it
  serves, a build may fail of it and put that on record, and the status the end of the
  build writes is not the one it found. In `Databases` the same requeue clones production
  over the database of a preview that is being served: there, too, `late` names the
  previews it has come to, and what is said of previews is said of the others;
- a failed start leaves `Starting` behind, and everybody who comes later waits for ever
  (the FIXME of `container/mod.rs:333`); `Fleet` has it so, and no property says that a
  request ends;
- a refused archive ends the build worker (`github.rs:104`), and nothing is built until
  the process restarts; a failed listing ends the docker worker (`workers/docker.rs:19`);
  a foreign key that fails ends the github worker, and with it the interval of
  `manager.rs:91`, whose next full sync is never answered;
- the database of a production deployment is never downgraded: only the databases of
  previews are visited (`map.rs:295`), while `docs/pages/databases.mdx:12` has all of them
  scale to zero.

What `notices` and `databases` show of limits nobody wrote down: a preview that an earlier
process built is cloned over, and its data lost, at the first build after a restart
(`sqlite_db.rs:76`); files of it that production does not have stay where they are
(`sqlite_db.rs:185-202` removes nothing), so that such a clone may be a mixture, and the
whole of the old database where production was never started; a clone made while
production is written is torn between two of its states (`raced`); a crash or a panic
between the row and the task leaves GitHub at "Building" (`silent`); and a clone that
keeps failing keeps the build worker, which finds the same preview first again
(`container/mod.rs:234`).

## 4. Fairness

`SyncsEnd`, `BuilderRuns`, `CleanerRuns`, `RequestsRun` in `Fleet`:

- weak fairness for the steps of a task that waits for nothing: tokio polls every
  task that is ready;
- strong fairness where a task waits for the map: tokio's `RwLock` queues waiters in
  the order they came, so that a waiter gets it however often others do;
- strong fairness for `RemoveContainer`, docker does not refuse for ever, and for the
  success of `SetupDb`, a folder does not fail to be copied for ever: the build worker
  picks the same container again and again (`container/mod.rs:234`), and it is the retries
  that `QueuedIsBuilt` is about;
- none for the arrival of requests or of syncs, the end of an answer, failures, panics,
  rows or time.

`LeaksAreCollected` needs syncs, since nothing else triggers the docker worker, and no
fairness gives them: the interval of `manager.rs:91` waits for the github worker at every
round, and ends when that is dead. The property says so itself: `SyncsGoOn`, that is,
again and again somebody is past a `sync_with_db`, is its hypothesis. It excuses a
docker worker that has died (`workers/docker.rs:19`), as `QueuedIsBuilt` and
`QueuedIsAttended` excuse a build worker that has.

In `Worker`, weak fairness of the task alone. In `GithubSync`, weak fairness of the
task, of the return of an answered call, of the first call of main and of every call of
the interval, which calls again as soon as it may; none for GitHub, the api or handlers,
and refusals are bounded: requests succeed in the end. In `Certificates`, weak fairness
of every task, of the renewer, of the proxy's start and, while the interval goes on (a
full sync every five minutes), of `InsertDomain` for every domain that is to be
inserted; `IntervalStops` may end it at any moment, and `DomainsSettle` promises nothing
from then on, `ExpiringIsRenewed` nothing of a domain that a restart has made unknown.
None for failures, time and restarts, which are bounded. In `Notices`, weak fairness of
each spawned task: every request is answered or fails, and the mutex is handed on in
turn; none for the builds, so that nothing says a hook is reached. `Databases` has no
liveness of its own and no fairness: that a queued container is built though copies fail
is `QueuedIsBuilt` of `Fleet`.

## 5. Proofs

All for every value of the constants under the named assumptions of the modules
(`WorkerConstants`, `ContainerConstants`, `MapConstants`, `FleetConstants`,
`GithubConstants`, `CertificateConstants`, `NoticeConstants`, `DatabaseConstants`), which
are about the shape of the constants only.

| theorem | says | module |
|---|---|---|
| `TypesAreCorrect` | `Spec => []TypeOK` | `FleetProofs` |
| `QueuedIsNeverForgotten` | `Spec => []QueuedIsAttended` | `FleetProofs` |
| `ProdFollowsTheBuilds` | `Spec => []ProdFollowsResults` | `ProdProofs` |
| `ProdIsNeverLazy` | `Spec => []ProdIsForced` | `ProdProofs` |
| `SocketsWereOnline` | `Spec => []SocketWasOnline` | `StartProofs` |
| `StartsAreExclusive` | `Spec => []StartIsExclusive` | `StartProofs` |
| `BuildsAreExclusive` | `Spec => []BuildIsExclusive` | `StartProofs` |
| `ServedAreRecorded` | `Spec => []ServedIsRecorded` | `StartProofs` |
| `LivesAreRespected` | `Spec => LifeIsRespected`, the refinement of `LazyContainer` | `StartProofs` |
| `FirstLifeIsNeverLate` | `FirstLife` implies `Spec => [](late = {})` | `StartProofs` |
| `WorkerTypesAreCorrect` | `Spec => []TypeOK` | `WorkerProofs` |
| `NoRequestIsForgotten` | `Spec => []OwedHasMessage` | `WorkerProofs` |
| `WorkerKeepsPromise` | `Spec => AnswersAreFresh`, the refinement of `WorkerPromise` | `WorkerProofs` |
| `GithubTypesAreCorrect` | `Spec => []TypeOK` | `GithubProofs` |
| `GithubImplementsWorker` | `Spec => ImplementsWorker`, the refinement of `Worker` | `GithubProofs` |
| `FullSyncsAreFresh` | `AnswersAreFresh` and `[]OwedHasMessage` of the `Worker` in `GithubSync` | `GithubProofs` |
| `CommitsAreDeployedOnce` | `Spec => []OneRowPerCommit` | `GithubProofs` |
| `AnswersAreOnRecord` | `Spec => []AnsweredIsOnRecord` | `GithubProofs` |
| `CertificateTypesAreCorrect` | `Spec => []TypeOK` | `CertificateProofs` |
| `ChallengesAreNotStranded` | `Spec => []NoStrandedChallenge` | `CertificateProofs` |
| `PairsBelongTogether` | `Spec => []PairsMatch` | `CertificateProofs` |
| `NoticesTypesAreCorrect` | `Spec => []TypeOK` | `NoticesProofs` |
| `CommentsAreNotDoubled` | `Spec => []OneCommentPerPage` | `NoticesProofs` |
| `ChecksAreNotDoubled` | `Spec => []OneCheckRun` | `NoticesProofs` |
| `LinesAreNotLost` | `Spec => LinesMoveForward` | `NoticesProofs` |
| `GithubShowsTheRow` | `Spec => []GithubTellsTheRow` | `NoticesProofs` |
| `DatabaseTypesAreCorrect` | `Spec => []TypeOK` | `DatabaseProofs` |
| `ProductionStays` | `Spec => []ProductionIsPreserved` | `DatabaseProofs` |
| `PreviewsStay` | `Spec => []PreviewIsPreserved` | `DatabaseProofs` |
| `ClonesAreNotServed` | `Spec => []NoCloneUnderServer` | `DatabaseProofs` |
| `ClonesAreWhole` | `Spec => []CloneWasProduction` | `DatabaseProofs` |

The arguments:

- `TypeInv` is `TypeOK` and `IdsKnown`: whoever holds a docker container holds a real
  id, which `TypeOK` alone does not say and a step needs.
- `QueuedIsAttended` is inductive with `SyncHasOwner`: a sync may queue a container
  long before its task triggers, so the invariant must know which task it is. The
  step where the build worker rests needs that `ToBuild` is empty only if nothing is
  queued, which is that natural numbers have a least element (`QueuedIsPicked`). A panic
  of a build takes the property's own exception, and a restart empties the map.
- `ProdFollowsResults` holds because only a sync changes the map and `prod` together,
  and only the build worker changes a result, on its way to a sync.
- `ProdIsForced` follows from what a sync has left to do: every production container
  it has not visited is in `todo`, and nobody writes `Built`.
- `SocketWasOnline` needs that an id being started is known to nobody else, since ids
  are issued again (`SocketInv`).
- `StartsAreExclusive`, `BuildsAreExclusive`, `ServedAreRecorded` and
  `LivesAreRespected` are about every behaviour, with any number of restarts and
  whatever the rows say, and about the containers no request has queued late. Two
  invariants carry them. `LoadedInv` is about all containers: who holds one, the build
  worker, the sync or a request, holds one that a sync has loaded, so that a late
  requeue is never of one that has yet to be. `LifeInv` says that the sync, whose writes
  are unconditional too, is never late itself: what it is about to queue is `Built`, or
  `Queued` by somebody else, and not what the build worker has in hand; what it is about
  to downgrade is `Ready`; each unless a request came late in between. It says as well
  that a container not in the map yet is touched by nobody. That a container which goes
  to `Queued` from either state has neither an owner nor a build is `QueueIsFree`.
  `late` only grows until a restart, so that a step is late for a container, or finds it
  as `LifeInv` says.
- `FirstLifeIsNeverLate`: if no row is found built and the process does not restart,
  nobody ever reads `Built`, because only `Deployment::new` writes it, for a container
  that was not loaded, and a result is recorded for loaded containers only
  (`NeverRequeued`). The four theorems then hold of every container.
- `ServedAreRecorded` is inductive with `BuildRecorded`, which follows the build worker
  through its three writes (row, result, status), and with `LifeInv`, since a second
  start or build of the container in between would write over it: a container that is
  late is excepted from both.
- `LivesAreRespected` maps the status of a container to a stage and the request that owns
  its start to the owner. `LifeInv` gives for every unconditional write the stage it
  starts from, and the one owner without whom the CHOOSE in `OwnerOf` would say nothing
  (`OwnerIs`, `OwnersKept`). A late requeue is the step `Requeue`, and whatever happens to
  a container after it is a stutter (`LateStutters`).

- `OwedHasMessage` is inductive by itself with the types: a send that is dropped found
  a full channel, which is not empty since its capacity is positive (`SendAppends`).
- `WorkerKeepsPromise` needs `SentInv`: a message of a caller is in one place only, and
  its caller still waits or has gone away. Otherwise a message left over from an
  abandoned call could answer the next call of the same caller (`MessagesAreSentOnce`).
- `GithubImplementsWorker` maps every step to a step of `Worker` or a stutter, so that
  `MessagesAreSentOnce` holds of `GithubSync` as well, by instance.
- `FullSyncsAreFresh` follows in the same way: `Spec` implies the specification of its
  `Worker` (`TheoremsOfWorkerHold`), which implements `WorkerPromise`.
- `OneRowPerCommit` is inductive with `FoundInv`: between the look and the insertion
  (`workers/github.rs:66-73`) the commit is still not on record, because nobody but this
  task inserts a commit that was not: a redeployment copies a row that is there.
- `AnsweredIsOnRecord` is inductive with `AnswerInv`: whatever a caller of the batch
  counts on is on record, or `Pending` -- the pass has yet to read the projects, to come
  to this one, to read its pulls, to come to the branch, or holds the commit in its
  hands. A pass that ends has nothing pending. `MessagesAreSentOnce` keeps a new call of
  the same caller out of the batch.
- `NoStrandedChallenge`: a task that lost its challenge to another one fails, but what
  is left in the map is the challenge of the other one; only the task whose challenge is
  in the map can strand it, and it leaves that state by publishing or by failing.
- `PairsMatch` is inductive with `WriterInv`: the certificate on disk is of the last who
  wrote it, and whoever finds another writer between its two files marks the pair torn.
- `CommentsAreNotDoubled`, `ChecksAreNotDoubled` and `LinesAreNotLost` come from one
  invariant, `NoticeInv`. The task beyond its first request is the one with the earliest
  turn of those that ask (`Holder`), so it is alone (`OnlyHolder`); what it has read of
  the page or of the check runs is still there when it writes (`ReadIsThere`,
  `CheckIsThere`), because nobody else writes; and no line is younger than a task that
  may yet write (`LinesInTurn`), so that what it writes is never older than what it
  replaces.
- `GithubShowsTheRow` (`TellInv`, beyond `NoticeInv`): every line on GitHub is the line of
  a task that came to the bot (`LinesOfTasks`); where a task has written, the line is
  its own or of a later turn (`ToldStays`), since no line gets older; and the last task
  about a deployment carries the status of the row, unless a change has yet to be told
  or never will be (`LastCarriesRow`). A line later than the last task about a
  project would be that of a task about the same project which came later, and there is
  none.
- `ProductionStays`: no step removes a folder (`FoldersStay`), a clone writes to a
  preview (`BuildIsOfPreview`), and the container of production is only there with its
  folder. Were the removal of the files worker awaited, it would not hold.
- `PreviewsStay` and `ClonesAreNotServed` are inductive with `Fresh`: what is `Queued` or
  `Built` has no container and nothing committed to it, since a build that got as far as
  a container leaves `Building`, `StandBy` or `Failed`, never `Queued` (`AfterBuild`).
- `ClonesAreWhole` (`CloneInv`): while the clone goes on, a file that has been copied
  equals that of production, and one that was passed over is one production still does
  not have, unless somebody wrote to production, who then marks it raced (`Copied`).
  Production is of one state at a time: all of its files written, or none (`Whole`).
  What is left at the destination was left by nobody but an earlier life of the same
  preview (`Owned`).

Only model-checked: liveness (`QueuedIsBuilt`, `LeaksAreCollected`,
`RequestsAreHonoured`, `AcceptedIsAnswered`, `DomainsSettle`, `ExpiringIsRenewed`,
`ApiStarts`, `HeadsAreRecorded`, `NoticesEnd`), which the prover cannot do. Every safety
property of a run that holds is also proved.

## 6. What is assumed

Queries of the database do not fail (a failed one panics in the code). The map lock is
fair. `is_container_in_use` and `get_container_to_build` look at every container in one
step: they hold the map for reading and each status for a moment only, so they could see
two statuses of different moments; the choice of the build worker and the verdict of the
docker worker are each about one container, whose status is read once. The future of a
request is not dropped half way: the proxy runs it to its end. A `Ready` status is
believed after its docker container has stopped by itself (`access` has only the status
to go by, `container/mod.rs:351-362`): the model does so too, and `SocketWasOnline` says
no more than that something listened once.

GitHub's answers are complete and well-formed: all open pull requests are on the first
page, default branch and owner are there (their absence would panic as a foreign key
does). Queries of `GithubSync` do not fail but for foreign keys. Names and domains of
projects are unique, as the tables demand. In `Notices` comments of Prezel can be
decoded (the token in their header is written by Prezel alone), queries of the row
succeed, and nobody but Prezel deletes or edits its comment. In `Databases` nobody but
its `sqld` writes to a database or removes its files, and a commit is on disk when it is
answered.

## 7. Plan

Written: the worker, the containers, the map, the build, docker, files and github
workers, the production choice, the tables, the certificates, the notices of the hooks,
the branch databases; four claims, 31 theorems. What would come next:

1. the labels of host names as operators, with their round trip, and the choice of the
   production deployment by the api (`api/utils.rs:11`) against the one of the map: the
   two look at different columns, and no line of the repository says that they agree;
2. env in `GithubSync` and `DeploymentMap`, if a property is found that the code keeps: a
   row and its env are inserted by several queries (`db/mod.rs:303`, `537`), and a sync in
   between loads the one without the other.

## 8. Not modelled

The upgrade through a helper container, logs, traces, tokens, paths, configuration,
OpenAPI (pure I/O, or data no property is about); in the api its reads and the names and
domains of a project. Names of projects and the lookup of custom domains are left out of
the map: both are unique in their tables, and only the choice of what to answer a host
name with would tell them apart. In the proxy the forwarding itself is left out: a
request is over when it pleases. Of the branch databases the tokens are left out, and a
symbolic link is a file like another.
