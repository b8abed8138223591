----------------------------- MODULE GithubSync -----------------------------
(* deployments/workers/github.rs with those who call it and those who write  *)
(* the same tables: the github worker goes over the projects, looks up on    *)
(* GitHub the last commit of the default branch and of every open pull       *)
(* request, and inserts a deployment for a commit the project has none of.   *)
(* main, the interval of manager.rs and the api wait for such a pass, while  *)
(* the api inserts and deletes projects and deployments.                     *)
(*                                                                           *)
(* The task around a pass is the one of Worker.  All projects here are of    *)
(* one repository, as projects with different roots may be.                  *)
EXTENDS Naturals, Sequences, SequencesExt, FiniteSets

CONSTANTS
    Projects,
    Branches,
    Main,           \* the default branch
    PullBranches,   \* those a pull request may be opened for
    Commits,
    Ids,            \* ids of rows of the deployments table
    NoRow,          \* what an id without a row has
    Interval,       \* the task that calls a full sync every five minutes
    Startup,        \* main, which calls it once, and later a handler of the api
    Handlers,       \* more handlers of the api that call it at a time
    NoWaiter, Capacity, BatchSize,      \* see Worker
    MaxFound,       \* bound on the rows an earlier process has left
    MaxEvents,      \* bound on what happens to the branches
    MaxRefusals,    \* bound on requests GitHub does not answer
    MaxEdits        \* bound on the deleted and redeployed deployments at a time

Callers == Handlers \union {Startup, Interval}
Row == [project : Projects, sha : Commits, production : BOOLEAN, clone : BOOLEAN]

ASSUME GithubConstants ==
    /\ Main \in Branches
    /\ PullBranches \subseteq Branches
    /\ Projects # {}
    /\ NoRow \notin Row
    /\ Startup # Interval
    /\ {Startup, Interval} \cap Handlers = {}
    /\ NoWaiter \notin Callers
    /\ Capacity \in Nat \ {0}
    /\ BatchSize \in Nat \ {0}
    /\ MaxFound \in Nat /\ MaxEvents \in Nat /\ MaxRefusals \in Nat /\ MaxEdits \in Nat

VARIABLES
    channel, loop, batch, waiter, owed,     \* see Worker
    head,       \* on GitHub: the last commit of every branch
    open,       \* on GitHub: the branches of the open pull requests
    project,    \* the projects table: "none", "live" or "deleted"
    rows,       \* the deployments table
    deleted,    \* the ids of the rows with its column `deleted' set
    stage,      \* where the pass of the worker is
    todo,       \* the projects of its get_projects() it has yet to look at
    at,         \* the project it looks at
    pulls,      \* the branches of get_open_pulls() it has yet to look at
    found,      \* the deployment it is about to insert unless it is there
    api,        \* run_api_server has been called
    expects,    \* history: what each caller counts on to be on record
    events, refusals        \* history: how often so far

workerVars == <<channel, loop, batch, waiter, owed>>
github == <<head, open>>
tables == <<project, rows, deleted>>
pass == <<stage, todo, at, pulls, found>>
counts == <<events, refusals>>
vars == <<workerVars, github, tables, pass, api, expects, counts>>

W == INSTANCE Worker WITH
        Waiters <- Callers, HasTriggers <- FALSE, WorkMayPanic <- TRUE

Stages == {"idle", "projects", "project", "default", "check", "insert", "env",
           "pulls", "pull"}

TypeOK ==
    /\ head \in [Branches -> Commits]
    /\ open \subseteq PullBranches
    /\ project \in [Projects -> {"none", "live", "deleted"}]
    /\ rows \in [Ids -> Row \union {NoRow}]
    /\ deleted \subseteq Ids
    /\ stage \in Stages
    /\ stage = "idle" <=> loop # "work"
    /\ todo \subseteq Projects
    /\ at \in Projects
    /\ pulls \subseteq PullBranches
    /\ found \in Row \union {NoRow}
    /\ api \in BOOLEAN
    /\ expects \in [Callers -> SUBSET (Projects \X Branches)]
    /\ events \in 0..MaxEvents
    /\ refusals \in 0..MaxRefusals

Live == {p \in Projects : project[p] = "live"}
Used == {i \in Ids : rows[i] # NoRow}

LiveHashExists(p, c) ==   \* mutant: asks for rows that are not deleted
    \E i \in Used \ deleted : rows[i].project = p /\ rows[i].sha = c

(* hash_exists_for_project, which asks for any row, deleted or not.          *)
OnRecord(p, c) == \E i \in Used : rows[i].project = p /\ rows[i].sha = c

HashExists(p, c) == OnRecord(p, c)

(* The worker makes at most one deployment of a commit for a project, though *)
(* it looks and inserts in two queries (workers/github.rs:66-73): one that   *)
(* somebody has deleted does not come back by itself, and what several       *)
(* branches, passes and processes find is deployed once.  A second one is a  *)
(* redeployment.                                                             *)
OneRowPerCommit ==
    \A i, j \in Used :
        /\ rows[i].project = rows[j].project
        /\ rows[i].sha = rows[j].sha
        /\ ~rows[i].clone /\ ~rows[j].clone
        => i = j

Init ==
    /\ W!Init
    /\ head \in [Branches -> Commits]
    /\ open \in SUBSET PullBranches
    /\ project \in [Projects -> {"none", "live"}]
    /\ rows \in [Ids -> Row \union {NoRow}]
    /\ Cardinality(Used) <= MaxFound
    /\ \A i \in Used : rows[i].project \in Live /\ ~rows[i].clone
    /\ OneRowPerCommit
    /\ deleted \in SUBSET Used
    /\ stage = "idle"
    /\ todo = {}
    /\ at = CHOOSE p \in Projects : TRUE
    /\ pulls = {}
    /\ found = NoRow
    /\ api = FALSE
    /\ expects = [w \in Callers |-> {}]
    /\ events = 0 /\ refusals = 0

-----------------------------------------------------------------------------
(* GitHub: branches move, pull requests are opened and closed.  Nobody       *)
(* counts on what has changed since the call.                                *)

Unexpect(b) == expects' = [w \in Callers |-> expects[w] \ (Projects \X {b})]

BranchesChange ==
    /\ events < MaxEvents
    /\ events' = events + 1
    /\ UNCHANGED <<workerVars, tables, pass, api, refusals>>

Push(b, c) ==
    /\ BranchesChange
    /\ c # head[b]
    /\ head' = [head EXCEPT ![b] = c]
    /\ Unexpect(b)
    /\ UNCHANGED open

OpenPull(b) ==
    /\ BranchesChange
    /\ open' = open \union {b}
    /\ b \notin open
    /\ UNCHANGED <<head, expects>>

ClosePull(b) ==
    /\ BranchesChange
    /\ b \in open
    /\ open' = open \ {b}
    /\ IF b = Main THEN UNCHANGED expects ELSE Unexpect(b)
    /\ UNCHANGED head

-----------------------------------------------------------------------------
(* The callers of full_sync_with_github.                                     *)

(* main calls it once, the interval as soon as its last call has returned,   *)
(* handlers once the api is up.                                              *)
FullSync(w) ==
    /\ w \in Handlers => api
    /\ W!TriggerAndWait(w)
    /\ expects' = [expects EXCEPT ![w] = Live \X (open \union {Main})]
    /\ UNCHANGED <<github, tables, pass, api, counts>>

(* The call returns once sync_with_db has; after the one of main the api     *)
(* starts.                                                                   *)
FullSyncReturns(w) ==
    /\ W!Return(w)
    /\ api' = (api \/ w = Startup)
    /\ expects' = [expects EXCEPT ![w] = {}]
    /\ UNCHANGED <<github, tables, pass, counts>>

AbandonSync(w) ==
    /\ api
    /\ w # Interval
    /\ W!Abandon(w)
    /\ expects' = [expects EXCEPT ![w] = {}]
    /\ UNCHANGED <<github, tables, pass, api, counts>>

-----------------------------------------------------------------------------
(* The other endpoints.                                                      *)

ApiCall ==
    /\ api
    /\ UNCHANGED <<workerVars, github, pass, api, events, refusals>>

(* insert_project; create_project goes on with a full sync.  A project that  *)
(* is created again has another id.                                          *)
InsertProject(p) ==
    /\ ApiCall
    /\ project[p] = "none"
    /\ project' = [project EXCEPT ![p] = "live"]
    /\ UNCHANGED <<rows, deleted, expects>>

(* delete_project: the rows of its deployments go with it.                   *)
DeleteProject(p) ==
    /\ ApiCall
    /\ project[p] = "live"
    /\ project' = [project EXCEPT ![p] = "deleted"]
    /\ rows' = [i \in Ids |-> IF rows[i] # NoRow /\ rows[i].project = p
                              THEN NoRow ELSE rows[i]]
    /\ deleted' = {i \in deleted : rows'[i] # NoRow}
    /\ expects' = [w \in Callers |-> expects[w] \ ({p} \X Branches)]

Edits == Cardinality(deleted) + Cardinality({i \in Used : rows[i].clone})

DeleteDeployment(i) ==
    /\ ApiCall
    /\ Edits < MaxEdits
    /\ i \in Used \ deleted
    /\ deleted' = deleted \union {i}
    /\ UNCHANGED <<project, rows, expects>>

NewId == CHOOSE i \in Ids : i \notin Used
InsertDeployment(r) == rows' = [rows EXCEPT ![NewId] = r]

(* clone_deployment reads the deployment and its project and inserts a copy. *)
(* One step: a deletion of the project in between makes it fail, as if it    *)
(* had not been called; one of the deployment could as well come afterwards. *)
Redeploy(i) ==
    /\ ApiCall
    /\ i \in Used \ deleted
    /\ Edits < MaxEdits
    /\ Used # Ids
    /\ InsertDeployment([project |-> rows[i].project, sha |-> rows[i].sha,
                         production |-> rows[i].production, clone |-> TRUE])
    /\ UNCHANGED <<project, deleted, expects>>

-----------------------------------------------------------------------------
(* A pass of the worker.                                                     *)

PassRuns ==
    UNCHANGED <<workerVars, github, project, deleted, api, events>>

(* GitHub answers, or it does not and those the pass is for cannot count on  *)
(* what was asked.                                                           *)
Answered == UNCHANGED <<refusals, expects>>
Refused(what) ==
    /\ refusals < MaxRefusals
    /\ refusals' = refusals + 1
    /\ expects' = [w \in Callers |->
                      IF Contains(batch, w) THEN expects[w] \ what ELSE expects[w]]

BeginPass ==
    /\ W!RecvMany
    /\ stage' = "projects"
    /\ UNCHANGED <<github, tables, todo, at, pulls, found, api, expects, counts>>

SpawnPass ==          \* mutant: work() spawns the pass and returns
    /\ stage = "projects"
    /\ stage' = "project"
    /\ todo' = Live
    /\ W!WorkEnds
    /\ UNCHANGED <<github, tables, at, pulls, found, api, expects, counts>>

GetProjects ==
    /\ stage = "projects"
    /\ stage' = "project"
    /\ todo' = Live
    /\ PassRuns /\ Answered
    /\ UNCHANGED <<rows, at, pulls, found>>

NextProject(p) ==
    /\ stage = "project"
    /\ p \in todo
    /\ at' = p
    /\ todo' = todo \ {p}
    /\ stage' = "default"
    /\ PassRuns /\ Answered
    /\ UNCHANGED <<rows, pulls, found>>

Deployment(p, b, isDefault) ==
    [project |-> p, sha |-> head[b], production |-> isDefault, clone |-> FALSE]

SkipRefused ==        \* mutant: goes to the next project when one call is refused
    /\ stage = "default"
    /\ \/ /\ Answered
          /\ found' = Deployment(at, Main, TRUE)
          /\ stage' = "check"
       \/ /\ Refused({<<at, Main>>})
          /\ stage' = "project"
          /\ UNCHANGED found
    /\ PassRuns
    /\ UNCHANGED <<rows, todo, at, pulls>>

UnwrapRefused ==      \* mutant: unwraps the answer of GitHub
    /\ stage = "default"
    /\ \/ /\ Answered
          /\ found' = Deployment(at, Main, TRUE)
          /\ stage' = "check"
          /\ PassRuns
       \/ /\ Refused({})
          /\ W!WorkPanics
          /\ stage' = "idle"
          /\ UNCHANGED <<github, project, deleted, found, api, events>>
    /\ UNCHANGED <<rows, todo, at, pulls>>

GetDefaultBranch ==
    /\ stage = "default"
    /\ \/ /\ Answered
          /\ found' = Deployment(at, Main, TRUE)
          /\ stage' = "check"
       \/ /\ Refused({<<at, Main>>})
          /\ stage' = "pulls"
          /\ UNCHANGED found
    /\ PassRuns
    /\ UNCHANGED <<rows, todo, at, pulls>>

(* Where the pass goes on after add_deployment_to_db_if_missing.             *)
Added ==
    /\ stage' = IF found.production THEN "pulls" ELSE "pull"
    /\ found' = NoRow

NothingNew ==         \* mutant: a commit that is on record ends the project
    /\ stage = "check"
    /\ stage' = IF HashExists(found.project, found.sha) THEN "project" ELSE "insert"
    /\ PassRuns /\ Answered
    /\ UNCHANGED <<rows, todo, at, pulls, found>>

CheckHash ==
    /\ stage = "check"
    /\ IF HashExists(found.project, found.sha)
       THEN Added
       ELSE stage' = "insert" /\ UNCHANGED found
    /\ PassRuns /\ Answered
    /\ UNCHANGED <<rows, todo, at, pulls>>

(* The row, then its env: two queries at least.  A project that is no more   *)
(* fails the foreign key of either, and unwrap panics.                       *)
InsertMissing ==
    /\ stage = "insert"
    /\ found.project \in Live
    /\ Used # Ids
    /\ InsertDeployment(found)
    /\ stage' = "env"
    /\ PassRuns /\ Answered
    /\ UNCHANGED <<todo, at, pulls, found>>

InsertEnv ==
    /\ stage = "env"
    /\ Added
    /\ PassRuns /\ Answered
    /\ UNCHANGED <<rows, todo, at, pulls>>

ForeignKeyFails ==
    /\ stage \in {"insert", "env"}
    /\ found.project \notin Live
    /\ W!WorkPanics
    /\ stage' = "idle"
    /\ found' = NoRow
    /\ todo' = {} /\ pulls' = {}
    /\ UNCHANGED <<github, tables, at, api, expects, counts>>

GetOpenPulls ==
    /\ stage = "pulls"
    /\ \/ /\ Answered
          /\ pulls' = open
          /\ stage' = "pull"
       \/ /\ Refused({at} \X (Branches \ {Main}))
          /\ stage' = "project"
          /\ UNCHANGED pulls
    /\ PassRuns
    /\ UNCHANGED <<rows, todo, at, found>>

GetLatestCommit(b) ==
    /\ stage = "pull"
    /\ b \in pulls
    /\ pulls' = pulls \ {b}
    /\ \/ /\ Answered
          /\ found' = Deployment(at, b, FALSE)
          /\ stage' = "check"
       \/ /\ Refused({at} \X ({b} \ {Main}))
          /\ UNCHANGED <<found, stage>>
    /\ PassRuns
    /\ UNCHANGED <<rows, todo, at>>

PullsDone ==
    /\ stage = "pull"
    /\ pulls = {}
    /\ stage' = "project"
    /\ PassRuns /\ Answered
    /\ UNCHANGED <<rows, todo, at, pulls, found>>

RestAtOnce ==         \* mutant: waits for calls again without notifying
    /\ stage = "project"
    /\ todo = {}
    /\ stage' = "idle"
    /\ loop' = "recv"
    /\ batch' = <<>>
    /\ UNCHANGED <<channel, waiter, owed, github, tables, todo, at, pulls, found, api,
                   expects, counts>>

EndPass ==
    /\ stage = "project"
    /\ todo = {}
    /\ W!WorkEnds
    /\ stage' = "idle"
    /\ UNCHANGED <<github, tables, todo, at, pulls, found, api, expects, counts>>

Notify ==
    /\ W!NotifyOne \/ W!NextRound
    /\ UNCHANGED <<github, tables, pass, api, expects, counts>>

Adding == CheckHash \/ InsertMissing \/ InsertEnv \/ ForeignKeyFails
WorkerStep ==
    \/ BeginPass \/ GetProjects \/ GetDefaultBranch \/ GetOpenPulls \/ PullsDone
    \/ \E p \in Projects : NextProject(p)
    \/ \E b \in PullBranches : GetLatestCommit(b)
    \/ Adding \/ EndPass \/ Notify

Next ==
    \/ \E b \in Branches, c \in Commits : Push(b, c)
    \/ \E b \in PullBranches : OpenPull(b) \/ ClosePull(b)
    \/ \E w \in Callers : FullSync(w) \/ FullSyncReturns(w) \/ AbandonSync(w)
    \/ \E p \in Projects : InsertProject(p) \/ DeleteProject(p)
    \/ \E i \in Ids : DeleteDeployment(i) \/ Redeploy(i)
    \/ WorkerStep

Spec == Init /\ [][Next]_vars

(* The task goes on as long as it lives; main and the interval call and go   *)
(* on.  Nothing is assumed about the api and the branches.                   *)
Fairness ==
    /\ WF_vars(WorkerStep)
    /\ WF_vars(~api /\ FullSync(Startup))
    /\ WF_vars(FullSync(Interval))
    /\ \A w \in Callers : WF_vars(FullSyncReturns(w))

FairSpec == Spec /\ Fairness

-----------------------------------------------------------------------------
(* Properties.                                                               *)

(* When a full sync is answered (manager.rs:193-196), what was on GitHub when*)
(* it was called is on record: for every project there was at the call, also *)
(* one that was inserted just before (api/endpoints/apps.rs:109-110), the    *)
(* last commits of the default branch and of the open pull requests, but for *)
(* those that changed since, that GitHub did not tell, or whose project has  *)
(* been deleted since.                                                       *)
AnsweredIsOnRecord ==
    \A w \in Callers : waiter[w] = "answered" =>
        \A e \in expects[w] : OnRecord(e[1], head[e[2]])

(* Passes are runs of a Worker (deployments/worker.rs:22-39): what a pass    *)
(* does, and how it ends when it panics, changes nothing of what the task    *)
(* promises to its callers.                                                  *)
ImplementsWorker == W!Spec

(* The api starts (main.rs:59-64; tests/api.rs calls it test_startup_        *)
(* deadlocks): the full sync it waits for is answered, whatever GitHub does  *)
(* not answer, since nobody can delete a project under the worker yet.       *)
ApiStarts == <>api

(* The last commit of a branch is on record in the end if the branch stays   *)
(* as it is (manager.rs:89-96), though pull requests and handlers come and   *)
(* go and GitHub refuses, unless the task of the worker died.                *)
Wanted(p, b, c) == p \in Live /\ b \in open \union {Main} /\ head[b] = c
HeadsAreRecorded ==
    \A p \in Projects, b \in Branches, c \in Commits :
        Wanted(p, b, c) ~> (OnRecord(p, c) \/ ~Wanted(p, b, c) \/ loop = "dead")

(* "Production deployments are created when you push commits to the default  *)
(* branch" (docs/pages/deployments.mdx:8).                                   *)
PushIsProduction ==
    \A w \in Callers : waiter[w] = "answered" =>
        \A e \in expects[w] : e[2] = Main =>
            \E i \in Used : /\ rows[i].project = e[1]
                            /\ rows[i].sha = head[Main]
                            /\ rows[i].production
=============================================================================
