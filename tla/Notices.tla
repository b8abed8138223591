------------------------------- MODULE Notices -------------------------------
(* hooks.rs: what the hooks of a build write to the row of its deployment,   *)
(* and the task each of them spawns to tell it on github: for every open     *)
(* pull request of the branch of the deployment, the comment of Prezel, of   *)
(* one line per project, and the check run of the commit.  All the tasks     *)
(* share one bot, the mutex of github.rs; what one does is a sequence of     *)
(* requests, any of which may fail.                                          *)
EXTENDS Naturals

CONSTANTS
    Projects,       \* projects on one repository of github
    Deployments,    \* their deployments
    Pulls,          \* pull requests of the repository
    Shas,           \* its commits
    Branches,
    ProjectOf,      \* the project, the branch and the commit of a deployment
    BranchOf,
    ShaOf,
    HeadOf,         \* the branch of a pull request
    PageSize,       \* comments in the one page that list_comments reads
    MaxNotices,     \* bound on spawned tasks
    PostedBefore,   \* how many comments of people may precede that of Prezel
    MaxCrashes      \* bound on crashes of the process

ASSUME NoticeConstants ==
    /\ Deployments # {}
    /\ Pulls # {}
    /\ ProjectOf \in [Deployments -> Projects]
    /\ BranchOf \in [Deployments -> Branches]
    /\ ShaOf \in [Deployments -> Shas]
    /\ HeadOf \in [Pulls -> Branches]
    /\ PageSize \in Nat \ {0}
    /\ MaxNotices \in Nat
    /\ PostedBefore \subseteq Nat
    /\ MaxCrashes \in Nat

VARIABLES
    row,        \* what the columns of a deployment tell of its last build
    builder,    \* where the build worker is: one build at a time
    spawned,    \* tasks spawned so far, numbered in that order
    about,      \* the deployment and the status each task carries
    status,
    pc,         \* where each task is
    turn,       \* when each task asked for the bot: the mutex is fair
    asked,      \* tasks that have asked so far
    todo,       \* pull requests the task has yet to tell
    at,         \* the pull request it is telling
    read,       \* the comment it found there, if any
    found,      \* whether it found a check run
    told,       \* history: the tasks that wrote the comment of a pull
    marked,     \*   request, and those that wrote a check run
    posted,     \* comments on a pull request: they are numbered
    ours,       \* those of Prezel
    checks,     \* check runs of a commit for a project: how many, what status
    silent,     \* history: deployments whose last change was never told
    crashes     \* history: crashes so far

build == <<row, builder, silent>>
carried == <<about, status, spawned>>
line == <<turn, asked>>
work == <<todo, at, read, found>>
wrote == <<told, marked>>
comments == <<posted, ours>>
vars == <<build, carried, pc, line, work, wrote, comments, checks, crashes>>

Notices == 1..MaxNotices
Statuses == {"Building", "Ready", "Failed"}
Shown == Statuses \union {"none"}

(* A line of a comment or a check run: the status it shows, and, for the     *)
(* properties, the turn of the task that wrote it.                           *)
Lines == [status : Shown, turn : Nat]
NoLine == [status |-> "none", turn |-> 0]
Blank == [j \in Projects |-> NoLine]

(* A comment of Prezel: its number among those of the pull request, and the  *)
(* lines in the token of its header.                                         *)
Comments == [nr : Nat, lines : [Projects -> Lines]]
NoComment == [nr |-> 0, lines |-> Blank]

Project(n) == ProjectOf[about[n]]
LineOf(n) == [status |-> status[n], turn |-> turn[n]]

Asking == {"pulls", "next", "read", "write", "list", "check"}
Steps == Asking \union {"off", "spawned", "done"}

Idle == [step |-> "idle"]

TypeOK ==
    /\ row \in [Deployments -> Statuses \union {"new"}]
    /\ builder \in {Idle} \union [step : {"notify", "build"}, of : Deployments]
    /\ spawned \in 0..MaxNotices
    /\ about \in [Notices -> Deployments]
    /\ status \in [Notices -> Statuses]
    /\ pc \in [Notices -> Steps]
    /\ turn \in [Notices -> Nat]
    /\ asked \in Nat
    /\ todo \in [Notices -> SUBSET Pulls]
    /\ at \in [Notices -> Pulls]
    /\ read \in [Notices -> Comments]
    /\ found \in [Notices -> BOOLEAN]
    /\ told \in [Pulls -> SUBSET Notices]
    /\ marked \subseteq Notices
    /\ posted \in [Pulls -> Nat]
    /\ ours \in [Pulls -> SUBSET Comments]
    /\ checks \in [Shas -> [Projects -> [runs : Nat, line : Lines]]]
    /\ silent \subseteq Deployments
    /\ crashes \in 0..MaxCrashes

Init ==
    /\ row = [d \in Deployments |-> "new"]
    /\ builder = Idle
    /\ spawned = 0
    /\ about = [n \in Notices |-> CHOOSE d \in Deployments : TRUE]
    /\ status = [n \in Notices |-> "Building"]
    /\ pc = [n \in Notices |-> "off"]
    /\ turn = [n \in Notices |-> 0]
    /\ asked = 0
    /\ todo = [n \in Notices |-> {}]
    /\ at = [n \in Notices |-> CHOOSE p \in Pulls : TRUE]
    /\ read = [n \in Notices |-> NoComment]
    /\ found = [n \in Notices |-> FALSE]
    /\ told = [p \in Pulls |-> {}]
    /\ marked = {}
    /\ posted \in [Pulls -> PostedBefore]
    /\ ours = [p \in Pulls |-> {}]
    /\ checks = [s \in Shas |-> [j \in Projects |-> [runs |-> 0, line |-> NoLine]]]
    /\ silent = {}
    /\ crashes = 0

Goto(n, step) == pc' = [pc EXCEPT ![n] = step]

-----------------------------------------------------------------------------
(* The build worker and the hooks it calls.  A hook writes the row and then  *)
(* calls update_github, which spawns a task and returns.                     *)

StartsUnwritten(d) ==     \* mutant: the start is told and not written
    /\ builder = Idle
    /\ spawned < MaxNotices
    /\ builder' = [step |-> "notify", of |-> d]
    /\ silent' = silent \union {d}
    /\ UNCHANGED <<row, carried, pc, line, work, wrote, comments, checks, crashes>>

(* on_build_started clears the logs and the end of an earlier build; the     *)
(* columns now tell that the deployment is building.                         *)
OnBuildStarted(d) ==
    /\ builder = Idle
    /\ spawned < MaxNotices
    /\ builder' = [step |-> "notify", of |-> d]
    /\ row' = [row EXCEPT ![d] = "Building"]
    /\ silent' = silent \union {d}
    /\ UNCHANGED <<carried, pc, line, work, wrote, comments, checks, crashes>>

(* on_build_finished and on_build_failed.                                    *)
OnBuildEnded(result) ==
    /\ builder.step = "build"
    /\ spawned < MaxNotices
    /\ builder' = [step |-> "notify", of |-> builder.of]
    /\ row' = [row EXCEPT ![builder.of] = result]
    /\ silent' = silent \union {builder.of}
    /\ UNCHANGED <<carried, pc, line, work, wrote, comments, checks, crashes>>

(* The status is the one of the hook: it is captured here, with the task.    *)
UpdateGithub ==
    /\ builder.step = "notify"
    /\ spawned' = spawned + 1
    /\ about' = [about EXCEPT ![spawned + 1] = builder.of]
    /\ status' = [status EXCEPT ![spawned + 1] = row[builder.of]]
    /\ Goto(spawned + 1, "spawned")
    /\ builder' = IF row[builder.of] = "Building" THEN [step |-> "build", of |-> builder.of]
                                                 ELSE Idle
    /\ silent' = silent \ {builder.of}
    /\ UNCHANGED <<row, line, work, wrote, comments, checks, crashes>>

(* setup_db fails after on_build_started: the build ends without a hook.     *)
SetupFails ==
    /\ builder.step = "build"
    /\ builder' = Idle
    /\ UNCHANGED <<row, silent, carried, pc, line, work, wrote, comments, checks, crashes>>

-----------------------------------------------------------------------------
(* The task.                                                                 *)

(* allocate_bot: the mutex of tokio serves in the order of the requests, but *)
(* spawned tasks may come to it in any order.                                *)
AllocateBot(n) ==
    /\ pc[n] = "spawned"
    /\ asked' = asked + 1
    /\ turn' = [turn EXCEPT ![n] = asked + 1]
    /\ Goto(n, "pulls")
    /\ UNCHANGED <<build, carried, work, wrote, comments, checks, crashes>>

AnyBot(n) == pc[n] \in Asking       \* mutant: every task has a bot of its own

HasBot(n) ==
    /\ pc[n] \in Asking
    /\ \A m \in Notices : pc[m] \in Asking => turn[n] <= turn[m]

(* get_open_pulls, and the filter of the loop on the branch: whichever are   *)
(* open at that moment.                                                      *)
GetOpenPulls(n) ==
    /\ HasBot(n)
    /\ pc[n] = "pulls"
    /\ \E open \in SUBSET {p \in Pulls : HeadOf[p] = BranchOf[about[n]]} :
        todo' = [todo EXCEPT ![n] = open]
    /\ Goto(n, "next")
    /\ UNCHANGED <<build, carried, line, at, read, found, wrote, comments, checks, crashes>>

NextPull(n) ==
    /\ HasBot(n)
    /\ pc[n] = "next"
    /\ \E p \in todo[n] :
        /\ at' = [at EXCEPT ![n] = p]
        /\ todo' = [todo EXCEPT ![n] = todo[n] \ {p}]
    /\ Goto(n, "read")
    /\ UNCHANGED <<build, carried, line, read, found, wrote, comments, checks, crashes>>

(* The comments of Prezel in the first page of a pull request: the request   *)
(* asks for no other.                                                        *)
FirstPage(p) == {c \in ours[p] : c.nr <= PageSize}

ReadPullCommentWithPrefix(n) ==
    /\ HasBot(n)
    /\ pc[n] = "read"
    /\ \/ FirstPage(at[n]) = {} /\ read' = [read EXCEPT ![n] = NoComment]
       \/ \E c \in FirstPage(at[n]) :
            /\ \A o \in FirstPage(at[n]) : c.nr <= o.nr
            /\ read' = [read EXCEPT ![n] = c]
    /\ Goto(n, "write")
    /\ UNCHANGED <<build, carried, line, todo, at, found, wrote, comments, checks, crashes>>

OwnInfo(n) == [Blank EXCEPT ![Project(n)] = LineOf(n)]    \* mutant: its line only

(* info.insert(project_name, app_comment): the lines of the other projects   *)
(* stay as they were read.                                                   *)
UpdatedInfo(n) ==
    [j \in Projects |-> IF j = Project(n) THEN LineOf(n) ELSE read[n].lines[j]]

UpdatePullComment(n) ==
    /\ HasBot(n)
    /\ pc[n] = "write"
    /\ read[n].nr # 0
    /\ ours' = [ours EXCEPT ![at[n]] = {c \in ours[at[n]] : c.nr # read[n].nr}
                    \union {[nr |-> read[n].nr, lines |-> UpdatedInfo(n)]}]
    /\ told' = [told EXCEPT ![at[n]] = told[at[n]] \union {n}]
    /\ read' = [read EXCEPT ![n] = NoComment]
    /\ Goto(n, "list")
    /\ UNCHANGED <<build, carried, line, todo, at, found, marked, posted, checks, crashes>>

CreatePullComment(n) ==
    /\ HasBot(n)
    /\ pc[n] = "write"
    /\ read[n].nr = 0
    /\ posted' = [posted EXCEPT ![at[n]] = posted[at[n]] + 1]
    /\ ours' = [ours EXCEPT ![at[n]] = ours[at[n]]
                    \union {[nr |-> posted[at[n]] + 1, lines |-> UpdatedInfo(n)]}]
    /\ told' = [told EXCEPT ![at[n]] = told[at[n]] \union {n}]
    /\ Goto(n, "list")
    /\ UNCHANGED <<build, carried, line, todo, at, read, found, marked, checks, crashes>>

(* Neither call is checked: an error is dropped and the check run is next.   *)
CommentFails(n) ==
    /\ HasBot(n)
    /\ pc[n] = "write"
    /\ read' = [read EXCEPT ![n] = NoComment]
    /\ Goto(n, "list")
    /\ UNCHANGED <<build, carried, line, todo, at, found, wrote, comments, checks, crashes>>

ListPending(n) ==     \* mutant: looks for a check run that is in progress
    /\ HasBot(n)
    /\ pc[n] = "list"
    /\ found' = [found EXCEPT ![n] =
                    checks[ShaOf[about[n]]][Project(n)].line.status = "Building"]
    /\ Goto(n, "check")
    /\ UNCHANGED <<build, carried, line, todo, at, read, wrote, comments, checks, crashes>>

(* upsert_pull_check: the check run of this name for the commit, if any.     *)
ListCheckRuns(n) ==
    /\ HasBot(n)
    /\ pc[n] = "list"
    /\ found' = [found EXCEPT ![n] = checks[ShaOf[about[n]]][Project(n)].runs > 0]
    /\ Goto(n, "check")
    /\ UNCHANGED <<build, carried, line, todo, at, read, wrote, comments, checks, crashes>>

TryAgain(n) ==        \* mutant: an error sends the task back to the pull request
    /\ HasBot(n)
    /\ pc[n] = "list"
    /\ Goto(n, "read")
    /\ UNCHANGED <<build, carried, line, work, wrote, comments, checks, crashes>>

(* The errors upsert_pull_check returns are dropped: the next pull request.  *)
CheckFails(n) ==
    /\ HasBot(n)
    /\ pc[n] = "list"
    /\ Goto(n, "next")
    /\ UNCHANGED <<build, carried, line, work, wrote, comments, checks, crashes>>

InsertCheckRun(n) ==  \* mutant: leaves a check run that is there as it is
    LET s == ShaOf[about[n]]
    IN  /\ HasBot(n)
        /\ pc[n] = "check"
        /\ checks' = IF found[n] THEN checks ELSE
                        [checks EXCEPT ![s][Project(n)] = [runs |-> 1, line |-> LineOf(n)]]
        /\ marked' = marked \union {n}
        /\ found' = [found EXCEPT ![n] = FALSE]
        /\ Goto(n, "next")
        /\ UNCHANGED <<build, carried, line, todo, at, read, told, comments, crashes>>

UpsertCheckRun(n) ==
    LET s == ShaOf[about[n]]
        runs == checks[s][Project(n)].runs
    IN  /\ HasBot(n)
        /\ pc[n] = "check"
        /\ checks' = [checks EXCEPT ![s] = [checks[s] EXCEPT ![Project(n)] =
                        [runs |-> IF found[n] THEN runs ELSE runs + 1, line |-> LineOf(n)]]]
        /\ marked' = marked \union {n}
        /\ found' = [found EXCEPT ![n] = FALSE]
        /\ Goto(n, "next")
        /\ UNCHANGED <<build, carried, line, todo, at, read, told, comments, crashes>>

(* The task ends, of itself or at an unwrap: the row of the deployment, the  *)
(* open pull requests, the team, the comments, the check runs.  The guard of *)
(* the mutex is dropped with it.                                             *)
Ends(n) ==
    /\ HasBot(n)
    /\ pc[n] = "next" => todo[n] = {}
    /\ pc[n] # "write"
    /\ Goto(n, "done")
    /\ todo' = [todo EXCEPT ![n] = {}]
    /\ found' = [found EXCEPT ![n] = FALSE]
    /\ UNCHANGED <<build, carried, line, at, read, wrote, comments, checks, crashes>>

WithBot(n) ==
    \/ GetOpenPulls(n)
    \/ NextPull(n)
    \/ ReadPullCommentWithPrefix(n)
    \/ UpdatePullComment(n)
    \/ CreatePullComment(n)
    \/ CommentFails(n)
    \/ ListCheckRuns(n)
    \/ CheckFails(n)
    \/ UpsertCheckRun(n)
    \/ Ends(n)

-----------------------------------------------------------------------------
(* A crash of the process.                                                   *)

(* The tasks go with the process; the rows and what is on github stay.       *)
Restart ==
    /\ crashes < MaxCrashes
    /\ crashes' = crashes + 1
    /\ pc' = [n \in Notices |-> IF pc[n] = "off" THEN "off" ELSE "done"]
    /\ todo' = [n \in Notices |-> {}]
    /\ read' = [n \in Notices |-> NoComment]
    /\ found' = [n \in Notices |-> FALSE]
    /\ builder' = Idle
    /\ UNCHANGED <<row, silent, carried, line, at, wrote, comments, checks>>

Next ==
    \/ \E d \in Deployments : OnBuildStarted(d)
    \/ \E result \in {"Ready", "Failed"} : OnBuildEnded(result)
    \/ UpdateGithub
    \/ SetupFails
    \/ \E n \in Notices : AllocateBot(n) \/ WithBot(n)
    \/ Restart

Spec == Init /\ [][Next]_vars

(* A spawned task runs, and every request to github is answered or fails.    *)
Fairness == \A n \in Notices : WF_vars(AllocateBot(n) \/ WithBot(n))

FairSpec == Spec /\ Fairness

-----------------------------------------------------------------------------
(* Properties.                                                               *)

(* However many builds end at once, the page of comments the tasks read      *)
(* holds at most one comment of Prezel: none of them creates a second one    *)
(* between the list of another and its post (hooks.rs:128-157).              *)
OneCommentPerPage ==
    \A p \in Pulls : \A c, o \in FirstPage(p) : c = o

(* A commit has one check run per project, whichever deployments, branches   *)
(* and builds the tasks come from (github.rs:194-237).                       *)
OneCheckRun ==
    \A s \in Shas, j \in Projects : checks[s][j].runs <= 1

(* No update is lost: a line of a comment, or a check run, is only replaced  *)
(* by a task whose turn came later, even by the tasks of other projects,     *)
(* which rewrite the line as they read it (hooks.rs:142-152).                *)
LinesMoveForward ==
    [][/\ \A p \in Pulls : \A c \in FirstPage(p) : \E o \in FirstPage(p)' :
            o.nr = c.nr /\ \A j \in Projects : c.lines[j].turn <= o.lines[j].turn
       /\ \A s \in Shas, j \in Projects :
            checks[s][j].line.turn <= checks'[s][j].line.turn]_vars

(* The last task about a project, if the tasks about it came to the bot in   *)
(* the order of the hooks, which nothing ensures (the TODO of hooks.rs:107). *)
LastInOrder(n) ==
    /\ turn[n] > 0
    /\ \A m \in 1..spawned : Project(m) = Project(n) /\ m # n =>
        m < n /\ pc[m] # "spawned" /\ turn[m] < turn[n]

(* What github shows is what the database says (hooks.rs:65-86): wherever    *)
(* the last task about a project wrote the comment of a pull request, or the *)
(* check run of a commit, it has the status of the row of the deployment.    *)
(* Unless the tasks came out of order, or the process stopped before the     *)
(* change was told: nothing is sent again.                                   *)
GithubTellsTheRow ==
    \A n \in 1..spawned : LastInOrder(n) /\ about[n] \notin silent =>
        /\ \A p \in Pulls : n \in told[p] =>
            \E c \in ours[p] : c.lines[Project(n)] = [status |-> row[about[n]], turn |-> turn[n]]
        /\ n \in marked =>
            checks[ShaOf[about[n]]][Project(n)].line.status = row[about[n]]

(* The bot is never kept: the tasks that were spawned come to their end and  *)
(* leave it free, also when one of them panics with the bot in its hands     *)
(* (hooks.rs:110-180).                                                       *)
NoticesEnd == []<>(\A n \in Notices : pc[n] \in {"off", "done"})
=============================================================================
