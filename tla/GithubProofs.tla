---------------------------- MODULE GithubProofs ----------------------------
(* Proofs about GithubSync, for every number of projects, branches, commits, *)
(* callers and refusals: its types, that it implements Worker, that a commit *)
(* is deployed once, and that what is answered is on record.                 *)
EXTENDS GithubSync, SequenceTheorems, TLAPS

(* WorkerProofs, about the task of this worker.                              *)
WP == INSTANCE WorkerProofs WITH
        Waiters <- Callers, HasTriggers <- FALSE, WorkMayPanic <- TRUE

Adds == {"check", "insert", "env"}

(* A pass that is about to insert a deployment has one to insert.            *)
TypeInv ==
    /\ TypeOK
    /\ stage \in Adds => found # NoRow

(* A deployment the pass found is no copy, and when it is about to be        *)
(* inserted there is still none of its commit: the check is stale as soon as *)
(* it is made, but nobody else inserts a commit that is not on record.       *)
FoundInv ==
    /\ found # NoRow => ~found.clone
    /\ stage = "insert" => ~OnRecord(found.project, found.sha)

-----------------------------------------------------------------------------
(* Steps of the worker are steps of a Worker.                                *)

(* Every step is one of a Worker, or leaves it alone.                        *)
LEMMA StepsAreWorkerSteps == [Next]_vars => [W!Next]_(W!vars)
  <1> SUFFICES ASSUME [Next]_vars PROVE [W!Next]_(W!vars)
    OBVIOUS
  <1> USE DEF W!vars, workerVars
  <1>1. ASSUME NEW b \in Branches, NEW c \in Commits, Push(b, c) PROVE UNCHANGED W!vars
    BY <1>1 DEF Push, BranchesChange
  <1>2. ASSUME NEW b \in PullBranches, OpenPull(b) \/ ClosePull(b)
        PROVE UNCHANGED W!vars
    BY <1>2 DEF OpenPull, ClosePull, BranchesChange
  <1>3. ASSUME NEW w \in Callers, FullSync(w) \/ FullSyncReturns(w) \/ AbandonSync(w)
        PROVE W!Next
    BY <1>3 DEF FullSync, FullSyncReturns, AbandonSync, W!Next
  <1>4. ASSUME NEW p \in Projects, InsertProject(p) \/ DeleteProject(p)
        PROVE UNCHANGED W!vars
    BY <1>4 DEF InsertProject, DeleteProject, ApiCall
  <1>5. ASSUME NEW i \in Ids, DeleteDeployment(i) \/ Redeploy(i)
        PROVE UNCHANGED W!vars
    BY <1>5 DEF DeleteDeployment, Redeploy, ApiCall
  <1>6. CASE WorkerStep
    <2>1. CASE BeginPass \/ EndPass \/ ForeignKeyFails \/ Notify
      BY <2>1 DEF BeginPass, EndPass, ForeignKeyFails, Notify, W!Next, W!Task
    <2>2. CASE GetProjects \/ GetDefaultBranch \/ GetOpenPulls \/ PullsDone
      BY <2>2 DEF GetProjects, GetDefaultBranch, GetOpenPulls, PullsDone, PassRuns
    <2>3. ASSUME NEW p \in Projects, NextProject(p) PROVE UNCHANGED W!vars
      BY <2>3 DEF NextProject, PassRuns
    <2>4. ASSUME NEW b \in PullBranches, GetLatestCommit(b) PROVE UNCHANGED W!vars
      BY <2>4 DEF GetLatestCommit, PassRuns
    <2>5. CASE CheckHash \/ InsertMissing \/ InsertEnv
      BY <2>5 DEF CheckHash, InsertMissing, InsertEnv, PassRuns
    <2> QED
      BY <1>6, <2>1, <2>2, <2>3, <2>4, <2>5 DEF WorkerStep, Adding
  <1>7. CASE UNCHANGED vars
    BY <1>7 DEF vars
  <1> QED
    BY <1>1, <1>2, <1>3, <1>4, <1>5, <1>6, <1>7 DEF Next

(* Passes are runs of a Worker (deployments/worker.rs:22-39), whatever a pass*)
(* does and however it ends.                                                 *)
THEOREM GithubImplementsWorker == Spec => ImplementsWorker
  <1>1. Init => W!Init
    BY DEF Init
  <1> QED
    BY <1>1, StepsAreWorkerSteps, PTL DEF Spec, ImplementsWorker, W!Spec

(* What WorkerProofs proves of a Worker holds of this one, by instance.      *)
LEMMA TheoremsOfWorkerHold == Spec => WP!Spec
  <1>1. Init => WP!Init
    BY DEF Init, W!Init, WP!Init
  <1>2. [Next]_vars => [WP!Next]_(WP!vars)
    BY StepsAreWorkerSteps DEF W!Next, W!vars, W!Trigger, W!TriggerAndWait, W!Abandon,
       W!Return, W!Task, W!RecvMany, W!WorkEnds, W!WorkPanics, W!NotifyOne, W!NextRound,
       W!TrySend, WP!Next, WP!vars, WP!Trigger, WP!TriggerAndWait, WP!Abandon,
       WP!Return, WP!Task, WP!RecvMany, WP!WorkEnds, WP!WorkPanics, WP!NotifyOne,
       WP!NextRound, WP!TrySend
  <1> QED
    BY <1>1, <1>2, PTL DEF Spec, WP!Spec

(* So a full sync (manager.rs:193-196) is answered by a pass that began after*)
(* it was asked for, and no request is left with an empty channel.           *)
THEOREM FullSyncsAreFresh == Spec => WP!AnswersAreFresh /\ []WP!OwedHasMessage
  <1>1. WP!Spec => WP!AnswersAreFresh
    BY WP!WorkerKeepsPromise, GithubConstants
  <1>2. WP!Spec => []WP!OwedHasMessage
    BY WP!NoRequestIsForgotten, GithubConstants
  <1> QED
    BY <1>1, <1>2, TheoremsOfWorkerHold, PTL

-----------------------------------------------------------------------------
(* Types.                                                                    *)

(* A row that is inserted takes an id of its own, and leaves the others.     *)
LEMMA InsertionTakesAnId ==
    ASSUME TypeOK, GithubConstants, Used # Ids, NEW r \in Row, InsertDeployment(r)
    PROVE  /\ rows' \in [Ids -> Row \union {NoRow}]
           /\ NewId \in Ids \ Used
           /\ rows'[NewId] = r
           /\ \A i \in Ids : i # NewId => rows'[i] = rows[i]
           /\ Used' = Used \union {NewId}
  <1>1. NewId \in Ids \ Used
    <2>1. \E i \in Ids : i \notin Used
      BY DEF Used
    <2> QED
      BY <2>1 DEF NewId
  <1> HIDE DEF NewId
  <1>2. rows' = [rows EXCEPT ![NewId] = r]
    BY DEF InsertDeployment
  <1>3. r # NoRow
    BY DEF GithubConstants
  <1> QED
    BY <1>1, <1>2, <1>3 DEF TypeOK, Used

(* What the pass reads on GitHub makes a row.                                *)
LEMMA FoundIsRow ==
    ASSUME TypeOK, NEW p \in Projects, NEW b \in Branches, NEW d \in BOOLEAN
    PROVE  /\ Deployment(p, b, d) \in Row
           /\ ~Deployment(p, b, d).clone
           /\ Deployment(p, b, d).project = p
           /\ Deployment(p, b, d).sha = head[b]
           /\ Deployment(p, b, d).production = d
  BY DEF TypeOK, Deployment, Row

(* The copy of a row is a row.                                               *)
LEMMA CopyIsRow ==
    ASSUME TypeOK, NEW i \in Used
    PROVE  [project |-> rows[i].project, sha |-> rows[i].sha,
            production |-> rows[i].production, clone |-> TRUE] \in Row
  <1>1. rows[i] \in Row
    BY DEF TypeOK, Used
  <1> QED
    BY <1>1 DEF Row

(* After a refusal the callers count on less.                                *)
LEMMA RefusalTypes ==
    ASSUME TypeOK, GithubConstants, NEW what, Refused(what)
    PROVE  /\ refusals' \in 0..MaxRefusals
           /\ expects' \in [Callers -> SUBSET (Projects \X Branches)]
  <1>1. refusals' \in 0..MaxRefusals
    BY DEF TypeOK, GithubConstants, Refused
  <1>2. \A w \in Callers : expects[w] \in SUBSET (Projects \X Branches)
    BY DEF TypeOK
  <1> DEFINE e(w) == IF Contains(batch, w) THEN expects[w] \ what ELSE expects[w]
  <1>3. \A w \in Callers : e(w) \in SUBSET (Projects \X Branches)
    BY <1>2
  <1>4. expects' = [w \in Callers |-> e(w)]
    BY DEF Refused
  <1> QED
    BY <1>1, <1>3, <1>4

(* At the start no pass is under way.                                        *)
LEMMA InitTypes == Init => TypeInv
  <1> SUFFICES ASSUME Init PROVE TypeInv
    OBVIOUS
  <1>1. at \in Projects
    BY GithubConstants DEF Init
  <1>2. deleted \subseteq Ids /\ project \in [Projects -> {"none", "live", "deleted"}]
    BY DEF Init, Used
  <1>3. events \in 0..MaxEvents /\ refusals \in 0..MaxRefusals
    BY GithubConstants DEF Init
  <1>4. stage = "idle" /\ loop = "recv"
    BY DEF Init, W!Init
  <1>5. expects \in [Callers -> SUBSET (Projects \X Branches)]
    BY DEF Init
  <1>6. /\ head \in [Branches -> Commits] /\ open \subseteq PullBranches
        /\ rows \in [Ids -> Row \union {NoRow}]
        /\ todo \subseteq Projects /\ pulls \subseteq PullBranches
        /\ found = NoRow /\ api \in BOOLEAN
    BY DEF Init
  <1> QED
    BY <1>1, <1>2, <1>3, <1>4, <1>5, <1>6 DEF TypeInv, TypeOK, Stages, Adds

(* Every step keeps the types.                                               *)
LEMMA NextTypes ==
    ASSUME TypeInv, [Next]_vars
    PROVE  TypeInv'
  <1> USE GithubConstants DEF TypeInv, TypeOK, Adds, Stages
  <1>1. ASSUME NEW b \in Branches, NEW c \in Commits, Push(b, c) PROVE TypeInv'
    BY <1>1 DEF Push, BranchesChange, Unexpect, workerVars, tables, pass
  <1>2. ASSUME NEW b \in PullBranches, OpenPull(b) PROVE TypeInv'
    BY <1>2 DEF OpenPull, BranchesChange, workerVars, tables, pass
  <1>3. ASSUME NEW b \in PullBranches, ClosePull(b) PROVE TypeInv'
    BY <1>3 DEF ClosePull, BranchesChange, Unexpect, workerVars, tables, pass
  <1>4. ASSUME NEW w \in Callers, FullSync(w) PROVE TypeInv'
    <2>1. Live \X (open \union {Main}) \in SUBSET (Projects \X Branches)
      BY DEF Live
    <2>2. loop' = loop
      BY <1>4 DEF FullSync, W!TriggerAndWait
    <2> QED
      BY <1>4, <2>1, <2>2 DEF FullSync, github, tables, pass, counts
  <1>5. ASSUME NEW w \in Callers, FullSyncReturns(w) \/ AbandonSync(w) PROVE TypeInv'
    <2>1. loop' = loop
      BY <1>5 DEF FullSyncReturns, AbandonSync, W!Return, W!Abandon
    <2>2. api' \in BOOLEAN /\ expects' \in [Callers -> SUBSET (Projects \X Branches)]
      BY <1>5 DEF FullSyncReturns, AbandonSync
    <2> QED
      BY <1>5, <2>1, <2>2 DEF FullSyncReturns, AbandonSync, github, tables, pass, counts
  <1>6. ASSUME NEW p \in Projects, InsertProject(p) PROVE TypeInv'
    BY <1>6 DEF InsertProject, ApiCall, workerVars, github, pass
  <1>7. ASSUME NEW p \in Projects, DeleteProject(p) PROVE TypeInv'
    BY <1>7 DEF DeleteProject, ApiCall, workerVars, github, pass
  <1>8. ASSUME NEW i \in Ids, DeleteDeployment(i) PROVE TypeInv'
    BY <1>8 DEF DeleteDeployment, ApiCall, workerVars, github, pass
  <1>9. ASSUME NEW i \in Ids, Redeploy(i) PROVE TypeInv'
    <2>1. rows' \in [Ids -> Row \union {NoRow}]
      BY <1>9, CopyIsRow, InsertionTakesAnId DEF Redeploy
    <2> QED
      BY <1>9, <2>1 DEF Redeploy, ApiCall, workerVars, github, pass
  <1>10. CASE WorkerStep
    <2>1. CASE BeginPass
      BY <2>1 DEF BeginPass, W!RecvMany, github, tables, counts
    <2>2. CASE GetProjects
      BY <2>2 DEF GetProjects, PassRuns, Answered, Live, workerVars, github
    <2>3. ASSUME NEW p \in Projects, NextProject(p) PROVE TypeInv'
      BY <2>3 DEF NextProject, PassRuns, Answered, workerVars, github
    <2>4. CASE GetDefaultBranch
      <3>1. Deployment(at, Main, TRUE) \in Row
        BY FoundIsRow
      <3>2. /\ found' \in Row \union {NoRow}
            /\ stage' \in Stages \ {"idle"}
            /\ stage' \in Adds => found' # NoRow
        BY <2>4, <3>1 DEF GetDefaultBranch
      <3>3. refusals' \in 0..MaxRefusals
            /\ expects' \in [Callers -> SUBSET (Projects \X Branches)]
        BY <2>4, RefusalTypes DEF GetDefaultBranch, Answered
      <3> QED
        BY <2>4, <3>2, <3>3 DEF GetDefaultBranch, PassRuns, workerVars, github
    <2>5. CASE GetOpenPulls
      <3>1. refusals' \in 0..MaxRefusals
            /\ expects' \in [Callers -> SUBSET (Projects \X Branches)]
        BY <2>5, RefusalTypes DEF GetOpenPulls, Answered
      <3> QED
        BY <2>5, <3>1 DEF GetOpenPulls, PassRuns, workerVars, github
    <2>6. CASE PullsDone
      BY <2>6 DEF PullsDone, PassRuns, Answered, workerVars, github
    <2>7. ASSUME NEW b \in PullBranches, GetLatestCommit(b) PROVE TypeInv'
      <3>1. Deployment(at, b, FALSE) \in Row
        BY FoundIsRow
      <3>2. /\ found' \in Row \union {NoRow}
            /\ stage' \in Stages \ {"idle"}
            /\ stage' \in Adds => found' # NoRow
        BY <2>7, <3>1 DEF GetLatestCommit
      <3>3. refusals' \in 0..MaxRefusals
            /\ expects' \in [Callers -> SUBSET (Projects \X Branches)]
        BY <2>7, RefusalTypes DEF GetLatestCommit, Answered
      <3> QED
        BY <2>7, <3>2, <3>3 DEF GetLatestCommit, PassRuns, workerVars, github
    <2>8. CASE CheckHash
      BY <2>8 DEF CheckHash, Added, PassRuns, Answered, workerVars, github
    <2>9. CASE InsertMissing
      <3>1. rows' \in [Ids -> Row \union {NoRow}]
        BY <2>9, InsertionTakesAnId DEF InsertMissing
      <3> QED
        BY <2>9, <3>1 DEF InsertMissing, PassRuns, Answered, workerVars, github
    <2>10. CASE InsertEnv
      BY <2>10 DEF InsertEnv, Added, PassRuns, Answered, workerVars, github
    <2>11. CASE ForeignKeyFails
      BY <2>11 DEF ForeignKeyFails, W!WorkPanics, github, tables, counts
    <2>12. CASE EndPass
      BY <2>12 DEF EndPass, W!WorkEnds, github, tables, counts
    <2>13. CASE Notify
      BY <2>13 DEF Notify, W!NotifyOne, W!NextRound, github, tables, pass, counts
    <2> QED
      BY <1>10, <2>1, <2>2, <2>3, <2>4, <2>5, <2>6, <2>7, <2>8, <2>9, <2>10, <2>11,
         <2>12, <2>13 DEF WorkerStep, Adding
  <1>11. CASE UNCHANGED vars
    BY <1>11 DEF vars, workerVars, github, tables, pass, counts
  <1> QED
    BY <1>1, <1>2, <1>3, <1>4, <1>5, <1>6, <1>7, <1>8, <1>9, <1>10, <1>11 DEF Next

(* The variables have their types at all times, and a pass is under way      *)
(* exactly when the task works.                                              *)
THEOREM GithubTypesAreCorrect == Spec => []TypeOK
  <1>1. Spec => []TypeInv
    BY InitTypes, NextTypes, PTL DEF Spec
  <1> QED
    BY <1>1, PTL DEF TypeInv

-----------------------------------------------------------------------------
(* A commit is deployed once.                                                *)

RecordInv == TypeInv /\ FoundInv /\ OneRowPerCommit

(* What is on record stays on record as long as the rows stay, and the other *)
(* way round.                                                                *)
LEMMA SameRowsSameRecord ==
    ASSUME UNCHANGED rows
    PROVE  /\ Used' = Used
           /\ \A p, c : OnRecord(p, c)' <=> OnRecord(p, c)
           /\ OneRowPerCommit => OneRowPerCommit'
  BY DEF Used, OnRecord, OneRowPerCommit

(* An insertion puts its commit on record, and no other.                     *)
LEMMA InsertionRecords ==
    ASSUME TypeOK, GithubConstants, Used # Ids, NEW r \in Row, InsertDeployment(r)
    PROVE  \A p, c : OnRecord(p, c)' <=> OnRecord(p, c) \/ (r.project = p /\ r.sha = c)
  <1>1. /\ NewId \in Ids \ Used
        /\ rows'[NewId] = r
        /\ \A i \in Ids : i # NewId => rows'[i] = rows[i]
        /\ Used' = Used \union {NewId}
    BY InsertionTakesAnId
  <1>2. Used \subseteq Ids
    BY DEF Used
  <1> QED
    BY <1>1, <1>2 DEF OnRecord

(* A row of a commit that is not on record, or a copy, is one row too many   *)
(* for nobody.                                                               *)
LEMMA InsertionKeepsOneRow ==
    ASSUME TypeOK, GithubConstants, Used # Ids, NEW r \in Row, InsertDeployment(r),
           OneRowPerCommit, r.clone \/ ~OnRecord(r.project, r.sha)
    PROVE  OneRowPerCommit'
  <1>1. /\ NewId \in Ids \ Used
        /\ rows'[NewId] = r
        /\ \A i \in Ids : i # NewId => rows'[i] = rows[i]
        /\ Used' = Used \union {NewId}
    BY InsertionTakesAnId
  <1>2. Used \subseteq Ids
    BY DEF Used
  <1> SUFFICES ASSUME NEW i \in Used', NEW j \in Used', i # j,
                      rows'[i].project = rows'[j].project,
                      rows'[i].sha = rows'[j].sha,
                      ~rows'[i].clone, ~rows'[j].clone
               PROVE  FALSE
    BY DEF OneRowPerCommit
  <1>3. CASE i \in Used /\ j \in Used
    BY <1>1, <1>2, <1>3 DEF OneRowPerCommit
  <1>4. CASE i = NewId \/ j = NewId
    BY <1>1, <1>2, <1>4 DEF OnRecord
  <1> QED
    BY <1>1, <1>3, <1>4

(* The rows an earlier process has left are one for a commit.                *)
LEMMA InitRecord == Init => FoundInv /\ OneRowPerCommit
  BY DEF Init, FoundInv

(* Every step keeps one row for a commit.                                    *)
LEMMA NextRecord ==
    ASSUME RecordInv, [Next]_vars
    PROVE  FoundInv' /\ OneRowPerCommit'
  <1> USE GithubConstants DEF RecordInv, FoundInv, Adds
  <1>1. CASE UNCHANGED rows /\ UNCHANGED <<stage, found>>
    BY <1>1, SameRowsSameRecord
  <1>2. ASSUME NEW p \in Projects, DeleteProject(p) PROVE FoundInv' /\ OneRowPerCommit'
    <2>1. Used' \subseteq Used /\ \A i \in Used' : rows'[i] = rows[i]
      BY <1>2 DEF DeleteProject, Used, TypeInv, TypeOK
    <2> QED
      BY <1>2, <2>1 DEF DeleteProject, ApiCall, pass, OnRecord, OneRowPerCommit
  <1>3. ASSUME NEW i \in Ids, Redeploy(i) PROVE FoundInv' /\ OneRowPerCommit'
    <2> DEFINE r == [project |-> rows[i].project, sha |-> rows[i].sha,
                     production |-> rows[i].production, clone |-> TRUE]
    <2>1. /\ r \in Row /\ i \in Used /\ Used # Ids
          /\ InsertDeployment(r)
          /\ UNCHANGED <<stage, found>>
      BY <1>3, CopyIsRow DEF Redeploy, ApiCall, pass, TypeInv
    <2>2. r.clone /\ r.project = rows[i].project /\ r.sha = rows[i].sha
      OBVIOUS
    <2> HIDE DEF r
    <2>3. OneRowPerCommit'
      BY <2>1, <2>2, InsertionKeepsOneRow DEF TypeInv
    <2>4. \A p, c : OnRecord(p, c)' <=> OnRecord(p, c) \/ (r.project = p /\ r.sha = c)
      BY <2>1, InsertionRecords DEF TypeInv
    <2>5. \A p, c : OnRecord(p, c)' <=> OnRecord(p, c)
      BY <2>1, <2>2, <2>4 DEF OnRecord
    <2> QED
      BY <2>1, <2>3, <2>5
  <1>4. CASE GetDefaultBranch
    <2>1. UNCHANGED rows /\ stage' # "insert"
      BY <1>4 DEF GetDefaultBranch
    <2>2. found' = found \/ ~found'.clone
      <3>1. at \in Projects /\ Main \in Branches /\ TypeOK
        BY DEF TypeInv, TypeOK
      <3>2. ~Deployment(at, Main, TRUE).clone
        BY <3>1, FoundIsRow
      <3> QED
        BY <1>4, <3>2 DEF GetDefaultBranch
    <2> QED
      BY <1>4, <2>1, <2>2, SameRowsSameRecord
  <1>5. ASSUME NEW b \in PullBranches, GetLatestCommit(b)
        PROVE FoundInv' /\ OneRowPerCommit'
    <2>1. UNCHANGED rows /\ stage' # "insert"
      BY <1>5 DEF GetLatestCommit
    <2>2. found' = found \/ ~found'.clone
      <3>1. at \in Projects /\ b \in Branches /\ TypeOK
        BY DEF TypeInv, TypeOK
      <3>2. ~Deployment(at, b, FALSE).clone
        BY <3>1, FoundIsRow
      <3> QED
        BY <1>5, <3>2 DEF GetLatestCommit
    <2> QED
      BY <2>1, <2>2, SameRowsSameRecord
  <1>6. CASE CheckHash
    <2>1. UNCHANGED rows
      BY <1>6 DEF CheckHash
    <2>2. FoundInv'
      BY <1>6, <2>1, SameRowsSameRecord DEF CheckHash, Added, HashExists
    <2> QED
      BY <2>1, <2>2, SameRowsSameRecord
  <1>7. CASE InsertMissing
    <2>1. found \in Row /\ found # NoRow
      BY <1>7 DEF InsertMissing, TypeInv, TypeOK
    <2>2. OneRowPerCommit'
      BY <1>7, <2>1, InsertionKeepsOneRow DEF InsertMissing, TypeInv
    <2> QED
      BY <1>7, <2>1, <2>2 DEF InsertMissing
  <1>8. CASE \/ BeginPass \/ GetProjects \/ GetOpenPulls \/ PullsDone \/ InsertEnv
             \/ ForeignKeyFails \/ EndPass \/ \E p \in Projects : NextProject(p)
    <2>1. UNCHANGED rows /\ stage' # "insert" /\ (found' = found \/ found' = NoRow)
      BY <1>8 DEF BeginPass, GetProjects, GetOpenPulls, PullsDone, InsertEnv, Added,
                  ForeignKeyFails, EndPass, NextProject, tables
    <2> QED
      BY <2>1, SameRowsSameRecord
  <1>9. CASE \/ Notify \/ UNCHANGED vars
             \/ \E b \in Branches, c \in Commits : Push(b, c)
             \/ \E b \in PullBranches : OpenPull(b) \/ ClosePull(b)
             \/ \E w \in Callers : FullSync(w) \/ FullSyncReturns(w) \/ AbandonSync(w)
             \/ \E p \in Projects : InsertProject(p)
             \/ \E i \in Ids : DeleteDeployment(i)
    <2>1. UNCHANGED <<rows, stage, found>>
      BY <1>9 DEF Notify, vars, Push, OpenPull, ClosePull, BranchesChange, FullSync,
                  FullSyncReturns, AbandonSync, InsertProject, DeleteDeployment, ApiCall,
                  tables, pass
    <2> QED
      BY <1>1, <2>1
  <1> QED
    BY <1>2, <1>3, <1>4, <1>5, <1>6, <1>7, <1>8, <1>9 DEF Next, WorkerStep, Adding

(* The worker deploys a commit of a project at most once, though it looks and*)
(* inserts in two queries (workers/github.rs:66-73).                         *)
THEOREM CommitsAreDeployedOnce == Spec => []OneRowPerCommit
  <1>1. Init => RecordInv
    BY InitTypes, InitRecord DEF RecordInv
  <1>2. RecordInv /\ [Next]_vars => RecordInv'
    BY NextTypes, NextRecord DEF RecordInv
  <1> QED
    BY <1>1, <1>2, PTL DEF Spec, RecordInv

-----------------------------------------------------------------------------
(* What is answered is on record.                                            *)

(* The pass has yet to come to the last commit of branch b for project p: it *)
(* has not read the projects, has not come to this one, has not come to its  *)
(* branch, or holds the commit in its hands.                                 *)
Pending(p, b) ==
    /\ loop = "work"
    /\ \/ stage = "projects"
       \/ p \in todo
       \/ p = at /\ stage = "default"
       \/ p = at /\ b # Main /\ stage = "pulls"
       \/ p = at /\ b # Main /\ stage \in Adds /\ found.production
       \/ p = at /\ b \in pulls \ {Main} /\ stage \in Adds \union {"pull"}
       \/ stage \in {"check", "insert"} /\ found.project = p /\ found.sha = head[b]

Recorded(p, b) == OnRecord(p, head[b])

(* What a caller counts on is there to be counted on; what those of the      *)
(* batch count on is on record or the pass comes to it; and what those who   *)
(* are answered count on is on record.                                       *)
Expected == \A w \in Callers : expects[w] \subseteq Live \X (open \union {Main})
Covered ==
    \A w \in Callers : Contains(batch, w) =>
        \A p \in Projects, b \in Branches :
            <<p, b>> \in expects[w] => Recorded(p, b) \/ Pending(p, b)
Delivered ==
    \A w \in Callers : waiter[w] = "answered" =>
        \A p \in Projects, b \in Branches : <<p, b>> \in expects[w] => Recorded(p, b)

AnswerInv == Expected /\ Covered /\ Delivered

(* Messages are in one place: what the channel and the batch promise.        *)
LEMMA BatchWaits ==
    ASSUME WP!SentInv, NEW w \in Callers, Contains(batch, w)
    PROVE  /\ loop \notin {"recv", "dead"}
           /\ waiter[w] \in {"waiting", "gone"}
  BY EmptySeq DEF WP!SentInv, Contains

(* At the start nobody counts on anything.                                   *)
LEMMA InitAnswers == Init => AnswerInv
  <1> SUFFICES ASSUME Init PROVE AnswerInv
    OBVIOUS
  <1>1. \A w \in Callers : expects[w] = {} /\ waiter[w] = "idle"
    BY DEF Init, W!Init
  <1> QED
    BY <1>1 DEF AnswerInv, Expected, Covered, Delivered

(* A step that answers nobody keeps the answers if it records what is pending*)
(* or leaves it pending, for those who still count on it.                    *)
LEMMA KeepsAnswers ==
    ASSUME AnswerInv,
           UNCHANGED <<batch, waiter>>,
           Expected',
           \A w \in Callers : expects'[w] \subseteq expects[w],
           \A w \in Callers, p \in Projects, b \in Branches :
              <<p, b>> \in expects'[w] =>
                 /\ Recorded(p, b) => Recorded(p, b)'
                 /\ Contains(batch, w) /\ Pending(p, b) => Recorded(p, b)' \/ Pending(p, b)'
    PROVE  AnswerInv'
  <1>1. Covered'
    BY DEF AnswerInv, Covered
  <1>2. Delivered'
    BY DEF AnswerInv, Delivered
  <1> QED
    BY <1>1, <1>2 DEF AnswerInv

(* What GitHub and the api do.                                               *)
LEMMA OthersKeepAnswers ==
    ASSUME TypeInv, AnswerInv,
           \/ \E b \in Branches, c \in Commits : Push(b, c)
           \/ \E b \in PullBranches : OpenPull(b) \/ ClosePull(b)
           \/ \E p \in Projects : InsertProject(p) \/ DeleteProject(p)
           \/ \E i \in Ids : DeleteDeployment(i) \/ Redeploy(i)
    PROVE  AnswerInv'
  <1> USE GithubConstants DEF TypeInv, TypeOK, workerVars, pass
  <1>1. ASSUME NEW b \in Branches, NEW c \in Commits, Push(b, c) PROVE AnswerInv'
    <2>1. /\ UNCHANGED <<loop, batch, waiter, rows, project, open, stage, todo, at, pulls, found>>
          /\ \A a \in Branches : a # b => head'[a] = head[a]
          /\ \A w \in Callers : expects'[w] = expects[w] \ (Projects \X {b})
      BY <1>1 DEF Push, BranchesChange, Unexpect, tables
    <2>2. Expected'
      BY <2>1 DEF AnswerInv, Expected, Live
    <2>3. \A p, d : OnRecord(p, d)' <=> OnRecord(p, d)
      BY <2>1, SameRowsSameRecord
    <2>4. ASSUME NEW w \in Callers, NEW p \in Projects, NEW a \in Branches,
                 <<p, a>> \in expects'[w]
          PROVE  /\ Recorded(p, a) => Recorded(p, a)'
                 /\ Pending(p, a) => Pending(p, a)'
      <3>1. a # b
        BY <2>1, <2>4
      <3> QED
        BY <2>1, <2>3, <3>1 DEF Recorded, Pending
    <2> QED
      BY <2>1, <2>2, <2>4, KeepsAnswers
  <1>2. ASSUME NEW b \in PullBranches, OpenPull(b) \/ ClosePull(b) PROVE AnswerInv'
    <2>1. /\ UNCHANGED <<loop, batch, waiter, rows, project, head, stage, todo, at, pulls, found>>
          /\ \A w \in Callers : expects'[w] \subseteq expects[w]
      BY <1>2 DEF OpenPull, ClosePull, BranchesChange, Unexpect, tables
    <2>2. Expected'
      <3>1. CASE OpenPull(b)
        BY <2>1, <3>1 DEF OpenPull, AnswerInv, Expected, Live
      <3>2. CASE ClosePull(b) /\ b = Main
        BY <2>1, <3>2 DEF ClosePull, AnswerInv, Expected, Live
      <3>3. CASE ClosePull(b) /\ b # Main
        <4>1. /\ open' = open \ {b}
              /\ \A w \in Callers : expects'[w] = expects[w] \ (Projects \X {b})
          BY <3>3 DEF ClosePull, Unexpect
        <4> QED
          BY <2>1, <4>1, <3>3 DEF AnswerInv, Expected, Live
      <3> QED
        BY <1>2, <3>1, <3>2, <3>3
    <2>3. \A p, a : Recorded(p, a)' <=> Recorded(p, a)
      BY <2>1, SameRowsSameRecord DEF Recorded
    <2>4. \A p, a : Pending(p, a) => Pending(p, a)'
      BY <2>1 DEF Pending
    <2> QED
      BY <2>1, <2>2, <2>3, <2>4, KeepsAnswers
  <1>3. ASSUME NEW p \in Projects, InsertProject(p) \/ DeleteProject(p) PROVE AnswerInv'
    <2>1. /\ UNCHANGED <<loop, batch, waiter, head, open, stage, todo, at, pulls, found>>
          /\ \A w \in Callers : expects'[w] \subseteq expects[w]
      BY <1>3 DEF InsertProject, DeleteProject, ApiCall, github
    <2>2. Expected'
      <3>1. CASE InsertProject(p)
        BY <2>1, <3>1 DEF InsertProject, AnswerInv, Expected, Live
      <3>2. CASE DeleteProject(p)
        <4>1. /\ Live' = Live \ {p}
              /\ \A w \in Callers : expects'[w] = expects[w] \ ({p} \X Branches)
          BY <3>2 DEF DeleteProject, Live
        <4> QED
          BY <2>1, <4>1 DEF AnswerInv, Expected
      <3> QED
        BY <1>3, <3>1, <3>2
    <2>3. ASSUME NEW w \in Callers, NEW q \in Projects, NEW b \in Branches,
                 <<q, b>> \in expects'[w], Recorded(q, b)
          PROVE  Recorded(q, b)'
      <3>1. CASE InsertProject(p)
        BY <2>1, <2>3, <3>1, SameRowsSameRecord DEF InsertProject, Recorded
      <3>2. CASE DeleteProject(p)
        <4>1. q # p
          BY <2>3, <3>2 DEF DeleteProject
        <4>2. \A i \in Used : rows[i].project # p => rows'[i] = rows[i] /\ i \in Used'
          BY <3>2 DEF DeleteProject, Used
        <4> QED
          BY <2>1, <2>3, <4>1, <4>2 DEF Recorded, OnRecord
      <3> QED
        BY <1>3, <3>1, <3>2
    <2>4. \A q, b : Pending(q, b) => Pending(q, b)'
      BY <2>1 DEF Pending
    <2> QED
      BY <2>1, <2>2, <2>3, <2>4, KeepsAnswers
  <1>4. ASSUME NEW i \in Ids, DeleteDeployment(i) \/ Redeploy(i) PROVE AnswerInv'
    <2>1. UNCHANGED <<loop, batch, waiter, head, open, project, expects, stage, todo, at,
                      pulls, found>>
      BY <1>4 DEF DeleteDeployment, Redeploy, ApiCall, github
    <2>2. Expected'
      BY <2>1 DEF AnswerInv, Expected, Live
    <2>3. \A p, c : OnRecord(p, c) => OnRecord(p, c)'
      <3>1. CASE DeleteDeployment(i)
        BY <3>1, SameRowsSameRecord DEF DeleteDeployment
      <3>2. CASE Redeploy(i)
        <4>1. i \in Used /\ Used # Ids
          BY <3>2 DEF Redeploy
        <4> QED
          BY <3>2, <4>1, CopyIsRow, InsertionRecords DEF Redeploy
      <3> QED
        BY <1>4, <3>1, <3>2
    <2>4. \A p, b : Pending(p, b) => Pending(p, b)'
      BY <2>1 DEF Pending
    <2>5. \A p, b : Recorded(p, b) => Recorded(p, b)'
      BY <2>1, <2>3 DEF Recorded
    <2> QED
      BY <2>1, <2>2, <2>4, <2>5, KeepsAnswers
  <1> QED
    BY <1>1, <1>2, <1>3, <1>4

(* What a caller does.                                                       *)
LEMMA CallersKeepAnswers ==
    ASSUME TypeInv, AnswerInv, WP!TypeOK, WP!SentInv, NEW w \in Callers,
           FullSync(w) \/ FullSyncReturns(w) \/ AbandonSync(w)
    PROVE  AnswerInv'
  <1>1. /\ UNCHANGED <<loop, batch, rows, project, head, open, stage, todo, at, pulls, found>>
        /\ \A v \in Callers : v # w => expects'[v] = expects[v] /\ waiter'[v] = waiter[v]
        /\ waiter'[w] # "answered"
    BY DEF FullSync, FullSyncReturns, AbandonSync, W!TriggerAndWait, W!Return, W!Abandon,
           github, tables, pass, TypeInv, TypeOK, WP!TypeOK
  <1>2. /\ Expected'
        /\ Contains(batch, w) => expects'[w] = {}
    <2>1. CASE FullSync(w)
      <3>1. ~Contains(batch, w)
        BY <2>1, BatchWaits DEF FullSync, W!TriggerAndWait
      <3>2. expects'[w] = Live \X (open \union {Main})
        BY <2>1 DEF FullSync, TypeInv, TypeOK
      <3> QED
        BY <1>1, <3>1, <3>2 DEF AnswerInv, Expected, Live
    <2>2. CASE FullSyncReturns(w) \/ AbandonSync(w)
      <3>1. expects'[w] = {}
        BY <2>2 DEF FullSyncReturns, AbandonSync, TypeInv, TypeOK
      <3> QED
        BY <1>1, <3>1 DEF AnswerInv, Expected, Live
    <2> QED
      BY <2>1, <2>2
  <1>3. \A p, b : Recorded(p, b)' <=> Recorded(p, b)
    BY <1>1, SameRowsSameRecord DEF Recorded
  <1>4. \A p, b : Pending(p, b)' <=> Pending(p, b)
    BY <1>1 DEF Pending
  <1>5. Covered'
    BY <1>1, <1>2, <1>3, <1>4 DEF AnswerInv, Covered
  <1>6. Delivered'
    BY <1>1, <1>3 DEF AnswerInv, Delivered
  <1> QED
    BY <1>2, <1>5, <1>6 DEF AnswerInv

(* The pass begins, dies, or is answered.                                    *)
LEMMA RoundsKeepAnswers ==
    ASSUME TypeInv, AnswerInv, WP!TypeOK, WP!SentInv,
           BeginPass \/ ForeignKeyFails \/ EndPass \/ Notify
    PROVE  AnswerInv'
  <1>1. UNCHANGED <<rows, project, head, open, expects>>
    BY DEF BeginPass, ForeignKeyFails, EndPass, Notify, github, tables
  <1>2. Expected'
    BY <1>1 DEF AnswerInv, Expected, Live
  <1>3. \A p, b : Recorded(p, b)' <=> Recorded(p, b)
    BY <1>1, SameRowsSameRecord DEF Recorded
  <1>4. CASE BeginPass
    <2>1. \A p, b : Pending(p, b)'
      BY <1>4 DEF BeginPass, W!RecvMany, Pending
    <2>2. waiter' = waiter
      BY <1>4 DEF BeginPass, W!RecvMany
    <2>3. Covered'
      BY <2>1 DEF Covered
    <2>4. Delivered'
      BY <1>1, <1>3, <2>2 DEF AnswerInv, Delivered
    <2> QED
      BY <1>2, <2>3, <2>4 DEF AnswerInv
  <1>5. CASE ForeignKeyFails
    <2>1. batch' = <<>> /\ waiter' = waiter
      BY <1>5 DEF ForeignKeyFails, W!WorkPanics
    <2>2. \A w \in Callers : ~Contains(batch', w)
      BY <2>1, EmptySeq DEF Contains
    <2>3. Covered'
      BY <2>2 DEF Covered
    <2>4. Delivered'
      BY <1>1, <1>3, <2>1 DEF AnswerInv, Delivered
    <2> QED
      BY <1>2, <2>3, <2>4 DEF AnswerInv
  <1>6. CASE EndPass
    <2>1. \A p, b : ~Pending(p, b)
      BY <1>6 DEF EndPass, Pending, Adds
    <2>2. UNCHANGED <<batch, waiter>>
      BY <1>6 DEF EndPass, W!WorkEnds
    <2> QED
      BY <1>1, <1>2, <1>3, <2>1, <2>2, KeepsAnswers
  <1>7. CASE Notify /\ W!NextRound
    <2>1. UNCHANGED <<batch, waiter>> /\ loop # "work"
      BY <1>7 DEF W!NextRound
    <2>2. \A p, b : ~Pending(p, b)
      BY <2>1 DEF Pending
    <2> QED
      BY <1>1, <1>2, <1>3, <2>1, <2>2, KeepsAnswers
  <1>8. CASE Notify /\ W!NotifyOne
    <2>1. /\ Head(batch) = batch[1] /\ Len(batch) \in Nat \ {0}
          /\ Len(batch') = Len(batch) - 1
          /\ \A i \in 1..Len(batch') : batch'[i] = batch[i + 1]
      BY <1>8, HeadTailProperties, EmptySeq DEF WP!TypeOK, W!NotifyOne
    <2>2. \A w \in Callers : Contains(batch', w) => Contains(batch, w)
      BY <2>1 DEF Contains
    <2>3. \A w \in Callers :
             waiter'[w] = "answered" => waiter[w] = "answered" \/ Contains(batch, w)
      BY <1>8, <2>1 DEF W!NotifyOne, Contains
    <2>4. \A p, b : ~Pending(p, b)
      BY <1>8 DEF W!NotifyOne, Pending
    <2>5. Covered'
      BY <1>1, <1>3, <2>2, <2>4 DEF AnswerInv, Covered
    <2>6. Delivered'
      BY <1>1, <1>3, <2>3, <2>4 DEF AnswerInv, Covered, Delivered
    <2> QED
      BY <1>2, <2>5, <2>6 DEF AnswerInv
  <1> QED
    BY <1>4, <1>5, <1>6, <1>7, <1>8 DEF Notify

(* Steps of the pass that ask nobody: what is pending is recorded, or the    *)
(* pass still comes to it.                                                   *)
LEMMA PassKeepsAnswers ==
    ASSUME TypeInv, FoundInv, AnswerInv,
           \/ GetProjects \/ PullsDone \/ CheckHash \/ InsertMissing \/ InsertEnv
           \/ \E p \in Projects : NextProject(p)
    PROVE  AnswerInv'
  <1> USE DEF PassRuns, Answered, workerVars, github
  <1>1. UNCHANGED <<loop, batch, waiter, project, head, open, expects>>
    BY DEF GetProjects, PullsDone, CheckHash, InsertMissing, InsertEnv, NextProject
  <1>2. Expected'
    BY <1>1 DEF AnswerInv, Expected, Live
  <1>3. ASSUME UNCHANGED rows PROVE \A p, b : Recorded(p, b)' <=> Recorded(p, b)
    BY <1>1, <1>3, SameRowsSameRecord DEF Recorded
  <1>4. \A w \in Callers, p \in Projects, b \in Branches :
           <<p, b>> \in expects'[w] => p \in Live /\ b \in open \union {Main}
    BY <1>1 DEF AnswerInv, Expected
  <1>5. CASE GetProjects
    <2>1. UNCHANGED rows /\ \A p \in Live, b \in Branches : Pending(p, b) => Pending(p, b)'
      BY <1>1, <1>5 DEF GetProjects, Pending
    <2> QED
      BY <1>1, <1>2, <1>3, <1>4, <2>1, KeepsAnswers
  <1>6. CASE PullsDone
    <2>1. UNCHANGED rows /\ \A p, b : Pending(p, b) => Pending(p, b)'
      BY <1>1, <1>6 DEF PullsDone, Pending, Adds
    <2> QED
      BY <1>1, <1>2, <1>3, <2>1, KeepsAnswers
  <1>7. ASSUME NEW p \in Projects, NextProject(p) PROVE AnswerInv'
    <2>1. UNCHANGED rows /\ \A q, b : Pending(q, b) => Pending(q, b)'
      BY <1>1, <1>7 DEF NextProject, Pending, Adds
    <2> QED
      BY <1>1, <1>2, <1>3, <2>1, KeepsAnswers
  <1>8. CASE CheckHash
    <2>1. UNCHANGED rows
      BY <1>8 DEF CheckHash
    <2>2. ASSUME NEW p, NEW b, Pending(p, b) PROVE Recorded(p, b) \/ Pending(p, b)'
      <3>1. CASE OnRecord(found.project, found.sha)
        BY <1>1, <1>8, <2>2, <3>1
        DEF CheckHash, HashExists, Added, Pending, Recorded, Adds
      <3>2. CASE ~OnRecord(found.project, found.sha)
        BY <1>1, <1>8, <2>2, <3>2 DEF CheckHash, HashExists, Pending, Adds
      <3> QED
        BY <3>1, <3>2
    <2> QED
      BY <1>1, <1>2, <1>3, <2>1, <2>2, KeepsAnswers
  <1>9. CASE InsertMissing
    <2>1. /\ stage = "insert" /\ stage' = "env"
          /\ UNCHANGED <<todo, at, pulls, found>>
          /\ found \in Row /\ Used # Ids /\ InsertDeployment(found)
      BY <1>9 DEF InsertMissing, TypeInv, TypeOK, Adds
    <2>2. \A p, c : OnRecord(p, c)' <=>
                    OnRecord(p, c) \/ (found.project = p /\ found.sha = c)
      BY <2>1, GithubConstants, InsertionRecords DEF TypeInv
    <2>3. \A p, b : Recorded(p, b) => Recorded(p, b)'
      BY <1>1, <2>2 DEF Recorded
    <2>4. \A p, b : Pending(p, b) => Recorded(p, b)' \/ Pending(p, b)'
      BY <1>1, <2>1, <2>2 DEF Recorded, Pending, Adds
    <2> QED
      BY <1>1, <1>2, <2>3, <2>4, KeepsAnswers
  <1>10. CASE InsertEnv
    <2>1. UNCHANGED rows /\ \A p, b : Pending(p, b) => Pending(p, b)'
      BY <1>1, <1>10 DEF InsertEnv, Added, Pending, Adds
    <2> QED
      BY <1>1, <1>2, <1>3, <2>1, KeepsAnswers
  <1> QED
    BY <1>5, <1>6, <1>7, <1>8, <1>9, <1>10

(* Steps that ask GitHub: what is asked is in the hands of the pass, or those*)
(* it is for do not count on it.                                             *)
LEMMA RequestsKeepAnswers ==
    ASSUME TypeInv, AnswerInv,
           \/ GetDefaultBranch \/ GetOpenPulls
           \/ \E b \in PullBranches : GetLatestCommit(b)
    PROVE  AnswerInv'
  <1> USE DEF PassRuns, workerVars, github
  <1>1. UNCHANGED <<loop, batch, waiter, project, head, open, rows>>
    BY DEF GetDefaultBranch, GetOpenPulls, GetLatestCommit
  <1>2. \A w \in Callers : expects'[w] \subseteq expects[w]
    BY DEF GetDefaultBranch, GetOpenPulls, GetLatestCommit, Answered, Refused,
           TypeInv, TypeOK
  <1>3. Expected'
    BY <1>1, <1>2 DEF AnswerInv, Expected, Live
  <1>4. \A p, b : Recorded(p, b)' <=> Recorded(p, b)
    BY <1>1, SameRowsSameRecord DEF Recorded
  <1>5. \A w \in Callers, p \in Projects, b \in Branches :
           <<p, b>> \in expects'[w] => b \in open \union {Main}
    BY <1>2 DEF AnswerInv, Expected
  <1>6. CASE GetDefaultBranch
    <2>1. CASE Answered /\ found' = Deployment(at, Main, TRUE) /\ stage' = "check"
      <3>1. /\ found'.project = at /\ found'.sha = head[Main] /\ found'.production
        BY <2>1, GithubConstants, FoundIsRow DEF TypeInv, TypeOK
      <3>2. \A p, b : Pending(p, b) => Pending(p, b)'
        BY <1>1, <1>6, <2>1, <3>1 DEF GetDefaultBranch, Pending, Adds
      <3> QED
        BY <1>1, <1>2, <1>3, <1>4, <3>2, KeepsAnswers
    <2>2. CASE Refused({<<at, Main>>}) /\ stage' = "pulls" /\ UNCHANGED found
      <3>1. \A w \in Callers : Contains(batch, w) => <<at, Main>> \notin expects'[w]
        BY <2>2 DEF Refused
      <3>2. \A p, b : Pending(p, b) /\ ~(p = at /\ b = Main) => Pending(p, b)'
        BY <1>1, <1>6, <2>2 DEF GetDefaultBranch, Pending, Adds
      <3> QED
        BY <1>1, <1>2, <1>3, <1>4, <3>1, <3>2, KeepsAnswers
    <2> QED
      BY <1>6, <2>1, <2>2 DEF GetDefaultBranch
  <1>7. CASE GetOpenPulls
    <2>1. CASE Answered /\ pulls' = open /\ stage' = "pull"
      <3>1. \A p \in Projects, b \in open \union {Main} : Pending(p, b) => Pending(p, b)'
        BY <1>1, <1>7, <2>1 DEF GetOpenPulls, Pending, Adds
      <3> QED
        BY <1>1, <1>2, <1>3, <1>4, <1>5, <3>1, KeepsAnswers
    <2>2. CASE Refused({at} \X (Branches \ {Main})) /\ stage' = "project" /\ UNCHANGED pulls
      <3>1. \A w \in Callers, b \in Branches :
               Contains(batch, w) /\ b # Main => <<at, b>> \notin expects'[w]
        BY <2>2 DEF Refused
      <3>2. \A p, b : Pending(p, b) /\ ~(p = at /\ b # Main) => Pending(p, b)'
        BY <1>1, <1>7, <2>2 DEF GetOpenPulls, Pending, Adds
      <3>3. \A w \in Callers, p \in Projects, b \in Branches :
               <<p, b>> \in expects'[w] /\ Contains(batch, w) /\ Pending(p, b)
                  => Pending(p, b)'
        BY <3>1, <3>2
      <3> QED
        BY <1>1, <1>2, <1>3, <1>4, <3>3, KeepsAnswers
    <2> QED
      BY <1>7, <2>1, <2>2 DEF GetOpenPulls
  <1>8. ASSUME NEW c \in PullBranches, GetLatestCommit(c) PROVE AnswerInv'
    <2>1. CASE Answered /\ found' = Deployment(at, c, FALSE) /\ stage' = "check"
      <3>1. /\ found'.project = at /\ found'.sha = head[c]
        <4>1. at \in Projects /\ c \in Branches /\ TypeOK
          BY GithubConstants DEF TypeInv, TypeOK
        <4> QED
          BY <2>1, <4>1, FoundIsRow
      <3>2. \A p, b : Pending(p, b) => Pending(p, b)'
        BY <1>1, <1>8, <2>1, <3>1 DEF GetLatestCommit, Pending, Adds
      <3> QED
        BY <1>1, <1>2, <1>3, <1>4, <3>2, KeepsAnswers
    <2>2. CASE Refused({at} \X ({c} \ {Main})) /\ UNCHANGED <<found, stage>>
      <3>1. \A w \in Callers : Contains(batch, w) /\ c # Main => <<at, c>> \notin expects'[w]
        BY <2>2 DEF Refused
      <3>2. \A p, b : Pending(p, b) /\ ~(p = at /\ b = c /\ c # Main) => Pending(p, b)'
        BY <1>1, <1>8, <2>2 DEF GetLatestCommit, Pending, Adds
      <3> QED
        BY <1>1, <1>2, <1>3, <1>4, <3>1, <3>2, KeepsAnswers
    <2> QED
      BY <1>8, <2>1, <2>2 DEF GetLatestCommit
  <1> QED
    BY <1>6, <1>7, <1>8

(* Every step keeps the answers.                                             *)
LEMMA NextAnswers ==
    ASSUME RecordInv, AnswerInv, WP!WorkerInv, [Next]_vars
    PROVE  AnswerInv'
  <1> USE DEF RecordInv, WP!WorkerInv
  <1>1. CASE UNCHANGED vars
    <2>1. UNCHANGED <<loop, batch, waiter, rows, project, head, open, expects, stage, todo,
                      at, pulls, found>>
      BY <1>1 DEF vars, workerVars, github, tables, pass
    <2>2. Expected'
      BY <2>1 DEF AnswerInv, Expected, Live
    <2>3. \A p, b : Recorded(p, b)' <=> Recorded(p, b)
      BY <2>1, SameRowsSameRecord DEF Recorded
    <2>4. \A p, b : Pending(p, b) => Pending(p, b)'
      BY <2>1 DEF Pending
    <2> QED
      BY <2>1, <2>2, <2>3, <2>4, KeepsAnswers
  <1> QED
    BY <1>1, OthersKeepAnswers, CallersKeepAnswers, RoundsKeepAnswers, PassKeepsAnswers,
       RequestsKeepAnswers DEF Next, WorkerStep, Adding

(* Whoever is answered finds on record what was on GitHub when it called     *)
(* (manager.rs:193-196), unless it has changed since or GitHub did not tell. *)
THEOREM AnswersAreOnRecord == Spec => []AnsweredIsOnRecord
  <1>1. Spec => []RecordInv
    <2>1. Init => RecordInv
      BY InitTypes, InitRecord DEF RecordInv
    <2>2. RecordInv /\ [Next]_vars => RecordInv'
      BY NextTypes, NextRecord DEF RecordInv
    <2> QED
      BY <2>1, <2>2, PTL DEF Spec
  <1>2. Spec => []WP!WorkerInv
    <2>1. WP!Spec => []WP!WorkerInv
      BY WP!MessagesAreSentOnce, GithubConstants
    <2> QED
      BY <2>1, TheoremsOfWorkerHold, PTL
  <1>3. Init => AnswerInv
    BY InitAnswers
  <1>4. RecordInv /\ AnswerInv /\ WP!WorkerInv /\ [Next]_vars => AnswerInv'
    BY NextAnswers
  <1>5. TypeInv /\ AnswerInv => AnsweredIsOnRecord
    <2> SUFFICES ASSUME TypeInv, AnswerInv, NEW w \in Callers, waiter[w] = "answered",
                        NEW e \in expects[w]
                 PROVE  OnRecord(e[1], head[e[2]])
      BY DEF AnsweredIsOnRecord
    <2>1. e[1] \in Projects /\ e[2] \in Branches /\ e = <<e[1], e[2]>>
      BY DEF TypeInv, TypeOK
    <2> QED
      BY <2>1 DEF AnswerInv, Delivered, Recorded
  <1> QED
    BY <1>1, <1>2, <1>3, <1>4, <1>5, PTL DEF Spec, RecordInv

=============================================================================
