--------------------------- MODULE NoticesProofs ---------------------------
(* Proofs about Notices, for any number of projects, pull requests and       *)
(* tasks: types, who has the bot, what the bot keeps from going wrong, and   *)
(* that what github shows is what the last task about a project told it.     *)
EXTENDS Notices, TLAPS

-----------------------------------------------------------------------------
(* Types.                                                                    *)

(* What the build worker has at hand has been written to its row, and there  *)
(* is room for the task it is about to spawn.                                *)
HookWrote ==
    /\ builder # Idle => row[builder.of] \in Statuses
    /\ builder.step = "notify" => spawned < MaxNotices

Types == TypeOK /\ HookWrote

(* The line a task writes is one.                                            *)
LEMMA LineType ==
    ASSUME TypeOK, NEW n \in Notices
    PROVE  LineOf(n) \in Lines /\ Project(n) \in Projects /\ ShaOf[about[n]] \in Shas
  BY NoticeConstants DEF NoticeConstants, TypeOK, LineOf, Lines, Shown, Project

(* So are the lines of the comment it writes.                                *)
LEMMA InfoType ==
    ASSUME TypeOK, NEW n \in Notices
    PROVE  UpdatedInfo(n) \in [Projects -> Lines]
  <1>1. read[n].lines \in [Projects -> Lines]
    BY DEF TypeOK, Comments
  <1> QED
    BY <1>1, LineType DEF UpdatedInfo

(* The initial values have their types.                                      *)
LEMMA InitTypes == Init => TypeOK
  <1> SUFFICES ASSUME Init PROVE TypeOK
    OBVIOUS
  <1>1. NoLine \in Lines
    BY DEF NoLine, Lines, Shown
  <1>2. NoComment \in Comments
    BY <1>1 DEF NoComment, Comments, Blank
  <1>3. about \in [Notices -> Deployments] /\ at \in [Notices -> Pulls]
    BY NoticeConstants DEF Init, NoticeConstants
  <1>4. /\ row \in [Deployments -> Statuses \union {"new"}]
        /\ builder = Idle
        /\ status \in [Notices -> Statuses]
        /\ pc \in [Notices -> Steps]
    BY DEF Init, Statuses, Steps, Asking
  <1>5. spawned \in 0..MaxNotices /\ crashes \in 0..MaxCrashes
    BY NoticeConstants DEF Init, NoticeConstants
  <1>6. told \in [Pulls -> SUBSET Notices] /\ marked \subseteq Notices
    BY DEF Init
  <1>7. posted \in [Pulls -> Nat]
    BY NoticeConstants DEF Init, NoticeConstants
  <1>8. /\ read \in [Notices -> Comments]
        /\ ours \in [Pulls -> SUBSET Comments]
    BY <1>2 DEF Init
  <1>9. checks \in [Shas -> [Projects -> [runs : Nat, line : Lines]]]
    BY <1>1 DEF Init
  <1> QED
    BY <1>3, <1>4, <1>5, <1>6, <1>7, <1>8, <1>9 DEF Init, TypeOK

(* A task is spawned with a deployment and a status.                         *)
LEMMA SpawnTypes ==
    ASSUME Types, UpdateGithub
    PROVE  TypeOK'
  <1> USE DEF Types, TypeOK
  <1>1. builder \in [step : {"notify", "build"}, of : Deployments] /\ builder # Idle
    BY DEF UpdateGithub, Idle
  <1>2. builder.of \in Deployments /\ row[builder.of] \in Statuses
    BY <1>1 DEF HookWrote
  <1>3. spawned < MaxNotices
    BY DEF HookWrote, UpdateGithub
  <1>4. spawned + 1 \in Notices /\ spawned' \in 0..MaxNotices
    <2>1. spawned \in 0..MaxNotices /\ MaxNotices \in Nat
      BY NoticeConstants DEF NoticeConstants
    <2>2. spawned' = spawned + 1
      BY DEF UpdateGithub
    <2> QED
      BY <1>3, <2>1, <2>2 DEF Notices
  <1>5. builder' \in {Idle} \union [step : {"notify", "build"}, of : Deployments]
    BY <1>2 DEF UpdateGithub
  <1>6. about' \in [Notices -> Deployments] /\ status' \in [Notices -> Statuses]
    BY <1>2, <1>4 DEF UpdateGithub
  <1>7. pc' \in [Notices -> Steps]
    BY <1>4 DEF UpdateGithub, Goto, Steps
  <1>8. silent' \subseteq Deployments
    BY DEF UpdateGithub
  <1> QED
    BY <1>4, <1>5, <1>6, <1>7, <1>8 DEF UpdateGithub, line, work, wrote, comments

(* What the hooks have written stays so.                                     *)
LEMMA NextHook ==
    ASSUME Types, [Next]_vars
    PROVE  HookWrote'
  <1> USE DEF Types, TypeOK, HookWrote, Idle
  <1>1. ASSUME NEW d \in Deployments, OnBuildStarted(d)
        PROVE  HookWrote'
    BY <1>1 DEF OnBuildStarted, Statuses, carried
  <1>2. ASSUME NEW result \in {"Ready", "Failed"}, OnBuildEnded(result)
        PROVE  HookWrote'
    BY <1>2 DEF OnBuildEnded, Statuses, carried
  <1>3. CASE UpdateGithub
    <2>1. builder \in [step : {"notify", "build"}, of : Deployments]
      BY <1>3 DEF UpdateGithub
    <2>2. row[builder.of] \in Statuses /\ row' = row
      BY <1>3, <2>1 DEF UpdateGithub
    <2>3. builder' = Idle \/ builder' = [step |-> "build", of |-> builder.of]
      BY <1>3 DEF UpdateGithub
    <2> QED
      BY <2>2, <2>3
  <1>4. CASE SetupFails \/ Restart
    BY <1>4 DEF SetupFails, Restart
  <1>5. ASSUME NEW n \in Notices, AllocateBot(n) \/ WithBot(n)
        PROVE  HookWrote'
    <2>1. UNCHANGED <<row, builder, spawned>>
      BY <1>5 DEF AllocateBot, WithBot, GetOpenPulls, NextPull, ReadPullCommentWithPrefix,
         UpdatePullComment, CreatePullComment, CommentFails, ListCheckRuns, CheckFails,
         UpsertCheckRun, Ends, build, carried
    <2> QED
      BY <2>1
  <1>6. CASE UNCHANGED vars
    BY <1>6 DEF vars, build, carried
  <1> QED
    BY <1>1, <1>2, <1>3, <1>4, <1>5, <1>6 DEF Next

(* Every step keeps the types.                                               *)
LEMMA NextTypes ==
    ASSUME Types, [Next]_vars
    PROVE  TypeOK'
  <1> USE DEF Types, TypeOK, Goto, build, carried, line, work, wrote, comments, Asking, Steps
  <1>1. ASSUME NEW d \in Deployments, OnBuildStarted(d)
        PROVE  TypeOK'
    <2>1. /\ builder' \in [step : {"notify", "build"}, of : Deployments]
          /\ row' \in [Deployments -> Statuses \union {"new"}]
          /\ silent' \subseteq Deployments
      BY <1>1 DEF OnBuildStarted, Statuses
    <2> QED
      BY <1>1, <2>1 DEF OnBuildStarted
  <1>2. ASSUME NEW result \in {"Ready", "Failed"}, OnBuildEnded(result)
        PROVE  TypeOK'
    <2>1. builder.of \in Deployments
      BY <1>2 DEF OnBuildEnded, Idle
    <2>2. /\ builder' \in [step : {"notify", "build"}, of : Deployments]
          /\ row' \in [Deployments -> Statuses \union {"new"}]
          /\ silent' \subseteq Deployments
      BY <1>2, <2>1 DEF OnBuildEnded, Statuses
    <2> QED
      BY <1>2, <2>2 DEF OnBuildEnded
  <1>3. CASE UpdateGithub
    BY <1>3, SpawnTypes
  <1>4. CASE SetupFails
    BY <1>4 DEF SetupFails
  <1>5. ASSUME NEW n \in Notices, AllocateBot(n)
        PROVE  TypeOK'
    BY <1>5 DEF AllocateBot
  <1>15. ASSUME NEW n \in Notices, GetOpenPulls(n)
         PROVE  TypeOK'
    <2>1. todo' \in [Notices -> SUBSET Pulls] /\ pc' \in [Notices -> Steps]
      BY <1>15 DEF GetOpenPulls
    <2> QED
      BY <1>15, <2>1 DEF GetOpenPulls
  <1>6. ASSUME NEW n \in Notices, NextPull(n)
        PROVE  TypeOK'
    <2>1. /\ todo' \in [Notices -> SUBSET Pulls]
          /\ at' \in [Notices -> Pulls]
          /\ pc' \in [Notices -> Steps]
      BY <1>6 DEF NextPull
    <2> QED
      BY <1>6, <2>1 DEF NextPull
  <1>7. ASSUME NEW n \in Notices, ReadPullCommentWithPrefix(n)
        PROVE  TypeOK'
    <2>1. NoComment \in Comments
      BY DEF NoComment, Comments, Blank, NoLine, Lines, Shown
    <2>2. FirstPage(at[n]) \subseteq Comments
      BY DEF FirstPage
    <2>3. read' \in [Notices -> Comments]
      BY <1>7, <2>1, <2>2 DEF ReadPullCommentWithPrefix
    <2> QED
      BY <1>7, <2>3 DEF ReadPullCommentWithPrefix
  <1>8. ASSUME NEW n \in Notices, UpdatePullComment(n) \/ CreatePullComment(n)
        PROVE  TypeOK'
    <2>1. NoComment \in Comments
      BY DEF NoComment, Comments, Blank, NoLine, Lines, Shown
    <2>2. read' \in [Notices -> Comments]
      BY <1>8, <2>1 DEF UpdatePullComment, CreatePullComment
    <2>3. posted' \in [Pulls -> Nat]
      <3>1. posted' = posted \/ posted' = [posted EXCEPT ![at[n]] = posted[at[n]] + 1]
        BY <1>8 DEF UpdatePullComment, CreatePullComment
      <3>2. posted \in [Pulls -> Nat] /\ at[n] \in Pulls /\ posted[at[n]] + 1 \in Nat
        OBVIOUS
      <3> HIDE DEF TypeOK
      <3> QED
        BY <3>1, <3>2
    <2>4. /\ [nr |-> read[n].nr, lines |-> UpdatedInfo(n)] \in Comments
          /\ [nr |-> posted[at[n]] + 1, lines |-> UpdatedInfo(n)] \in Comments
      <3>1. read[n].nr \in Nat /\ posted[at[n]] + 1 \in Nat
        BY DEF Comments
      <3> QED
        BY <3>1, InfoType DEF Comments
    <2>5. ours' \in [Pulls -> SUBSET Comments]
      <3>1. \E page \in SUBSET Comments : ours' = [ours EXCEPT ![at[n]] = page]
        <4>1. CASE UpdatePullComment(n)
          BY <4>1, <2>4 DEF UpdatePullComment
        <4>2. CASE CreatePullComment(n)
          BY <4>2, <2>4 DEF CreatePullComment
        <4> QED
          BY <1>8, <4>1, <4>2
      <3> QED
        BY <3>1
    <2>6. told' \in [Pulls -> SUBSET Notices]
      BY <1>8 DEF UpdatePullComment, CreatePullComment
    <2> QED
      BY <1>8, <2>2, <2>3, <2>5, <2>6 DEF UpdatePullComment, CreatePullComment
  <1>9. ASSUME NEW n \in Notices, CommentFails(n)
        PROVE  TypeOK'
    <2>1. NoComment \in Comments
      BY DEF NoComment, Comments, Blank, NoLine, Lines, Shown
    <2> QED
      BY <1>9, <2>1 DEF CommentFails
  <1>10. ASSUME NEW n \in Notices, ListCheckRuns(n)
         PROVE  TypeOK'
    <2>1. checks[ShaOf[about[n]]][Project(n)].runs \in Nat
      BY LineType
    <2>2. found' \in [Notices -> BOOLEAN]
      BY <1>10, <2>1 DEF ListCheckRuns
    <2> QED
      BY <1>10, <2>2 DEF ListCheckRuns
  <1>11. ASSUME NEW n \in Notices, UpsertCheckRun(n)
         PROVE  TypeOK'
    <2> DEFINE s == ShaOf[about[n]]
               runs == checks[s][Project(n)].runs
    <2>1. s \in Shas /\ Project(n) \in Projects /\ LineOf(n) \in Lines /\ runs \in Nat
      BY LineType
    <2>2. checks' \in [Shas -> [Projects -> [runs : Nat, line : Lines]]]
      <3>1. [runs |-> IF found[n] THEN runs ELSE runs + 1, line |-> LineOf(n)]
                \in [runs : Nat, line : Lines]
        BY <2>1
      <3>2. [checks[s] EXCEPT ![Project(n)] =
                [runs |-> IF found[n] THEN runs ELSE runs + 1, line |-> LineOf(n)]]
                \in [Projects -> [runs : Nat, line : Lines]]
        BY <2>1, <3>1
      <3> QED
        BY <1>11, <2>1, <3>2 DEF UpsertCheckRun
    <2>3. marked' \subseteq Notices
      BY <1>11 DEF UpsertCheckRun
    <2> QED
      BY <1>11, <2>2, <2>3 DEF UpsertCheckRun
  <1>12. ASSUME NEW n \in Notices, CheckFails(n) \/ Ends(n)
         PROVE  TypeOK'
    BY <1>12 DEF CheckFails, Ends
  <1>13. CASE Restart
    <2>1. NoComment \in Comments
      BY DEF NoComment, Comments, Blank, NoLine, Lines, Shown
    <2>2. crashes' \in 0..MaxCrashes
      BY <1>13, NoticeConstants DEF Restart, NoticeConstants
    <2> QED
      BY <1>13, <2>1, <2>2 DEF Restart
  <1>14. CASE UNCHANGED vars
    BY <1>14 DEF vars
  <1> QED
    BY <1>1, <1>2, <1>3, <1>4, <1>5, <1>6, <1>7, <1>8, <1>9, <1>10, <1>11, <1>12,
       <1>13, <1>14, <1>15 DEF Next, WithBot

(* Whatever the projects, the pull requests and the tasks, every variable    *)
(* has its type.                                                             *)
THEOREM NoticesTypesAreCorrect ==
    Spec => []TypeOK
  <1>1. Init => Types
    BY InitTypes DEF Types, HookWrote, Init, Idle
  <1>2. Types /\ [Next]_vars => Types'
    BY NextTypes, NextHook DEF Types
  <1>3. Types => TypeOK
    BY DEF Types
  <1> QED
    BY <1>1, <1>2, <1>3, PTL DEF Spec

-----------------------------------------------------------------------------
(* The bot: a task that has got beyond the first request is the one whose    *)
(* turn came first.                                                          *)

Holding == {"next", "read", "write", "list", "check"}

Turns ==
    /\ \A n \in Notices : pc[n] \in Asking => turn[n] <= asked
    /\ \A n, m \in Notices :
        pc[n] \in Asking /\ pc[m] \in Asking /\ turn[n] = turn[m] => n = m

Holder ==
    \A n, m \in Notices : pc[n] \in Holding /\ pc[m] \in Asking => turn[n] <= turn[m]

(* The comments of a pull request have numbers of their own, among those     *)
(* that were given out.                                                      *)
Pages ==
    \A p \in Pulls : \A c \in ours[p] :
        /\ c.nr \in 1..posted[p]
        /\ \A o \in ours[p] : c.nr = o.nr => c = o

(* What a task has read is still what is there when it writes.               *)
ReadIsThere ==
    \A n \in Notices : pc[n] = "write" =>
        \/ read[n] = NoComment /\ FirstPage(at[n]) = {}
        \/ read[n] \in FirstPage(at[n])

CheckIsThere ==
    \A n \in Notices : pc[n] = "check" =>
        (found[n] <=> checks[ShaOf[about[n]]][Project(n)].runs > 0)

(* A turn that no task which may yet write precedes.                         *)
Past(k) ==
    k <= asked /\ \A n \in Notices : pc[n] \in Asking => k <= turn[n]

(* No line is younger than a task that may yet write.                        *)
LinesInTurn ==
    /\ \A p \in Pulls : \A c \in ours[p] : \A j \in Projects : Past(c.lines[j].turn)
    /\ \A s \in Shas, j \in Projects : Past(checks[s][j].line.turn)

NoticeInv ==
    /\ Types
    /\ Turns
    /\ Holder
    /\ Pages
    /\ OneCommentPerPage
    /\ ReadIsThere
    /\ CheckIsThere
    /\ OneCheckRun
    /\ LinesInTurn

(* The task that has the bot is the only one beyond the first request.       *)
LEMMA OnlyHolder ==
    ASSUME Turns, Holder, TypeOK, NEW n \in Notices, NEW m \in Notices,
           HasBot(n), pc[m] \in Holding
    PROVE  m = n
  <1>1. pc[n] \in Asking /\ pc[m] \in Asking
    BY DEF HasBot, Asking, Holding
  <1>2. turn[n] <= turn[m]
    BY <1>1 DEF HasBot
  <1>3. turn[m] <= turn[n]
    BY <1>1 DEF Holder
  <1>4. turn[n] \in Nat /\ turn[m] \in Nat
    BY DEF TypeOK
  <1>5. turn[n] = turn[m]
    BY <1>2, <1>3, <1>4
  <1> QED
    BY <1>1, <1>5 DEF Turns

(* A step with the bot moves the task that has it, and nobody else.          *)
LEMMA BotStep ==
    ASSUME NEW n \in Notices, WithBot(n)
    PROVE  /\ HasBot(n)
           /\ \E step \in Holding \union {"done"} : pc' = [pc EXCEPT ![n] = step]
           /\ UNCHANGED <<line, carried>>
  BY DEF WithBot, GetOpenPulls, NextPull, ReadPullCommentWithPrefix, UpdatePullComment,
     CreatePullComment, CommentFails, ListCheckRuns, CheckFails, UpsertCheckRun, Ends, Goto,
     Holding

(* Every other step leaves what is on github alone, and what a task that has *)
(* the bot knows of it, unless the task is gone.                             *)
LEMMA OtherStep ==
    ASSUME TypeOK, [Next]_vars, \A n \in Notices : ~WithBot(n)
    PROVE  /\ UNCHANGED <<comments, checks>>
           /\ \A n \in Notices : pc'[n] \in Holding =>
                 /\ pc[n] = pc'[n]
                 /\ about[n] = about'[n]
                 /\ at[n] = at'[n]
                 /\ read[n] = read'[n]
                 /\ found[n] = found'[n]
  <1> USE DEF TypeOK, build, carried, line, work, wrote, comments, Holding
  <1>1. CASE \/ \E d \in Deployments : OnBuildStarted(d)
             \/ \E result \in {"Ready", "Failed"} : OnBuildEnded(result)
             \/ SetupFails
             \/ UNCHANGED vars
    BY <1>1 DEF OnBuildStarted, OnBuildEnded, SetupFails, vars
  <1>2. CASE UpdateGithub
    BY <1>2 DEF UpdateGithub, Goto
  <1>3. ASSUME NEW n \in Notices, AllocateBot(n)
        PROVE  /\ UNCHANGED <<comments, checks, about, at, read, found>>
               /\ pc' = [pc EXCEPT ![n] = "pulls"]
    BY <1>3 DEF AllocateBot, Goto
  <1>4. CASE Restart
    BY <1>4 DEF Restart
  <1> QED
    BY <1>1, <1>2, <1>3, <1>4 DEF Next

(* The turns are kept, and so is who is first.                               *)
LEMMA NextTurns ==
    ASSUME Types, Turns, Holder, [Next]_vars
    PROVE  Turns' /\ Holder'
  <1> USE DEF Types
  <1>1. turn \in [Notices -> Nat] /\ asked \in Nat /\ pc \in [Notices -> Steps]
    BY DEF TypeOK
  <1>2. CASE /\ UNCHANGED line
             /\ \A n \in Notices : pc'[n] \in Asking => pc'[n] = pc[n]
    BY <1>2 DEF line, Turns, Holder, Asking, Holding
  <1>3. ASSUME NEW n \in Notices, AllocateBot(n)
        PROVE  Turns' /\ Holder'
    <2>1. /\ pc' = [pc EXCEPT ![n] = "pulls"]
          /\ turn' = [turn EXCEPT ![n] = asked + 1]
          /\ asked' = asked + 1
      BY <1>3 DEF AllocateBot, Goto
    <2>2. \A m \in Notices : m # n => pc'[m] = pc[m] /\ turn'[m] = turn[m]
      BY <1>1, <2>1
    <2>3. turn'[n] = asked + 1 /\ pc'[n] = "pulls"
      BY <1>1, <2>1
    <2>4. \A m \in Notices : m # n /\ pc'[m] \in Asking => turn'[m] \in Nat /\ turn'[m] <= asked
      BY <1>1, <2>2 DEF Turns
    <2>5. Turns'
      BY <1>1, <2>1, <2>2, <2>3, <2>4 DEF Turns
    <2>6. Holder'
      <3> SUFFICES ASSUME NEW k \in Notices, NEW m \in Notices,
                          pc'[k] \in Holding, pc'[m] \in Asking
                   PROVE  turn'[k] <= turn'[m]
        BY DEF Holder
      <3>1. k # n /\ pc[k] \in Holding /\ pc'[k] \in Asking
        BY <2>2, <2>3 DEF Holding, Asking
      <3>2. CASE m = n
        BY <3>1, <3>2, <2>3, <2>4, <1>1
      <3>3. CASE m # n
        BY <3>1, <3>3, <2>2 DEF Holder
      <3> QED
        BY <3>2, <3>3
    <2> QED
      BY <2>5, <2>6
  <1>4. ASSUME NEW n \in Notices, WithBot(n)
        PROVE  Turns' /\ Holder'
    <2>1. HasBot(n) /\ UNCHANGED line
      BY <1>4, BotStep
    <2>2. PICK step \in Holding \union {"done"} : pc' = [pc EXCEPT ![n] = step]
      BY <1>4, BotStep
    <2>3. \A m \in Notices : /\ m # n => pc'[m] = pc[m]
                             /\ pc'[m] \in Asking => pc[m] \in Asking
      BY <1>1, <2>1, <2>2 DEF HasBot
    <2>4. Turns'
      BY <2>1, <2>3 DEF Turns, line
    <2>5. Holder'
      BY <2>1, <2>3 DEF Holder, HasBot, line
    <2> QED
      BY <2>4, <2>5
  <1>5. CASE \/ \E d \in Deployments : OnBuildStarted(d)
             \/ \E result \in {"Ready", "Failed"} : OnBuildEnded(result)
             \/ SetupFails
             \/ UNCHANGED vars
    BY <1>2, <1>5 DEF OnBuildStarted, OnBuildEnded, SetupFails, vars
  <1>6. CASE UpdateGithub
    <2>1. UNCHANGED line /\ pc' = [pc EXCEPT ![spawned + 1] = "spawned"]
      BY <1>6 DEF UpdateGithub, Goto
    <2> QED
      BY <1>1, <1>2, <2>1 DEF Asking
  <1>7. CASE Restart
    BY <1>1, <1>2, <1>7 DEF Restart, Asking
  <1> QED
    BY <1>3, <1>4, <1>5, <1>6, <1>7 DEF Next

-----------------------------------------------------------------------------
(* Comments and check runs: what the task that has the bot found stays so    *)
(* until it writes.                                                          *)

Comment(n, nr) == [nr |-> nr, lines |-> UpdatedInfo(n)]

(* The two ways to write a comment, and what the page was before.            *)
LEMMA CommentWritten ==
    ASSUME NoticeInv, NEW n \in Notices, UpdatePullComment(n) \/ CreatePullComment(n)
    PROVE  LET p == at[n]
           IN  \/ /\ read[n] \in FirstPage(p)
                  /\ UNCHANGED posted
                  /\ ours' = [ours EXCEPT ![p] =
                        {c \in ours[p] : c.nr # read[n].nr} \union {Comment(n, read[n].nr)}]
               \/ /\ read[n] = NoComment /\ FirstPage(p) = {}
                  /\ posted' = [posted EXCEPT ![p] = posted[p] + 1]
                  /\ ours' = [ours EXCEPT ![p] = ours[p] \union {Comment(n, posted[p] + 1)}]
  <1> USE DEF NoticeInv, Types
  <1>1. pc[n] = "write" /\ at[n] \in Pulls
    BY DEF UpdatePullComment, CreatePullComment, TypeOK
  <1>2. CASE read[n] = NoComment /\ FirstPage(at[n]) = {}
    <2>1. read[n].nr = 0
      BY <1>2 DEF NoComment
    <2>2. CreatePullComment(n)
      BY <2>1 DEF UpdatePullComment
    <2> QED
      BY <1>2, <2>2 DEF CreatePullComment, Comment
  <1>3. CASE read[n] \in FirstPage(at[n])
    <2>1. read[n].nr \in 1..posted[at[n]] /\ posted[at[n]] \in Nat
      BY <1>1, <1>3 DEF Pages, FirstPage, TypeOK
    <2>2. UpdatePullComment(n)
      BY <2>1 DEF CreatePullComment
    <2> QED
      BY <1>3, <2>2 DEF UpdatePullComment, Comment
  <1> QED
    BY <1>1, <1>2, <1>3 DEF ReadIsThere

(* A comment written is the only one of the first page, and has a number of  *)
(* its own.                                                                  *)
LEMMA WriteKeepsPages ==
    ASSUME NoticeInv, NEW n \in Notices, UpdatePullComment(n) \/ CreatePullComment(n)
    PROVE  Pages' /\ OneCommentPerPage'
  <1> USE DEF NoticeInv, Types
  <1> DEFINE p == at[n]
  <1>1. p \in Pulls /\ ours \in [Pulls -> SUBSET Comments] /\ posted \in [Pulls -> Nat]
    BY DEF TypeOK
  <1>2. CASE /\ read[n] \in FirstPage(p)
             /\ UNCHANGED posted
             /\ ours' = [ours EXCEPT ![p] =
                   {c \in ours[p] : c.nr # read[n].nr} \union {Comment(n, read[n].nr)}]
    <2>1. /\ ours'[p] = {c \in ours[p] : c.nr # read[n].nr} \union {Comment(n, read[n].nr)}
          /\ \A q \in Pulls : q # p => ours'[q] = ours[q]
      BY <1>1, <1>2
    <2>2. /\ Comment(n, read[n].nr).nr = read[n].nr
          /\ read[n] \in ours[p]
          /\ read[n].nr <= PageSize
      BY <1>2 DEF Comment, FirstPage
    <2>3. Pages'
      <3> SUFFICES ASSUME NEW q \in Pulls, NEW c \in ours'[q]
                   PROVE  c.nr \in 1..posted[q] /\ \A o \in ours'[q] : c.nr = o.nr => c = o
        BY <1>2 DEF Pages
      <3>1. CASE q # p
        BY <2>1, <3>1 DEF Pages
      <3>2. CASE q = p
        BY <1>1, <2>1, <2>2, <3>2 DEF Pages
      <3> QED
        BY <3>1, <3>2
    <2>4. OneCommentPerPage'
      <3> SUFFICES ASSUME NEW q \in Pulls, NEW c \in ours'[q], NEW o \in ours'[q],
                          c.nr <= PageSize, o.nr <= PageSize
                   PROVE  c = o
        BY DEF OneCommentPerPage, FirstPage
      <3>1. CASE q # p
        BY <2>1, <3>1 DEF OneCommentPerPage, FirstPage
      <3>2. CASE q = p
        <4>1. \A e \in ours[p] : e.nr <= PageSize => e.nr = read[n].nr
          BY <1>1, <2>2 DEF OneCommentPerPage, FirstPage
        <4> QED
          BY <2>1, <3>2, <4>1
      <3> QED
        BY <3>1, <3>2
    <2> QED
      BY <2>3, <2>4
  <1>3. CASE /\ FirstPage(p) = {}
             /\ posted' = [posted EXCEPT ![p] = posted[p] + 1]
             /\ ours' = [ours EXCEPT ![p] = ours[p] \union {Comment(n, posted[p] + 1)}]
    <2>1. /\ ours'[p] = ours[p] \union {Comment(n, posted[p] + 1)}
          /\ posted'[p] = posted[p] + 1
          /\ \A q \in Pulls : q # p => ours'[q] = ours[q] /\ posted'[q] = posted[q]
      BY <1>1, <1>3
    <2>2. Comment(n, posted[p] + 1).nr = posted[p] + 1 /\ posted[p] \in Nat
      BY <1>1 DEF Comment
    <2>3. Pages'
      <3> SUFFICES ASSUME NEW q \in Pulls, NEW c \in ours'[q]
                   PROVE  c.nr \in 1..posted'[q] /\ \A o \in ours'[q] : c.nr = o.nr => c = o
        BY DEF Pages
      <3>1. CASE q # p
        BY <2>1, <3>1 DEF Pages
      <3>2. CASE q = p
        <4>1. \A e \in ours[p] : e.nr \in 1..posted[p]
          BY <1>1 DEF Pages
        <4>2. c.nr \in 1..posted'[q]
          BY <2>1, <2>2, <3>2, <4>1
        <4>3. ASSUME NEW o \in ours'[q], c.nr = o.nr
              PROVE  c = o
          BY <1>1, <2>1, <2>2, <3>2, <4>1, <4>3 DEF Pages
        <4> QED
          BY <4>2, <4>3
      <3> QED
        BY <3>1, <3>2
    <2>4. OneCommentPerPage'
      <3> SUFFICES ASSUME NEW q \in Pulls, NEW c \in ours'[q], NEW o \in ours'[q],
                          c.nr <= PageSize, o.nr <= PageSize
                   PROVE  c = o
        BY DEF OneCommentPerPage, FirstPage
      <3>1. CASE q # p
        BY <2>1, <3>1 DEF OneCommentPerPage, FirstPage
      <3>2. CASE q = p
        BY <1>3, <2>1, <3>2 DEF FirstPage
      <3> QED
        BY <3>1, <3>2
    <2> QED
      BY <2>3, <2>4
  <1> QED
    BY <1>2, <1>3, CommentWritten

(* With the bot, only the task that has it can be about to write, or about   *)
(* to tell a commit.                                                         *)
LEMMA OthersWait ==
    ASSUME NoticeInv, NEW n \in Notices, WithBot(n), NEW m \in Notices, pc'[m] \in Holding
    PROVE  m = n
  <1> USE DEF NoticeInv, Types
  <1>1. HasBot(n)
    BY BotStep
  <1>2. PICK step \in Holding \union {"done"} : pc' = [pc EXCEPT ![n] = step]
    BY BotStep
  <1>3. CASE m # n
    <2>1. pc[m] \in Holding
      BY <1>2, <1>3 DEF TypeOK
    <2> QED
      BY <1>1, <2>1, OnlyHolder
  <1> QED
    BY <1>3

(* The comments, and what has been read of them.                             *)
LEMMA NextPages ==
    ASSUME NoticeInv, [Next]_vars
    PROVE  Pages' /\ OneCommentPerPage' /\ ReadIsThere'
  <1> USE DEF NoticeInv, Types
  <1>1. CASE \A n \in Notices : ~WithBot(n)
    <2>1. UNCHANGED comments
      BY <1>1, OtherStep
    <2>2. \A n \in Notices : pc'[n] = "write" =>
                pc[n] = "write" /\ at'[n] = at[n] /\ read'[n] = read[n]
      BY <1>1, OtherStep DEF Holding
    <2> QED
      BY <2>1, <2>2 DEF comments, Pages, OneCommentPerPage, ReadIsThere, FirstPage
  <1>2. ASSUME NEW n \in Notices, UpdatePullComment(n) \/ CreatePullComment(n)
        PROVE  Pages' /\ OneCommentPerPage' /\ ReadIsThere'
    <2>1. Pages' /\ OneCommentPerPage'
      BY <1>2, WriteKeepsPages
    <2>2. ASSUME NEW m \in Notices, pc'[m] = "write"
          PROVE  FALSE
      <3>1. m = n
        BY <1>2, <2>2, OthersWait DEF WithBot, Holding
      <3>2. pc'[n] = "list"
        BY <1>2 DEF UpdatePullComment, CreatePullComment, Goto, TypeOK
      <3> QED
        BY <2>2, <3>1, <3>2
    <2> QED
      BY <2>1, <2>2 DEF ReadIsThere
  <1>3. ASSUME NEW n \in Notices, ReadPullCommentWithPrefix(n)
        PROVE  Pages' /\ OneCommentPerPage' /\ ReadIsThere'
    <2>1. UNCHANGED <<comments, at>>
      BY <1>3 DEF ReadPullCommentWithPrefix
    <2>2. \/ read'[n] = NoComment /\ FirstPage(at[n]) = {}
          \/ read'[n] \in FirstPage(at[n])
      BY <1>3 DEF ReadPullCommentWithPrefix, TypeOK
    <2>3. \A m \in Notices : pc'[m] = "write" => m = n
      BY <1>3, OthersWait DEF WithBot, Holding
    <2> QED
      BY <2>1, <2>2, <2>3 DEF comments, Pages, OneCommentPerPage, ReadIsThere, FirstPage
  <1>4. ASSUME NEW n \in Notices, WithBot(n), ~ReadPullCommentWithPrefix(n),
               ~UpdatePullComment(n), ~CreatePullComment(n)
        PROVE  Pages' /\ OneCommentPerPage' /\ ReadIsThere'
    <2>1. UNCHANGED comments
      BY <1>4 DEF WithBot, GetOpenPulls, NextPull, CommentFails, ListCheckRuns, CheckFails,
         UpsertCheckRun, Ends
    <2>2. pc'[n] # "write"
      BY <1>4 DEF WithBot, GetOpenPulls, NextPull, CommentFails, ListCheckRuns, CheckFails,
         UpsertCheckRun, Ends, Goto, TypeOK
    <2>3. \A m \in Notices : pc'[m] # "write"
      BY <1>4, <2>2, OthersWait DEF Holding
    <2> QED
      BY <2>1, <2>3 DEF comments, Pages, OneCommentPerPage, ReadIsThere, FirstPage
  <1> QED
    BY <1>1, <1>2, <1>3, <1>4

(* The check runs, and what has been found of them.                          *)
LEMMA NextChecks ==
    ASSUME NoticeInv, [Next]_vars
    PROVE  CheckIsThere' /\ OneCheckRun'
  <1> USE DEF NoticeInv, Types
  <1>1. CASE \A n \in Notices : ~WithBot(n)
    <2>1. UNCHANGED checks
      BY <1>1, OtherStep
    <2>2. \A n \in Notices : pc'[n] = "check" =>
                pc[n] = "check" /\ about'[n] = about[n] /\ found'[n] = found[n]
      BY <1>1, OtherStep DEF Holding
    <2> QED
      BY <2>1, <2>2 DEF CheckIsThere, OneCheckRun, Project
  <1>2. ASSUME NEW n \in Notices, UpsertCheckRun(n)
        PROVE  CheckIsThere' /\ OneCheckRun'
    <2> DEFINE s == ShaOf[about[n]]
               j == Project(n)
               runs == checks[s][j].runs
    <2>1. \A m \in Notices : pc'[m] # "check"
      <3>1. pc'[n] = "next"
        BY <1>2 DEF UpsertCheckRun, Goto, TypeOK
      <3> QED
        BY <1>2, <3>1, OthersWait DEF WithBot, Holding
    <2>2. /\ s \in Shas /\ j \in Projects /\ runs \in Nat
          /\ found[n] <=> runs > 0
      <3>1. s \in Shas /\ j \in Projects
        BY LineType
      <3>2. runs \in Nat
        BY <3>1 DEF TypeOK
      <3>3. pc[n] = "check"
        BY <1>2 DEF UpsertCheckRun
      <3> QED
        BY <3>1, <3>2, <3>3 DEF CheckIsThere
    <2>3. (IF found[n] THEN runs ELSE runs + 1) <= 1
      BY <2>2 DEF OneCheckRun
    <2>4. checks' = [checks EXCEPT ![s] = [checks[s] EXCEPT ![j] =
                        [runs |-> IF found[n] THEN runs ELSE runs + 1, line |-> LineOf(n)]]]
      BY <1>2 DEF UpsertCheckRun
    <2>5. OneCheckRun'
      <3> SUFFICES ASSUME NEW t \in Shas, NEW k \in Projects
                   PROVE  checks'[t][k].runs <= 1
        BY DEF OneCheckRun
      <3>1. CASE t = s /\ k = j
        <4>1. checks'[t][k] = [runs |-> IF found[n] THEN runs ELSE runs + 1, line |-> LineOf(n)]
          BY <2>2, <2>4, <3>1 DEF TypeOK
        <4> QED
          BY <2>3, <4>1
      <3>2. CASE t # s \/ k # j
        <4>1. checks'[t][k] = checks[t][k]
          BY <2>2, <2>4, <3>2 DEF TypeOK
        <4> QED
          BY <4>1 DEF OneCheckRun
      <3> QED
        BY <3>1, <3>2
    <2> QED
      BY <2>1, <2>5 DEF CheckIsThere
  <1>3. ASSUME NEW n \in Notices, ListCheckRuns(n)
        PROVE  CheckIsThere' /\ OneCheckRun'
    <2>1. UNCHANGED <<checks, about>>
      BY <1>3 DEF ListCheckRuns, carried
    <2>2. found'[n] = (checks[ShaOf[about[n]]][Project(n)].runs > 0)
      BY <1>3 DEF ListCheckRuns, TypeOK
    <2>3. \A m \in Notices : pc'[m] = "check" => m = n
      BY <1>3, OthersWait DEF WithBot, Holding
    <2> QED
      BY <2>1, <2>2, <2>3 DEF CheckIsThere, OneCheckRun, Project
  <1>4. ASSUME NEW n \in Notices, WithBot(n), ~ListCheckRuns(n), ~UpsertCheckRun(n)
        PROVE  CheckIsThere' /\ OneCheckRun'
    <2>1. UNCHANGED checks
      BY <1>4 DEF WithBot, GetOpenPulls, NextPull, ReadPullCommentWithPrefix,
         UpdatePullComment, CreatePullComment, CommentFails, CheckFails, Ends
    <2>2. pc'[n] # "check"
      BY <1>4 DEF WithBot, GetOpenPulls, NextPull, ReadPullCommentWithPrefix,
         UpdatePullComment, CreatePullComment, CommentFails, CheckFails, Ends, Goto, TypeOK
    <2>3. \A m \in Notices : pc'[m] # "check"
      BY <1>4, <2>2, OthersWait DEF Holding
    <2> QED
      BY <2>1, <2>3 DEF CheckIsThere, OneCheckRun
  <1> QED
    BY <1>1, <1>2, <1>3, <1>4

-----------------------------------------------------------------------------
(* Lines: nothing older is written over what is younger.                     *)

(* A comment that is there after a step and was not before, or one that was  *)
(* there and is no more, is the work of a task that tells the pull request.  *)
LEMMA CommentWriter ==
    ASSUME NoticeInv, [Next]_vars, NEW p \in Pulls, ours'[p] # ours[p]
    PROVE  \E n \in Notices :
              /\ UpdatePullComment(n) \/ CreatePullComment(n)
              /\ at[n] = p
  <1> USE DEF NoticeInv, Types
  <1>1. PICK n \in Notices : UpdatePullComment(n) \/ CreatePullComment(n)
    <2>1. \A n \in Notices : ~UpdatePullComment(n) /\ ~CreatePullComment(n) =>
            UNCHANGED ours \/ ~WithBot(n)
      BY DEF WithBot, GetOpenPulls, NextPull, ReadPullCommentWithPrefix, CommentFails,
         ListCheckRuns, CheckFails, UpsertCheckRun, Ends, comments
    <2>2. (\A n \in Notices : ~WithBot(n)) => UNCHANGED ours
      BY OtherStep DEF comments
    <2> QED
      BY <2>1, <2>2
  <1>2. ours \in [Pulls -> SUBSET Comments] /\ at[n] \in Pulls
    BY DEF TypeOK
  <1>3. at[n] = p
    BY <1>1, <1>2 DEF UpdatePullComment, CreatePullComment
  <1> QED
    BY <1>1, <1>3

(* What a task writes there is one comment, with the lines it has.           *)
LEMMA NewComment ==
    ASSUME NoticeInv, NEW n \in Notices, UpdatePullComment(n) \/ CreatePullComment(n),
           NEW c \in ours'[at[n]], c \notin ours[at[n]]
    PROVE  c.lines = UpdatedInfo(n)
  <1> USE DEF NoticeInv, Types
  <1>1. at[n] \in Pulls /\ ours \in [Pulls -> SUBSET Comments]
    BY DEF TypeOK
  <1>2. CASE ours' = [ours EXCEPT ![at[n]] =
                {o \in ours[at[n]] : o.nr # read[n].nr} \union {Comment(n, read[n].nr)}]
    BY <1>1, <1>2 DEF Comment
  <1>3. CASE ours' = [ours EXCEPT ![at[n]] =
                ours[at[n]] \union {Comment(n, posted[at[n]] + 1)}]
    BY <1>1, <1>3 DEF Comment
  <1> QED
    BY <1>2, <1>3, CommentWritten

(* A check run that changes is told by a task of the project at the commit.  *)
LEMMA CheckWriter ==
    ASSUME NoticeInv, [Next]_vars, NEW s \in Shas, NEW j \in Projects,
           checks'[s][j] # checks[s][j]
    PROVE  \E n \in Notices :
              /\ UpsertCheckRun(n)
              /\ s = ShaOf[about[n]] /\ j = Project(n)
              /\ checks'[s][j].line = LineOf(n)
  <1> USE DEF NoticeInv, Types
  <1>1. PICK n \in Notices : UpsertCheckRun(n)
    <2>1. \A n \in Notices : ~UpsertCheckRun(n) => UNCHANGED checks \/ ~WithBot(n)
      BY DEF WithBot, GetOpenPulls, NextPull, ReadPullCommentWithPrefix,
         UpdatePullComment, CreatePullComment, CommentFails, ListCheckRuns, CheckFails, Ends
    <2>2. (\A n \in Notices : ~WithBot(n)) => UNCHANGED checks
      BY OtherStep
    <2> QED
      BY <2>1, <2>2
  <1>2. ShaOf[about[n]] \in Shas /\ Project(n) \in Projects
    BY LineType
  <1>3. s = ShaOf[about[n]] /\ j = Project(n) /\ checks'[s][j].line = LineOf(n)
    BY <1>1, <1>2 DEF UpsertCheckRun, TypeOK
  <1> QED
    BY <1>1, <1>3

(* A turn that has passed stays so: who asks from now on comes later.        *)
LEMMA PastStays ==
    ASSUME Types, NEW k \in Nat, Past(k), [Next]_vars
    PROVE  Past(k)'
  <1> USE DEF Types
  <1>1. turn \in [Notices -> Nat] /\ asked \in Nat /\ pc \in [Notices -> Steps]
    BY DEF TypeOK
  <1>2. CASE /\ UNCHANGED line
             /\ \A n \in Notices : pc'[n] \in Asking => pc[n] \in Asking
    BY <1>2 DEF Past, line
  <1>3. ASSUME NEW n \in Notices, AllocateBot(n)
        PROVE  Past(k)'
    <2>1. /\ asked' = asked + 1
          /\ turn' = [turn EXCEPT ![n] = asked + 1]
          /\ pc' = [pc EXCEPT ![n] = "pulls"]
      BY <1>3 DEF AllocateBot, Goto
    <2>2. ASSUME NEW m \in Notices, pc'[m] \in Asking
          PROVE  k <= turn'[m]
      <3>1. CASE m = n
        BY <1>1, <2>1, <3>1 DEF Past
      <3>2. CASE m # n
        BY <1>1, <2>1, <2>2, <3>2 DEF Past
      <3> QED
        BY <3>1, <3>2
    <2> QED
      BY <1>1, <2>1, <2>2 DEF Past
  <1>4. ASSUME NEW n \in Notices, WithBot(n)
        PROVE  Past(k)'
    <2>1. HasBot(n) /\ UNCHANGED line
      BY <1>4, BotStep
    <2>2. PICK step \in Holding \union {"done"} : pc' = [pc EXCEPT ![n] = step]
      BY <1>4, BotStep
    <2> QED
      BY <1>1, <1>2, <2>1, <2>2 DEF HasBot
  <1>5. CASE \/ \E d \in Deployments : OnBuildStarted(d)
             \/ \E result \in {"Ready", "Failed"} : OnBuildEnded(result)
             \/ SetupFails
             \/ UNCHANGED vars
    BY <1>2, <1>5 DEF OnBuildStarted, OnBuildEnded, SetupFails, vars
  <1>6. CASE UpdateGithub
    <2>1. UNCHANGED line /\ pc' = [pc EXCEPT ![spawned + 1] = "spawned"]
      BY <1>6 DEF UpdateGithub, Goto
    <2> QED
      BY <1>1, <1>2, <2>1 DEF Asking
  <1>7. CASE Restart
    BY <1>1, <1>2, <1>7 DEF Restart, Asking
  <1> QED
    BY <1>3, <1>4, <1>5, <1>6, <1>7 DEF Next

(* The turn of the task that has the bot has passed, and no line is younger. *)
LEMMA TurnIsPast ==
    ASSUME NoticeInv, NEW n \in Notices, HasBot(n)
    PROVE  /\ Past(turn[n])
           /\ \A k \in Nat : Past(k) => k <= turn[n]
  <1> USE DEF NoticeInv, Types
  <1>1. pc[n] \in Asking
    BY DEF HasBot
  <1>2. turn[n] <= asked
    BY <1>1 DEF Turns
  <1> QED
    BY <1>1, <1>2 DEF HasBot, Past

(* So have those of the lines it writes.                                     *)
LEMMA InfoIsPast ==
    ASSUME NoticeInv, NEW n \in Notices, UpdatePullComment(n) \/ CreatePullComment(n),
           NEW j \in Projects
    PROVE  UpdatedInfo(n)[j].turn \in Nat /\ Past(UpdatedInfo(n)[j].turn)
  <1> USE DEF NoticeInv, Types
  <1>1. HasBot(n) /\ pc[n] = "write" /\ at[n] \in Pulls
    BY DEF UpdatePullComment, CreatePullComment, TypeOK
  <1>2. UpdatedInfo(n)[j] = IF j = Project(n) THEN LineOf(n) ELSE read[n].lines[j]
    BY DEF UpdatedInfo
  <1>3. CASE j = Project(n)
    <2>1. UpdatedInfo(n)[j].turn = turn[n]
      BY <1>2, <1>3 DEF LineOf
    <2> QED
      BY <1>1, <2>1, TurnIsPast DEF TypeOK
  <1>4. CASE j # Project(n) /\ read[n] = NoComment
    <2>1. UpdatedInfo(n)[j].turn = 0
      BY <1>2, <1>4 DEF NoComment, Blank, NoLine
    <2> QED
      BY <2>1 DEF Past, TypeOK
  <1>5. CASE j # Project(n) /\ read[n] \in FirstPage(at[n])
    <2>1. read[n] \in ours[at[n]] /\ read[n] \in Comments
      BY <1>1, <1>5 DEF FirstPage, TypeOK
    <2>2. Past(read[n].lines[j].turn)
      BY <1>1, <2>1 DEF LinesInTurn
    <2>3. read[n].lines[j].turn \in Nat
      BY <2>1 DEF Comments, Lines
    <2> QED
      BY <1>2, <1>5, <2>2, <2>3
  <1> QED
    BY <1>1, <1>3, <1>4, <1>5 DEF ReadIsThere

(* The lines stay in turn.                                                   *)
LEMMA NextLines ==
    ASSUME NoticeInv, [Next]_vars
    PROVE  LinesInTurn'
  <1> USE DEF NoticeInv, Types
  <1>1. \A k \in Nat : Past(k) => Past(k)'
    BY PastStays
  <1>2. ASSUME NEW p \in Pulls, NEW c \in ours'[p], NEW j \in Projects
        PROVE  c.lines[j].turn \in Nat /\ Past(c.lines[j].turn)
    <2>1. CASE c \in ours[p]
      BY <2>1 DEF LinesInTurn, TypeOK, Comments, Lines
    <2>2. CASE c \notin ours[p]
      <3>1. PICK n \in Notices : (UpdatePullComment(n) \/ CreatePullComment(n)) /\ at[n] = p
        BY <2>2, CommentWriter
      <3>2. c.lines = UpdatedInfo(n)
        BY <2>2, <3>1, NewComment
      <3> QED
        BY <3>1, <3>2, InfoIsPast
    <2> QED
      BY <2>1, <2>2
  <1>3. ASSUME NEW s \in Shas, NEW j \in Projects
        PROVE  checks'[s][j].line.turn \in Nat /\ Past(checks'[s][j].line.turn)
    <2>1. CASE checks'[s][j] = checks[s][j]
      BY <2>1 DEF LinesInTurn, TypeOK, Lines
    <2>2. CASE checks'[s][j] # checks[s][j]
      <3>1. PICK n \in Notices : UpsertCheckRun(n) /\ checks'[s][j].line = LineOf(n)
        BY <2>2, CheckWriter
      <3>2. HasBot(n)
        BY <3>1 DEF UpsertCheckRun
      <3> QED
        BY <3>1, <3>2, TurnIsPast DEF LineOf, TypeOK
    <2> QED
      BY <2>1, <2>2
  <1>4. \A s \in Shas, j \in Projects : Past(checks[s][j].line.turn)'
    <2> TAKE s \in Shas, j \in Projects
    <2> DEFINE k == checks'[s][j].line.turn
    <2>1. k \in Nat /\ Past(k)
      BY <1>3
    <2>2. PICK i \in Nat : i = k
      BY <2>1
    <2>3. Past(i)'
      BY <1>1, <2>1, <2>2
    <2> QED
      BY <2>2, <2>3 DEF Past
  <1>5. ASSUME NEW p \in Pulls, NEW c \in ours'[p], NEW j \in Projects
        PROVE  Past(c.lines[j].turn)'
    <2>1. Past(c.lines[j].turn) /\ c.lines[j].turn \in Nat
      BY <1>2, <1>5
    <2> QED
      BY <1>1, <2>1
  <1> QED
    BY <1>4, <1>5 DEF LinesInTurn

-----------------------------------------------------------------------------
(* What the tasks never do to each other.                                    *)

(* The invariant holds at the start and is kept.                             *)
LEMMA NoticesInvariant == Spec => []NoticeInv
  <1>1. Init => NoticeInv
    <2> SUFFICES ASSUME Init PROVE NoticeInv
      OBVIOUS
    <2>1. Types
      BY InitTypes DEF Types, HookWrote, Init, Idle
    <2>2. Turns /\ Holder /\ ReadIsThere /\ CheckIsThere
      BY DEF Init, Turns, Holder, ReadIsThere, CheckIsThere, Asking, Holding
    <2>3. Pages /\ OneCommentPerPage
      BY DEF Init, Pages, OneCommentPerPage, FirstPage
    <2>4. OneCheckRun /\ LinesInTurn
      BY DEF Init, OneCheckRun, LinesInTurn, Past, NoLine, Asking
    <2> QED
      BY <2>1, <2>2, <2>3, <2>4 DEF NoticeInv
  <1>2. NoticeInv /\ [Next]_vars => NoticeInv'
    <2> SUFFICES ASSUME NoticeInv, [Next]_vars PROVE NoticeInv'
      OBVIOUS
    <2>1. Types'
      BY NextTypes, NextHook DEF Types, NoticeInv
    <2>2. Turns' /\ Holder'
      BY NextTurns DEF NoticeInv
    <2> QED
      BY <2>1, <2>2, NextPages, NextChecks, NextLines DEF NoticeInv
  <1> QED
    BY <1>1, <1>2, PTL DEF Spec

(* However many builds end at once, no task creates a second comment of      *)
(* Prezel in the page another one reads (hooks.rs:128-157): the bot is kept  *)
(* from the list of the comments to the post.                                *)
THEOREM CommentsAreNotDoubled == Spec => []OneCommentPerPage
  <1>1. NoticeInv => OneCommentPerPage
    BY DEF NoticeInv
  <1> QED
    BY <1>1, NoticesInvariant, PTL

(* However many deployments and builds a commit has, its check run for a     *)
(* project is one (github.rs:194-237).                                       *)
THEOREM ChecksAreNotDoubled == Spec => []OneCheckRun
  <1>1. NoticeInv => OneCheckRun
    BY DEF NoticeInv
  <1> QED
    BY <1>1, NoticesInvariant, PTL

(* No comment of Prezel is lost, and no line of it gets older.               *)
LEMMA CommentsMoveForward ==
    ASSUME NoticeInv, [Next]_vars, NEW p \in Pulls, NEW c \in ours[p]
    PROVE  \E o \in ours'[p] :
                o.nr = c.nr /\ \A j \in Projects : c.lines[j].turn <= o.lines[j].turn
  <1> USE DEF NoticeInv, Types
  <1>1. c \in Comments
    BY DEF TypeOK
  <1>2. \A j \in Projects : c.lines[j].turn \in Nat
    BY <1>1 DEF Comments, Lines
  <1>3. CASE c \in ours'[p]
    <2>1. \A j \in Projects : c.lines[j].turn <= c.lines[j].turn
      BY <1>2
    <2> QED
      BY <1>3, <2>1
  <1>4. CASE c \notin ours'[p]
    <2>1. PICK n \in Notices : (UpdatePullComment(n) \/ CreatePullComment(n)) /\ at[n] = p
      BY <1>4, CommentWriter
    <2>2. ours \in [Pulls -> SUBSET Comments] /\ HasBot(n)
      BY <2>1 DEF TypeOK, UpdatePullComment, CreatePullComment
    <2>3. /\ read[n] \in FirstPage(p)
          /\ ours'[p] = {o \in ours[p] : o.nr # read[n].nr} \union {Comment(n, read[n].nr)}
      BY <1>4, <2>1, <2>2, CommentWritten
    <2>4. read[n] = c
      BY <1>4, <2>3 DEF FirstPage, Pages
    <2> DEFINE o == Comment(n, c.nr)
    <2>5. o \in ours'[p] /\ o.nr = c.nr
      BY <2>3, <2>4 DEF Comment
    <2>6. ASSUME NEW j \in Projects
          PROVE  c.lines[j].turn <= o.lines[j].turn
      <3>1. o.lines[j] = IF j = Project(n) THEN LineOf(n) ELSE c.lines[j]
        BY <2>4 DEF Comment, UpdatedInfo
      <3>2. c.lines[j].turn <= turn[n]
        BY <1>2, <2>2, TurnIsPast DEF LinesInTurn
      <3> QED
        BY <1>2, <3>1, <3>2 DEF LineOf
    <2> QED
      BY <2>5, <2>6
  <1> QED
    BY <1>3, <1>4

(* Nor does a check run.                                                     *)
LEMMA ChecksMoveForward ==
    ASSUME NoticeInv, [Next]_vars, NEW s \in Shas, NEW j \in Projects
    PROVE  checks[s][j].line.turn <= checks'[s][j].line.turn
  <1> USE DEF NoticeInv, Types
  <1>1. checks[s][j].line.turn \in Nat /\ Past(checks[s][j].line.turn)
    BY DEF TypeOK, Lines, LinesInTurn
  <1>2. CASE checks'[s][j] = checks[s][j]
    BY <1>1, <1>2
  <1>3. CASE checks'[s][j] # checks[s][j]
    <2>1. PICK n \in Notices : UpsertCheckRun(n) /\ checks'[s][j].line = LineOf(n)
      BY <1>3, CheckWriter
    <2>2. checks[s][j].line.turn <= turn[n]
      BY <1>1, <2>1, TurnIsPast DEF UpsertCheckRun
    <2> QED
      BY <2>1, <2>2 DEF LineOf
  <1> QED
    BY <1>2, <1>3

(* No update is lost: what a comment or a check run shows of a project is    *)
(* only ever replaced by a task whose turn came later, also by those of      *)
(* other projects, which write the line back as they read it                 *)
(* (hooks.rs:142-152).                                                       *)
THEOREM LinesAreNotLost == Spec => LinesMoveForward
  <1> DEFINE Forward ==
        /\ \A p \in Pulls : \A c \in FirstPage(p) : \E o \in FirstPage(p)' :
                o.nr = c.nr /\ \A j \in Projects : c.lines[j].turn <= o.lines[j].turn
        /\ \A s \in Shas, j \in Projects :
                checks[s][j].line.turn <= checks'[s][j].line.turn
  <1>1. NoticeInv /\ [Next]_vars => [Forward]_vars
    BY CommentsMoveForward, ChecksMoveForward DEF FirstPage
  <1> QED
    BY <1>1, NoticesInvariant, PTL DEF Spec, LinesMoveForward

-----------------------------------------------------------------------------
(* What github shows: every line is the line of a task, no task that wrote   *)
(* is forgotten, and the last task about a deployment carries its row.       *)

(* The tasks that have come to the bot.                                      *)
Came == {n \in 1..spawned : pc[n] \notin {"off", "spawned"}}

Spawned == \A n \in Notices : pc[n] # "off" => n \in 1..spawned

TaskLine(l, j) == l = NoLine \/ \E n \in Came : Project(n) = j /\ l = LineOf(n)

LinesOfTasks ==
    /\ \A p \in Pulls : \A c \in ours[p] : \A j \in Projects : TaskLine(c.lines[j], j)
    /\ \A s \in Shas, j \in Projects : TaskLine(checks[s][j].line, j)

ToldStays ==
    /\ \A p \in Pulls : \A n \in told[p] :
        n \in Came /\ \E c \in ours[p] : turn[n] <= c.lines[Project(n)].turn
    /\ \A n \in marked :
        n \in Came /\ turn[n] <= checks[ShaOf[about[n]]][Project(n)].line.turn

LastCarriesRow ==
    \A n \in 1..spawned : about[n] \notin silent =>
        \/ status[n] = row[about[n]]
        \/ \E m \in 1..spawned : m > n /\ about[m] = about[n]

TellInv ==
    /\ NoticeInv
    /\ Spawned
    /\ LinesOfTasks
    /\ ToldStays
    /\ LastCarriesRow

(* Who has spawned tasks is within the bound.                                *)
LEMMA SpawnedAreNotices ==
    ASSUME TypeOK
    PROVE  spawned \in Nat /\ 1..spawned \subseteq Notices
  <1>1. spawned \in 0..MaxNotices /\ MaxNotices \in Nat
    BY NoticeConstants DEF NoticeConstants, TypeOK
  <1> QED
    BY <1>1 DEF Notices

(* What a task that came to the bot carries, and its turn, never change.     *)
LEMMA CameStays ==
    ASSUME Types, Spawned, [Next]_vars
    PROVE  /\ Spawned'
           /\ \A n \in Came :
                n \in Came' /\ about'[n] = about[n] /\ status'[n] = status[n] /\ turn'[n] = turn[n]
  <1> USE DEF Types
  <1>1. /\ pc \in [Notices -> Steps] /\ turn \in [Notices -> Nat]
        /\ about \in [Notices -> Deployments] /\ status \in [Notices -> Statuses]
    BY DEF TypeOK
  <1>2. spawned \in Nat /\ 1..spawned \subseteq Notices
    BY SpawnedAreNotices
  <1>3. CASE /\ UNCHANGED <<carried, line>>
             /\ \A n \in Notices : /\ pc'[n] \in {"off", "spawned"} => pc'[n] = pc[n]
                                   /\ pc[n] = "off" => pc'[n] = "off"
    BY <1>2, <1>3 DEF carried, line, Came, Spawned
  <1>4. CASE UpdateGithub
    <2>1. /\ spawned' = spawned + 1
          /\ pc' = [pc EXCEPT ![spawned + 1] = "spawned"]
          /\ about' = [about EXCEPT ![spawned + 1] = builder.of]
          /\ status' = [status EXCEPT ![spawned + 1] = row[builder.of]]
          /\ UNCHANGED line
      BY <1>4 DEF UpdateGithub, Goto
    <2>2. \A n \in Notices : n # spawned + 1 =>
            pc'[n] = pc[n] /\ about'[n] = about[n] /\ status'[n] = status[n]
      BY <1>1, <2>1
    <2>3. Spawned'
      BY <1>2, <2>1, <2>2 DEF Spawned
    <2>4. \A n \in Came : n # spawned + 1 /\ n \in Notices /\ n \in 1..(spawned + 1)
      BY <1>2 DEF Came
    <2> QED
      BY <2>1, <2>2, <2>3, <2>4 DEF Came, line
  <1>5. ASSUME NEW n \in Notices, AllocateBot(n)
        PROVE  /\ Spawned'
               /\ \A m \in Came : m \in Came' /\ about'[m] = about[m]
                                  /\ status'[m] = status[m] /\ turn'[m] = turn[m]
    <2>1. /\ pc[n] = "spawned"
          /\ pc' = [pc EXCEPT ![n] = "pulls"]
          /\ turn' = [turn EXCEPT ![n] = asked + 1]
          /\ UNCHANGED carried
      BY <1>5 DEF AllocateBot, Goto
    <2>2. \A m \in Notices : m # n => pc'[m] = pc[m] /\ turn'[m] = turn[m]
      BY <1>1, <2>1
    <2>3. \A m \in Came : m # n /\ m \in Notices
      BY <1>2, <2>1 DEF Came
    <2>4. Spawned'
      BY <2>1, <2>2 DEF Spawned, carried
    <2> QED
      BY <2>1, <2>2, <2>3, <2>4 DEF Came, carried
  <1>6. ASSUME NEW n \in Notices, WithBot(n)
        PROVE  /\ UNCHANGED <<carried, line>>
               /\ \A m \in Notices : /\ pc'[m] \in {"off", "spawned"} => pc'[m] = pc[m]
                                     /\ pc[m] = "off" => pc'[m] = "off"
    <2>1. HasBot(n) /\ UNCHANGED <<carried, line>>
      BY <1>6, BotStep
    <2>2. PICK step \in Holding \union {"done"} : pc' = [pc EXCEPT ![n] = step]
      BY <1>6, BotStep
    <2> QED
      BY <1>1, <2>1, <2>2 DEF HasBot, Asking, Holding
  <1>7. CASE \/ \E d \in Deployments : OnBuildStarted(d)
             \/ \E result \in {"Ready", "Failed"} : OnBuildEnded(result)
             \/ SetupFails
             \/ UNCHANGED vars
    BY <1>3, <1>7 DEF OnBuildStarted, OnBuildEnded, SetupFails, vars
  <1>8. CASE Restart
    <2>1. UNCHANGED <<carried, line>>
      BY <1>8 DEF Restart
    <2>2. \A n \in Notices : pc'[n] = IF pc[n] = "off" THEN "off" ELSE "done"
      BY <1>8 DEF Restart
    <2> QED
      BY <1>3, <2>1, <2>2
  <1> QED
    BY <1>3, <1>4, <1>5, <1>6, <1>7, <1>8 DEF Next

(* So the line of a task remains one.                                        *)
LEMMA TaskLineStays ==
    ASSUME Types, Spawned, [Next]_vars, NEW l, NEW j, TaskLine(l, j)
    PROVE  TaskLine(l, j)'
  <1>1. CASE l = NoLine
    BY <1>1 DEF TaskLine
  <1>2. ASSUME NEW n \in Came, Project(n) = j, l = LineOf(n)
        PROVE  TaskLine(l, j)'
    <2>1. /\ n \in Came'
          /\ about'[n] = about[n] /\ status'[n] = status[n] /\ turn'[n] = turn[n]
      BY CameStays
    <2>2. Project(n)' = j /\ LineOf(n)' = l
      BY <1>2, <2>1 DEF Project, LineOf
    <2> QED
      BY <2>1, <2>2 DEF TaskLine
  <1> QED
    BY <1>1, <1>2 DEF TaskLine

(* Who has the bot came to it.                                               *)
LEMMA HolderCame ==
    ASSUME Spawned, NEW n \in Notices, HasBot(n)
    PROVE  n \in Came
  BY DEF HasBot, Spawned, Came, Asking

(* Every line a task writes is its own or one it read.                       *)
LEMMA InfoOfTasks ==
    ASSUME TellInv, NEW n \in Notices, UpdatePullComment(n) \/ CreatePullComment(n),
           NEW j \in Projects
    PROVE  TaskLine(UpdatedInfo(n)[j], j)
  <1> USE DEF TellInv, NoticeInv, Types
  <1>1. HasBot(n) /\ pc[n] = "write" /\ at[n] \in Pulls
    BY DEF UpdatePullComment, CreatePullComment, TypeOK
  <1>2. UpdatedInfo(n)[j] = IF j = Project(n) THEN LineOf(n) ELSE read[n].lines[j]
    BY DEF UpdatedInfo
  <1>3. CASE j = Project(n)
    BY <1>1, <1>2, <1>3, HolderCame DEF TaskLine
  <1>4. CASE j # Project(n) /\ read[n] = NoComment
    BY <1>2, <1>4 DEF NoComment, Blank, TaskLine
  <1>5. CASE j # Project(n) /\ read[n] \in FirstPage(at[n])
    <2>1. read[n] \in ours[at[n]]
      BY <1>5 DEF FirstPage
    <2>2. TaskLine(read[n].lines[j], j)
      BY <1>1, <2>1 DEF LinesOfTasks
    <2> QED
      BY <1>2, <1>5, <2>2
  <1> QED
    BY <1>1, <1>3, <1>4, <1>5 DEF ReadIsThere

(* Nothing else gets on github.                                              *)
LEMMA NextLinesOfTasks ==
    ASSUME TellInv, [Next]_vars
    PROVE  LinesOfTasks'
  <1> USE DEF TellInv, NoticeInv, Types
  <1>1. ASSUME NEW p \in Pulls, NEW c \in ours'[p], NEW j \in Projects
        PROVE  TaskLine(c.lines[j], j)'
    <2>1. TaskLine(c.lines[j], j)
      <3>1. CASE c \in ours[p]
        BY <3>1 DEF LinesOfTasks
      <3>2. CASE c \notin ours[p]
        <4>1. PICK n \in Notices : (UpdatePullComment(n) \/ CreatePullComment(n)) /\ at[n] = p
          BY <3>2, CommentWriter
        <4>2. c.lines = UpdatedInfo(n)
          BY <3>2, <4>1, NewComment
        <4> QED
          BY <4>1, <4>2, InfoOfTasks
      <3> QED
        BY <3>1, <3>2
    <2> QED
      BY <2>1, TaskLineStays
  <1>2. ASSUME NEW s \in Shas, NEW j \in Projects
        PROVE  TaskLine(checks[s][j].line, j)'
    <2>1. TaskLine(checks'[s][j].line, j)
      <3>1. CASE checks'[s][j] = checks[s][j]
        BY <3>1 DEF LinesOfTasks
      <3>2. CASE checks'[s][j] # checks[s][j]
        <4>1. PICK n \in Notices : /\ UpsertCheckRun(n) /\ j = Project(n)
                                   /\ checks'[s][j].line = LineOf(n)
          BY <3>2, CheckWriter
        <4>2. n \in Came
          BY <4>1, HolderCame DEF UpsertCheckRun
        <4> QED
          BY <4>1, <4>2 DEF TaskLine
      <3> QED
        BY <3>1, <3>2
    <2>2. PICK l : l = checks'[s][j].line
      OBVIOUS
    <2>3. TaskLine(l, j)'
      BY <2>1, <2>2, TaskLineStays
    <2> QED
      BY <2>2, <2>3 DEF TaskLine
  <1> QED
    BY <1>1, <1>2 DEF LinesOfTasks

(* The comments a task wrote keep its line, or a younger one.                *)
LEMMA NextTold ==
    ASSUME TellInv, [Next]_vars, NEW p \in Pulls, NEW n \in told'[p]
    PROVE  n \in Came' /\ \E c \in ours'[p] : turn'[n] <= c.lines[Project(n)'].turn
  <1> USE DEF TellInv, NoticeInv, Types
  <1>1. CASE n \in told[p]
    <2>1. n \in Came
      BY <1>1 DEF ToldStays
    <2>2. n \in Came' /\ Project(n)' = Project(n) /\ turn'[n] = turn[n]
      BY <2>1, CameStays DEF Project
    <2>3. n \in Notices /\ Project(n) \in Projects /\ turn[n] \in Nat
      BY <2>1, SpawnedAreNotices, LineType DEF Came, TypeOK
    <2>4. PICK c \in ours[p] : turn[n] <= c.lines[Project(n)].turn
      BY <1>1 DEF ToldStays
    <2>5. PICK o \in ours'[p] : \A j \in Projects : c.lines[j].turn <= o.lines[j].turn
      BY CommentsMoveForward
    <2>6. c.lines[Project(n)].turn \in Nat /\ o.lines[Project(n)].turn \in Nat
      <3>1. c \in Comments /\ o \in Comments
        BY NextTypes DEF TypeOK
      <3> QED
        BY <2>3, <3>1 DEF Comments, Lines
    <2>7. turn[n] <= o.lines[Project(n)].turn
      BY <2>3, <2>4, <2>5, <2>6
    <2> QED
      BY <2>2, <2>7
  <1>2. CASE n \notin told[p]
    <2>1. PICK m \in Notices : UpdatePullComment(m) \/ CreatePullComment(m)
      <3>1. \A m \in Notices : ~UpdatePullComment(m) /\ ~CreatePullComment(m) =>
              UNCHANGED told \/ ~WithBot(m)
        BY DEF WithBot, GetOpenPulls, NextPull, ReadPullCommentWithPrefix, CommentFails,
           ListCheckRuns, CheckFails, UpsertCheckRun, Ends, wrote
      <3>2. (\A m \in Notices : ~WithBot(m)) => UNCHANGED told
        BY DEF Next, OnBuildStarted, OnBuildEnded, UpdateGithub, SetupFails, AllocateBot,
           Restart, vars, wrote
      <3> QED
        BY <1>2, <3>1, <3>2
    <2>2. m = n /\ at[n] = p
      BY <1>2, <2>1 DEF UpdatePullComment, CreatePullComment, TypeOK
    <2>3. HasBot(n) /\ n \in Notices /\ UNCHANGED <<carried, line>>
      BY <2>1, <2>2 DEF UpdatePullComment, CreatePullComment
    <2>4. n \in Came
      BY <2>3, HolderCame
    <2>5. n \in Came' /\ Project(n)' = Project(n) /\ turn'[n] = turn[n]
      BY <2>4, CameStays DEF Project
    <2>6. \E nr : Comment(n, nr) \in ours'[p]
      <3>1. ours \in [Pulls -> SUBSET Comments] /\ at[n] \in Pulls
        BY <2>3 DEF TypeOK
      <3> QED
        BY <2>1, <2>2, <3>1, CommentWritten
    <2>7. PICK c \in ours'[p] : c.lines = UpdatedInfo(n)
      BY <2>6 DEF Comment
    <2>8. Project(n) \in Projects /\ turn[n] \in Nat
      BY <2>3, LineType DEF TypeOK
    <2>9. c.lines[Project(n)].turn = turn[n]
      BY <2>7, <2>8 DEF UpdatedInfo, LineOf
    <2>10. turn'[n] <= c.lines[Project(n)'].turn
      BY <2>5, <2>8, <2>9
    <2> QED
      BY <2>5, <2>10
  <1> QED
    BY <1>1, <1>2

(* So do the check runs.                                                     *)
LEMMA NextMarked ==
    ASSUME TellInv, [Next]_vars, NEW n \in marked'
    PROVE  n \in Came' /\ turn'[n] <= checks'[ShaOf[about'[n]]][Project(n)'].line.turn
  <1> USE DEF TellInv, NoticeInv, Types
  <1>1. CASE n \in marked
    <2>1. n \in Came /\ turn[n] <= checks[ShaOf[about[n]]][Project(n)].line.turn
      BY <1>1 DEF ToldStays
    <2>2. n \in Came' /\ about'[n] = about[n] /\ Project(n)' = Project(n) /\ turn'[n] = turn[n]
      BY <2>1, CameStays DEF Project
    <2>3. n \in Notices
      BY <2>1, SpawnedAreNotices DEF Came
    <2>4. /\ ShaOf[about[n]] \in Shas /\ Project(n) \in Projects
          /\ turn[n] \in Nat
      BY <2>3, LineType DEF TypeOK
    <2>5. \A s \in Shas, j \in Projects :
            checks[s][j].line.turn \in Nat /\ checks'[s][j].line.turn \in Nat
      BY NextTypes DEF TypeOK, Lines
    <2>6. turn[n] <= checks'[ShaOf[about[n]]][Project(n)].line.turn
      BY <2>1, <2>4, <2>5, ChecksMoveForward
    <2> QED
      BY <2>2, <2>6
  <1>2. CASE n \notin marked
    <2>1. PICK m \in Notices : UpsertCheckRun(m)
      <3>1. \A m \in Notices : ~UpsertCheckRun(m) => UNCHANGED marked \/ ~WithBot(m)
        BY DEF WithBot, GetOpenPulls, NextPull, ReadPullCommentWithPrefix,
           UpdatePullComment, CreatePullComment, CommentFails, ListCheckRuns, CheckFails,
           Ends, wrote
      <3>2. (\A m \in Notices : ~WithBot(m)) => UNCHANGED marked
        BY DEF Next, OnBuildStarted, OnBuildEnded, UpdateGithub, SetupFails, AllocateBot,
           Restart, vars, wrote
      <3> QED
        BY <1>2, <3>1, <3>2
    <2>2. m = n
      BY <1>2, <2>1 DEF UpsertCheckRun
    <2>3. HasBot(n) /\ n \in Notices
      BY <2>1, <2>2 DEF UpsertCheckRun
    <2>4. n \in Came
      BY <2>3, HolderCame
    <2>5. n \in Came' /\ about'[n] = about[n] /\ Project(n)' = Project(n) /\ turn'[n] = turn[n]
      BY <2>4, CameStays DEF Project
    <2>6. ShaOf[about[n]] \in Shas /\ Project(n) \in Projects /\ turn[n] \in Nat
      BY <2>3, LineType DEF TypeOK
    <2>7. checks'[ShaOf[about[n]]][Project(n)].line = LineOf(n)
      BY <2>1, <2>2, <2>6 DEF UpsertCheckRun, TypeOK
    <2> QED
      BY <2>5, <2>6, <2>7 DEF LineOf
  <1> QED
    BY <1>1, <1>2

(* The last task about a deployment carries what its row says, unless a      *)
(* change of the row has yet to be told, or never will.                      *)
LEMMA NextCarriesRow ==
    ASSUME Types, LastCarriesRow, [Next]_vars
    PROVE  LastCarriesRow'
  <1> USE DEF Types
  <1>1. about \in [Notices -> Deployments] /\ status \in [Notices -> Statuses]
    BY DEF TypeOK
  <1>2. spawned \in Nat /\ 1..spawned \subseteq Notices
    BY SpawnedAreNotices
  <1>3. CASE /\ UNCHANGED carried
             /\ silent \subseteq silent'
             /\ \A d \in Deployments : d \notin silent' => row'[d] = row[d]
    <2> SUFFICES ASSUME NEW n \in 1..spawned, about[n] \notin silent'
                 PROVE  \/ status[n] = row'[about[n]]
                        \/ \E m \in 1..spawned : m > n /\ about[m] = about[n]
      BY <1>3 DEF LastCarriesRow, carried
    <2>1. about[n] \in Deployments /\ about[n] \notin silent
      BY <1>1, <1>2, <1>3
    <2> QED
      BY <1>3, <2>1 DEF LastCarriesRow
  <1>4. ASSUME NEW d \in Deployments, OnBuildStarted(d)
        PROVE  LastCarriesRow'
    BY <1>3, <1>4 DEF OnBuildStarted, TypeOK
  <1>5. ASSUME NEW result \in {"Ready", "Failed"}, OnBuildEnded(result)
        PROVE  LastCarriesRow'
    BY <1>3, <1>5 DEF OnBuildEnded, TypeOK
  <1>6. CASE UpdateGithub
    <2>1. /\ spawned' = spawned + 1
          /\ about' = [about EXCEPT ![spawned + 1] = builder.of]
          /\ status' = [status EXCEPT ![spawned + 1] = row[builder.of]]
          /\ silent' = silent \ {builder.of}
          /\ UNCHANGED row
      BY <1>6 DEF UpdateGithub
    <2>2. spawned + 1 \in Notices
      <3>1. spawned' \in 0..MaxNotices /\ MaxNotices \in Nat
        BY <1>6, SpawnTypes, NoticeConstants DEF TypeOK, NoticeConstants
      <3> QED
        BY <1>2, <2>1, <3>1 DEF Notices
    <2>3. about'[spawned + 1] = builder.of /\ status'[spawned + 1] = row[builder.of]
      BY <1>1, <2>1, <2>2
    <2>4. ASSUME NEW n \in 1..spawned
          PROVE  /\ n \in Notices /\ n # spawned + 1 /\ n \in 1..(spawned + 1) /\ n < spawned + 1
                 /\ about'[n] = about[n] /\ status'[n] = status[n]
      BY <1>1, <1>2, <2>1
    <2> SUFFICES ASSUME NEW n \in 1..(spawned + 1), about'[n] \notin silent'
                 PROVE  \/ status'[n] = row[about'[n]]
                        \/ \E m \in 1..(spawned + 1) : m > n /\ about'[m] = about'[n]
      BY <2>1 DEF LastCarriesRow
    <2>5. CASE n = spawned + 1
      BY <2>3, <2>5
    <2>6. CASE n \in 1..spawned /\ about[n] = builder.of
      <3>1. spawned + 1 \in 1..(spawned + 1) /\ spawned + 1 > n
        BY <1>2, <2>6
      <3> QED
        BY <2>3, <2>4, <2>6, <3>1
    <2>7. CASE n \in 1..spawned /\ about[n] # builder.of
      <3>1. about[n] \notin silent
        BY <2>1, <2>4, <2>7
      <3>2. CASE status[n] = row[about[n]]
        BY <2>4, <2>7, <3>2
      <3>3. ASSUME NEW m \in 1..spawned, m > n, about[m] = about[n]
            PROVE  \E k \in 1..(spawned + 1) : k > n /\ about'[k] = about'[n]
        BY <2>4, <2>7, <3>3
      <3> QED
        BY <2>7, <3>1, <3>2, <3>3 DEF LastCarriesRow
    <2> QED
      BY <1>2, <2>5, <2>6, <2>7
  <1>7. CASE UNCHANGED <<carried, row, silent>>
    BY <1>3, <1>7
  <1>8. CASE SetupFails \/ Restart \/ UNCHANGED vars
    BY <1>7, <1>8 DEF SetupFails, Restart, vars, build
  <1>9. ASSUME NEW n \in Notices, AllocateBot(n) \/ WithBot(n)
        PROVE  UNCHANGED <<carried, row, silent>>
    BY <1>9 DEF AllocateBot, WithBot, GetOpenPulls, NextPull, ReadPullCommentWithPrefix,
       UpdatePullComment, CreatePullComment, CommentFails, ListCheckRuns, CheckFails,
       UpsertCheckRun, Ends, build
  <1> QED
    BY <1>4, <1>5, <1>6, <1>7, <1>8, <1>9 DEF Next

(* The invariant holds at the start and is kept.                             *)
LEMMA TellInvariant == Spec => []TellInv
  <1>1. Init => Spawned /\ LinesOfTasks /\ ToldStays /\ LastCarriesRow
    <2> SUFFICES ASSUME Init
                 PROVE  Spawned /\ LinesOfTasks /\ ToldStays /\ LastCarriesRow
      OBVIOUS
    <2>1. Spawned /\ LastCarriesRow
      BY DEF Init, Spawned, LastCarriesRow
    <2>2. LinesOfTasks
      BY DEF Init, LinesOfTasks, TaskLine
    <2>3. ToldStays
      BY DEF Init, ToldStays
    <2> QED
      BY <2>1, <2>2, <2>3
  <1>2. /\ NoticeInv /\ NoticeInv'
        /\ Spawned /\ LinesOfTasks /\ ToldStays /\ LastCarriesRow
        /\ [Next]_vars
        => (Spawned /\ LinesOfTasks /\ ToldStays /\ LastCarriesRow)'
    <2> SUFFICES ASSUME TellInv, [Next]_vars
                 PROVE  (Spawned /\ LinesOfTasks /\ ToldStays /\ LastCarriesRow)'
      BY DEF TellInv
    <2>1. Types
      BY DEF TellInv, NoticeInv
    <2>2. Spawned' /\ LastCarriesRow'
      BY <2>1, CameStays, NextCarriesRow DEF TellInv
    <2>3. ToldStays'
      BY NextTold, NextMarked DEF ToldStays
    <2> QED
      BY <2>2, <2>3, NextLinesOfTasks
  <1> QED
    BY <1>1, <1>2, NoticesInvariant, PTL DEF Spec, TellInv

(* What github shows is what the database says: whatever the tasks of other  *)
(* projects, of other deployments and of earlier builds write, and however   *)
(* their requests fail, where the last task about a project has written, the *)
(* status of the row stays to be seen (hooks.rs:65-86, 128-180).             *)
THEOREM GithubShowsTheRow == Spec => []GithubTellsTheRow
  <1>1. ASSUME TellInv
        PROVE  GithubTellsTheRow
    <2> SUFFICES ASSUME NEW n \in 1..spawned, LastInOrder(n), about[n] \notin silent
                 PROVE  /\ \A p \in Pulls : n \in told[p] => \E c \in ours[p] :
                            c.lines[Project(n)] = [status |-> row[about[n]], turn |-> turn[n]]
                        /\ n \in marked =>
                            checks[ShaOf[about[n]]][Project(n)].line.status = row[about[n]]
      BY DEF GithubTellsTheRow
    <2>1. TypeOK
      BY <1>1 DEF TellInv, NoticeInv, Types
    <2>2. n \in Notices /\ spawned \in Nat
      BY <2>1, SpawnedAreNotices
    <2>3. Project(n) \in Projects /\ ShaOf[about[n]] \in Shas /\ turn[n] \in Nat
      BY <2>1, <2>2, LineType DEF TypeOK
    <2>4. status[n] = row[about[n]]
      <3>1. ASSUME NEW m \in 1..spawned, m > n, about[m] = about[n]
            PROVE  FALSE
        <4>1. Project(m) = Project(n) /\ m # n
          BY <3>1 DEF Project
        <4>2. m < n
          BY <4>1 DEF LastInOrder
        <4> QED
          BY <2>2, <3>1, <4>2
      <3> QED
        BY <1>1, <3>1 DEF TellInv, LastCarriesRow
    <2>5. ASSUME NEW l, TaskLine(l, Project(n)), turn[n] <= l.turn
          PROVE  l = [status |-> row[about[n]], turn |-> turn[n]]
      <3>1. l # NoLine
        BY <2>3, <2>5 DEF NoLine, LastInOrder
      <3>2. PICK m \in Came : Project(m) = Project(n) /\ l = LineOf(m)
        BY <2>5, <3>1 DEF TaskLine
      <3>3. m \in 1..spawned /\ turn[m] \in Nat /\ turn[n] <= turn[m]
        BY <2>1, <2>5, <3>2, SpawnedAreNotices DEF Came, LineOf, TypeOK
      <3>4. m = n
        BY <2>3, <3>2, <3>3 DEF LastInOrder
      <3> QED
        BY <2>4, <3>2, <3>4 DEF LineOf
    <2>6. ASSUME NEW p \in Pulls, n \in told[p]
          PROVE  \E c \in ours[p] :
                    c.lines[Project(n)] = [status |-> row[about[n]], turn |-> turn[n]]
      <3>1. PICK c \in ours[p] : turn[n] <= c.lines[Project(n)].turn
        BY <1>1, <2>6 DEF TellInv, ToldStays
      <3>2. TaskLine(c.lines[Project(n)], Project(n))
        BY <1>1, <2>3 DEF TellInv, LinesOfTasks
      <3> QED
        BY <2>5, <3>1, <3>2
    <2>7. ASSUME n \in marked
          PROVE  checks[ShaOf[about[n]]][Project(n)].line.status = row[about[n]]
      <3> DEFINE l == checks[ShaOf[about[n]]][Project(n)].line
      <3>1. turn[n] <= l.turn
        BY <1>1, <2>7 DEF TellInv, ToldStays
      <3>2. TaskLine(l, Project(n))
        BY <1>1, <2>3 DEF TellInv, LinesOfTasks
      <3>3. l = [status |-> row[about[n]], turn |-> turn[n]]
        BY <2>5, <3>1, <3>2
      <3> QED
        BY <3>3
    <2> QED
      BY <2>6, <2>7
  <1> QED
    BY <1>1, TellInvariant, PTL
=============================================================================
