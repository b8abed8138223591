------------------------------ MODULE Databases ------------------------------
(* sqlite_db.rs, container/sqld.rs, workers/files.rs and what map.rs and     *)
(* commit.rs do with them: the folder of the production database of a        *)
(* project, the folders its preview deployments clone it into, the sqld      *)
(* containers that serve them, and the worker that looks for old folders.    *)
(* How a container starts and how a worker is woken up are in Container and  *)
(* Worker; here a start is one step, and a status that holds a db_setup is   *)
(* Building or StandBy, whatever becomes of the container of the app.        *)
EXTENDS Naturals, Sequences

CONSTANTS
    Previews,       \* deployments of branches, each with a database of its own
    Main,           \* a deployment of the default branch
    Prod,           \* the folder of the production database
    Files,          \* the files of a database
    Base,           \* those that its container makes when it starts; the others
                    \*   come with transactions
    Empty,          \* a file no transaction has written to
    Missing,        \* a file that does not exist
    MaxUpsets       \* bound on deletions, failed clones, late requeues, restarts

ASSUME DatabaseConstants ==
    /\ Main \notin Previews
    /\ Prod \notin Previews
    /\ {Empty, Missing} \intersect (Previews \union {Prod}) = {}
    /\ Empty # Missing
    /\ Base \subseteq Files
    /\ MaxUpsets \in Nat

VARIABLES
    rows,       \* deployments in the database, with their result
    inMap,      \* deployments in the map
    app,        \* the status of the app container of a preview
    accessed,   \* previews queued by a request, by its instant
    foundBuilt, \* previews that entered the map as Built, as requests may have
                \*   read
    container,  \* the status of the sqld container of a database, if there is one
    exists,     \* folders on disk
    content,    \* the database that wrote every file of a folder last, if any
    builder,    \* the build under way: its preview, the files yet to copy
    written,    \* history: databases committed to (of previews, since they
                \*   entered the map)
    late,       \* history: previews requeued by a request that read Built when
                \*   that was no longer so
    raced,      \* history: previews whose clone was made while production was
                \*   written
    absent,     \* history: the files that production did not have when a
                \*   preview was cloned
    upsets

map == <<rows, inMap>>
statuses == <<app, accessed, foundBuilt>>
disk == <<exists, content>>
history == <<written, raced, absent, late>>
vars == <<map, statuses, container, disk, builder, history, upsets>>

Deployments == Previews \union {Main}
Folders == Previews \union {Prod}
Writers == Folders \union {Empty, Missing}
Of(w) == [x \in Files |-> w]

(* A row that is not there, or a result.                                     *)
Results == {"new", "None", "Built", "Failed", "deleted"}
Statuses == {"Built", "Queued", "Building", "StandBy", "Failed"}
Idle == [at |-> "idle"]
Dead == [at |-> "dead"]
Building(p, at, left) == [at |-> at, of |-> p, left |-> left]

TypeOK ==
    /\ rows \in [Deployments -> Results]
    /\ inMap \subseteq Deployments
    /\ app \in [Previews -> Statuses]
    /\ accessed \in Seq(Previews)
    /\ foundBuilt \subseteq Previews
    /\ container \in [Folders -> {"none", "StandBy", "Ready"}]
    /\ exists \subseteq Folders
    /\ content \in [Folders -> [Files -> Writers]]
    /\ builder \in {Idle, Dead} \union
                   {Building(p, at, left) : p \in Previews, at \in {"copy", "image"}, left \in SUBSET Files}
    /\ written \subseteq Folders
    /\ raced \subseteq Previews
    /\ absent \in [Previews -> SUBSET Files]
    /\ late \subseteq Previews
    /\ upsets \in 0..MaxUpsets

Init ==
    /\ rows = [d \in Deployments |-> "new"]
    /\ inMap = {}
    /\ app = [p \in Previews |-> "Queued"]
    /\ accessed = <<>>
    /\ foundBuilt = {}
    /\ container = [f \in Folders |-> "none"]
    /\ exists = {}
    /\ content = [f \in Folders |-> Of(Missing)]
    /\ builder = Idle
    /\ written = {}
    /\ raced = {}
    /\ absent = [p \in Previews |-> {}]
    /\ late = {}
    /\ upsets = 0

-----------------------------------------------------------------------------
(* The rows and the map.                                                     *)

Upset == upsets < MaxUpsets /\ upsets' = upsets + 1

InsertDeployment(d) ==
    /\ rows[d] = "new"
    /\ rows' = [rows EXCEPT ![d] = "None"]
    /\ UNCHANGED <<inMap, statuses, container, disk, builder, history, upsets>>

DeleteDeployment(d) ==
    /\ rows[d] \notin {"new", "deleted"}
    /\ Upset
    /\ rows' = [rows EXCEPT ![d] = "deleted"]
    /\ UNCHANGED <<inMap, statuses, container, disk, builder, history>>

Live == {d \in Deployments : rows[d] \notin {"new", "deleted"}}

RowStatus(p) == rows[p]     \* mutant: a row without a result is taken as it is

(* The status a deployment enters the map with: that of its row, or Queued.  *)
InitialStatus(p) == IF rows[p] = "None" THEN "Queued" ELSE rows[p]

(* read_db_and_build_updates, in what concerns databases.  The production    *)
(* database of a project with a deployment enters the map, for good; so does *)
(* every deployment, and the folders are created if they are missing.        *)
Sync ==
    LET added == (Live \ inMap) \intersect Previews
        db == IF Live # {} /\ container[Prod] = "none" THEN {Prod} ELSE {}
    IN  /\ Live # inMap
        /\ inMap' = Live
        /\ app' = [p \in Previews |-> IF p \in added THEN InitialStatus(p)
                                      ELSE IF p \in inMap /\ p \in Live THEN app[p]
                                      ELSE "Queued"]
        /\ container' = [f \in Folders |-> IF f \in db THEN "StandBy"
                                           ELSE IF f = Prod \/ (f \in inMap /\ f \in Live) THEN container[f]
                                           ELSE "none"]
        /\ exists' = exists \union added \union db
        /\ written' = written \intersect (Live \union {Prod})
        /\ raced' = raced \intersect Live
        /\ absent' = [p \in Previews |-> IF p \in Live THEN absent[p] ELSE {}]
        /\ foundBuilt' = foundBuilt \union {p \in added : rows[p] = "Built"}
        /\ UNCHANGED <<rows, accessed, content, builder, late, upsets>>

(* The container that a host name of a database leads to: of a preview, the  *)
(* one of the db_setup in the status of its app.                             *)
Reached(f) ==
    IF f = Prod THEN IF inMap = {} THEN "none" ELSE container[Prod]
    ELSE IF f \in inMap /\ app[f] \in {"Building", "StandBy"} THEN container[f] ELSE "none"

-----------------------------------------------------------------------------
(* Requests.                                                                 *)

(* The queue without p, which is in it once at most.                         *)
Forget(p) ==
    LET places == {i \in DOMAIN accessed : accessed[i] = p}
        at == CHOOSE i \in places : TRUE
    IN  IF places = {} THEN accessed
        ELSE SubSeq(accessed, 1, at - 1) \o SubSeq(accessed, at + 1, Len(accessed))

(* A request for the app of a preview that an earlier process has built: it  *)
(* reads Built, and queues the preview, whatever the status is by then.      *)
RequeueBuilt(p) ==
    /\ p \in foundBuilt \intersect inMap
    /\ app' = [app EXCEPT ![p] = "Queued"]
    /\ accessed' = Append(Forget(p), p)
    /\ IF app[p] = "Built" THEN UNCHANGED <<late, upsets>> ELSE late' = late \union {p} /\ Upset
    /\ UNCHANGED <<map, foundBuilt, container, disk, builder, written, raced, absent>>

(* To write to production while it is cloned spoils the clone.               *)
NowRaced(f) == IF f = Prod /\ builder.at = "copy" THEN raced \union {builder.of} ELSE raced

(* A request for a database starts its container, which makes what is        *)
(* missing of the files that it needs.                                       *)
Start(f) ==
    /\ Reached(f) = "StandBy"
    /\ container' = [container EXCEPT ![f] = "Ready"]
    /\ content' = [content EXCEPT ![f] =
                     [x \in Files |-> IF x \in Base /\ content[f][x] = Missing THEN Empty
                                    ELSE content[f][x]]]
    /\ raced' = IF content' = content THEN raced ELSE NowRaced(f)
    /\ UNCHANGED <<map, statuses, exists, builder, written, absent, late, upsets>>

(* A transaction, which may touch any file of the database, or make it.      *)
Commit(f) ==
    /\ Reached(f) = "Ready"
    /\ content' = [content EXCEPT ![f] = Of(f)]
    /\ written' = written \union {f}
    /\ raced' = NowRaced(f)
    /\ UNCHANGED <<map, statuses, container, exists, builder, absent, late, upsets>>

(* downgrade_if_unused: of databases, only those of previews are visited.    *)
Downgrade(p) ==
    /\ Reached(p) = "Ready"
    /\ container' = [container EXCEPT ![p] = "StandBy"]
    /\ UNCHANGED <<map, statuses, disk, builder, history, upsets>>

-----------------------------------------------------------------------------
(* Builds.                                                                   *)

QueuedOrFailed ==        \* mutant: what failed is tried again
    {p \in Previews \intersect inMap : app[p] \in {"Queued", "Failed"}}

Queued == {p \in Previews \intersect inMap : app[p] = "Queued"}

(* The first that was accessed, or else any.                                 *)
IsNext(p) ==
    LET waiting == {i \in DOMAIN accessed : accessed[i] \in Queued}
    IN  /\ p \in Queued
        /\ waiting # {} => \E i \in waiting : accessed[i] = p /\ \A k \in waiting : i <= k

GetContainerToBuild(p) ==
    /\ builder = Idle
    /\ IsNext(p)
    /\ builder' = Building(p, "copy", Files)
    /\ raced' = raced \ {p}
    /\ absent' = [absent EXCEPT ![p] = {}]
    /\ UNCHANGED <<map, statuses, container, disk, written, late, upsets>>

CopyIfMissing(x) ==      \* mutant: a file that is there is kept
    /\ builder.at = "copy"
    /\ x \in builder.left
    /\ content' = IF content[builder.of][x] # Missing THEN content
                  ELSE [content EXCEPT ![builder.of][x] = content[Prod][x]]
    /\ absent' = IF content[Prod][x] # Missing THEN absent
                 ELSE [absent EXCEPT ![builder.of] = absent[builder.of] \union {x}]
    /\ builder' = Building(builder.of, "copy", builder.left \ {x})
    /\ UNCHANGED <<map, statuses, container, exists, written, raced, late, upsets>>

(* recursive_copy, a file at a time: over what there is at the destination,  *)
(* of which it leaves alone the files that production does not have.         *)
CopyFile(x) ==
    /\ builder.at = "copy"
    /\ x \in builder.left
    /\ content' = IF content[Prod][x] = Missing THEN content
                  ELSE [content EXCEPT ![builder.of][x] = content[Prod][x]]
    /\ absent' = IF content[Prod][x] # Missing THEN absent
                 ELSE [absent EXCEPT ![builder.of] = absent[builder.of] \union {x}]
    /\ builder' = Building(builder.of, "copy", builder.left \ {x})
    /\ UNCHANGED <<map, statuses, container, exists, written, raced, late, upsets>>

(* An error of setup_db ends the build; the status has not changed, and the  *)
(* same preview is the next one again if it was accessed.                    *)
CopyFails ==
    /\ builder.at = "copy"
    /\ Upset
    /\ builder' = Idle
    /\ UNCHANGED <<map, statuses, container, disk, history>>

(* A new sqld container, stand-by, in the status Building: the build of the  *)
(* image may already talk to the database.                                   *)
MarkBuilding ==
    /\ builder.at = "copy"
    /\ builder.left = {}
    /\ app' = [app EXCEPT ![builder.of] = "Building"]
    /\ accessed' = Forget(builder.of)
    /\ container' = [container EXCEPT ![builder.of] = "StandBy"]
    /\ builder' = Building(builder.of, "image", {})
    /\ UNCHANGED <<map, foundBuilt, disk, history, upsets>>

(* The result goes to the row, if it is still there, and to the status.      *)
EndBuild(result, status) ==
    /\ builder.at = "image"
    /\ rows' = [rows EXCEPT ![builder.of] = IF rows[builder.of] = "deleted" THEN "deleted" ELSE result]
    /\ app' = [app EXCEPT ![builder.of] = status]
    /\ builder' = Idle
    /\ UNCHANGED <<inMap, accessed, foundBuilt, container, disk, history, upsets>>

BuildSucceeds == EndBuild("Built", "StandBy")
FailsForNow == EndBuild("Failed", "Queued")      \* mutant: tried again
BuildFails == EndBuild("Failed", "Failed")

(* A refused archive unwinds the task of the build worker: nothing is built  *)
(* any more, and the preview stays Building.                                 *)
BuildPanics ==
    /\ builder.at = "image"
    /\ builder' = Dead
    /\ UNCHANGED <<map, statuses, container, disk, history, upsets>>

BuildStep ==
    \/ \E p \in Previews : GetContainerToBuild(p)
    \/ \E x \in Files : CopyFile(x)
    \/ MarkBuilding
    \/ BuildSucceeds
    \/ BuildFails
    \/ BuildPanics

-----------------------------------------------------------------------------
(* The files worker, and a restart.                                          *)

(* What the worker takes for in use: a project the map has in prod, and a    *)
(* deployment in the map.                                                    *)
InUse(f) == IF f = Prod THEN Main \in inMap ELSE f \in inMap

AwaitsRemoval(f) ==      \* mutant: the removal is awaited
    /\ f \in exists
    /\ ~InUse(f)
    /\ exists' = exists \ {f}
    /\ UNCHANGED <<map, statuses, container, content, builder, history, upsets>>

(* Of a folder that is not in use, the future of remove_dir_all is dropped,  *)
(* not awaited, and with it the removal: a visit changes nothing.            *)
VisitFolder(f) ==
    /\ f \in exists
    /\ ~InUse(f)
    /\ UNCHANGED vars

(* The docker containers and the disk outlive the process.                   *)
Restart ==
    /\ Upset
    /\ inMap' = {}
    /\ app' = [p \in Previews |-> "Queued"]
    /\ accessed' = <<>>
    /\ foundBuilt' = {}
    /\ container' = [f \in Folders |-> "none"]
    /\ builder' = Idle
    /\ written' = written \intersect {Prod}
    /\ raced' = {}
    /\ absent' = [p \in Previews |-> {}]
    /\ late' = {}
    /\ UNCHANGED <<rows, disk>>

Next ==
    \/ \E d \in Deployments : InsertDeployment(d) \/ DeleteDeployment(d)
    \/ Sync
    \/ \E p \in Previews : RequeueBuilt(p) \/ Downgrade(p)
    \/ \E f \in Folders : Start(f) \/ Commit(f) \/ VisitFolder(f)
    \/ CopyFails
    \/ BuildStep
    \/ Restart

Spec == Init /\ [][Next]_vars

-----------------------------------------------------------------------------
(* Properties.                                                               *)

(* "the storage of the production database will be preserved"                *)
(* (docs/pages/databases.mdx:13): whatever is deleted, cloned or restarted,  *)
(* and also while no deployment of the project is in production, the folder  *)
(* has what was last committed to it.                                        *)
ProductionIsPreserved ==
    Prod \in written => Prod \in exists /\ content[Prod] = Of(Prod)

(* "you are simply working with a clone" (docs/pages/databases.mdx:18): what *)
(* is committed to the database of a preview stays, whatever happens to      *)
(* production or to other previews, until the process is restarted; the      *)
(* first build of a later process clones production over it.                 *)
PreviewIsPreserved ==
    \A p \in written \ (late \union {Prod}) : p \in exists /\ content[p] = Of(p)

(* "your production database will be cloned"                                 *)
(* (docs/pages/databases.mdx:16): every file of the database a preview       *)
(* reaches is, until it writes to it, of one production has been, also when  *)
(* the clone was retried after an error and when an earlier process left     *)
(* another; unless production was written to meanwhile: the files are copied *)
(* one by one.  A file production does not have is new, or what an earlier   *)
(* process left: nothing at the destination is removed.                      *)
CloneWasProduction ==
    \A p \in Previews :
        Reached(p) # "none" /\ p \notin written \union raced =>
            /\ \E w \in {Empty, Prod} : \A x \in Files \ absent[p] : content[p][x] = w
            /\ \A x \in absent[p] : content[p][x] \in {Missing, Empty, p}

(* No clone goes over the files of a database that a container this process  *)
(* has started is serving: a build never comes after one that got as far as  *)
(* having a database (container/mod.rs:229-254).                             *)
NoCloneUnderServer ==
    builder.at = "copy" /\ builder.of \notin late => container[builder.of] = "none"
=============================================================================
