--------------------------- MODULE DatabaseProofs ---------------------------
(* Proofs about Databases, for any number of previews and of files: types,   *)
(* and what builds, deletions and restarts leave of what was committed.      *)
EXTENDS Databases, TLAPS

-----------------------------------------------------------------------------
(* Types.                                                                    *)

Builders ==
    {Building(p, at, left) : p \in Previews, at \in {"copy", "image"}, left \in SUBSET Files}

(* What a builder under way consists of.                                     *)
LEMMA BuilderParts ==
    ASSUME TypeOK, builder \notin {Idle, Dead}
    PROVE  /\ builder.of \in Previews
           /\ builder.at \in {"copy", "image"}
           /\ builder.left \in SUBSET Files
           /\ builder = Building(builder.of, builder.at, builder.left)
  <1>1. PICK p \in Previews, at \in {"copy", "image"}, left \in SUBSET Files :
            builder = Building(p, at, left)
    BY DEF TypeOK
  <1> QED
    BY <1>1 DEF Building

(* The queue stays one of previews.                                          *)
LEMMA ForgetType ==
    ASSUME accessed \in Seq(Previews), NEW p
    PROVE  Forget(p) \in Seq(Previews)
  <1> DEFINE places == {i \in DOMAIN accessed : accessed[i] = p}
             at == CHOOSE i \in places : TRUE
  <1>1. CASE places = {}
    BY <1>1 DEF Forget
  <1>2. CASE places # {}
    <2>1. at \in places
      BY <1>2
    <2>2. at \in 1..Len(accessed)
      BY <2>1
    <2> HIDE DEF at
    <2>3. /\ SubSeq(accessed, 1, at - 1) \in Seq(Previews)
          /\ SubSeq(accessed, at + 1, Len(accessed)) \in Seq(Previews)
      BY <2>2
    <2>4. Forget(p) = SubSeq(accessed, 1, at - 1) \o SubSeq(accessed, at + 1, Len(accessed))
      BY <1>2 DEF Forget, at
    <2> QED
      BY <2>3, <2>4
  <1> QED
    BY <1>1, <1>2

(* The initial values have their types.                                      *)
LEMMA InitTypes == Init => TypeOK
  BY DatabaseConstants DEF DatabaseConstants, Init, TypeOK, Results, Statuses, Folders, Deployments, Writers, Of

(* A row in the map has a status, a result or is Queued.                     *)
LEMMA InitialStatusType ==
    ASSUME TypeOK, NEW p \in Previews, rows[p] \notin {"new", "deleted"}
    PROVE  InitialStatus(p) \in {"Queued", "Built", "Failed"}
  BY DEF TypeOK, InitialStatus, Results, Deployments

(* A pass of the map keeps the types.                                        *)
LEMMA SyncTypes ==
    ASSUME TypeOK, Sync
    PROVE  TypeOK'
  <1> USE DEF TypeOK
  <1>1. Live \subseteq Deployments
    BY DEF Live
  <1>2. app' \in [Previews -> Statuses]
    <2>1. ASSUME NEW p \in Previews
          PROVE  (IF p \in (Live \ inMap) \intersect Previews THEN InitialStatus(p)
                  ELSE IF p \in inMap /\ p \in Live THEN app[p]
                  ELSE "Queued") \in Statuses
      BY InitialStatusType DEF Live, Statuses
    <2> QED
      BY <2>1 DEF Sync
  <1>3. container' \in [Folders -> {"none", "StandBy", "Ready"}]
    BY DEF Sync
  <1>4. exists' \subseteq Folders
    BY DEF Sync, Folders
  <1>5. /\ written' \subseteq Folders /\ foundBuilt' \subseteq Previews
        /\ raced' \subseteq Previews /\ absent' \in [Previews -> SUBSET Files]
    BY DEF Sync
  <1> QED
    BY <1>1, <1>2, <1>3, <1>4, <1>5 DEF Sync

(* What production is written under is the clone of a preview.               *)
LEMMA NowRacedType ==
    ASSUME TypeOK, NEW f
    PROVE  NowRaced(f) \subseteq Previews /\ raced \subseteq NowRaced(f)
  <1>1. builder.at = "copy" => builder.of \in Previews
    BY BuilderParts DEF Idle, Dead
  <1> QED
    BY <1>1 DEF NowRaced, TypeOK

(* So does what a request does.                                              *)
LEMMA RequestTypes ==
    ASSUME TypeOK, \/ \E p \in Previews : RequeueBuilt(p) \/ Downgrade(p)
                   \/ \E f \in Folders : Start(f) \/ Commit(f) \/ VisitFolder(f)
    PROVE  TypeOK'
  <1> USE DEF TypeOK, map, statuses, disk, history
  <1>1. ASSUME NEW p \in Previews, RequeueBuilt(p)
        PROVE  TypeOK'
    <2>1. accessed' \in Seq(Previews)
      BY <1>1, ForgetType DEF RequeueBuilt
    <2>2. app' \in [Previews -> Statuses]
      BY <1>1 DEF RequeueBuilt, Statuses
    <2>3. late' \subseteq Previews /\ upsets' \in 0..MaxUpsets
      BY <1>1, DatabaseConstants DEF RequeueBuilt, Upset, DatabaseConstants
    <2> QED
      BY <1>1, <2>1, <2>2, <2>3 DEF RequeueBuilt
  <1>2. ASSUME NEW p \in Previews, Downgrade(p)
        PROVE  TypeOK'
    <2>1. container' \in [Folders -> {"none", "StandBy", "Ready"}]
      <3>1. p \in Folders /\ container \in [Folders -> {"none", "StandBy", "Ready"}]
        BY DEF Folders
      <3>2. container' = [container EXCEPT ![p] = "StandBy"]
        BY <1>2 DEF Downgrade
      <3> HIDE DEF TypeOK
      <3> QED
        BY <3>1, <3>2
    <2> QED
      BY <1>2, <2>1 DEF Downgrade
  <1>3. ASSUME NEW f \in Folders, Start(f)
        PROVE  TypeOK'
    <2>1. content' \in [Folders -> [Files -> Writers]]
      <3>1. /\ content \in [Folders -> [Files -> Writers]]
            /\ [x \in Files |-> IF x \in Base /\ content[f][x] = Missing THEN Empty
                              ELSE content[f][x]] \in [Files -> Writers]
        BY DEF Writers
      <3>2. content' = [content EXCEPT ![f] =
                          [x \in Files |-> IF x \in Base /\ content[f][x] = Missing THEN Empty
                                            ELSE content[f][x]]]
        BY <1>3 DEF Start
      <3> HIDE DEF TypeOK
      <3> QED
        BY <3>1, <3>2
    <2>2. raced' \subseteq Previews
      BY <1>3, NowRacedType DEF Start
    <2>3. container' \in [Folders -> {"none", "StandBy", "Ready"}]
      <3>1. container \in [Folders -> {"none", "StandBy", "Ready"}]
        OBVIOUS
      <3>2. container' = [container EXCEPT ![f] = "Ready"]
        BY <1>3 DEF Start
      <3> HIDE DEF TypeOK
      <3> QED
        BY <3>1, <3>2
    <2> QED
      BY <1>3, <2>1, <2>2, <2>3 DEF Start
  <1>4. ASSUME NEW f \in Folders, Commit(f)
        PROVE  TypeOK'
    <2>1. content' \in [Folders -> [Files -> Writers]]
      BY <1>4 DEF Commit, Of, Writers
    <2>2. raced' \subseteq Previews /\ written' \subseteq Folders
      BY <1>4, NowRacedType DEF Commit
    <2> QED
      BY <1>4, <2>1, <2>2 DEF Commit
  <1>5. ASSUME NEW f \in Folders, VisitFolder(f)
        PROVE  TypeOK'
    BY <1>5 DEF VisitFolder, vars
  <1> HIDE DEF TypeOK
  <1> QED
    BY <1>1, <1>2, <1>3, <1>4, <1>5

(* And a step of a build.                                                    *)
LEMMA BuildTypes ==
    ASSUME TypeOK, BuildStep \/ CopyFails
    PROVE  TypeOK'
  <1> USE DEF TypeOK, map, statuses, disk, history
  <1>1. ASSUME NEW p \in Previews, GetContainerToBuild(p)
        PROVE  TypeOK'
    <2>1. builder' \in Builders
      BY <1>1 DEF GetContainerToBuild, Builders
    <2> QED
      BY <1>1, <2>1 DEF GetContainerToBuild, Builders
  <1>2. ASSUME NEW x \in Files, CopyFile(x)
        PROVE  TypeOK'
    <2>1. builder.of \in Previews /\ builder.left \in SUBSET Files
      BY <1>2, BuilderParts DEF CopyFile, Idle, Dead
    <2>2. builder' \in Builders
      BY <1>2, <2>1 DEF CopyFile, Builders
    <2>3. content' \in [Folders -> [Files -> Writers]]
      <3>1. content[Prod][x] \in Writers /\ builder.of \in Folders
        BY <2>1 DEF Folders
      <3>2. [content[builder.of] EXCEPT ![x] = content[Prod][x]] \in [Files -> Writers]
        BY <3>1
      <3> QED
        BY <1>2, <3>1, <3>2 DEF CopyFile
    <2>4. absent' \in [Previews -> SUBSET Files]
      BY <1>2, <2>1 DEF CopyFile
    <2>5. UNCHANGED <<rows, inMap, app, accessed, foundBuilt, container, exists, written, raced,
                      late, upsets>>
      BY <1>2 DEF CopyFile
    <2> QED
      BY <2>2, <2>3, <2>4, <2>5 DEF Builders
  <1>3. CASE CopyFails
    BY <1>3, DatabaseConstants DEF CopyFails, Upset, DatabaseConstants
  <1>4. CASE MarkBuilding
    <2>1. builder.of \in Previews
      BY <1>4, BuilderParts DEF MarkBuilding, Idle, Dead
    <2>2. builder' \in Builders
      BY <1>4, <2>1 DEF MarkBuilding, Builders
    <2>3. accessed' \in Seq(Previews)
      BY <1>4, ForgetType DEF MarkBuilding
    <2>4. app' \in [Previews -> Statuses]
      <3>1. app \in [Previews -> Statuses] /\ "Building" \in Statuses
        BY DEF Statuses
      <3>2. app' = [app EXCEPT ![builder.of] = "Building"]
        BY <1>4 DEF MarkBuilding
      <3> HIDE DEF TypeOK
      <3> QED
        BY <3>1, <3>2
    <2>5. container' \in [Folders -> {"none", "StandBy", "Ready"}]
      <3>1. builder.of \in Folders /\ container \in [Folders -> {"none", "StandBy", "Ready"}]
        BY <2>1 DEF Folders
      <3>2. container' = [container EXCEPT ![builder.of] = "StandBy"]
        BY <1>4 DEF MarkBuilding
      <3> HIDE DEF TypeOK
      <3> QED
        BY <3>1, <3>2
    <2>6. UNCHANGED <<rows, inMap, foundBuilt, exists, content, written, raced, absent, late, upsets>>
      BY <1>4 DEF MarkBuilding
    <2> QED
      BY <2>2, <2>3, <2>4, <2>5, <2>6 DEF Builders
  <1>5. CASE BuildSucceeds \/ BuildFails
    <2>1. app' \in [Previews -> Statuses] /\ rows' \in [Deployments -> Results]
      <3>1. app \in [Previews -> Statuses] /\ rows \in [Deployments -> Results]
        OBVIOUS
      <3>2. PICK status \in Statuses, result \in Results :
                /\ app' = [app EXCEPT ![builder.of] = status]
                /\ rows' = [rows EXCEPT ![builder.of] = IF rows[builder.of] = "deleted" THEN "deleted"
                                                      ELSE result]
        BY <1>5 DEF BuildSucceeds, BuildFails, EndBuild, Statuses, Results
      <3>3. "deleted" \in Results
        BY DEF Results
      <3> HIDE DEF TypeOK
      <3> QED
        BY <3>1, <3>2, <3>3
    <2>2. /\ UNCHANGED <<inMap, accessed, foundBuilt, container, disk, history, upsets>>
          /\ builder' = Idle
      BY <1>5 DEF BuildSucceeds, BuildFails, EndBuild
    <2> QED
      BY <2>1, <2>2
  <1>6. CASE BuildPanics
    BY <1>6 DEF BuildPanics
  <1> HIDE DEF TypeOK
  <1> QED
    BY <1>1, <1>2, <1>3, <1>4, <1>5, <1>6 DEF BuildStep

(* So every step does.                                                       *)
LEMMA NextTypes == TypeOK /\ [Next]_vars => TypeOK'
  <1> SUFFICES ASSUME TypeOK, [Next]_vars PROVE TypeOK'
    OBVIOUS
  <1>1. ASSUME NEW d \in Deployments, InsertDeployment(d) \/ DeleteDeployment(d)
        PROVE  TypeOK'
    <2>1. rows' \in [Deployments -> Results]
      BY <1>1 DEF InsertDeployment, DeleteDeployment, TypeOK, Results
    <2>2. upsets' \in 0..MaxUpsets
      BY <1>1, DatabaseConstants DEF InsertDeployment, DeleteDeployment, Upset, TypeOK, DatabaseConstants
    <2> QED
      BY <1>1, <2>1, <2>2 DEF InsertDeployment, DeleteDeployment, TypeOK, statuses, disk, history
  <1>2. CASE Restart
    <2>1. upsets' \in 0..MaxUpsets
      BY <1>2, DatabaseConstants DEF Restart, Upset, TypeOK, DatabaseConstants
    <2>2. accessed' \in Seq(Previews)
      BY <1>2 DEF Restart
    <2> QED
      BY <1>2, <2>1, <2>2 DEF Restart, TypeOK, disk, Statuses
  <1>3. CASE UNCHANGED vars
    BY <1>3 DEF vars, map, statuses, disk, history, TypeOK
  <1> QED
    BY <1>1, <1>2, <1>3, SyncTypes, RequestTypes, BuildTypes DEF Next

(* Whatever the previews and the files, every variable has its type.         *)
THEOREM DatabaseTypesAreCorrect == Spec => []TypeOK
  BY InitTypes, NextTypes, PTL DEF Spec

-----------------------------------------------------------------------------
(* Production.                                                               *)

(* The folder of a container is there, and what was committed in it is what  *)
(* it has.                                                                   *)
ProductionInv ==
    /\ container[Prod] # "none" => Prod \in exists
    /\ ProductionIsPreserved

(* No folder is ever removed.                                                *)
LEMMA FoldersStay == [Next]_vars => exists \subseteq exists'
  <1> SUFFICES ASSUME [Next]_vars PROVE exists \subseteq exists'
    OBVIOUS
  <1> USE DEF map, statuses, disk, history
  <1>1. CASE BuildStep \/ CopyFails
    BY <1>1 DEF BuildStep, CopyFails, GetContainerToBuild, CopyFile, MarkBuilding, BuildSucceeds,
       BuildFails, BuildPanics, EndBuild
  <1>2. CASE Sync \/ Restart \/ UNCHANGED vars
    BY <1>2 DEF Sync, Restart, vars
  <1>3. CASE \/ \E d \in Deployments : InsertDeployment(d) \/ DeleteDeployment(d)
             \/ \E p \in Previews : RequeueBuilt(p) \/ Downgrade(p)
             \/ \E f \in Folders : Start(f) \/ Commit(f) \/ VisitFolder(f)
    BY <1>3 DEF InsertDeployment, DeleteDeployment, RequeueBuilt, Downgrade, Start, Commit,
       VisitFolder, vars
  <1> QED
    BY <1>1, <1>2, <1>3 DEF Next

(* What a build does, it does to a preview.                                  *)
LEMMA BuildIsOfPreview ==
    ASSUME TypeOK, BuildStep \/ CopyFails
    PROVE  /\ container'[Prod] = container[Prod]
           /\ content'[Prod] = content[Prod]
           /\ UNCHANGED written
  <1>1. Prod \in Folders /\ Prod \notin Previews
    BY DatabaseConstants DEF Folders, DatabaseConstants
  <1>2. container \in [Folders -> {"none", "StandBy", "Ready"}]
    BY DEF TypeOK
  <1>3. content \in [Folders -> [Files -> Writers]]
    BY DEF TypeOK
  <1>4. CASE MarkBuilding
    <2>1. builder.of # Prod
      BY <1>1, <1>4, BuilderParts DEF MarkBuilding, Idle, Dead
    <2> QED
      BY <1>1, <1>2, <1>4, <2>1 DEF MarkBuilding, disk, history
  <1>5. ASSUME NEW x \in Files, CopyFile(x)
        PROVE  content'[Prod] = content[Prod]
    <2>1. builder.of # Prod
      BY <1>1, <1>5, BuilderParts DEF CopyFile, Idle, Dead
    <2>2. \/ content' = content
          \/ content' = [content EXCEPT ![builder.of] =
                           [content[builder.of] EXCEPT ![x] = content[Prod][x]]]
      BY <1>5 DEF CopyFile
    <2> QED
      BY <1>1, <1>3, <2>1, <2>2
  <1> QED
    BY <1>4, <1>5 DEF BuildStep, CopyFails, GetContainerToBuild, CopyFile, BuildSucceeds, BuildFails,
       BuildPanics, EndBuild, statuses, disk, history

(* A step of the program never takes from production.                        *)
LEMMA NextProduction ==
    ASSUME TypeOK, ProductionInv, [Next]_vars
    PROVE  ProductionInv'
  <1> USE DEF map, statuses, disk, history, ProductionInv, ProductionIsPreserved
  <1>1. Prod \in Folders /\ Prod \notin Previews
    BY DatabaseConstants DEF Folders, DatabaseConstants
  <1>2. /\ container \in [Folders -> {"none", "StandBy", "Ready"}]
        /\ content \in [Folders -> [Files -> Writers]]
    BY DEF TypeOK
  <1>3. exists \subseteq exists'
    BY FoldersStay
  <1>4. CASE Sync
    <2>1. container[Prod] = "none" /\ container'[Prod] # "none" => Prod \in exists'
      BY <1>1, <1>4 DEF Sync
    <2>2. Prod \in written' => Prod \in written
      BY <1>4 DEF Sync
    <2> QED
      BY <1>3, <1>4, <2>1, <2>2 DEF Sync
  <1>5. ASSUME NEW p \in Previews, RequeueBuilt(p) \/ Downgrade(p)
        PROVE  ProductionInv'
    <2>1. container'[Prod] = container[Prod]
      BY <1>1, <1>2, <1>5 DEF RequeueBuilt, Downgrade
    <2> QED
      BY <1>5, <2>1 DEF RequeueBuilt, Downgrade
  <1>6. ASSUME NEW f \in Folders, Start(f)
        PROVE  ProductionInv'
    <2>1. f = Prod => container[Prod] # "none"
      BY <1>6 DEF Start, Reached
    <2>2. f # Prod => container'[Prod] = container[Prod] /\ content'[Prod] = content[Prod]
      BY <1>1, <1>2, <1>6 DEF Start
    <2>3. f = Prod /\ content[Prod] = Of(Prod) => content'[Prod] = Of(Prod)
      <3>1. Prod # Missing
        BY DatabaseConstants DEF DatabaseConstants
      <3> QED
        BY <1>1, <1>2, <1>6, <3>1 DEF Start, Of
    <2> QED
      BY <1>6, <2>1, <2>2, <2>3 DEF Start
  <1>7. ASSUME NEW f \in Folders, Commit(f)
        PROVE  ProductionInv'
    <2>1. f = Prod => container[Prod] # "none" /\ content'[Prod] = Of(Prod)
      BY <1>1, <1>2, <1>7 DEF Commit, Reached
    <2>2. f # Prod => content'[Prod] = content[Prod] /\ (Prod \in written' => Prod \in written)
      BY <1>1, <1>2, <1>7 DEF Commit
    <2> QED
      BY <1>7, <2>1, <2>2 DEF Commit
  <1>8. CASE Restart
    BY <1>1, <1>8 DEF Restart
  <1>9. CASE BuildStep \/ CopyFails
    BY <1>3, <1>9, BuildIsOfPreview
  <1>10. CASE \/ \E d \in Deployments : InsertDeployment(d) \/ DeleteDeployment(d)
              \/ \E f \in Folders : VisitFolder(f)
              \/ UNCHANGED vars
    BY <1>10 DEF InsertDeployment, DeleteDeployment, VisitFolder, vars
  <1> QED
    BY <1>4, <1>5, <1>6, <1>7, <1>8, <1>9, <1>10 DEF Next

(* "the storage of the production database will be preserved"                *)
(* (docs/pages/databases.mdx:13), whatever is deleted, built or restarted,   *)
(* and however many previews clone it.                                       *)
THEOREM ProductionStays == Spec => []ProductionIsPreserved
  <1>1. Init => ProductionInv
    BY DEF Init, ProductionInv, ProductionIsPreserved, Folders
  <1>2. TypeOK /\ ProductionInv /\ [Next]_vars => ProductionInv'
    BY NextProduction
  <1>3. ProductionInv => ProductionIsPreserved
    BY DEF ProductionInv
  <1> QED
    BY <1>1, <1>2, <1>3, DatabaseTypesAreCorrect, PTL DEF Spec

-----------------------------------------------------------------------------
(* Previews.                                                                 *)

(* A deployment that has left the map is gone for good, and so is one the    *)
(* builder is at that is no longer there.                                    *)
Entered ==
    /\ \A d \in inMap : rows[d] # "new"
    /\ builder \notin {Idle, Dead} =>
            /\ rows[builder.of] # "new"
            /\ builder.of \in inMap \/ rows[builder.of] = "deleted"

(* A preview that has yet to be built has no container, and nothing was      *)
(* committed to it.                                                          *)
Fresh ==
    \A p \in Previews \ late :
        app[p] \in {"Queued", "Built"} => container[p] = "none" /\ p \notin written

Places ==
    /\ builder.at = "copy" => app[builder.of] = "Queued"
    /\ written \subseteq inMap \union {Prod}
    /\ inMap \intersect Previews \subseteq exists

PreviewInv ==
    /\ TypeOK
    /\ Entered
    /\ Fresh
    /\ Places
    /\ PreviewIsPreserved

(* No build is of a preview whose row is new.                                *)
LEMMA NextEntered ==
    ASSUME TypeOK, Entered, [Next]_vars
    PROVE  Entered'
  <1> USE DEF map, statuses, disk, history, Entered
  <1>1. /\ rows \in [Deployments -> Results]
        /\ inMap \subseteq Deployments
        /\ Previews \subseteq Deployments
    BY DEF TypeOK, Deployments
  <1>2. ASSUME NEW d \in Deployments, InsertDeployment(d) \/ DeleteDeployment(d)
        PROVE  Entered'
    <2>1. \A e \in Deployments : /\ rows[e] # "new" => rows'[e] # "new"
                                 /\ rows[e] = "deleted" => rows'[e] = "deleted"
      BY <1>1, <1>2 DEF InsertDeployment, DeleteDeployment
    <2>2. builder \notin {Idle, Dead} => builder.of \in Deployments
      BY <1>1, BuilderParts
    <2> QED
      BY <1>1, <1>2, <2>1, <2>2 DEF InsertDeployment, DeleteDeployment
  <1>3. CASE Sync
    <2>1. builder \notin {Idle, Dead} => builder.of \in Deployments
      BY <1>1, BuilderParts
    <2> QED
      BY <1>1, <1>3, <2>1 DEF Sync, Live
  <1>4. ASSUME NEW p \in Previews, GetContainerToBuild(p)
        PROVE  Entered'
    <2>1. p \in inMap /\ builder' = Building(p, "copy", Files)
      BY <1>4 DEF GetContainerToBuild, IsNext, Queued
    <2> QED
      BY <1>4, <2>1 DEF GetContainerToBuild, Building
  <1>5. ASSUME NEW x \in Files, CopyFile(x)
        PROVE  Entered'
    <2>1. builder \notin {Idle, Dead} /\ builder'.of = builder.of
      BY <1>5 DEF CopyFile, Building, Idle, Dead
    <2> QED
      BY <1>5, <2>1 DEF CopyFile
  <1>6. CASE MarkBuilding
    <2>1. builder \notin {Idle, Dead} /\ builder'.of = builder.of
      BY <1>6 DEF MarkBuilding, Building, Idle, Dead
    <2> QED
      BY <1>6, <2>1 DEF MarkBuilding
  <1>7. CASE BuildSucceeds \/ BuildFails
    <2>1. \A e \in Deployments : rows[e] # "new" => rows'[e] # "new"
      BY <1>1, <1>7 DEF BuildSucceeds, BuildFails, EndBuild
    <2> QED
      BY <1>1, <1>7, <2>1 DEF BuildSucceeds, BuildFails, EndBuild
  <1>8. CASE CopyFails \/ BuildPanics \/ Restart \/ UNCHANGED vars
    BY <1>8 DEF CopyFails, BuildPanics, Restart, vars
  <1>9. ASSUME NEW f, RequeueBuilt(f) \/ Downgrade(f) \/ Start(f) \/ Commit(f) \/ VisitFolder(f)
        PROVE  Entered'
    BY <1>9 DEF RequeueBuilt, Downgrade, Start, Commit, VisitFolder, vars
  <1> QED
    BY <1>2, <1>3, <1>4, <1>5, <1>6, <1>7, <1>8, <1>9 DEF Next, BuildStep

(* A build that ends leaves neither Queued nor Built behind.                 *)
LEMMA AfterBuild ==
    ASSUME TypeOK, MarkBuilding \/ BuildSucceeds \/ BuildFails
    PROVE  /\ builder.of \in Previews
           /\ app'[builder.of] \in {"Building", "StandBy", "Failed"}
           /\ \A p \in Previews : p # builder.of => app'[p] = app[p]
           /\ \A p \in Previews : p # builder.of => container'[p] = container[p]
           /\ builder'.at # "copy"
  <1>1. builder.of \in Previews /\ Previews \subseteq Folders
    BY BuilderParts DEF MarkBuilding, BuildSucceeds, BuildFails, EndBuild, Idle, Dead, Folders
  <1>2. app \in [Previews -> Statuses] /\ container \in [Folders -> {"none", "StandBy", "Ready"}]
    BY DEF TypeOK
  <1>3. CASE MarkBuilding
    BY <1>1, <1>2, <1>3 DEF MarkBuilding, Building
  <1>4. CASE BuildSucceeds \/ BuildFails
    BY <1>1, <1>2, <1>4 DEF BuildSucceeds, BuildFails, EndBuild, Idle
  <1> QED
    BY <1>3, <1>4

(* What has yet to be built stays without a container and without commits.   *)
LEMMA NextFresh ==
    ASSUME PreviewInv, [Next]_vars
    PROVE  Fresh'
  <1> USE DEF map, statuses, disk, history, PreviewInv
  <1>1. /\ app \in [Previews -> Statuses]
        /\ container \in [Folders -> {"none", "StandBy", "Ready"}]
        /\ Previews \subseteq Folders
        /\ Prod \notin Previews
    BY DatabaseConstants DEF TypeOK, Folders, DatabaseConstants
  <1>2. CASE Sync
    <2> SUFFICES ASSUME NEW p \in Previews \ late, app'[p] \in {"Queued", "Built"}
                 PROVE  container'[p] = "none" /\ p \notin written'
      BY <1>2 DEF Fresh, Sync
    <2>1. CASE p \in inMap /\ p \in Live
      BY <1>1, <1>2, <2>1 DEF Sync, Fresh
    <2>2. CASE p \notin inMap
      BY <1>1, <1>2, <2>2 DEF Sync, Places
    <2>3. CASE p \notin Live
      BY <1>1, <1>2, <2>3 DEF Sync
    <2> QED
      BY <2>1, <2>2, <2>3
  <1>3. ASSUME NEW p \in Previews, RequeueBuilt(p)
        PROVE  Fresh'
    BY <1>1, <1>3 DEF RequeueBuilt, Fresh
  <1>4. ASSUME NEW f \in Folders, Start(f) \/ Commit(f)
        PROVE  Fresh'
    <2>1. f # Prod => app[f] \notin {"Queued", "Built"}
      BY <1>4 DEF Start, Commit, Reached
    <2>2. UNCHANGED <<app, late>>
      BY <1>4 DEF Start, Commit
    <2>3. \A p \in Previews : p # f => container'[p] = container[p] /\ (p \in written' => p \in written)
      BY <1>1, <1>4 DEF Start, Commit
    <2> QED
      BY <1>1, <2>1, <2>2, <2>3 DEF Fresh
  <1>5. ASSUME NEW p \in Previews, Downgrade(p)
        PROVE  Fresh'
    <2>1. app[p] \notin {"Queued", "Built"}
      BY <1>1, <1>5 DEF Downgrade, Reached
    <2> QED
      BY <1>1, <1>5, <2>1 DEF Downgrade, Fresh
  <1>6. CASE MarkBuilding \/ BuildSucceeds \/ BuildFails
    <2>1. UNCHANGED <<written, late>>
      BY <1>6 DEF MarkBuilding, BuildSucceeds, BuildFails, EndBuild
    <2> QED
      BY <1>6, <2>1, AfterBuild DEF Fresh
  <1>7. CASE Restart
    BY <1>1, <1>7 DEF Restart, Fresh
  <1>8. ASSUME NEW f, \/ InsertDeployment(f) \/ DeleteDeployment(f) \/ VisitFolder(f)
                      \/ GetContainerToBuild(f) \/ CopyFile(f) \/ CopyFails \/ BuildPanics
                      \/ UNCHANGED vars
        PROVE  Fresh'
    <2>1. UNCHANGED <<app, container, written, late>>
      BY <1>8 DEF InsertDeployment, DeleteDeployment, VisitFolder, GetContainerToBuild, CopyFile,
         CopyFails, BuildPanics, vars
    <2> QED
      BY <2>1 DEF Fresh
  <1> QED
    BY <1>2, <1>3, <1>4, <1>5, <1>6, <1>7, <1>8 DEF Next, BuildStep

(* Copies are of what is queued, and commits are to what is in the map.      *)
LEMMA NextPlaces ==
    ASSUME PreviewInv, [Next]_vars
    PROVE  Places'
  <1> USE DEF map, statuses, disk, history, PreviewInv
  <1>1. /\ app \in [Previews -> Statuses]
        /\ inMap \subseteq Deployments
        /\ Previews \subseteq Deployments
        /\ rows \in [Deployments -> Results]
    BY DEF TypeOK, Deployments
  <1>2. builder \notin {Idle, Dead} => builder.of \in Previews
    BY BuilderParts
  <1>3. CASE Sync
    <2>1. builder.at = "copy" => app'[builder.of] = "Queued"
      <3> SUFFICES ASSUME builder.at = "copy" PROVE app'[builder.of] = "Queued"
        OBVIOUS
      <3>1. builder \notin {Idle, Dead} /\ builder.of \in Previews
        BY <1>2 DEF Idle, Dead
      <3>2. builder.of \notin Live \ inMap
        BY <3>1 DEF Entered, Live
      <3>3. app[builder.of] = "Queued"
        BY DEF Places
      <3> QED
        BY <1>3, <3>1, <3>2, <3>3 DEF Sync
    <2>2. written' \subseteq inMap' \union {Prod}
      BY <1>3 DEF Sync
    <2>3. inMap' \intersect Previews \subseteq exists'
      BY <1>3 DEF Sync, Places
    <2> QED
      BY <1>3, <2>1, <2>2, <2>3 DEF Sync, Places
  <1>4. ASSUME NEW p \in Previews, RequeueBuilt(p)
        PROVE  Places'
    <2>1. builder.at = "copy" => app'[builder.of] = "Queued"
      BY <1>1, <1>4 DEF RequeueBuilt, Places
    <2> QED
      BY <1>4, <2>1 DEF RequeueBuilt, Places
  <1>5. ASSUME NEW f \in Folders, Commit(f)
        PROVE  Places'
    <2>1. f \in inMap \union {Prod}
      BY <1>5 DEF Commit, Reached
    <2> QED
      BY <1>5, <2>1 DEF Commit, Places
  <1>6. ASSUME NEW p \in Previews, GetContainerToBuild(p)
        PROVE  Places'
    <2>1. app[p] = "Queued" /\ builder'.of = p
      BY <1>6 DEF GetContainerToBuild, IsNext, Queued, Building
    <2> QED
      BY <1>6, <2>1 DEF GetContainerToBuild, Places
  <1>7. ASSUME NEW x \in Files, CopyFile(x)
        PROVE  Places'
    <2>1. builder'.of = builder.of
      BY <1>7 DEF CopyFile, Building
    <2> QED
      BY <1>7, <2>1 DEF CopyFile, Places
  <1>8. CASE MarkBuilding \/ BuildSucceeds \/ BuildFails
    <2>1. UNCHANGED <<inMap, exists, written>>
      BY <1>8 DEF MarkBuilding, BuildSucceeds, BuildFails, EndBuild
    <2> QED
      BY <1>8, <2>1, AfterBuild DEF Places
  <1>9. CASE CopyFails \/ BuildPanics
    BY <1>9 DEF CopyFails, BuildPanics, Places, Idle, Dead
  <1>10. CASE Restart
    <2>1. builder'.at # "copy" /\ written' \subseteq {Prod} /\ inMap' = {}
      BY <1>10 DEF Restart, Idle
    <2> QED
      BY <2>1 DEF Places
  <1>11. ASSUME NEW f, \/ InsertDeployment(f) \/ DeleteDeployment(f) \/ VisitFolder(f)
                       \/ Start(f) \/ Downgrade(f) \/ UNCHANGED vars
         PROVE  Places'
    <2>1. UNCHANGED <<builder, app, inMap, exists, written>>
      BY <1>11 DEF InsertDeployment, DeleteDeployment, VisitFolder, Start, Downgrade, vars
    <2> QED
      BY <2>1 DEF Places
  <1> QED
    BY <1>3, <1>4, <1>5, <1>6, <1>7, <1>8, <1>9, <1>10, <1>11 DEF Next, BuildStep

(* Only a start, a commit and a copy write to a folder.                      *)
LEMMA WhoWrites ==
    ASSUME [Next]_vars, content' # content
    PROVE  \/ \E f \in Folders : Start(f) \/ Commit(f)
           \/ \E x \in Files : CopyFile(x)
  BY DEF Next, BuildStep, InsertDeployment, DeleteDeployment, Sync, RequeueBuilt, Downgrade,
     VisitFolder, CopyFails, GetContainerToBuild, MarkBuilding, BuildSucceeds, BuildFails, BuildPanics,
     EndBuild, Restart, vars, map, statuses, history, disk

(* What was committed to a preview stays.                                    *)
LEMMA NextPreserved ==
    ASSUME PreviewInv, [Next]_vars
    PROVE  PreviewIsPreserved'
  <1> USE DEF map, statuses, disk, history, PreviewInv
  <1>1. /\ content \in [Folders -> [Files -> Writers]]
        /\ Previews \subseteq Folders
        /\ written \subseteq Folders
    BY DEF TypeOK, Folders
  <1>2. exists \subseteq exists'
    BY FoldersStay
  <1>3. ASSUME NEW f \in Folders, Commit(f)
        PROVE  PreviewIsPreserved'
    <2>1. content'[f] = Of(f) /\ \A p \in Folders : p # f => content'[p] = content[p]
      BY <1>1, <1>3 DEF Commit
    <2>2. f # Prod => f \in exists
      BY <1>3 DEF Commit, Reached, Places, Folders
    <2> QED
      BY <1>1, <1>2, <1>3, <2>1, <2>2 DEF Commit, PreviewIsPreserved
  <1>4. ASSUME NEW x \in Files, CopyFile(x)
        PROVE  PreviewIsPreserved'
    <2>1. builder.of \in Previews /\ app[builder.of] = "Queued"
      BY <1>4, BuilderParts DEF CopyFile, Places, Idle, Dead
    <2>2. builder.of \notin written \ late
      BY <2>1 DEF Fresh
    <2>3. \A p \in Folders : p # builder.of => content'[p] = content[p]
      BY <1>1, <1>4 DEF CopyFile
    <2> QED
      BY <1>1, <1>4, <2>2, <2>3 DEF CopyFile, PreviewIsPreserved
  <1>5. CASE Restart
    BY <1>5 DEF Restart, PreviewIsPreserved
  <1>6. CASE UNCHANGED content /\ ~Restart
    <2>1. written' \subseteq written \/ \E f \in Folders : Commit(f)
      BY <1>6 DEF Next, BuildStep, InsertDeployment, DeleteDeployment, Sync, RequeueBuilt, Downgrade,
         Start, VisitFolder, CopyFails, GetContainerToBuild, CopyFile, MarkBuilding, BuildSucceeds,
         BuildFails, BuildPanics, EndBuild, vars
    <2>2. late \subseteq late'
      BY <1>6 DEF Next, BuildStep, InsertDeployment, DeleteDeployment, Sync, RequeueBuilt, Downgrade,
         Start, Commit, VisitFolder, CopyFails, GetContainerToBuild, CopyFile, MarkBuilding,
         BuildSucceeds, BuildFails, BuildPanics, EndBuild, vars
    <2> QED
      BY <1>2, <1>3, <1>6, <2>1, <2>2 DEF PreviewIsPreserved
  <1>7. ASSUME NEW f \in Folders, Start(f)
        PROVE  PreviewIsPreserved'
    <2>1. \A p \in Folders : p # f => content'[p] = content[p]
      BY <1>1, <1>7 DEF Start
    <2>2. f \in Previews /\ content[f] = Of(f) => content'[f] = Of(f)
      <3>1. f \in Previews => f # Missing
        BY DatabaseConstants DEF DatabaseConstants
      <3> QED
        BY <1>1, <1>7, <3>1 DEF Start, Of
    <2>3. UNCHANGED <<written, late, exists>>
      BY <1>7 DEF Start
    <2> QED
      BY <1>1, <2>1, <2>2, <2>3 DEF PreviewIsPreserved, Folders
  <1> QED
    BY <1>3, <1>4, <1>5, <1>6, <1>7, WhoWrites

(* The invariant holds at the start and is kept.                             *)
LEMMA PreviewsInvariant == Spec => []PreviewInv
  <1>1. Init => PreviewInv
    <2> SUFFICES ASSUME Init PROVE PreviewInv
      OBVIOUS
    <2>1. Entered /\ Places /\ PreviewIsPreserved
      BY DEF Init, Entered, Places, PreviewIsPreserved, Idle, Dead
    <2>2. Fresh
      BY DEF Init, Fresh, Folders
    <2> QED
      BY <2>1, <2>2, InitTypes DEF PreviewInv
  <1>2. PreviewInv /\ [Next]_vars => PreviewInv'
    <2> SUFFICES ASSUME PreviewInv, [Next]_vars PROVE PreviewInv'
      OBVIOUS
    <2>1. TypeOK' /\ Entered'
      BY NextTypes, NextEntered DEF PreviewInv
    <2> QED
      BY <2>1, NextFresh, NextPlaces, NextPreserved DEF PreviewInv
  <1> QED
    BY <1>1, <1>2, PTL DEF Spec

(* What is committed to the database of a preview is still there at every    *)
(* later moment of the process, whatever is built, cloned, deleted or        *)
(* requeued, but for the requeue that read a status which was no longer so   *)
(* (container/mod.rs:388-396).                                               *)
THEOREM PreviewsStay == Spec => []PreviewIsPreserved
  <1>1. PreviewInv => PreviewIsPreserved
    BY DEF PreviewInv
  <1> QED
    BY <1>1, PreviewsInvariant, PTL

(* No clone is made under a container that serves the database, with the     *)
(* same exception (container/mod.rs:229-254).                                *)
THEOREM ClonesAreNotServed == Spec => []NoCloneUnderServer
  <1>1. PreviewInv => NoCloneUnderServer
    <2> SUFFICES ASSUME PreviewInv, builder.at = "copy", builder.of \notin late
                 PROVE  container[builder.of] = "none"
      BY DEF NoCloneUnderServer
    <2>1. builder.of \in Previews
      BY BuilderParts DEF PreviewInv, Idle, Dead
    <2>2. app[builder.of] = "Queued"
      BY DEF PreviewInv, Places
    <2> QED
      BY <2>1, <2>2 DEF PreviewInv, Fresh
  <1> QED
    BY <1>1, PreviewsInvariant, PTL

-----------------------------------------------------------------------------
(* Clones.                                                                   *)

(* A preview whose clone was undisturbed, and that was not committed to.     *)
Clean(p) == p \in inMap /\ p \notin written \union raced

(* The clone of production, but for what it did not have.                    *)
Kept(p) ==
    /\ \E w \in {Empty, Prod} : \A x \in Files \ absent[p] : content[p][x] = w
    /\ \A x \in absent[p] : content[p][x] \in {Missing, Empty, p}

(* Copied so far: what production has.                                       *)
Copied(p) ==
    /\ absent[p] \subseteq Files \ builder.left
    /\ \A x \in Files \ builder.left :
            /\ x \in absent[p] <=> content[Prod][x] = Missing
            /\ x \notin absent[p] => content[p][x] = content[Prod][x]

(* From the first file copied to the container that serves them.             *)
CloneOf(p) ==
    /\ app[p] \in {"Building", "StandBy"} => Kept(p)
    /\ builder.at = "image" /\ builder.of = p => Kept(p)
    /\ builder.at = "copy" /\ builder.of = p => Copied(p)

(* A transaction writes to every file there is.                              *)
Whole == \/ \A x \in Files : content[Prod][x] = Prod
         \/ \A x \in Files : content[Prod][x] \in {Missing, Empty}

(* What production does not have was never cloned.                           *)
Owned(p) == \A x \in Files : content[Prod][x] = Missing => content[p][x] \in {Missing, Empty, p}

CloneInv ==
    /\ Whole
    /\ \A p \in Previews : Owned(p)
    /\ \A p \in Previews : Clean(p) => CloneOf(p)

(* What is in the folders stands, if nothing is written to them.             *)
LEMMA SameContent ==
    ASSUME UNCHANGED content
    PROVE  /\ Whole => Whole'
           /\ \A p \in Previews : Owned(p) => Owned(p)'
           /\ \A p \in Previews : absent'[p] = absent[p] => (Kept(p) => Kept(p)')
  BY DEF Whole, Owned, Kept

(* A pass of the map adds nothing that is built.                             *)
LEMMA SyncClones ==
    ASSUME PreviewInv, CloneInv, Sync
    PROVE  CloneInv'
  <1> USE DEF PreviewInv
  <1>1. UNCHANGED <<content, builder>>
    BY DEF Sync
  <1>2. ASSUME NEW p \in Previews, Clean(p)'
        PROVE  /\ p \in Live /\ absent'[p] = absent[p]
               /\ p \notin inMap => /\ app'[p] \notin {"Building", "StandBy"}
                                    /\ builder \in {Idle, Dead} \/ builder.of # p
               /\ p \in inMap => Clean(p) /\ app'[p] = app[p]
    <2>1. p \in Live /\ absent'[p] = absent[p]
      BY <1>2 DEF Clean, Sync
    <2>2. ASSUME p \notin inMap
          PROVE  /\ app'[p] \notin {"Building", "StandBy"}
                 /\ builder \in {Idle, Dead} \/ builder.of # p
      <3>1. rows[p] \notin {"new", "deleted"}
        BY <2>1 DEF Live
      <3>2. app'[p] = InitialStatus(p)
        BY <2>1, <2>2 DEF Sync
      <3> QED
        BY <2>2, <3>1, <3>2, InitialStatusType DEF Entered
    <2>3. p \in inMap => Clean(p) /\ app'[p] = app[p]
      BY <1>2, <2>1 DEF Clean, Sync
    <2> QED
      BY <2>1, <2>2, <2>3
  <1>3. ASSUME NEW p \in Previews, Clean(p)'
        PROVE  CloneOf(p)'
    <2>1. CASE p \in inMap
      <3>1. CloneOf(p) /\ app'[p] = app[p] /\ absent'[p] = absent[p]
        BY <1>2, <1>3, <2>1 DEF CloneInv
      <3>2. Copied(p) => Copied(p)'
        BY <1>1, <3>1 DEF Copied
      <3> QED
        BY <1>1, <3>1, <3>2, SameContent DEF CloneOf
    <2>2. CASE p \notin inMap
      BY <1>1, <1>2, <1>3, <2>2 DEF CloneOf, Idle, Dead
    <2> QED
      BY <2>1, <2>2
  <1> QED
    BY <1>1, <1>3, SameContent DEF CloneInv

(* A step that writes to one folder leaves the clones of the others, unless  *)
(* it is that of production.                                                 *)
LEMMA OtherClones ==
    ASSUME PreviewInv, CloneInv, NEW f \in Folders, NEW p \in Previews, p # f, Clean(p)',
           UNCHANGED <<builder, app, inMap, absent>>, written \subseteq written', raced \subseteq raced',
           \A g \in Folders : g # f => content'[g] = content[g],
           builder.at = "copy" /\ builder.of = p => f # Prod
    PROVE  CloneOf(p)'
  <1>1. CloneOf(p)
    BY DEF Clean, CloneInv
  <1>2. content'[p] = content[p]
    BY DEF Folders
  <1>3. Kept(p) => Kept(p)'
    BY <1>2 DEF Kept
  <1>4. f # Prod => content'[Prod] = content[Prod]
    BY DEF Folders
  <1>5. f # Prod /\ Copied(p) => Copied(p)'
    BY <1>2, <1>4 DEF Copied
  <1> QED
    BY <1>1, <1>3, <1>5 DEF CloneOf

(* A start makes files, and leaves those that are there.                     *)
LEMMA Started ==
    ASSUME TypeOK, NEW f \in Folders, Start(f)
    PROVE  /\ \A x \in Files : \/ content'[f][x] = content[f][x]
                               \/ content[f][x] = Missing /\ content'[f][x] = Empty
           /\ \A g \in Folders : g # f => content'[g] = content[g]
  <1>1. content \in [Folders -> [Files -> Writers]]
    BY DEF TypeOK
  <1>2. content' = [content EXCEPT ![f] =
                      [x \in Files |-> IF x \in Base /\ content[f][x] = Missing THEN Empty
                                      ELSE content[f][x]]]
    BY DEF Start
  <1>3. content'[f] = [x \in Files |-> IF x \in Base /\ content[f][x] = Missing THEN Empty
                                      ELSE content[f][x]]
    BY <1>1, <1>2
  <1>4. \A g \in Folders : g # f => content'[g] = content[g]
    BY <1>1, <1>2
  <1> QED
    BY <1>3, <1>4

(* A container that starts leaves what was cloned, and production that has   *)
(* new files during a copy is known to have raced with it.                   *)
LEMMA StartClones ==
    ASSUME PreviewInv, CloneInv, NEW f \in Folders, Start(f)
    PROVE  CloneInv'
  <1> USE DEF PreviewInv, map, statuses
  <1>1. /\ Previews \subseteq Folders /\ Prod \in Folders /\ Prod \notin Previews
        /\ Empty # Missing /\ Prod # Missing
    BY DatabaseConstants DEF Folders, DatabaseConstants
  <1>2. /\ UNCHANGED <<builder, app, inMap, absent, written>>
        /\ raced' = IF content' = content THEN raced ELSE NowRaced(f)
    BY DEF Start
  <1>3. /\ raced \subseteq raced'
        /\ content' # content /\ f = Prod /\ builder.at = "copy" => builder.of \in raced'
    BY <1>2, NowRacedType DEF NowRaced
  <1>4. /\ \A x \in Files : \/ content'[f][x] = content[f][x]
                            \/ content[f][x] = Missing /\ content'[f][x] = Empty
        /\ \A g \in Folders : g # f => content'[g] = content[g]
    BY Started
  <1>5. Whole'
    <2>1. CASE f # Prod
      BY <1>1, <1>4, <2>1 DEF CloneInv, Whole
    <2>2. CASE f = Prod
      BY <1>1, <1>4, <2>2 DEF CloneInv, Whole
    <2> QED
      BY <2>1, <2>2
  <1>6. ASSUME NEW p \in Previews
        PROVE  Owned(p)'
    <2>1. Owned(p)
      BY DEF CloneInv
    <2>2. \A x \in Files : content'[Prod][x] = Missing => content[Prod][x] = Missing
      BY <1>1, <1>4
    <2>3. \A x \in Files : content'[p][x] \in {content[p][x], Empty}
      BY <1>1, <1>4
    <2> QED
      BY <2>1, <2>2, <2>3 DEF Owned
  <1>7. ASSUME NEW p \in Previews, Clean(p)'
        PROVE  CloneOf(p)'
    <2>1. CloneOf(p)
      BY <1>2, <1>3, <1>7 DEF Clean, CloneInv
    <2>2. CASE p = f
      <3>1. ~(builder.at = "copy" /\ builder.of = p)
        BY <1>1, <2>2 DEF Start, Reached, Places
      <3>2. ASSUME Kept(p)
            PROVE  Kept(p)'
        <4>1. PICK w \in {Empty, Prod} : \A x \in Files \ absent[p] : content[p][x] = w
          BY <3>2 DEF Kept
        <4>2. w # Missing
          BY <1>1
        <4>3. \A x \in Files \ absent[p] : content'[p][x] = w
          BY <1>4, <2>2, <4>1, <4>2
        <4>4. absent[p] \subseteq Files
          BY DEF TypeOK
        <4>5. \A x \in absent[p] : content'[p][x] \in {Missing, Empty, p}
          BY <1>4, <2>2, <3>2, <4>4 DEF Kept
        <4> QED
          BY <1>2, <4>3, <4>5 DEF Kept
      <3> QED
        BY <1>2, <2>1, <3>1, <3>2 DEF CloneOf
    <2>3. CASE p # f /\ ~(builder.at = "copy" /\ builder.of = p /\ f = Prod)
      BY <1>2, <1>3, <1>4, <1>7, <2>3, OtherClones
    <2>4. CASE builder.at = "copy" /\ builder.of = p /\ f = Prod
      <3>1. content' = content
        BY <1>3, <1>7, <2>4 DEF Clean
      <3>2. Kept(p) => Kept(p)'
        BY <1>2, <3>1, SameContent
      <3>3. Copied(p) => Copied(p)'
        BY <1>2, <3>1 DEF Copied
      <3> QED
        BY <1>2, <2>1, <3>2, <3>3 DEF CloneOf
    <2> QED
      BY <2>2, <2>3, <2>4
  <1> QED
    BY <1>5, <1>6, <1>7 DEF CloneInv

(* A commit to production during a copy is known to have raced with it.      *)
LEMMA CommitClones ==
    ASSUME PreviewInv, CloneInv, NEW f \in Folders, Commit(f)
    PROVE  CloneInv'
  <1> USE DEF PreviewInv, map, statuses
  <1>1. /\ content \in [Folders -> [Files -> Writers]]
        /\ Previews \subseteq Folders /\ Prod \in Folders /\ Prod \notin Previews
        /\ Prod # Missing
    BY DatabaseConstants DEF TypeOK, Folders, DatabaseConstants
  <1>2. /\ content'[f] = Of(f) /\ \A x \in Files : content'[f][x] = f
        /\ \A g \in Folders : g # f => content'[g] = content[g]
    BY <1>1 DEF Commit, Of
  <1>3. /\ UNCHANGED <<builder, app, inMap, absent>> /\ written' = written \union {f}
        /\ raced' = NowRaced(f)
    BY DEF Commit
  <1>4. /\ raced \subseteq raced'
        /\ f = Prod /\ builder.at = "copy" => builder.of \in raced'
    BY <1>3, NowRacedType DEF NowRaced
  <1>5. Whole'
    BY <1>1, <1>2 DEF CloneInv, Whole
  <1>6. ASSUME NEW p \in Previews
        PROVE  Owned(p)'
    <2>1. Owned(p)
      BY DEF CloneInv
    <2>2. \A x \in Files : content'[Prod][x] = Missing => content[Prod][x] = Missing
      BY <1>1, <1>2
    <2>3. \A x \in Files : content'[p][x] \in {content[p][x], p}
      BY <1>1, <1>2
    <2> QED
      BY <2>1, <2>2, <2>3 DEF Owned
  <1>7. ASSUME NEW p \in Previews, Clean(p)'
        PROVE  CloneOf(p)'
    <2>1. p # f
      BY <1>3, <1>7 DEF Clean
    <2>2. builder.at = "copy" /\ builder.of = p => f # Prod
      BY <1>4, <1>7 DEF Clean
    <2>3. written \subseteq written'
      BY <1>3
    <2> QED
      BY <1>2, <1>3, <1>4, <1>7, <2>1, <2>2, <2>3, OtherClones
  <1> QED
    BY <1>5, <1>6, <1>7 DEF CloneInv

(* A file copied is the one of production, if it has it.                     *)
LEMMA CopyClones ==
    ASSUME PreviewInv, CloneInv, NEW x \in Files, CopyFile(x)
    PROVE  CloneInv'
  <1> USE DEF PreviewInv, map, statuses
  <1>1. /\ content \in [Folders -> [Files -> Writers]]
        /\ absent \in [Previews -> SUBSET Files]
        /\ Previews \subseteq Folders /\ Prod \in Folders /\ Prod \notin Previews
    BY DatabaseConstants DEF TypeOK, Folders, DatabaseConstants
  <1>2. /\ builder.at = "copy" /\ builder.of \in Previews /\ app[builder.of] = "Queued"
        /\ x \in builder.left
        /\ builder' = Building(builder.of, "copy", builder.left \ {x})
    BY BuilderParts DEF CopyFile, Places, Idle, Dead
  <1>3. builder'.at = "copy" /\ builder'.of = builder.of /\ builder'.left = builder.left \ {x}
    BY <1>2 DEF Building
  <1>4. UNCHANGED <<app, inMap, written, raced>>
    BY DEF CopyFile
  <1>5. /\ \A p \in Folders : p # builder.of => content'[p] = content[p]
        /\ \A p \in Previews : p # builder.of => absent'[p] = absent[p]
    <2>1. \A p \in Folders : p # builder.of => content'[p] = content[p]
      BY <1>1, <1>2 DEF CopyFile
    <2>2. absent' \in {absent, [absent EXCEPT ![builder.of] = absent[builder.of] \union {x}]}
      BY DEF CopyFile
    <2>3. \A p \in Previews : p # builder.of => absent'[p] = absent[p]
      BY <1>1, <1>2, <2>2
    <2> QED
      BY <2>1, <2>3
  <1>6. /\ content[Prod][x] = Missing =>
              content' = content /\ absent'[builder.of] = absent[builder.of] \union {x}
        /\ content[Prod][x] # Missing =>
              /\ absent'[builder.of] = absent[builder.of]
              /\ content'[builder.of] = [content[builder.of] EXCEPT ![x] = content[Prod][x]]
    BY <1>1, <1>2 DEF CopyFile
  <1>7. /\ content'[Prod] = content[Prod]
        /\ content[Prod][x] # Missing => content'[builder.of][x] = content[Prod][x]
        /\ \A y \in Files : y # x \/ content[Prod][x] = Missing =>
              content'[builder.of][y] = content[builder.of][y]
    <2>1. content[builder.of] \in [Files -> Writers]
      BY <1>1, <1>2
    <2> QED
      BY <1>1, <1>2, <1>5, <1>6, <2>1
  <1>8. Whole'
    BY <1>7 DEF CloneInv, Whole
  <1>9. ASSUME NEW p \in Previews
        PROVE  Owned(p)'
    <2>1. Owned(p)
      BY DEF CloneInv
    <2>2. CASE p = builder.of
      BY <1>7, <2>1, <2>2 DEF Owned
    <2>3. CASE p # builder.of
      BY <1>1, <1>5, <1>7, <2>1, <2>3 DEF Owned
    <2> QED
      BY <2>2, <2>3
  <1>10. ASSUME NEW p \in Previews, Clean(p)'
         PROVE  CloneOf(p)'
    <2>1. CloneOf(p)
      BY <1>4, <1>10 DEF Clean, CloneInv
    <2>2. CASE p # builder.of
      <3>1. Kept(p) => Kept(p)'
        BY <1>1, <1>5, <2>2 DEF Kept
      <3> QED
        BY <1>3, <1>4, <2>1, <2>2, <3>1 DEF CloneOf
    <2>3. CASE p = builder.of
      <3>1. Copied(p)
        BY <1>2, <2>1, <2>3 DEF CloneOf
      <3>2. absent'[p] \subseteq Files \ builder'.left
        BY <1>2, <1>3, <1>6, <2>3, <3>1 DEF Copied
      <3>3. ASSUME NEW y \in Files \ builder'.left
            PROVE  /\ y \in absent'[p] <=> content'[Prod][y] = Missing
                   /\ y \notin absent'[p] => content'[p][y] = content'[Prod][y]
        <4>1. CASE y = x
          <5>1. x \notin absent[p]
            BY <1>2, <3>1 DEF Copied
          <5> QED
            BY <1>6, <1>7, <2>3, <4>1, <5>1
        <4>2. CASE y # x
          <5>1. /\ y \in absent[p] <=> content[Prod][y] = Missing
                /\ y \notin absent[p] => content[p][y] = content[Prod][y]
            BY <1>3, <3>1, <3>3, <4>2 DEF Copied
          <5>2. y \in absent'[p] <=> y \in absent[p]
            BY <1>6, <2>3, <4>2
          <5> QED
            BY <1>7, <2>3, <4>2, <5>1, <5>2
        <4> QED
          BY <4>1, <4>2
      <3>4. Copied(p)'
        BY <3>2, <3>3 DEF Copied
      <3> QED
        BY <1>2, <1>3, <1>4, <2>3, <3>4 DEF CloneOf
    <2> QED
      BY <2>2, <2>3
  <1> QED
    BY <1>8, <1>9, <1>10 DEF CloneInv

(* When every file is copied, the folder has what production has.            *)
LEMMA MarkClones ==
    ASSUME PreviewInv, CloneInv, MarkBuilding
    PROVE  CloneInv'
  <1> USE DEF PreviewInv, map, disk, history
  <1>1. builder.at = "copy" /\ builder.of \in Previews /\ builder.left = {}
    BY BuilderParts DEF MarkBuilding, Idle, Dead
  <1>2. builder' = Building(builder.of, "image", {})
    BY DEF MarkBuilding
  <1>3. UNCHANGED <<content, inMap, written, raced, absent>>
    BY DEF MarkBuilding
  <1>4. ASSUME Clean(builder.of)
        PROVE  Kept(builder.of)
    <2>1. absent[builder.of] \subseteq Files
      BY <1>1 DEF TypeOK
    <2>2. \A x \in Files :
              /\ x \in absent[builder.of] <=> content[Prod][x] = Missing
              /\ x \notin absent[builder.of] => content[builder.of][x] = content[Prod][x]
      BY <1>1, <1>4 DEF CloneInv, CloneOf, Copied
    <2>3. PICK w \in {Empty, Prod} : \A x \in Files : content[Prod][x] \in {Missing, w}
      BY DEF CloneInv, Whole
    <2>4. \A x \in Files \ absent[builder.of] : content[builder.of][x] = w
      BY <2>2, <2>3
    <2>5. \A x \in absent[builder.of] : content[builder.of][x] \in {Missing, Empty, builder.of}
      BY <1>1, <2>1, <2>2 DEF CloneInv, Owned
    <2> QED
      BY <2>4, <2>5 DEF Kept
  <1>5. \A p \in Previews : p # builder.of => app'[p] = app[p]
    BY AfterBuild
  <1>6. builder'.at = "image" /\ builder'.of = builder.of
    BY <1>2 DEF Building
  <1>7. ASSUME NEW p \in Previews, Clean(p)'
        PROVE  CloneOf(p)'
    <2>1. Clean(p) /\ CloneOf(p)
      BY <1>3, <1>7 DEF Clean, CloneInv
    <2>2. Kept(p) => Kept(p)'
      BY <1>3, SameContent
    <2> QED
      BY <1>4, <1>5, <1>6, <2>1, <2>2 DEF CloneOf
  <1> QED
    BY <1>3, <1>7, SameContent DEF CloneInv

(* The rest of the steps.                                                    *)
LEMMA NextClones ==
    ASSUME PreviewInv, CloneInv, [Next]_vars
    PROVE  CloneInv'
  <1> USE DEF PreviewInv, map, statuses, disk, history
  <1>1. app \in [Previews -> Statuses]
    BY DEF TypeOK
  <1>2. ASSUME UNCHANGED <<content, inMap, written, raced, absent>>,
               builder' \in {Idle, Dead, builder},
               \A p \in Previews : \/ app'[p] \in {app[p], "Queued"}
                                   \/ builder.at = "image" /\ builder.of = p
        PROVE  CloneInv'
    <2>1. ASSUME NEW p \in Previews, Clean(p)'
          PROVE  CloneOf(p)'
      <3>1. Clean(p) /\ CloneOf(p)
        BY <1>2, <2>1 DEF Clean, CloneInv
      <3>2. Kept(p) => Kept(p)'
        BY <1>2, SameContent
      <3>3. builder' = builder \/ builder'.at \notin {"copy", "image"}
        BY <1>2 DEF Idle, Dead
      <3>4. builder' = builder /\ Copied(p) => Copied(p)'
        BY <1>2 DEF Copied
      <3> QED
        BY <1>2, <3>1, <3>2, <3>3, <3>4 DEF CloneOf
    <2> QED
      BY <1>2, <2>1, SameContent DEF CloneInv
  <1>3. CASE BuildSucceeds \/ BuildFails
    <2>1. /\ UNCHANGED <<content, inMap, written, raced, absent>>
          /\ builder' = Idle /\ builder.at = "image"
      BY <1>3 DEF BuildSucceeds, BuildFails, EndBuild
    <2>2. \A p \in Previews : p # builder.of => app'[p] = app[p]
      BY <1>3, AfterBuild
    <2> QED
      BY <1>2, <2>1, <2>2
  <1>4. CASE CopyFails \/ BuildPanics
    <2>1. UNCHANGED <<content, app, inMap, written, raced, absent>> /\ builder' \in {Idle, Dead}
      BY <1>4 DEF CopyFails, BuildPanics
    <2> QED
      BY <1>2, <2>1
  <1>5. ASSUME NEW p \in Previews, GetContainerToBuild(p)
        PROVE  CloneInv'
    <2>1. /\ UNCHANGED <<content, app, inMap, written>>
          /\ raced' = raced \ {p} /\ absent' = [absent EXCEPT ![p] = {}]
          /\ builder = Idle /\ builder' = Building(p, "copy", Files)
      BY <1>5 DEF GetContainerToBuild
    <2>2. builder'.at = "copy" /\ builder'.of = p /\ builder'.left = Files
      BY <2>1 DEF Building
    <2>3. app[p] = "Queued"
      BY <1>5 DEF GetContainerToBuild, IsNext, Queued
    <2>4. absent'[p] = {} /\ \A q \in Previews : q # p => absent'[q] = absent[q]
      BY <2>1 DEF TypeOK
    <2>5. ASSUME NEW q \in Previews, Clean(q)'
          PROVE  CloneOf(q)'
      <3>1. CASE q = p
        BY <2>1, <2>2, <2>3, <2>4, <3>1 DEF CloneOf, Copied
      <3>2. CASE q # p
        <4>1. Clean(q) /\ CloneOf(q)
          BY <2>1, <2>5, <3>2 DEF Clean, CloneInv
        <4> QED
          BY <2>1, <2>2, <2>4, <3>2, <4>1, SameContent DEF CloneOf
      <3> QED
        BY <3>1, <3>2
    <2> QED
      BY <2>1, <2>5, SameContent DEF CloneInv
  <1>6. ASSUME NEW p \in Previews, RequeueBuilt(p)
        PROVE  CloneInv'
    <2>1. UNCHANGED <<content, builder, inMap, written, raced, absent>>
      BY <1>6 DEF RequeueBuilt
    <2>2. \A q \in Previews : app'[q] = app[q] \/ app'[q] = "Queued"
      BY <1>1, <1>6 DEF RequeueBuilt
    <2> QED
      BY <1>2, <2>1, <2>2
  <1>7. CASE Restart
    <2>1. UNCHANGED content /\ inMap' = {}
      BY <1>7 DEF Restart
    <2> QED
      BY <2>1, SameContent DEF CloneInv, Clean
  <1>8. ASSUME NEW f, \/ InsertDeployment(f) \/ DeleteDeployment(f) \/ VisitFolder(f)
                      \/ Downgrade(f) \/ UNCHANGED vars
        PROVE  CloneInv'
    <2>1. UNCHANGED <<builder, app, inMap, content, written, raced, absent>>
      BY <1>8 DEF InsertDeployment, DeleteDeployment, VisitFolder, Downgrade, vars
    <2> QED
      BY <1>2, <2>1
  <1> QED
    BY <1>3, <1>4, <1>5, <1>6, <1>7, <1>8, SyncClones, StartClones, CommitClones, CopyClones,
       MarkClones DEF Next, BuildStep

(* "your production database will be cloned"                                 *)
(* (docs/pages/databases.mdx:16): every file of the database a preview       *)
(* reaches is, until it is written to, of one production has been, unless    *)
(* production was written to while its files were copied; the files that     *)
(* production does not have are new, or what an earlier process left.        *)
THEOREM ClonesAreWhole == Spec => []CloneWasProduction
  <1>1. Init => CloneInv
    <2> SUFFICES ASSUME Init PROVE CloneInv
      OBVIOUS
    <2>1. \A f \in Folders : content[f] = Of(Missing)
      BY DEF Init
    <2>2. \A f \in Folders : \A x \in Files : content[f][x] = Missing
      BY <2>1 DEF Of
    <2>3. Whole /\ \A p \in Previews : Owned(p)
      BY <2>2 DEF Whole, Owned, Folders
    <2> QED
      BY <2>3 DEF Init, CloneInv, Clean
  <1>2. PreviewInv /\ CloneInv /\ [Next]_vars => CloneInv'
    BY NextClones
  <1>3. PreviewInv /\ CloneInv => CloneWasProduction
    <2> SUFFICES ASSUME CloneInv, NEW p \in Previews, Reached(p) # "none",
                        p \notin written \union raced
                 PROVE  Kept(p)
      BY DEF CloneWasProduction, Kept
    <2>1. p \in inMap /\ app[p] \in {"Building", "StandBy"}
      BY DatabaseConstants DEF Reached, DatabaseConstants
    <2> QED
      BY <2>1 DEF CloneInv, CloneOf, Clean
  <1> QED
    BY <1>1, <1>2, <1>3, PreviewsInvariant, PTL DEF Spec
=============================================================================
