---------------------------- MODULE FileProofs ----------------------------
(***************************************************************************)
(* Proofs about files, folders and the quota, for any number of rows, of   *)
(* moves and of requests.                                                  *)
(***************************************************************************)
EXTENDS FileHistory, FiniteSetTheorems, TLAPS

-----------------------------------------------------------------------------
(* The usage.                                                              *)

LEMMA FileSets ==
    ASSUME NEW S \in SUBSET Files
    PROVE  IsFiniteSet(S) /\ Cardinality(S) \in Nat
<1>1. IsFiniteSet(S)
  BY FilesAssumption, FS_Subset
<1> QED
  BY <1>1, FS_CardinalityType

LEMMA UsedType == ASSUME TypeOK PROVE Used \in Nat
<1>1. Stored \in SUBSET Files
  BY DEF Stored
<1>2. Cardinality(Stored) \in Nat
  BY <1>1, FileSets
<1> QED
  BY <1>2 DEF TypeOK, Used

LEMMA UsedTypeNext == ASSUME TypeOK' PROVE Used' \in Nat
<1>1. Stored' \in SUBSET Files
  BY DEF Stored
<1>2. Cardinality(Stored') \in Nat
  BY <1>1, FileSets
<1> QED
  BY <1>2 DEF TypeOK, Used

LEMMA UsedSame ==
    ASSUME UNCHANGED <<place, received>>
    PROVE  Used' = Used
BY DEF Used, Stored

\* No file came into being.
LEMMA UsedShrinks ==
    ASSUME TypeOK, TypeOK', received' <= received,
           \A f \in Files : place'[f] \in Places => place[f] \in Places
    PROVE  Used' <= Used
<1>1. Stored' \in SUBSET Stored /\ Stored \in SUBSET Files /\ Stored' \in SUBSET Files
  BY DEF Stored
<1>2. Cardinality(Stored') <= Cardinality(Stored) /\ Cardinality(Stored) \in Nat
      /\ Cardinality(Stored') \in Nat
  BY <1>1, FileSets, FS_Subset
<1> QED
  BY <1>2 DEF Used, TypeOK

LEMMA UsedGrows ==
    ASSUME TypeOK, NEW f \in Files, Stored' = Stored \cup {f}, received' = received
    PROVE  Used' <= Used + 1
<1>1. Stored \in SUBSET Files
  BY DEF Stored
<1>2. IsFiniteSet(Stored) /\ Cardinality(Stored) \in Nat
  BY <1>1, FileSets
<1>3. Cardinality(Stored') <= Cardinality(Stored) + 1 /\ Cardinality(Stored') \in Nat
  <2>1. Cardinality(Stored \cup {f}) = IF f \in Stored THEN Cardinality(Stored)
                                       ELSE Cardinality(Stored) + 1
    BY <1>2, FS_AddElement
  <2> QED
    BY <1>2, <2>1
<1> QED
  BY <1>2, <1>3 DEF Used, TypeOK

-----------------------------------------------------------------------------
(* The rows.                                                               *)

RowTypes ==
    /\ parent \in [Folders -> Places \cup {Unborn, Gone}]
    /\ place \in [Files -> Places \cup {Unborn, Gone}]
    /\ share \in [Shares -> ShareRecord]
    /\ move \in [Moves -> MoveRecord]

LEMMA StillTyped == Still \in MoveRecord
BY DEF Still, MoveRecord, Places

LEMMA ItemsChange ==
    ASSUME NEW s \in Shares, AddItem(s) \/ RemoveItem(s)
    PROVE  \E F \in SUBSET (share[s].files \cup Stored), D \in SUBSET (share[s].folders \cup Dirs) :
              ChangeItems(s, F, D)
<1> DEFINE Items == share[s].files \cup Stored
           Subfolders == share[s].folders \cup Dirs
<1>1. ASSUME NEW F, NEW D, F \subseteq Items, D \subseteq Subfolders, ChangeItems(s, F, D)
      PROVE  \E G \in SUBSET Items, E \in SUBSET Subfolders : ChangeItems(s, G, E)
  BY <1>1
<1>2. ASSUME NEW f \in Stored, ChangeItems(s, share[s].files \cup {f}, share[s].folders)
      PROVE  \E G \in SUBSET Items, E \in SUBSET Subfolders : ChangeItems(s, G, E)
  BY <1>1, <1>2
<1>3. ASSUME NEW d \in Dirs, ChangeItems(s, share[s].files, share[s].folders \cup {d})
      PROVE  \E G \in SUBSET Items, E \in SUBSET Subfolders : ChangeItems(s, G, E)
  BY <1>1, <1>3
<1>4. ASSUME NEW f, ChangeItems(s, share[s].files \ {f}, share[s].folders)
      PROVE  \E G \in SUBSET Items, E \in SUBSET Subfolders : ChangeItems(s, G, E)
  BY <1>1, <1>4
<1>5. ASSUME NEW d, ChangeItems(s, share[s].files, share[s].folders \ {d})
      PROVE  \E G \in SUBSET Items, E \in SUBSET Subfolders : ChangeItems(s, G, E)
  BY <1>1, <1>5
<1> QED
  BY <1>2, <1>3, <1>4, <1>5, Zenon DEF AddItem, RemoveItem

LEMMA FilesNextTyped ==
    ASSUME RowTypes, FilesNext
    PROVE  RowTypes'
<1> USE DEF RowTypes
<1>1. ASSUME NEW d \in Folders, NEW p \in Places, CreateFolder(d, p) PROVE RowTypes'
  BY <1>1 DEF CreateFolder
<1>2. ASSUME NEW d \in Folders, MoveToRoot(d) PROVE RowTypes'
  BY <1>2 DEF MoveToRoot, Places
<1>3. ASSUME NEW d \in Folders, DeleteFolder(d) PROVE RowTypes'
  <2>1. parent' \in [Folders -> Places \cup {Unborn, Gone}]
        /\ place' \in [Files -> Places \cup {Unborn, Gone}] /\ move' = move
    BY <1>3 DEF DeleteFolder
  <2>2. ASSUME NEW s \in Shares
        PROVE  [share[s] EXCEPT !.folders = @ \ Subtree(d),
                                !.files = {f \in @ : place[f] \notin Subtree(d)}] \in ShareRecord
    BY DEF ShareRecord
  <2> QED
    BY <1>3, <2>1, <2>2 DEF DeleteFolder
<1>4. ASSUME NEW m \in Moves, NEW d \in Folders, NEW p \in Folders, StartMove(m, d, p)
      PROVE  RowTypes'
  <2>1. [pc |-> "climb", dir |-> d, to |-> p, cur |-> p] \in MoveRecord
    BY DEF MoveRecord, Places
  <2> QED
    BY <1>4, <2>1 DEF StartMove, rows
<1>5. ASSUME NEW m \in Moves, Climb(m) PROVE RowTypes'
  <2>1. move[m] \in MoveRecord /\ Above(move[m].cur) \in Places
    BY DEF MoveRecord, Above, Dirs, Places
  <2>2. Climbed(m) \in MoveRecord
    BY <2>1, StillTyped DEF Climbed, MoveRecord
  <2> QED
    BY <1>5, <2>2 DEF Climb, rows
<1>6. ASSUME NEW m \in Moves, MoveWrite(m) \/ MoveFails(m) PROVE RowTypes'
  <2>1. move[m] \in MoveRecord /\ move[m].to \in Places
    BY DEF MoveRecord
  <2> QED
    BY <1>6, <2>1, StillTyped DEF MoveWrite, MoveFails, rows
<1>7. ASSUME NEW f \in Files, NEW p \in Places, MoveFile(f, p) PROVE RowTypes'
  BY <1>7 DEF MoveFile
<1>8. ASSUME NEW f \in Files, DeleteFile(f) PROVE RowTypes'
  <2>1. ASSUME NEW s \in Shares PROVE [share[s] EXCEPT !.files = @ \ {f}] \in ShareRecord
    BY DEF ShareRecord
  <2> QED
    BY <1>8, <2>1 DEF DeleteFile, Removed
<1>9. ASSUME NEW s \in Shares, NEW F \in SUBSET Files, NEW D \in SUBSET Folders,
             CreateShare(s, F, D)
      PROVE  RowTypes'
  <2>1. [kept |-> TRUE, files |-> F, folders |-> D, recent |-> TRUE] \in ShareRecord
    BY DEF ShareRecord
  <2> QED
    BY <1>9, <2>1 DEF CreateShare
<1>10. ASSUME NEW s \in Shares, AddItem(s) \/ RemoveItem(s) PROVE RowTypes'
  <2>1. share[s] \in ShareRecord /\ Stored \subseteq Files /\ Dirs \subseteq Folders
    BY DEF Stored, Dirs
  <2>2. ASSUME NEW F \in SUBSET Files, NEW D \in SUBSET Folders, ChangeItems(s, F, D)
        PROVE  RowTypes'
    <3>1. ASSUME NEW recent \in {share[s].recent, TRUE}
          PROVE  [share[s] EXCEPT !.files = F, !.folders = D, !.recent = recent] \in ShareRecord
      BY <2>1 DEF ShareRecord
    <3> QED
      BY <2>2, <3>1 DEF ChangeItems
  <2>3. share[s].files \cup Stored \subseteq Files /\ share[s].folders \cup Dirs \subseteq Folders
    BY <2>1 DEF ShareRecord
  <2>4. PICK F \in SUBSET (share[s].files \cup Stored), D \in SUBSET (share[s].folders \cup Dirs) :
           ChangeItems(s, F, D)
    BY <1>10, ItemsChange
  <2> QED
    BY <2>2, <2>3, <2>4
<1>11. ASSUME NEW s \in Shares, DeleteShare(s) PROVE RowTypes'
  BY <1>11 DEF DeleteShare, NoShare, ShareRecord
<1>12. ASSUME NEW s \in Shares, NEW recent \in BOOLEAN, InUse(s, recent) PROVE RowTypes'
  BY <1>12 DEF InUse, ShareRecord
<1> HIDE DEF RowTypes
<1>13. ASSUME NEW d \in Folders, FolderStep(d) PROVE RowTypes'
  BY <1>1, <1>2, <1>3, <1>13 DEF FolderStep
<1>14. ASSUME NEW m \in Moves, MoveStep(m) PROVE RowTypes'
  BY <1>4, <1>5, <1>6, <1>14 DEF MoveStep
<1>15. ASSUME NEW f \in Files, FileStep(f) PROVE RowTypes'
  BY <1>7, <1>8, <1>15 DEF FileStep
<1>16. ASSUME NEW s \in Shares, ShareStep(s) PROVE RowTypes'
  BY <1>9, <1>10, <1>11, <1>12, <1>16 DEF ShareStep
<1> QED
  BY <1>13, <1>14, <1>15, <1>16 DEF FilesNext

-----------------------------------------------------------------------------
(* The requests.                                                           *)

QuotaTypes ==
    /\ received \in Nat /\ since \in Nat \cup {None} /\ day \in Nat
    /\ req \in [Reqs -> RequestRecord]

LEMMA IdleTyped == Idle \in RequestRecord
BY DEF Idle, RequestRecord, None

\* Only the creation of a file and a deletion by the run touch the rows.
RowsOfRequest(r) ==
    \/ UNCHANGED rows
    \/ \E f \in Files, p \in Places : CreateFile(r, f, p)
    \/ \E f \in Files : DeletePicked(r, f)

\* A request changes its own record, and the clock only to what an evaluation
\* may make of it.
LEMMA RequestTyped ==
    ASSUME TypeOK, NEW r \in Reqs, Request(r) \/ Sweep(r)
    PROVE  /\ RowTypes' /\ QuotaTypes' /\ RowsOfRequest(r)
           /\ UNCHANGED <<parent, move>>
           /\ day' = day
           /\ \E new \in RequestRecord : req' = [req EXCEPT ![r] = new]
<1> DEFINE Good == /\ RowTypes' /\ QuotaTypes' /\ RowsOfRequest(r)
                   /\ UNCHANGED <<parent, move>> /\ day' = day
                   /\ \E new \in RequestRecord : req' = [req EXCEPT ![r] = new]
<1>1. RowTypes /\ QuotaTypes /\ req[r] \in RequestRecord /\ Used \in Nat
  BY UsedType DEF TypeOK, RowTypes, QuotaTypes
<1>2. ASSUME NEW new \in RequestRecord, req' = [req EXCEPT ![r] = new],
             UNCHANGED <<rows, move, received, since, day>>
      PROVE  Good
  BY <1>1, <1>2 DEF RowTypes, QuotaTypes, RowsOfRequest, rows
<1> HIDE DEF Good
<1>3. ASSUME NEW op \in {"upload", "copy", "receive"}, Start(r, op) PROVE Good
  <2>1. [Idle EXCEPT !.op = op, !.pc = "create", !.used = Used] \in RequestRecord
    BY <1>1, IdleTyped DEF RequestRecord
  <2> QED
    BY <1>2, <1>3, <2>1 DEF Start
<1>4. Registered(r) \in RequestRecord
  <2>1. req[r].used \in Nat /\ req[r].used + 1 \in Nat
    BY <1>1 DEF RequestRecord
  <2>2. [req[r] EXCEPT !.pc = "read", !.used = req[r].used + 1] \in RequestRecord
    BY <1>1, <2>1 DEF RequestRecord
  <2> QED
    BY <1>1, <2>2, IdleTyped DEF Registered, RequestRecord
<1>5. ASSUME NEW f \in Files, NEW p \in Places, CreateFile(r, f, p) PROVE Good
  BY <1>1, <1>4, <1>5 DEF Good, CreateFile, RowTypes, QuotaTypes, RowsOfRequest
<1>6. ASSUME Receive(r) PROVE Good
  <2>1. \E new \in RequestRecord : req' = [req EXCEPT ![r] = new]
    BY <1>4, <1>6 DEF Receive
  <2>2. QuotaTypes'
    BY <1>1, <1>4, <1>6 DEF Receive, QuotaTypes
  <2> QED
    BY <1>1, <1>6, <2>1, <2>2 DEF Good, Receive, RowTypes, RowsOfRequest, rows
<1>7. ASSUME EvalRead(r) PROVE Good
  <2>1. [req[r] EXCEPT !.pc = "write", !.saw = since] \in RequestRecord
    BY <1>1 DEF RequestRecord, QuotaTypes
  <2>2. req' = [req EXCEPT ![r] = [req[r] EXCEPT !.pc = "write", !.saw = since]]
    BY <1>1, <1>7 DEF EvalRead, RequestRecord, QuotaTypes
  <2> QED
    BY <1>2, <1>7, <2>1, <2>2 DEF EvalRead
<1>8. ASSUME EvalWrite(r) PROVE Good
  <2>1. Clock(req[r].used, req[r].saw) \in Nat \cup {None}
    BY <1>1 DEF Clock, QuotaTypes
  <2> QED
    BY <1>1, <1>8, <2>1, IdleTyped DEF Good, EvalWrite, RowTypes, QuotaTypes, RowsOfRequest, rows
<1>9. ASSUME StartSweep(r) PROVE Good
  <2>1. [Idle EXCEPT !.op = "sweep", !.pc = "measure"] \in RequestRecord
    BY IdleTyped DEF RequestRecord
  <2> QED
    BY <1>2, <1>9, <2>1 DEF StartSweep
<1>10. ASSUME Measure(r) PROVE Good
  <2>1. CASE Used <= Limit
    <3>1. [req[r] EXCEPT !.pc = "read", !.used = Used] \in RequestRecord
      BY <1>1 DEF RequestRecord
    <3> QED
      BY <1>2, <1>10, <2>1, <3>1 DEF Measure
  <2>2. CASE ~(Used <= Limit)
    <3>1. Used - Limit \in Nat
      BY <1>1, <2>2, QuotaAssumption
    <3>2. [req[r] EXCEPT !.pc = "orphans", !.used = Used - Limit] \in RequestRecord
      BY <1>1, <3>1 DEF RequestRecord
    <3> QED
      BY <1>2, <1>10, <2>2, <3>2 DEF Measure
  <2> QED
    BY <2>1, <2>2
<1>11. ASSUME NEW T \in SUBSET Files, PickOrphans(r, T) PROVE Good
  <2> DEFINE new == [req[r] EXCEPT !.picked = T,
                       !.pc = IF Cardinality(T) >= req[r].used THEN "delete" ELSE "inactive"]
  <2>1. new \in RequestRecord
    BY <1>1 DEF RequestRecord
  <2>2. req' = [req EXCEPT ![r] = new] /\ UNCHANGED <<rows, move, received, since, day>>
    BY <1>11 DEF PickOrphans
  <2> HIDE DEF new
  <2> QED
    BY <1>2, <2>1, <2>2
<1>12. ASSUME NEW T \in SUBSET Files, PickInactive(r, T) PROVE Good
  <2>1. [req[r] EXCEPT !.pc = "delete", !.picked = @ \cup T] \in RequestRecord
    BY <1>1 DEF RequestRecord
  <2>2. CASE req[r].picked \cup T = {}
    BY <1>2, <1>12, <2>2, IdleTyped DEF PickInactive
  <2>3. CASE req[r].picked \cup T # {}
    <3> DEFINE new == [req[r] EXCEPT !.pc = "delete", !.picked = @ \cup T]
    <3>1. req' = [req EXCEPT ![r] = new]
      BY <1>1, <1>12, <2>3, Zenon DEF PickInactive
    <3>2. new \in RequestRecord
      BY <2>1
    <3>3. UNCHANGED <<rows, move, received, since, day>>
      BY <1>12 DEF PickInactive
    <3> HIDE DEF new
    <3> QED
      BY <1>2, <3>1, <3>2, <3>3
  <2> QED
    BY <2>2, <2>3
<1>13. ASSUME NEW f \in Files, DeletePicked(r, f) PROVE Good
  <2>1. [req[r] EXCEPT !.picked = @ \ {f}] \in RequestRecord
    BY <1>1 DEF RequestRecord
  <2>2. req' = [req EXCEPT ![r] = [req[r] EXCEPT !.picked = @ \ {f}]]
    BY <1>1, <1>13 DEF DeletePicked, QuotaTypes
  <2>3. ASSUME NEW s \in Shares PROVE [share[s] EXCEPT !.files = @ \ {f}] \in ShareRecord
    BY <1>1 DEF RowTypes, ShareRecord
  <2>4. RowTypes'
    BY <1>1, <1>13, <2>3 DEF DeletePicked, Removed, RowTypes
  <2> QED
    BY <1>1, <1>13, <2>1, <2>2, <2>4 DEF Good, DeletePicked, QuotaTypes, RowsOfRequest
<1>14. ASSUME Remeasure(r) PROVE Good
  <2>1. [req[r] EXCEPT !.pc = "read", !.used = Used] \in RequestRecord
    BY <1>1 DEF RequestRecord
  <2> QED
    BY <1>2, <1>14, <2>1 DEF Remeasure
<1>15. Good
  <2>1. ASSUME Request(r) PROVE Good
    BY <1>3, <1>5, <1>6, <1>7, <1>8, <2>1 DEF Request
  <2>2. ASSUME Sweep(r) PROVE Good
    BY <1>9, <1>10, <1>11, <1>12, <1>13, <1>14, <2>2 DEF Sweep
  <2> QED
    BY <2>1, <2>2
<1> QED
  BY <1>15 DEF Good

LEMMA NextTyped ==
    ASSUME TypeOK, Next
    PROVE  RowTypes' /\ QuotaTypes' /\ (day' = day \/ day' = day + 1)
<1>1. RowTypes /\ QuotaTypes
  BY DEF TypeOK, RowTypes, QuotaTypes
<1>2. ASSUME FilesNext, UNCHANGED quota
      PROVE  RowTypes' /\ QuotaTypes' /\ day' = day
  BY <1>1, <1>2, FilesNextTyped DEF quota, QuotaTypes
<1>3. ASSUME NEW r \in Reqs, Request(r) \/ Sweep(r)
      PROVE  RowTypes' /\ QuotaTypes' /\ day' = day
  BY <1>3, RequestTyped
<1>4. ASSUME DropReceived PROVE RowTypes' /\ QuotaTypes' /\ day' = day
  BY <1>1, <1>4 DEF DropReceived, RowTypes, QuotaTypes, rows
<1>5. ASSUME NextDay PROVE RowTypes' /\ QuotaTypes' /\ day' = day + 1
  BY <1>1, <1>5 DEF NextDay, RowTypes, QuotaTypes, rows
<1>6. ASSUME NEW r \in Reqs, RequestFails(r) PROVE RowTypes' /\ QuotaTypes' /\ day' = day
  BY <1>1, <1>6, IdleTyped DEF RequestFails, RowTypes, QuotaTypes, rows
<1>7. ASSUME Restart PROVE RowTypes' /\ QuotaTypes' /\ day' = day
  BY <1>1, <1>7, IdleTyped, StillTyped DEF Restart, RowTypes, QuotaTypes, rows
<1> QED
  BY <1>2, <1>3, <1>4, <1>5, <1>6, <1>7 DEF Next, Works, Breaks

\* Both kinds of steps record their history.
LEMMA HistoryStep ==
    ASSUME HistoryNext
    PROVE  Next /\ RecordMoves /\ \E broken \in BOOLEAN : RecordUsage(broken)
BY DEF HistoryNext, Next

LEMMA TypeKept ==
    ASSUME FilesInv, HistoryNext
    PROVE  TypeOK'
<1>1. TypeOK /\ RowTypes' /\ QuotaTypes' /\ RecordMoves
  BY HistoryStep, NextTyped DEF FilesInv
<1>2. PICK broken \in BOOLEAN : RecordUsage(broken)
  BY HistoryStep
<1>3. climbed' \in [Moves -> SUBSET Folders]
  <2>1. ASSUME NEW m \in Moves, move[m].pc = "climb"
        PROVE  move[m].cur \in Folders
    BY <1>1, <2>1 DEF FilesInv, WalkInv, TypeOK, MoveRecord, Places
  <2> QED
    BY <1>1, <2>1 DEF RecordMoves, TypeOK
<1>4. overtaken' \subseteq Moves /\ entangled' \in BOOLEAN
  BY <1>1 DEF RecordMoves, TypeOK
<1>5. grown' \subseteq Reqs /\ late' \subseteq Files
  BY <1>2 DEF RecordUsage
<1>6. over' \in Nat \cup {None}
  BY <1>1, <1>2 DEF RecordUsage, TypeOK
<1>7. lapsed' \in BOOLEAN /\ blurred' \in BOOLEAN
  BY <1>2 DEF RecordUsage
<1>8. dipped' \in BOOLEAN
  BY <1>1, <1>2, <1>7 DEF RecordUsage, TypeOK
<1> QED
  BY <1>1, <1>3, <1>4, <1>5, <1>6, <1>7, <1>8 DEF TypeOK, RowTypes, QuotaTypes

-----------------------------------------------------------------------------
(* The tree.                                                               *)

\* What a step may do to one folder: nothing, create it, move it, delete it.
LEMMA ParentSteps ==
    ASSUME TypeOK, Next
    PROVE  \/ UNCHANGED parent
           \/ \E d \in Folders : \/ \E p \in Places : CreateFolder(d, p)
                                 \/ MoveToRoot(d)
                                 \/ DeleteFolder(d)
           \/ \E m \in Moves : MoveWrite(m)
<1> DEFINE Good == \/ UNCHANGED parent
                   \/ \E d \in Folders : \/ \E p \in Places : CreateFolder(d, p)
                                         \/ MoveToRoot(d)
                                         \/ DeleteFolder(d)
                   \/ \E m \in Moves : MoveWrite(m)
<1>1. ASSUME NEW d \in Folders, FolderStep(d) PROVE Good
  BY <1>1 DEF FolderStep
<1>2. ASSUME NEW m \in Moves, MoveStep(m) PROVE Good
  BY <1>2 DEF MoveStep, StartMove, Climb, MoveFails, rows
<1>3. ASSUME NEW f \in Files, FileStep(f) PROVE Good
  BY <1>3 DEF FileStep, MoveFile, DeleteFile
<1>4. ASSUME NEW s \in Shares, ShareStep(s) PROVE Good
  BY <1>4 DEF ShareStep, CreateShare, AddItem, RemoveItem, ChangeItems, DeleteShare, InUse
<1>5. ASSUME FilesNext PROVE Good
  BY <1>1, <1>2, <1>3, <1>4, <1>5 DEF FilesNext
<1>6. ASSUME NEW r \in Reqs, Request(r) \/ Sweep(r) PROVE Good
  BY <1>6, RequestTyped
<1> QED
  BY <1>5, <1>6 DEF Next, Works, Breaks, DropReceived, NextDay, RequestFails, Restart, rows

\* A set of folders in which everybody's parent is a member, made by a move
\* that nobody overtook, would have been there before: the walk has read every
\* folder above the target.
LEMMA MoveKeepsTree ==
    ASSUME TypeOK, Acyclic(parent), NEW m \in Moves, WalkInv(m), m \notin overtaken, MoveWrite(m)
    PROVE  Acyclic(parent')
<1> DEFINE dir == move[m].dir
           to == move[m].to
<1>1. /\ move[m].pc = "write" /\ dir \in Folders /\ to \in climbed[m] /\ dir \notin climbed[m]
      /\ parent' = [parent EXCEPT ![dir] = to]
      /\ \A d \in climbed[m] : parent[d] \in Folders => parent[d] \in climbed[m]
  BY NamesAssumption DEF MoveWrite, WalkInv
<1>2. ASSUME NEW S \in SUBSET Folders, \A d \in S : parent'[d] \in S, S # {}
      PROVE  FALSE
  <2>1. CASE dir \notin S
    <3>1. \A d \in S : parent[d] \in S
      BY <1>1, <1>2, <2>1 DEF TypeOK
    <3> QED
      BY <1>2, <3>1 DEF Acyclic
  <2>2. CASE dir \in S
    <3> DEFINE T == S \cap climbed[m]
    <3>1. to \in T
      BY <1>1, <1>2, <2>2 DEF TypeOK
    <3>2. \A d \in T : parent[d] \in T
      BY <1>1, <1>2 DEF TypeOK
    <3> QED
      BY <1>2, <3>1, <3>2 DEF Acyclic
  <2> QED
    BY <2>1, <2>2
<1> QED
  BY <1>2 DEF Acyclic

LEMMA ForestKept ==
    ASSUME FilesInv, Forest, HistoryNext
    PROVE  Forest'
<1>1. TypeOK /\ Next /\ RecordMoves
  BY HistoryStep DEF FilesInv
<1>2. CASE entangled
  BY <1>1, <1>2 DEF Forest, RecordMoves
<1>3. CASE ~entangled
  <2>1. Acyclic(parent)
    BY <1>3 DEF Forest
  <2>2. CASE UNCHANGED parent
    BY <2>1, <2>2 DEF Forest, Acyclic
  <2>3. ASSUME NEW d \in Folders, NEW p \in Places, CreateFolder(d, p)
        PROVE  Acyclic(parent')
    <3>1. parent' = [parent EXCEPT ![d] = p] /\ d \notin Dirs /\ p \in Dirs \cup {Root}
      BY <2>3, NamesAssumption DEF CreateFolder, Dirs, Places
    <3>2. \A e \in Folders : parent[e] # d
      BY <1>1, <3>1, NamesAssumption DEF FilesInv, RowsAgree, Dirs, Places, TypeOK
    <3>3. ASSUME NEW S \in SUBSET Folders, \A e \in S : parent'[e] \in S, S # {}
          PROVE  FALSE
      <4>1. CASE d \notin S
        <5>1. \A e \in S : parent[e] \in S
          BY <1>1, <3>1, <3>3, <4>1 DEF TypeOK
        <5> QED
          BY <2>1, <3>3, <5>1 DEF Acyclic
      <4>2. CASE d \in S
        <5> DEFINE T == S \ {d}
        <5>1. p \in T
          BY <1>1, <3>1, <3>3, <4>2, NamesAssumption DEF TypeOK
        <5>2. \A e \in T : parent[e] \in T
          BY <1>1, <3>1, <3>2, <3>3 DEF TypeOK
        <5> QED
          BY <2>1, <5>1, <5>2 DEF Acyclic
      <4> QED
        BY <4>1, <4>2
    <3> QED
      BY <3>3 DEF Acyclic
  <2>4. ASSUME NEW d \in Folders, MoveToRoot(d) \/ DeleteFolder(d)
        PROVE  Acyclic(parent')
    <3>1. \A e \in Folders : parent'[e] \in Folders => parent'[e] = parent[e]
      BY <1>1, <2>4, NamesAssumption DEF MoveToRoot, DeleteFolder, TypeOK
    <3> QED
      BY <2>1, <3>1 DEF Acyclic
  <2>5. ASSUME NEW m \in Moves, MoveWrite(m), ~entangled'
        PROVE  Acyclic(parent')
    <3>1. WalkInv(m) /\ m \notin overtaken
      BY <1>1, <2>5 DEF FilesInv, RecordMoves
    <3> QED
      BY <1>1, <2>1, <2>5, <3>1, MoveKeepsTree
  <2> HIDE DEF FilesInv
  <2> QED
    BY <1>1, <2>2, <2>3, <2>4, <2>5, ParentSteps DEF Forest
<1> QED
  BY <1>2, <1>3

-----------------------------------------------------------------------------
(* References between rows.                                                *)

\* What a folder is deleted with: every folder that has it above.
LEMMA SubtreeClosed ==
    ASSUME NEW d \in Folders, NEW e \in Folders, e \in Dirs, parent[e] \in Subtree(d)
    PROVE  e \in Subtree(d)
BY DEF Subtree, Up, Closed, Dirs

LEMMA RowsKept ==
    ASSUME TypeOK, RowsAgree, Next
    PROVE  RowsAgree'
<1>0. RowTypes /\ NamesAssumption
  BY NamesAssumption DEF TypeOK, RowTypes
<1>1. ASSUME UNCHANGED rows PROVE RowsAgree'
  BY <1>1 DEF RowsAgree, rows, Dirs, Stored
<1>2. ASSUME NEW d \in Folders, NEW p \in Places, CreateFolder(d, p) PROVE RowsAgree'
  <2>1. Dirs' = Dirs \cup {d} /\ Stored' = Stored
    BY <1>0, <1>2 DEF CreateFolder, Dirs, Stored, RowTypes, Places
  <2> QED
    BY <1>0, <1>2, <2>1 DEF CreateFolder, RowsAgree, RowTypes
<1>3. ASSUME NEW d \in Folders, NEW p \in Dirs \cup {Root}, d \in Dirs,
             parent' = [parent EXCEPT ![d] = p], UNCHANGED <<place, share>>
      PROVE RowsAgree'
  <2>1. Dirs' = Dirs /\ Stored' = Stored
    BY <1>0, <1>3 DEF Dirs, Stored, RowTypes, Places
  <2> QED
    BY <1>0, <1>3, <2>1 DEF RowsAgree, RowTypes, Dirs
<1>4. ASSUME NEW d \in Folders, DeleteFolder(d) PROVE RowsAgree'
  <2>1. Dirs' = Dirs \ Subtree(d)
    BY <1>0, <1>4 DEF DeleteFolder, Dirs, Places, RowTypes
  <2>2. Stored' = {f \in Stored : place[f] \notin Subtree(d)}
    BY <1>0, <1>4 DEF DeleteFolder, Stored, Places, RowTypes
  <2>3. \A e \in Dirs' : parent'[e] = parent[e] /\ parent[e] \in Dirs' \cup {Root}
    BY <1>0, <1>4, <2>1, SubtreeClosed DEF DeleteFolder, RowsAgree, RowTypes, Dirs
  <2>4. \A f \in Stored' : place'[f] = place[f] /\ place[f] \in Dirs' \cup {Root}
    BY <1>0, <1>4, <2>1, <2>2 DEF DeleteFolder, RowsAgree, RowTypes, Stored
  <2>5. \A s \in Shares : share'[s].files \subseteq Stored' /\ share'[s].folders \subseteq Dirs'
    <3>1. ASSUME NEW s \in Shares
          PROVE  /\ share'[s].files = {f \in share[s].files : place[f] \notin Subtree(d)}
                 /\ share'[s].folders = share[s].folders \ Subtree(d)
      BY <1>0, <1>4 DEF DeleteFolder, RowTypes, ShareRecord
    <3> QED
      BY <2>1, <2>2, <3>1 DEF RowsAgree
  <2> QED
    BY <2>3, <2>4, <2>5 DEF RowsAgree
<1>5. ASSUME NEW f \in Files, NEW p \in Dirs \cup {Root}, place[f] # Gone,
             place' = [place EXCEPT ![f] = p], UNCHANGED <<parent, share>>
      PROVE RowsAgree'
  <2>1. Dirs' = Dirs /\ Stored' = Stored \cup {f}
    BY <1>0, <1>5 DEF Dirs, Stored, RowTypes, Places
  <2> QED
    BY <1>0, <1>5, <2>1 DEF RowsAgree, RowTypes
<1>6. ASSUME NEW f \in Files, Removed(f), UNCHANGED parent PROVE RowsAgree'
  <2>1. Dirs' = Dirs /\ Stored' = Stored \ {f}
    BY <1>0, <1>6 DEF Removed, Dirs, Stored, RowTypes, Places
  <2>2. \A s \in Shares : share'[s].files = share[s].files \ {f}
                          /\ share'[s].folders = share[s].folders
    BY <1>0, <1>6 DEF Removed, RowTypes, ShareRecord
  <2>3. \A g \in Stored' : place'[g] = place[g]
    BY <1>0, <1>6, <2>1 DEF Removed, RowTypes, Stored
  <2> QED
    BY <1>6, <2>1, <2>2, <2>3 DEF RowsAgree
<1>7. ASSUME NEW s \in Shares, UNCHANGED <<parent, place>>,
             \A q \in Shares : q # s => share'[q] = share[q],
             share'[s].files \subseteq Stored, share'[s].folders \subseteq Dirs
      PROVE RowsAgree'
  <2>1. Dirs' = Dirs /\ Stored' = Stored
    BY <1>7 DEF Dirs, Stored
  <2> QED
    BY <1>7, <2>1 DEF RowsAgree
<1>8. ASSUME NEW s \in Shares, ShareStep(s) PROVE RowsAgree'
  <2>1. share[s].files \subseteq Stored /\ share[s].folders \subseteq Dirs /\ share[s] \in ShareRecord
    BY <1>0 DEF RowsAgree, RowTypes
  <2>2. ASSUME NEW F \in SUBSET Files, NEW D \in SUBSET Folders, CreateShare(s, F, D)
        PROVE  RowsAgree'
    BY <1>0, <1>7, <2>2 DEF CreateShare, RowTypes
  <2>3. ASSUME AddItem(s) \/ RemoveItem(s) PROVE RowsAgree'
    <3>1. PICK F \in SUBSET (share[s].files \cup Stored), D \in SUBSET (share[s].folders \cup Dirs) :
             ChangeItems(s, F, D)
      BY <2>3, ItemsChange
    <3>2. share'[s].files = F /\ share'[s].folders = D /\ UNCHANGED <<parent, place>>
          /\ \A q \in Shares : q # s => share'[q] = share[q]
      BY <1>0, <2>1, <3>1 DEF ChangeItems, RowTypes, ShareRecord
    <3> QED
      BY <1>7, <2>1, <3>1, <3>2
  <2>4. ASSUME DeleteShare(s) PROVE RowsAgree'
    BY <1>0, <1>7, <2>4 DEF DeleteShare, NoShare, RowTypes
  <2>5. ASSUME NEW recent \in BOOLEAN, InUse(s, recent) PROVE RowsAgree'
    <3>1. share'[s].files = share[s].files /\ share'[s].folders = share[s].folders
          /\ UNCHANGED <<parent, place>> /\ \A q \in Shares : q # s => share'[q] = share[q]
      BY <1>0, <2>1, <2>5 DEF InUse, RowTypes, ShareRecord
    <3> QED
      BY <1>7, <2>1, <3>1
  <2> QED
    BY <1>8, <2>2, <2>3, <2>4, <2>5 DEF ShareStep
<1>9. ASSUME NEW d \in Folders, FolderStep(d) PROVE RowsAgree'
  <2>1. ASSUME MoveToRoot(d) PROVE RowsAgree'
    BY <1>3, <2>1 DEF MoveToRoot
  <2> QED
    BY <1>2, <1>4, <1>9, <2>1 DEF FolderStep
<1>10. ASSUME NEW m \in Moves, MoveStep(m) PROVE RowsAgree'
  <2>1. ASSUME MoveWrite(m) PROVE RowsAgree'
    BY <1>3, <2>1 DEF MoveWrite, Dirs
  <2> QED
    BY <1>1, <1>10, <2>1 DEF MoveStep, StartMove, Climb, MoveFails
<1>11. ASSUME NEW f \in Files, FileStep(f) PROVE RowsAgree'
  <2>1. ASSUME NEW p \in Places, MoveFile(f, p) PROVE RowsAgree'
    BY <1>0, <1>5, <2>1 DEF MoveFile, Stored, Places
  <2> QED
    BY <1>6, <1>11, <2>1 DEF FileStep, DeleteFile
<1>12. ASSUME NEW r \in Reqs, Request(r) \/ Sweep(r) PROVE RowsAgree'
  <2>1. RowsOfRequest(r)
    BY <1>12, RequestTyped
  <2>2. ASSUME NEW f \in Files, NEW p \in Places, CreateFile(r, f, p) PROVE RowsAgree'
    BY <1>0, <1>5, <2>2 DEF CreateFile
  <2>3. ASSUME NEW f \in Files, DeletePicked(r, f) PROVE RowsAgree'
    BY <1>6, <2>3 DEF DeletePicked
  <2> QED
    BY <1>1, <2>1, <2>2, <2>3 DEF RowsOfRequest
<1>13. ASSUME FilesNext PROVE RowsAgree'
  BY <1>8, <1>9, <1>10, <1>11, <1>13 DEF FilesNext
<1> QED
  BY <1>1, <1>12, <1>13 DEF Next, Works, Breaks, DropReceived, NextDay, RequestFails, Restart

-----------------------------------------------------------------------------
(* The walks.                                                              *)

\* No row is unborn again.
LEMMA BornStays ==
    ASSUME TypeOK, Next
    PROVE  \A d \in Folders : parent'[d] = Unborn => parent[d] = Unborn
<1>1. ASSUME NEW e \in Folders, NEW p \in Places, CreateFolder(e, p)
      PROVE  \A d \in Folders : parent'[d] = Unborn => parent[d] = Unborn
  BY <1>1 DEF TypeOK, CreateFolder
<1>2. ASSUME NEW e \in Folders, MoveToRoot(e) \/ DeleteFolder(e)
      PROVE  \A d \in Folders : parent'[d] = Unborn => parent[d] = Unborn
  BY <1>2, NamesAssumption DEF TypeOK, MoveToRoot, DeleteFolder
<1>3. ASSUME NEW m \in Moves, MoveWrite(m)
      PROVE  \A d \in Folders : parent'[d] = Unborn => parent[d] = Unborn
  BY <1>3, NamesAssumption DEF TypeOK, MoveWrite, Dirs
<1> QED
  BY <1>1, <1>2, <1>3, ParentSteps

LEMMA MoveSteps ==
    ASSUME TypeOK, Next, NEW m \in Moves
    PROVE  \/ move'[m] = move[m]
           \/ \E d, p \in Folders : StartMove(m, d, p)
           \/ Climb(m)
           \/ move'[m] = Still
<1> DEFINE Good == \/ move'[m] = move[m]
                   \/ \E d, p \in Folders : StartMove(m, d, p)
                   \/ Climb(m)
                   \/ move'[m] = Still
<1>0. move \in [Moves -> MoveRecord]
  BY DEF TypeOK
<1>1. ASSUME NEW q \in Moves, MoveStep(q) PROVE Good
  <2>1. ASSUME NEW d \in Folders, NEW p \in Folders, StartMove(q, d, p) PROVE Good
    BY <1>0, <2>1 DEF StartMove
  <2>2. ASSUME Climb(q) PROVE Good
    BY <1>0, <2>2 DEF Climb
  <2>3. ASSUME MoveWrite(q) \/ MoveFails(q) PROVE Good
    BY <1>0, <2>3 DEF MoveWrite, MoveFails
  <2> QED
    BY <1>1, <2>1, <2>2, <2>3 DEF MoveStep
<1>2. ASSUME NEW d \in Folders, FolderStep(d) PROVE Good
  BY <1>2 DEF FolderStep, CreateFolder, MoveToRoot, DeleteFolder
<1>3. ASSUME NEW f \in Files, FileStep(f) PROVE Good
  BY <1>3 DEF FileStep, MoveFile, DeleteFile
<1>4. ASSUME NEW s \in Shares, ShareStep(s) PROVE Good
  BY <1>4 DEF ShareStep, CreateShare, AddItem, RemoveItem, ChangeItems, DeleteShare, InUse
<1>5. ASSUME FilesNext PROVE Good
  BY <1>1, <1>2, <1>3, <1>4, <1>5 DEF FilesNext
<1>6. ASSUME NEW r \in Reqs, Request(r) \/ Sweep(r) PROVE Good
  BY <1>6, RequestTyped
<1>7. ASSUME Restart PROVE Good
  BY <1>7 DEF Restart
<1> QED
  BY <1>5, <1>6, <1>7 DEF Next, Works, Breaks, DropReceived, NextDay, RequestFails

LEMMA WalkKept ==
    ASSUME FilesInv, HistoryNext, NEW m \in Moves
    PROVE  WalkInv(m)'
<1>1. /\ TypeOK /\ RowsAgree /\ Next /\ RecordMoves
      /\ move[m] \in MoveRecord /\ WalkInv(m) /\ climbed \in [Moves -> SUBSET Folders]
      /\ overtaken \subseteq Moves
  BY HistoryStep DEF FilesInv, TypeOK
<1>2. \A d \in Folders : parent'[d] = Unborn => parent[d] = Unborn
  BY <1>1, BornStays
<1>3. CASE move'[m] = Still
  <2>1. climbed'[m] = {}
    BY <1>1, <1>3 DEF RecordMoves, Still
  <2> QED
    BY <1>3, <2>1 DEF WalkInv, Still
<1>4. CASE move'[m] = move[m] /\ move[m].pc # "idle"
  <2>1. climbed'[m] = climbed[m]
    BY <1>1, <1>4 DEF RecordMoves
  <2>2. m \in overtaken => m \in overtaken'
    BY <1>1, <1>4 DEF RecordMoves
  <2>3. ASSUME m \notin overtaken', NEW d \in climbed[m], parent'[d] \in Folders
        PROVE  parent'[d] \in climbed[m] \cup {move[m].cur}
    <3>1. ~Crossed(m)
      BY <1>1, <1>4, <2>3 DEF RecordMoves
    <3>2. parent'[d] = parent[d]
      BY <2>3, <3>1 DEF Crossed
    <3> QED
      BY <1>1, <1>4, <2>2, <2>3, <3>2 DEF WalkInv
  <2> QED
    BY <1>1, <1>2, <1>4, <2>1, <2>3 DEF WalkInv
<1>5. CASE \E d, p \in Folders : StartMove(m, d, p)
  <2>1. PICK d \in Folders, p \in Folders : StartMove(m, d, p)
    BY <1>5
  <2>2. /\ move'[m] = [pc |-> "climb", dir |-> d, to |-> p, cur |-> p]
        /\ move[m].pc = "idle" /\ d \in Dirs /\ p \in Dirs /\ d # p /\ parent' = parent
    BY <1>1, <2>1 DEF StartMove, Still, rows, TypeOK
  <2>3. climbed'[m] = {}
    BY <1>1, <2>2 DEF RecordMoves, WalkInv
  <2> QED
    BY <2>2, <2>3, NamesAssumption DEF WalkInv, Dirs, Places
<1>6. CASE Climb(m) /\ move'[m] # move[m] /\ move'[m] # Still
  <2> DEFINE next == Above(move[m].cur)
  <2>1. /\ move[m].pc = "climb" /\ next # move[m].dir /\ parent' = parent
        /\ move'[m] = [move[m] EXCEPT !.pc = IF next = Root THEN "write" ELSE "climb",
                                      !.cur = next]
    BY <1>1, <1>6 DEF Climb, Climbed, rows, TypeOK
  <2>2. move[m].cur \in Folders
    BY <1>1, <2>1 DEF WalkInv, MoveRecord, Places
  <2>3. next \in Dirs \cup {Root} /\ (parent[move[m].cur] \in Folders => next = parent[move[m].cur])
    BY <1>1, <2>2 DEF Above, RowsAgree, Dirs, Places
  <2>4. /\ move'[m].dir = move[m].dir /\ move'[m].to = move[m].to /\ move'[m].cur = next
        /\ move'[m].pc = IF next = Root THEN "write" ELSE "climb"
    BY <1>1, <2>1 DEF MoveRecord
  <2>5. climbed'[m] = climbed[m] \cup {move[m].cur} /\ (m \in overtaken => m \in overtaken')
    BY <1>1, <1>6, <2>1, <2>4 DEF RecordMoves
  <2> HIDE DEF next
  <2>6. \A d \in Folders \cap (climbed'[m] \cup {move'[m].cur, move'[m].dir}) : parent'[d] # Unborn
    BY <1>1, <2>1, <2>3, <2>4, <2>5, NamesAssumption DEF WalkInv, Dirs, Places
  <2>7. m \notin overtaken' => \A d \in climbed'[m] : parent'[d] \in Folders =>
                                    parent'[d] \in climbed'[m] \cup {move'[m].cur}
    BY <1>1, <2>1, <2>3, <2>4, <2>5 DEF WalkInv
  <2>8. move'[m].dir \in Folders \ (climbed'[m] \cup {move'[m].cur})
        /\ move'[m].to \in Folders \cap (climbed'[m] \cup {move'[m].cur})
    BY <1>1, <2>1, <2>4, <2>5 DEF WalkInv
  <2> QED
    BY <2>4, <2>6, <2>7, <2>8 DEF WalkInv
<1>7. CASE move'[m] = move[m] /\ move[m].pc = "idle"
  BY <1>1, <1>3, <1>7 DEF WalkInv
<1> QED
  BY <1>1, <1>3, <1>4, <1>5, <1>6, <1>7, MoveSteps

-----------------------------------------------------------------------------
(* The clock.                                                              *)

\* Only a file that is created or received adds to the usage, and it adds one.
LEMMA UsageSteps ==
    ASSUME TypeOK, TypeOK', Next
    PROVE  \/ Used' <= Used
           \/ /\ Used' <= Used + 1
              /\ \E r \in Reqs : Receive(r) \/ \E f \in Files, p \in Places : CreateFile(r, f, p)
<1> DEFINE Good == \/ Used' <= Used
                   \/ /\ Used' <= Used + 1
                      /\ \E r \in Reqs : \/ Receive(r)
                                         \/ \E f \in Files, p \in Places : CreateFile(r, f, p)
<1>0. Used \in Nat /\ Used' \in Nat /\ RowTypes /\ received \in Nat
  BY UsedType, UsedTypeNext DEF TypeOK, RowTypes
<1>1. ASSUME UNCHANGED <<place, received>> PROVE Used' <= Used
  BY <1>0, <1>1, UsedSame
<1>2. ASSUME UNCHANGED received, \A f \in Files : place'[f] \in Places => place[f] \in Places
      PROVE  Used' <= Used
  <2>1. received' <= received
    BY <1>0, <1>2
  <2> QED
    BY <1>2, <2>1, UsedShrinks
<1>3. ASSUME NEW d \in Folders, FolderStep(d), UNCHANGED received PROVE Used' <= Used
  <2>1. ASSUME DeleteFolder(d) PROVE Used' <= Used
    <3>1. \A f \in Files : place'[f] \in Places => place[f] \in Places
      BY <1>0, <2>1, NamesAssumption DEF DeleteFolder, RowTypes, Places
    <3> QED
      BY <1>2, <1>3, <3>1
  <2> QED
    BY <1>1, <1>3, <2>1 DEF FolderStep, CreateFolder, MoveToRoot
<1>4. ASSUME NEW m \in Moves, MoveStep(m), UNCHANGED received PROVE Used' <= Used
  BY <1>1, <1>4 DEF MoveStep, StartMove, Climb, MoveWrite, MoveFails, rows
<1>5. ASSUME NEW f \in Files, Removed(f), UNCHANGED received PROVE Used' <= Used
  <2>1. \A g \in Files : place'[g] \in Places => place[g] \in Places
    BY <1>0, <1>5, NamesAssumption DEF Removed, RowTypes, Places
  <2> QED
    BY <1>2, <1>5, <2>1
<1>6. ASSUME NEW f \in Files, FileStep(f), UNCHANGED received PROVE Used' <= Used
  <2>1. ASSUME NEW p \in Places, MoveFile(f, p) PROVE Used' <= Used
    <3>1. \A g \in Files : place'[g] \in Places => place[g] \in Places
      BY <1>0, <2>1 DEF MoveFile, RowTypes, Stored
    <3> QED
      BY <1>2, <1>6, <3>1
  <2> QED
    BY <1>5, <1>6, <2>1 DEF FileStep, DeleteFile
<1>7. ASSUME NEW s \in Shares, ShareStep(s), UNCHANGED received PROVE Used' <= Used
  BY <1>1, <1>7 DEF ShareStep, CreateShare, AddItem, RemoveItem, ChangeItems, DeleteShare, InUse
<1>8. ASSUME FilesNext, UNCHANGED quota PROVE Used' <= Used
  BY <1>3, <1>4, <1>6, <1>7, <1>8 DEF FilesNext, quota
<1>9. ASSUME NEW r \in Reqs, Request(r) PROVE Good
  <2>1. ASSUME NEW f \in Files, NEW p \in Places, CreateFile(r, f, p) PROVE Good
    <3>1. Stored' = Stored \cup {f} /\ received' = received
      BY <1>0, <2>1 DEF CreateFile, Stored, RowTypes, Places, Dirs
    <3> QED
      BY <2>1, <3>1, UsedGrows
  <2>2. ASSUME Receive(r) PROVE Good
    <3>1. Stored' = Stored /\ received' = received + 1
      BY <2>2 DEF Receive, Stored, rows
    <3>2. Stored \in SUBSET Files
      BY DEF Stored
    <3>3. Cardinality(Stored) \in Nat
      BY <3>2, FileSets
    <3> QED
      BY <1>0, <2>2, <3>1, <3>3 DEF Used
  <2> QED
    BY <1>1, <1>9, <2>1, <2>2 DEF Request, Start, EvalRead, EvalWrite, rows
<1>10. ASSUME NEW r \in Reqs, Sweep(r) PROVE Used' <= Used
  <2>1. ASSUME NEW f \in Files, DeletePicked(r, f) PROVE Used' <= Used
    BY <1>5, <2>1 DEF DeletePicked
  <2> QED
    BY <1>1, <1>10, <2>1 DEF Sweep, StartSweep, Measure, PickOrphans, PickInactive, Remeasure, rows
<1>11. ASSUME DropReceived PROVE Used' <= Used
  <2>1. received' <= received /\ UNCHANGED place
    BY <1>0, <1>11 DEF DropReceived, rows
  <2> QED
    BY <2>1, UsedShrinks
<1>12. ASSUME Breaks \/ NextDay PROVE Used' <= Used
  BY <1>1, <1>12 DEF Breaks, NextDay, RequestFails, Restart, rows
<1> QED
  BY <1>8, <1>9, <1>10, <1>11, <1>12 DEF Next, Works

\* The clock is kept, cleared or set to this day.
LEMMA ClockSteps ==
    ASSUME TypeOK, Next
    PROVE  since' \in {None, since, day} /\ (since' # since => \E r \in Reqs : EvalWrite(r))
<1>1. ASSUME NEW r \in Reqs, EvalWrite(r) PROVE since' \in {None, since, day}
  BY <1>1 DEF EvalWrite, Clock
<1>2. ASSUME NEW r \in Reqs, Request(r) \/ Sweep(r), ~EvalWrite(r) PROVE since' = since
  BY <1>2 DEF Request, Sweep, Start, CreateFile, Receive, EvalRead, StartSweep, Measure,
              PickOrphans, PickInactive, DeletePicked, Remeasure
<1> QED
  BY <1>1, <1>2 DEF Next, Works, Breaks, quota, DropReceived, NextDay, RequestFails, Restart

LEMMA ClockKept ==
    ASSUME FilesInv, HistoryNext
    PROVE  ClockInv'
<1>1. /\ TypeOK /\ TypeOK' /\ ClockInv /\ Used \in Nat /\ Used' \in Nat
      /\ day \in Nat /\ (day' = day \/ day' = day + 1) /\ since' \in {None, since, day}
      /\ since \in Nat \cup {None} /\ over \in Nat \cup {None} /\ lapsed \in BOOLEAN
      /\ Limit \in Nat
  BY HistoryStep, TypeKept, UsedType, UsedTypeNext, NextTyped, ClockSteps, QuotaAssumption
     DEF FilesInv, TypeOK
<1>2. /\ over' = IF Used' < Limit THEN None ELSE IF over = None THEN day ELSE over
      /\ lapsed' = (since' # None /\ (Used' < Limit \/ (since # None /\ lapsed)))
  BY HistoryStep DEF RecordUsage
<1>3. (over' # None) = (Used' >= Limit)
  BY <1>1, <1>2 DEF ClockInv, None
<1>4. over' # None => over' <= day'
  BY <1>1, <1>2 DEF ClockInv, None
<1>5. ASSUME since' # None, ~lapsed'
      PROVE  over' # None /\ over' <= since'
  <2>1. Used' >= Limit
    <3>1. ~(Used' < Limit)
      BY <1>2, <1>5, Zenon
    <3> QED
      BY <1>1, <3>1
  <2>2. CASE since = None
    BY <1>1, <1>2, <1>5, <2>1, <2>2 DEF ClockInv, None
  <2>3. CASE since # None
    <3>1. ~lapsed /\ over # None /\ over <= since /\ over <= day
      BY <1>1, <1>2, <1>5, <2>3 DEF ClockInv
    <3> QED
      BY <1>1, <1>2, <1>5, <2>1, <3>1
  <2> QED
    BY <2>2, <2>3
<1> QED
  BY <1>3, <1>4, <1>5 DEF ClockInv

-----------------------------------------------------------------------------
(* The measurements.                                                       *)

LEMMA RequestSteps ==
    ASSUME TypeOK, Next, NEW r \in Reqs
    PROVE  req'[r] = req[r] \/ Request(r) \/ Sweep(r) \/ req'[r] = Idle
<1> DEFINE Good == req'[r] = req[r] \/ Request(r) \/ Sweep(r) \/ req'[r] = Idle
<1>0. req \in [Reqs -> RequestRecord]
  BY DEF TypeOK
<1>1. ASSUME NEW q \in Reqs, Request(q) \/ Sweep(q) PROVE Good
  <2>1. CASE q = r
    BY <1>1, <2>1
  <2>2. CASE q # r
    <3>1. PICK new \in RequestRecord : req' = [req EXCEPT ![q] = new]
      BY <1>1, RequestTyped
    <3> QED
      BY <1>0, <2>2, <3>1
  <2> QED
    BY <2>1, <2>2
<1>2. ASSUME Breaks PROVE Good
  BY <1>0, <1>2 DEF Breaks, RequestFails, Restart
<1> QED
  BY <1>1, <1>2 DEF Next, Works, quota, DropReceived, NextDay

LEMMA ExposedSame ==
    ASSUME UNCHANGED rows
    PROVE  \A f \in Files : Exposed(f)' = Exposed(f)
BY DEF Exposed, Listing, Kept, rows

\* What a request has picked and keeps is exposed only late.
LEMMA PickedKept ==
    ASSUME FilesInv, HistoryNext, NEW r \in Reqs, NEW f \in Files,
           f \in req[r].picked, f \in req'[r].picked, Exposed(f)'
    PROVE  f \in late'
<1>1. f \in Picked /\ f \in Picked'
  BY DEF Picked
<1>2. f \in late \/ ~Exposed(f)
  BY DEF FilesInv, RequestInv
<1>3. late' = {g \in Files : g \in Picked /\ g \in Picked' /\ Exposed(g)'
                             /\ (g \in late \/ ~Exposed(g))}
  BY HistoryStep DEF RecordUsage
<1> QED
  BY <1>1, <1>2, <1>3

\* A measurement holds as long as nobody else adds to the usage.
LEMMA StillCovered ==
    ASSUME FilesInv, HistoryNext, NEW r \in Reqs, req'[r] = req[r], Measured(r), r \notin grown'
    PROVE  Used' <= req[r].used
<1>1. Used \in Nat /\ Used' \in Nat /\ req[r] \in RequestRecord /\ req[r].used \in Nat
  BY UsedType, UsedTypeNext, TypeKept DEF FilesInv, TypeOK, RequestRecord
<1>2. r \notin grown /\ ~(Used' > Used)
  BY HistoryStep DEF RecordUsage, Measured
<1>3. Used <= req[r].used
  BY <1>2 DEF FilesInv, RequestInv
<1> QED
  BY <1>1, <1>2, <1>3

\* A run that waits to measure has a listing as old as the clock.
LEMMA ListingKept ==
    ASSUME FilesInv, HistoryNext, NEW r \in Reqs, req'[r] = req[r], req[r].pc = "measure", ~dipped'
    PROVE  over' # None /\ over' + GraceDays < day'
<1>1. /\ over \in Nat \cup {None} /\ day \in Nat /\ (day' = day \/ day' = day + 1)
      /\ GraceDays \in Nat /\ Limit \in Nat /\ Used \in Nat /\ Used' \in Nat
  BY HistoryStep, NextTyped, QuotaAssumption, UsedType, UsedTypeNext, TypeKept DEF FilesInv, TypeOK
<1>2. req[r].op = "sweep"
  BY DEF FilesInv, RequestInv
<1>3. ~ \E q \in Reqs : StartSweep(q)
  BY <1>2 DEF StartSweep
<1>4. /\ dipped' = (Used' < Limit \/ IF \E q \in Reqs : StartSweep(q) THEN lapsed' ELSE dipped)
      /\ over' = IF Used' < Limit THEN None ELSE IF over = None THEN day ELSE over
  BY HistoryStep DEF RecordUsage
<1>5. ~(Used' < Limit) /\ ~dipped
  BY <1>3, <1>4, Zenon
<1>6. over # None /\ over + GraceDays < day
  BY <1>5 DEF FilesInv, RequestInv
<1> QED
  BY <1>1, <1>4, <1>5, <1>6 DEF None

LEMMA RequestKept ==
    ASSUME FilesInv, HistoryNext, NEW r \in Reqs
    PROVE  RequestInv(r)'
<1>1. /\ TypeOK /\ TypeOK' /\ Next /\ RequestInv(r) /\ req \in [Reqs -> RequestRecord]
      /\ req[r] \in RequestRecord /\ Used \in Nat /\ Used' \in Nat /\ ClockInv
      /\ Limit \in Nat /\ day \in Nat /\ GraceDays \in Nat /\ over \in Nat \cup {None}
      /\ since \in Nat \cup {None} /\ req[r].used \in Nat
  BY HistoryStep, TypeKept, UsedType, UsedTypeNext, QuotaAssumption
     DEF FilesInv, TypeOK, RequestRecord
<1>2. PICK broken \in BOOLEAN : RecordUsage(broken)
  BY HistoryStep
<1>3. r \notin grown' /\ Measured(r) /\ req'[r].pc # "idle" => r \notin grown
  BY <1>1, <1>2 DEF RecordUsage
<1>4. \A f \in req'[r].picked : f \in req[r].picked /\ Exposed(f)' => f \in late'
  <2>1. req'[r].picked \in SUBSET Files
    BY <1>1 DEF TypeOK, RequestRecord
  <2> QED
    BY <2>1, PickedKept
<1>5. CASE req'[r] = req[r]
  <2>1. r \notin grown' /\ Measured(r) => Used' <= req'[r].used
    BY <1>5, StillCovered
  <2>2. req'[r].pc = "measure" /\ ~dipped' => over' # None /\ over' + GraceDays < day'
    BY <1>5, ListingKept
  <2> QED
    BY <1>1, <1>4, <1>5, <2>1, <2>2 DEF RequestInv, Measured
<1>6. CASE req'[r] = Idle
  BY <1>6 DEF RequestInv, Measured, Idle
<1>7. ASSUME NEW op \in {"upload", "copy", "receive"}, Start(r, op) PROVE RequestInv(r)'
  <2>1. /\ req'[r] = [op |-> op, pc |-> "create", used |-> Used, saw |-> None, picked |-> {}]
        /\ Used' = Used /\ Used + 1 <= (IF op = "receive" THEN Limit * Factor ELSE Limit)
    BY <1>1, <1>7, UsedSame DEF Start, Idle, rows, Fits
  <2> QED
    BY <1>1, <2>1 DEF RequestInv, Measured
<1>8. ASSUME NEW f \in Files, NEW p \in Places, CreateFile(r, f, p) PROVE RequestInv(r)'
  <2>1. CASE req[r].op = "copy"
    BY <1>1, <1>6, <1>8, <2>1 DEF CreateFile, Registered
  <2>2. CASE req[r].op # "copy"
    <3>1. /\ req'[r] = [req[r] EXCEPT !.pc = "read", !.used = req[r].used + 1]
          /\ req[r].pc = "create" /\ req[r].op = "upload"
      BY <1>1, <1>8, <2>2 DEF CreateFile, Registered
    <3>2. /\ req'[r].pc = "read" /\ req'[r].used = req[r].used + 1
          /\ req'[r].op = "upload" /\ req'[r].picked = req[r].picked
      BY <1>1, <3>1 DEF RequestRecord
    <3>3. Used' <= Used + 1
      BY <1>1, UsageSteps
    <3>4. r \notin grown' => Used' <= req'[r].used
      BY <1>1, <1>3, <3>1, <3>2, <3>3 DEF Measured, RequestInv
    <3> QED
      BY <1>4, <3>2, <3>4 DEF RequestInv, Measured
  <2> QED
    BY <2>1, <2>2
<1>9. ASSUME Receive(r) PROVE RequestInv(r)'
  <2>1. /\ req'[r] = [req[r] EXCEPT !.pc = "read", !.used = req[r].used + 1]
        /\ req[r].pc = "create" /\ req[r].op = "receive"
    BY <1>1, <1>9 DEF Receive, Registered
  <2>2. /\ req'[r].pc = "read" /\ req'[r].used = req[r].used + 1
        /\ req'[r].op = "receive" /\ req'[r].picked = req[r].picked
    BY <1>1, <2>1 DEF RequestRecord
  <2>3. Used' <= Used + 1
    BY <1>1, UsageSteps
  <2>4. r \notin grown' => Used' <= req'[r].used
    BY <1>1, <1>3, <2>1, <2>2, <2>3 DEF Measured, RequestInv
  <2> QED
    BY <1>4, <2>2, <2>4 DEF RequestInv, Measured
<1>10. ASSUME EvalRead(r) PROVE RequestInv(r)'
  <2>1. /\ req'[r].pc = "write" /\ req'[r].used = req[r].used /\ req[r].pc = "read"
        /\ req'[r].op = req[r].op /\ req'[r].picked = req[r].picked
    BY <1>1, <1>10 DEF EvalRead, RequestRecord
  <2>2. Used' = Used
    BY <1>10, UsedSame DEF EvalRead, rows
  <2>3. r \notin grown' => Used' <= req'[r].used
    BY <1>1, <1>3, <2>1, <2>2 DEF Measured, RequestInv
  <2> QED
    BY <1>1, <1>4, <2>1, <2>3 DEF RequestInv, Measured
<1>11. ASSUME EvalWrite(r) PROVE RequestInv(r)'
  BY <1>1, <1>6, <1>11 DEF EvalWrite
<1>12. ASSUME StartSweep(r) PROVE RequestInv(r)'
  <2>1. /\ req'[r] = [op |-> "sweep", pc |-> "measure", used |-> 0, saw |-> None, picked |-> {}]
        /\ Used' = Used /\ since' = since /\ day' = day
        /\ since # None /\ since + GraceDays < day
    BY <1>1, <1>12, UsedSame DEF StartSweep, Idle, rows, Overdue
  <2>2. /\ dipped' = (Used' < Limit \/ IF \E q \in Reqs : StartSweep(q) THEN lapsed' ELSE dipped)
        /\ lapsed' = (since' # None /\ (Used' < Limit \/ (since # None /\ lapsed)))
        /\ over' = IF Used' < Limit THEN None ELSE IF over = None THEN day ELSE over
    BY <1>2 DEF RecordUsage
  <2>3. ASSUME ~dipped' PROVE over' # None /\ over' + GraceDays < day'
    <3>1. ~(Used' < Limit) /\ ~lapsed'
      BY <1>12, <2>2, <2>3, Zenon
    <3>2. ~lapsed
      BY <2>1, <2>2, <3>1, Zenon
    <3>3. over # None /\ over <= since
      BY <1>1, <2>1, <3>2 DEF ClockInv
    <3> QED
      BY <1>1, <2>1, <2>2, <3>1, <3>3 DEF None
  <2> QED
    BY <2>1, <2>3 DEF RequestInv, Measured
<1>13. ASSUME Measure(r) PROVE RequestInv(r)'
  <2>1. Used' = Used /\ req[r].op = "sweep" /\ req[r].pc = "measure"
    BY <1>1, <1>13, UsedSame DEF Measure, rows, RequestInv
  <2>2. /\ req'[r].op = "sweep" /\ req'[r].picked = req[r].picked
        /\ \/ req'[r].pc = "read" /\ req'[r].used = Used
           \/ req'[r].pc = "orphans"
    BY <1>1, <1>13, <2>1 DEF Measure, RequestRecord
  <2> QED
    BY <1>1, <1>4, <2>1, <2>2 DEF RequestInv, Measured
<1>14. ASSUME NEW T \in SUBSET Files, PickOrphans(r, T) PROVE RequestInv(r)'
  <2>1. /\ req'[r].op = "sweep" /\ req'[r].picked = T /\ req'[r].pc \in {"delete", "inactive"}
    BY <1>1, <1>14 DEF PickOrphans, RequestRecord, RequestInv
  <2>2. \A f \in T : ~Exposed(f)'
    BY <1>14, ExposedSame DEF PickOrphans, Takes, Orphans, Exposed
  <2> QED
    BY <2>1, <2>2 DEF RequestInv, Measured
<1>15. ASSUME NEW T \in SUBSET Files, PickInactive(r, T) PROVE RequestInv(r)'
  <2>1. CASE req'[r] # Idle
    <3>1. /\ req'[r].op = "sweep" /\ req'[r].picked = req[r].picked \cup T /\ req'[r].pc = "delete"
      BY <1>1, <1>15, <2>1 DEF PickInactive, RequestRecord, RequestInv
    <3>2. \A f \in T : ~Exposed(f)'
      BY <1>15, ExposedSame DEF PickInactive, Takes, Inactive, Exposed
    <3> QED
      BY <1>4, <3>1, <3>2 DEF RequestInv, Measured
  <2> QED
    BY <1>6, <2>1
<1>16. ASSUME NEW f \in Files, DeletePicked(r, f) PROVE RequestInv(r)'
  <2>1. /\ req'[r].op = "sweep" /\ req'[r].picked = req[r].picked \ {f} /\ req'[r].pc = "delete"
    BY <1>1, <1>16 DEF DeletePicked, RequestRecord, RequestInv
  <2> QED
    BY <1>4, <2>1 DEF RequestInv, Measured
<1>17. ASSUME Remeasure(r) PROVE RequestInv(r)'
  <2>1. Used' = Used
    BY <1>17, UsedSame DEF Remeasure, rows
  <2>2. /\ req'[r].op = "sweep" /\ req'[r].picked = {} /\ req'[r].pc = "read"
        /\ req'[r].used = Used
    BY <1>1, <1>17 DEF Remeasure, RequestRecord, RequestInv
  <2> QED
    BY <1>1, <2>1, <2>2 DEF RequestInv, Measured
<1>18. ASSUME Request(r) PROVE RequestInv(r)'
  BY <1>7, <1>8, <1>9, <1>10, <1>11, <1>18 DEF Request
<1>19. ASSUME Sweep(r) PROVE RequestInv(r)'
  BY <1>12, <1>13, <1>14, <1>15, <1>16, <1>17, <1>19 DEF Sweep
<1> QED
  BY <1>1, <1>5, <1>6, <1>18, <1>19, RequestSteps

\* An evaluation that will set the clock does so, or hands on to itself.
LEMMA SetterStays ==
    ASSUME FilesInv, HistoryNext, NEW r \in Reqs, WillSet(r), since = None, since' = None,
           Works \/ req'[r] = req[r]
    PROVE  WillSet(r)'
<1>1. /\ TypeOK /\ Next /\ req \in [Reqs -> RequestRecord] /\ req[r] \in RequestRecord
      /\ day \in Nat /\ req[r].used \in Nat /\ Limit \in Nat
  BY HistoryStep, QuotaAssumption DEF FilesInv, TypeOK, RequestRecord
<1>2. CASE req'[r] = req[r]
  BY <1>2 DEF WillSet
<1>3. ASSUME req'[r] # req[r], NEW q \in Reqs, Request(q) \/ Sweep(q)
      PROVE  q = r
  <2>1. PICK new \in RequestRecord : req' = [req EXCEPT ![q] = new]
    BY <1>1, <1>3, RequestTyped
  <2> QED
    BY <1>1, <1>3, <2>1
<1>4. CASE req'[r] # req[r]
  <2>1. Request(r) \/ Sweep(r)
    BY <1>3, <1>4 DEF Works, quota, DropReceived, NextDay
  <2>2. EvalRead(r) \/ EvalWrite(r)
    <3>1. req[r].pc \in {"read", "write"}
      BY DEF WillSet
    <3>2. ~(\E op \in {"upload", "copy", "receive"} : Start(r, op)) /\ ~StartSweep(r)
      BY <3>1 DEF Start, StartSweep, Idle
    <3>3. ~(\E f \in Files, p \in Places : CreateFile(r, f, p)) /\ ~Receive(r)
      BY <3>1 DEF CreateFile, Receive
    <3>4. ~Measure(r) /\ ~Remeasure(r)
      BY <3>1 DEF Measure, Remeasure
    <3>5. /\ ~(\E T \in SUBSET Files : PickOrphans(r, T) \/ PickInactive(r, T))
          /\ ~(\E f \in Files : DeletePicked(r, f))
      BY <3>1 DEF PickOrphans, PickInactive, DeletePicked
    <3> QED
      BY <2>1, <3>2, <3>3, <3>4, <3>5 DEF Request, Sweep
  <2>3. ~EvalWrite(r)
    BY <1>1 DEF EvalWrite, Clock, WillSet, None
  <2>4. req'[r].pc = "write" /\ req'[r].saw = since /\ req'[r].used = req[r].used
    BY <1>1, <2>2, <2>3 DEF EvalRead, RequestRecord
  <2> QED
    BY <2>4 DEF WillSet
<1> QED
  BY <1>2, <1>4

LEMMA ClockRunsKept ==
    ASSUME FilesInv, ClockRuns, HistoryNext
    PROVE  ClockRuns'
<1>1. /\ TypeOK /\ TypeOK' /\ Next /\ req \in [Reqs -> RequestRecord]
      /\ Used \in Nat /\ Used' \in Nat /\ Limit \in Nat /\ day \in Nat
  BY HistoryStep, TypeKept, UsedType, UsedTypeNext, QuotaAssumption DEF FilesInv, TypeOK
<1> SUFFICES ASSUME Used' >= Limit, since' = None, ~blurred'
             PROVE  \E r \in Reqs : WillSet(r)'
  BY DEF ClockRuns
<1>2. PICK broken \in BOOLEAN : RecordUsage(broken) /\ (Works \/ broken)
  BY DEF HistoryNext
<1>3. ~blurred /\ \A r \in Reqs : ~Blurs(r, broken)
  BY <1>2 DEF RecordUsage
<1>4. CASE since # None
  <2>1. PICK r \in Reqs : EvalWrite(r)
    BY <1>1, <1>4, ClockSteps
  <2>2. req[r] \in RequestRecord /\ req[r].pc = "write" /\ req'[r] = Idle /\ Used' = Used
    BY <1>1, <2>1, UsedSame DEF EvalWrite, rows
  <2>3. r \notin grown
    BY <1>3, <2>2 DEF Blurs, Idle
  <2>4. Used <= req[r].used /\ req[r].used \in Nat
    BY <2>2, <2>3 DEF FilesInv, RequestInv, Measured, RequestRecord
  <2>5. req[r].used < Limit
    BY <1>1, <1>4, <2>1 DEF EvalWrite, Clock, None
  <2> QED
    BY <1>1, <2>2, <2>4, <2>5
<1>5. CASE since = None /\ Used >= Limit
  <2>1. PICK r \in Reqs : WillSet(r)
    BY <1>3, <1>5 DEF ClockRuns
  <2>2. Works \/ req'[r] = req[r]
    BY <1>2, <1>3, <2>1 DEF Blurs
  <2> QED
    BY <1>5, <2>1, <2>2, SetterStays
<1>6. CASE since = None /\ ~(Used >= Limit)
  <2>1. PICK r \in Reqs : Receive(r) \/ \E f \in Files, p \in Places : CreateFile(r, f, p)
    BY <1>1, <1>6, UsageSteps
  <2>2. Used' <= Used + 1
    BY <1>1, <1>6, UsageSteps
  <2>3. req[r] \in RequestRecord /\ req[r].pc = "create" /\ req'[r] = Registered(r)
    BY <1>1, <2>1 DEF Receive, CreateFile
  <2>4. req[r].op # "copy" /\ req'[r] # req[r]
    <3>1. req'[r] # req[r]
      <4>1. CASE req[r].op = "copy"
        BY <2>3, <4>1 DEF Registered, Idle
      <4>2. CASE req[r].op # "copy"
        <5>1. req'[r].pc = "read"
          BY <2>3, <4>2 DEF Registered, RequestRecord
        <5> QED
          BY <2>3, <5>1
      <4> QED
        BY <4>1, <4>2
    <3>2. ASSUME req[r].op = "copy" PROVE place' # place
      <4>1. PICK f \in Files, p \in Places : CreateFile(r, f, p)
        BY <2>1, <3>2 DEF Receive
      <4>2. place[f] = Unborn /\ place'[f] = p
        BY <1>1, <4>1 DEF CreateFile, TypeOK
      <4> QED
        BY <4>2, NamesAssumption DEF Places
    <3> QED
      BY <1>3, <3>1, <3>2 DEF Blurs
  <2>5. r \notin grown
    BY <1>3, <2>4 DEF Blurs
  <2>6. Used <= req[r].used /\ req[r].used \in Nat
    BY <2>3, <2>5 DEF FilesInv, RequestInv, Measured, RequestRecord
  <2>7. req'[r].pc = "read" /\ req'[r].used = req[r].used + 1
    BY <2>3, <2>4 DEF Registered, RequestRecord
  <2> QED
    BY <1>1, <2>2, <2>6, <2>7 DEF WillSet
<1> QED
  BY <1>4, <1>5, <1>6

-----------------------------------------------------------------------------
(* The theorems.                                                           *)

LEMMA InitHolds ==
    ASSUME Init, HistoryInit
    PROVE  FilesInv /\ Forest /\ ClockRuns
<1>1. /\ parent \in [Folders -> Places \cup {Unborn, Gone}]
      /\ place \in [Files -> Places \cup {Unborn, Gone}]
      /\ move \in [Moves -> MoveRecord] /\ req \in [Reqs -> RequestRecord]
      /\ received \in Nat /\ day = 0
  BY StillTyped, IdleTyped, QuotaAssumption DEF Init
<1>2. \A s \in Shares : share[s].files \subseteq Stored /\ share[s].folders \subseteq Dirs
  BY DEF Init
<1>3. share \in [Shares -> ShareRecord]
  <2>1. Stored \subseteq Files /\ Dirs \subseteq Folders
    BY DEF Stored, Dirs
  <2>2. share \in [Shares -> [kept : BOOLEAN, files : SUBSET Stored, folders : SUBSET Dirs,
                              recent : BOOLEAN]]
    BY DEF Init
  <2>3. \A s \in Shares : share[s] \in ShareRecord
    BY <2>1, <2>2 DEF ShareRecord
  <2> QED
    BY <2>2, <2>3
<1>4. since \in Nat \cup {None} /\ since = IF Used >= Limit THEN 0 ELSE None
  BY DEF Init
<1>5. TypeOK
  BY <1>1, <1>3, <1>4 DEF TypeOK, HistoryInit
<1>6. Used \in Nat /\ Limit \in Nat
  BY <1>5, UsedType, QuotaAssumption
<1>7. RowsAgree
  BY <1>2 DEF Init, RowsAgree
<1>8. ClockInv /\ ClockRuns
  BY <1>1, <1>4, <1>6 DEF ClockInv, ClockRuns, HistoryInit, None
<1>9. \A m \in Moves : WalkInv(m)
  BY DEF Init, HistoryInit, WalkInv, Still
<1>10. \A r \in Reqs : RequestInv(r)
  BY DEF Init, RequestInv, Measured, Idle
<1> QED
  BY <1>5, <1>7, <1>8, <1>9, <1>10 DEF FilesInv, Forest, Init

Inv == FilesInv /\ Forest /\ ClockRuns

LEMMA InvKept == ASSUME Inv, [HistoryNext]_allVars PROVE Inv'
<1>1. CASE HistoryNext
  <2>1. FilesInv'
    <3>1. RowsAgree'
      BY <1>1, HistoryStep, RowsKept DEF Inv, FilesInv
    <3> QED
      BY <1>1, <3>1, TypeKept, ClockKept, WalkKept, RequestKept DEF Inv, FilesInv
  <2> QED
    BY <1>1, <2>1, ForestKept, ClockRunsKept DEF Inv
<1>2. CASE UNCHANGED allVars
  BY <1>2 DEF allVars, history, Inv, FilesInv, Forest, ClockRuns, TypeOK, RowsAgree, ClockInv,
     WalkInv, RequestInv, Measured, WillSet, Used, Stored, Dirs, Acyclic, Exposed, Listing, Kept
<1> QED
  BY <1>1, <1>2

LEMMA InvHolds == HistorySpec => []Inv
<1>1. Init /\ HistoryInit => Inv
  BY InitHolds DEF Inv
<1> QED
  BY <1>1, InvKept, PTL DEF HistorySpec

\* Walks, references and measurements stay in agreement with the rows.
THEOREM FilesInvariant == HistorySpec => []FilesInv
<1>1. Inv => FilesInv
  BY DEF Inv
<1> QED
  BY <1>1, InvHolds, PTL

\* The folders stay a tree unless an overtaken move has been written.
THEOREM FoldersAreATree == HistorySpec => []Forest
<1>1. Inv => Forest
  BY DEF Inv
<1> QED
  BY <1>1, InvHolds, PTL

\* The grace clock runs, or will, unless one of three causes kept it from it.
THEOREM GraceClockRuns == HistorySpec => []ClockRuns
<1>1. Inv => ClockRuns
  BY DEF Inv
<1> QED
  BY <1>1, InvHolds, PTL

\* A limit is passed only by a request with an outdated measurement.
THEOREM LimitsAreHeld == HistorySpec => LimitsHold
<1>1. ASSUME Inv, HistoryNext, NEW r \in Reqs, req[r].pc = "create", Used' > Used,
             req'[r] # req[r], r \notin grown
      PROVE  Used' <= (IF req[r].op = "receive" THEN Limit * Factor ELSE Limit)
  <2>1. /\ TypeOK /\ TypeOK' /\ Next /\ Used \in Nat /\ Used' \in Nat /\ req[r].used \in Nat
        /\ Limit \in Nat /\ Factor \in Nat /\ Limit * Factor \in Nat
    BY <1>1, HistoryStep, TypeKept, UsedType, UsedTypeNext, QuotaAssumption
       DEF Inv, FilesInv, TypeOK, RequestRecord
  <2>2. Used' <= Used + 1
    BY <1>1, <2>1, UsageSteps
  <2>3. /\ Used <= req[r].used
        /\ req[r].used + 1 <= (IF req[r].op = "receive" THEN Limit * Factor ELSE Limit)
    BY <1>1 DEF Inv, FilesInv, RequestInv, Measured
  <2> QED
    BY <2>1, <2>2, <2>3
<1>2. Inv /\ [HistoryNext]_allVars =>
        [\A r \in Reqs : req[r].pc = "create" /\ Used' > Used /\ req'[r] # req[r] /\ r \notin grown
           => Used' <= (IF req[r].op = "receive" THEN Limit * Factor ELSE Limit)]_allVars
  BY <1>1
<1> QED
  BY <1>2, InvHolds, PTL DEF HistorySpec, LimitsHold

\* The run deletes what a recent share lists only if it came to be so late.
THEOREM DeletionsAreSafe == HistorySpec => SafeDeletion
<1>1. ASSUME Inv, HistoryNext, NEW r \in Reqs, NEW f \in Files, req[r].pc = "delete",
             req'[r] # req[r], f \in Stored, place'[f] = Gone, Exposed(f)
      PROVE  f \in late
  <2>1. TypeOK /\ Next /\ req \in [Reqs -> RequestRecord] /\ RequestInv(r)
    BY <1>1, HistoryStep DEF Inv, FilesInv, TypeOK
  <2>2. place' # place
    BY <1>1, NamesAssumption DEF Stored, Places
  <2>3. Request(r) \/ Sweep(r)
    <3>1. ASSUME NEW q \in Reqs, Request(q) \/ Sweep(q)
          PROVE  q = r
      <4>1. PICK new \in RequestRecord : req' = [req EXCEPT ![q] = new]
        BY <2>1, <3>1, RequestTyped
      <4> QED
        BY <1>1, <2>1, <4>1
    <3>2. ~Breaks
      BY <2>2 DEF Breaks, RequestFails, Restart, rows
    <3> QED
      BY <1>1, <2>1, <3>1, <3>2 DEF Next, Works, quota, DropReceived, NextDay
  <2>4. PICK g \in Files : DeletePicked(r, g)
    BY <1>1, <2>2, <2>3 DEF Request, Sweep, Start, CreateFile, Receive, EvalRead, EvalWrite,
       StartSweep, Measure, PickOrphans, PickInactive, Remeasure, rows, Idle
  <2>5. g = f
    BY <1>1, <2>1, <2>4, NamesAssumption DEF DeletePicked, Removed, TypeOK, Stored, Places
  <2> QED
    BY <1>1, <2>1, <2>4, <2>5 DEF DeletePicked, RequestInv
<1>2. Inv /\ [HistoryNext]_allVars =>
        [\A r \in Reqs, f \in Files :
           req[r].pc = "delete" /\ req'[r] # req[r] /\ f \in Stored /\ place'[f] = Gone
           => ~Exposed(f) \/ f \in late]_allVars
  BY <1>1
<1> QED
  BY <1>2, InvHolds, PTL DEF HistorySpec, SafeDeletion

\* The run acts on owners who have been over the limit for the whole period.
THEOREM GraceIsHonoured == HistorySpec => GraceHonoured
<1>1. ASSUME Inv, NEW r \in Reqs, req[r].pc = "measure", ~dipped
      PROVE  over # None /\ day - over > GraceDays
  <2>1. over # None /\ over + GraceDays < day /\ over \in Nat \cup {None} /\ day \in Nat
    BY <1>1 DEF Inv, FilesInv, RequestInv, TypeOK
  <2> QED
    BY <2>1, QuotaAssumption
<1>2. Inv /\ [HistoryNext]_allVars =>
        [\A r \in Reqs : req[r].pc = "measure" /\ req'[r].pc = "orphans" /\ ~dipped
           => over # None /\ day - over > GraceDays]_allVars
  BY <1>1
<1> QED
  BY <1>2, InvHolds, PTL DEF HistorySpec, GraceHonoured
=============================================================================
