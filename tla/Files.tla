------------------------------- MODULE Files -------------------------------
(***************************************************************************)
(* The files and folders of one owner and what is shared of them           *)
(* (file/routes.ts, folder/routes.ts, share/service.ts).  Rows refer to    *)
(* rows: a folder to its parent, a file to its folder, a share to its      *)
(* items; the database refuses a reference to a missing row and removes    *)
(* what a deleted row contains.                                            *)
(*                                                                         *)
(* An operation on one row is a step.  Moving a folder into another one is *)
(* not: isDescendantOf walks up from the target, one query per folder, and *)
(* the row is written when the walk has ended.  Quota adds what creates    *)
(* and removes files by their size.                                        *)
(***************************************************************************)
EXTENDS Integers, FiniteSets

CONSTANTS
    Folders, Files, Shares, \* ids; that of a deleted row is never used again
    Moves,                  \* concurrent requests that move a folder
    Root,                   \* no folder: parentId or folderId is null
    Unborn, Gone,           \* no row yet, no row any more
    MaxRows,                \* bound: folders, files and shares at a time
    MaxStarted              \* bound: requests begun

ASSUME NamesAssumption ==
    /\ Root \notin Folders /\ Unborn \notin Folders /\ Gone \notin Folders
    /\ Root # Unborn /\ Root # Gone /\ Unborn # Gone

ASSUME FilesAssumption == IsFiniteSet(Files)

ASSUME BoundsAssumption == MaxRows \in Nat /\ MaxStarted \in Nat

VARIABLES
    parent,     \* the folder of a folder
    place,      \* the folder of a file
    share,      \* the shares: their items, and whether they are in use
    move,       \* the moves in flight
    started     \* requests begun so far

rows == <<parent, place, share>>

Places == Folders \cup {Root}

Dirs == {d \in Folders : parent[d] \in Places}
Stored == {f \in Files : place[f] \in Places}
Kept == {s \in Shares : share[s].kept}

\* "recent": downloaded within quotaInactiveShareDays, or updated if nobody
\* ever downloaded.
NoShare == [kept |-> FALSE, files |-> {}, folders |-> {}, recent |-> FALSE]

Still == [pc |-> "idle", dir |-> Root, to |-> Root, cur |-> Root]

-----------------------------------------------------------------------------
(* The folder tree.                                                        *)

\* A set of folders that holds the parent of each member.
Closed(S) == \A d \in S : parent[d] \in Folders => parent[d] \in S

\* A folder and the folders above it: the least closed set.
Up(d) == {e \in Folders : \A S \in SUBSET Folders : d \in S /\ Closed(S) => e \in S}

\* The query for the descendants of d ends unless d is its own ancestor.
Endless(d) == parent[d] \in Folders /\ d \in Up(parent[d])

\* A folder and everything below it.
Subtree(d) == {e \in Dirs : d \in Up(e)}

Acyclic(p) == \A S \in SUBSET Folders : S # {} => \E d \in S : p[d] \notin S

Begins == started < MaxStarted /\ started' = started + 1

\* Room for one more row.
Room == Cardinality(Dirs) + Cardinality(Stored) + Cardinality(Kept) < MaxRows

CreateFolder(d, p) ==
    /\ parent[d] = Unborn /\ p \in Dirs \cup {Root}
    /\ Room
    /\ parent' = [parent EXCEPT ![d] = p]
    /\ UNCHANGED <<place, share, move, started>>

\* Without a parent in the request there is nothing to check.
MoveToRoot(d) ==
    /\ d \in Dirs /\ parent[d] # Root
    /\ parent' = [parent EXCEPT ![d] = Root]
    /\ UNCHANGED <<place, share, move, started>>

\* Both folders exist when the request looks; it begins the walk at the target.
StartMove(m, d, p) ==
    /\ move[m] = Still
    /\ d \in Dirs /\ p \in Dirs /\ d # p
    /\ move' = [move EXCEPT ![m] = [pc |-> "climb", dir |-> d, to |-> p, cur |-> p]]
    /\ Begins
    /\ UNCHANGED rows

\* The row above; a missing row ends the walk.
Above(d) == IF d \in Dirs THEN parent[d] ELSE Root

\* Mutant: the walk only looks for a missing row.
ClimbedBlindly(m) ==
    LET next == Above(move[m].cur)
    IN  [move[m] EXCEPT !.pc = IF next = Root THEN "write" ELSE "climb", !.cur = next]

\* The walk goes on, meets the folder that is to be moved, or ends.
Climbed(m) ==
    LET next == Above(move[m].cur)
    IN  IF next = move[m].dir THEN Still
        ELSE [move[m] EXCEPT !.pc = IF next = Root THEN "write" ELSE "climb", !.cur = next]

Climb(m) ==
    /\ move[m].pc = "climb"
    /\ move' = [move EXCEPT ![m] = Climbed(m)]
    /\ UNCHANGED <<rows, started>>

\* folder.update, if both rows still exist.
MoveWrite(m) ==
    /\ move[m].pc = "write"
    /\ move[m].dir \in Dirs /\ move[m].to \in Dirs
    /\ parent' = [parent EXCEPT ![move[m].dir] = move[m].to]
    /\ move' = [move EXCEPT ![m] = Still]
    /\ UNCHANGED <<place, share, started>>

\* A query throws: the update without its rows, or any of them.
MoveFails(m) ==
    /\ move[m] # Still
    /\ move' = [move EXCEPT ![m] = Still]
    /\ UNCHANGED <<rows, started>>

\* With the folder go the folders below it, the files in them, and their
\* entries in shares.
DeleteFolder(d) ==
    /\ d \in Dirs /\ ~Endless(d)
    /\ parent' = [e \in Folders |-> IF e \in Subtree(d) THEN Gone ELSE parent[e]]
    /\ place' = [f \in Files |-> IF place[f] \in Subtree(d) THEN Gone ELSE place[f]]
    /\ share' = [s \in Shares |-> [share[s] EXCEPT
                    !.folders = @ \ Subtree(d),
                    !.files = {f \in @ : place[f] \notin Subtree(d)}]]
    /\ UNCHANGED <<move, started>>

-----------------------------------------------------------------------------
(* Files and shares.                                                       *)

MoveFile(f, p) ==
    /\ f \in Stored /\ p \in (Dirs \cup {Root}) \ {place[f]}
    /\ place' = [place EXCEPT ![f] = p]
    /\ UNCHANGED <<parent, share, move, started>>

\* The row, and with it its entries in shares.
Removed(f) ==
    /\ f \in Stored
    /\ place' = [place EXCEPT ![f] = Gone]
    /\ share' = [s \in Shares |-> [share[s] EXCEPT !.files = @ \ {f}]]

DeleteFile(f) == Removed(f) /\ UNCHANGED <<parent, move, started>>

\* A share may be created without items; updatedAt makes it recent.
CreateShare(s, F, D) ==
    /\ ~share[s].kept
    /\ F \subseteq Stored /\ D \subseteq Dirs
    /\ Room
    /\ share' = [share EXCEPT ![s] = [kept |-> TRUE, files |-> F, folders |-> D, recent |-> TRUE]]
    /\ UNCHANGED <<parent, place, move, started>>

\* addItemsToShare and removeItemsFromShare, item by item.  The update counts
\* as a use if nobody has downloaded the share yet.
ChangeItems(s, files, folders) ==
    /\ share[s].kept
    /\ \E recent \in {share[s].recent, TRUE} :
         share' = [share EXCEPT ![s] = [@ EXCEPT !.files = files, !.folders = folders,
                                                 !.recent = recent]]
    /\ UNCHANGED <<parent, place, move, started>>

AddItem(s) ==
    \/ \E f \in Stored \ share[s].files : ChangeItems(s, share[s].files \cup {f}, share[s].folders)
    \/ \E d \in Dirs \ share[s].folders : ChangeItems(s, share[s].files, share[s].folders \cup {d})

RemoveItem(s) ==
    \/ \E f \in share[s].files : ChangeItems(s, share[s].files \ {f}, share[s].folders)
    \/ \E d \in share[s].folders : ChangeItems(s, share[s].files, share[s].folders \ {d})

DeleteShare(s) ==
    /\ share[s].kept
    /\ share' = [share EXCEPT ![s] = NoShare]
    /\ UNCHANGED <<parent, place, move, started>>

\* Somebody downloads from a share, or nobody does for long enough.
InUse(s, recent) ==
    /\ share[s].kept /\ share[s].recent # recent
    /\ share' = [share EXCEPT ![s].recent = recent]
    /\ UNCHANGED <<parent, place, move, started>>

FolderStep(d) ==
    \/ \E p \in Places : CreateFolder(d, p)
    \/ MoveToRoot(d)
    \/ DeleteFolder(d)

MoveStep(m) ==
    \/ \E d, p \in Folders : StartMove(m, d, p)
    \/ Climb(m)
    \/ MoveWrite(m)
    \/ MoveFails(m)

FileStep(f) ==
    \/ \E p \in Places : MoveFile(f, p)
    \/ DeleteFile(f)

ShareStep(s) ==
    \/ \E F \in SUBSET Files, D \in SUBSET Folders : CreateShare(s, F, D)
    \/ AddItem(s)
    \/ RemoveItem(s)
    \/ DeleteShare(s)
    \/ \E recent \in BOOLEAN : InUse(s, recent)

FilesNext ==
    \/ \E d \in Folders : FolderStep(d)
    \/ \E m \in Moves : MoveStep(m)
    \/ \E f \in Files : FileStep(f)
    \/ \E s \in Shares : ShareStep(s)

=============================================================================
