---------------------------- MODULE UploadStorage ----------------------------
(***************************************************************************)
(* The files of one reverse share: rows of ReverseShareFile in the         *)
(* database, objects in the S3 bucket, and the four parties that keep the  *)
(* two in step without a common transaction: uploaders (direct: presigned  *)
(* PUT and registerFileUpload of reverse-share/upload.service.ts;          *)
(* multipart: reverse-share/multipart.service.ts), the owner (deletes of   *)
(* reverse-share/service.ts), and the cleanup run                          *)
(* (deleteReverseShareWithStorage and sweepOrphans of cleanup/service.ts). *)
(*                                                                         *)
(* A slot is a registration: first a request, then the row it created.     *)
(* Names, sizes, types and quotas of files are abstracted to an upload     *)
(* that is accepted or refused.  Age is abstracted to what the sweep asks: *)
(* "old" is before the cutoff of the running sweep, or of one that starts  *)
(* now.                                                                    *)
(***************************************************************************)
EXTENDS Naturals, FiniteSets

CONSTANTS
    Uploads,    \* object keys the server can hand out
    Direct,     \* slots of registerFileUpload
    Multi,      \* slots of completeMultipartUploadByAlias
    NoUpload,
    NoSlot,
    MaxFiles    \* maxFiles of the share, 0 for no limit

Slots == Direct \cup Multi

ASSUME SlotsAssumption ==
    /\ IsFiniteSet(Direct) /\ IsFiniteSet(Multi)
    /\ Direct \cap Multi = {}
    /\ NoSlot \notin Direct \cup Multi
ASSUME UploadsAssumption == NoUpload \notin Uploads
ASSUME MaxFilesAssumption == MaxFiles \in Nat

VARIABLES
    share,      \* the reverse share: "open", "closed" (inactive or expired), "gone"
    key,        \* each key: "unissued", "url" (a presigned PUT), "spent", "multi"
    object,     \* each key's object: "none", "young", "old"
    parts,      \* each key's incomplete multipart upload: the same
    at,         \* each slot: "free", where its request is, "row" or "oldRow"
    upload,     \* the key it is about
    ownerPc,    \* where the owner's deletion is suspended
    ownerHolds, \* files whose objects it has still to delete
    runPc,      \* where the cleanup run is suspended
    runHolds,   \* files its current loop has still to handle
    runRow,     \* the row it found to have no object
    runKeys     \* keys in use, then keys its current loop has still to handle

storage == <<object, parts>>
slots == <<at, upload>>
owner == <<ownerPc, ownerHolds>>
run == <<runPc, runHolds, runRow, runKeys>>
vars == <<share, key, storage, slots, owner, run>>

-----------------------------------------------------------------------------

InRow == {"row", "oldRow"}
Rows == {s \in Slots : at[s] \in InRow}
OldRows == {s \in Slots : at[s] = "oldRow"}

\* What a query reads of rows: their ids and their object names.
Files(S) == {[id |-> s, key |-> upload[s]] : s \in S}
Keys(S) == {upload[s] : s \in S}

\* A row's id is not given out again while somebody holds it.
Free(s) == at[s] = "free" /\ s # runRow /\ \A f \in ownerHolds \cup runHolds : f.id # s

\* countFilesByReverseShareId against maxFiles.
Full == MaxFiles # 0 /\ Cardinality(Rows) >= MaxFiles

Init ==
    /\ share = "open"
    /\ key = [u \in Uploads |-> "unissued"]
    /\ object = [u \in Uploads |-> "none"]
    /\ parts = [u \in Uploads |-> "none"]
    /\ at = [s \in Slots |-> "free"]
    /\ upload = [s \in Slots |-> NoUpload]
    /\ ownerPc = "idle"
    /\ ownerHolds = {}
    /\ runPc = "idle"
    /\ runHolds = {}
    /\ runRow = NoSlot
    /\ runKeys = {}

Go(s, from, to) ==
    /\ at[s] = from
    /\ at' = [at EXCEPT ![s] = to]
    /\ UNCHANGED upload

\* The slots of S are free again: requests that have ended, or deleted rows.
Leave(S) ==
    /\ at' = [s \in Slots |-> IF s \in S THEN "free" ELSE at[s]]
    /\ upload' = [s \in Slots |-> IF s \in S THEN NoUpload ELSE upload[s]]

\* A request takes a slot, past the gate of an open share.
Begin(s, u, to) ==
    /\ share = "open"
    /\ Free(s)
    /\ at' = [at EXCEPT ![s] = to]
    /\ upload' = [upload EXCEPT ![s] = u]

-----------------------------------------------------------------------------
(* Direct uploads.                                                         *)

\* getPresignedUrl
IssueUrl(u) ==
    /\ share = "open"
    /\ key[u] = "unissued"
    /\ key' = [key EXCEPT ![u] = "url"]
    /\ UNCHANGED <<share, storage, slots, owner, run>>

\* The browser stores the object, or stores it again.
Put(u) ==
    /\ key[u] = "url"
    /\ object' = [object EXCEPT ![u] = "young"]
    /\ UNCHANGED <<share, key, parts, slots, owner, run>>

UrlExpires(u) ==
    /\ key[u] = "url"
    /\ key' = [key EXCEPT ![u] = "spent"]
    /\ UNCHANGED <<share, storage, slots, owner, run>>

\* registerFileUpload and registerFileUploadByAlias: the gate.  A client may
\* register a key more than once: objectName is not unique.  It registers what
\* it stored by a presigned PUT; multipart uploads are registered by completing
\* them.
Register(s, u) ==
    /\ s \in Direct
    /\ key[u] \in {"url", "spent"}
    /\ Begin(s, u, "check")
    /\ UNCHANGED <<share, key, storage, owner, run>>

\* The object is read: its content and its size.
Check(s) ==
    /\ Go(s, "check", "count")
    /\ object[upload[s]] # "none"
    /\ UNCHANGED <<share, key, storage, owner, run>>

Count(s) ==
    /\ ~Full
    /\ Go(s, "count", "create")
    /\ UNCHANGED <<share, key, storage, owner, run>>

\* createFile: fails if the share is gone.
Create(s) ==
    /\ share # "gone"
    /\ Go(s, "create", "row")
    /\ UNCHANGED <<share, key, storage, owner, run>>

\* Refused by a check, the count, a limit, the quota or the database: the object
\* stays where it is.
Refuse(s) ==
    /\ at[s] \in {"check", "count", "create"}
    /\ Leave({s})
    /\ UNCHANGED <<share, key, storage, owner, run>>

-----------------------------------------------------------------------------
(* Multipart uploads.                                                      *)

\* createMultipartUploadByAlias
StartMultipart(u) ==
    /\ share = "open"
    /\ ~Full
    /\ key[u] = "unissued"
    /\ key' = [key EXCEPT ![u] = "multi"]
    /\ parts' = [parts EXCEPT ![u] = "young"]
    /\ UNCHANGED <<share, object, slots, owner, run>>

\* abortMultipartUploadByAlias, and a completion whose extension differs.
AbortMultipart(u) ==
    /\ share = "open"
    /\ parts[u] # "none"
    /\ parts' = [parts EXCEPT ![u] = "none"]
    /\ UNCHANGED <<share, key, object, slots, owner, run>>

\* completeMultipartUploadByAlias: the gate.
Complete(s, u) ==
    /\ s \in Multi
    /\ key[u] = "multi"
    /\ Begin(s, u, "complete")
    /\ UNCHANGED <<share, key, storage, owner, run>>

\* S3 assembles the parts, once.
Assemble(s) ==
    /\ Go(s, "complete", "validate")
    /\ parts[upload[s]] # "none"
    /\ parts' = [parts EXCEPT ![upload[s]] = "none"]
    /\ object' = [object EXCEPT ![upload[s]] = "young"]
    /\ UNCHANGED <<share, key, owner, run>>

\* S3 refuses: there are no parts (any more), or it fails.
AssembleFails(s) ==
    /\ at[s] = "complete"
    /\ Leave({s})
    /\ UNCHANGED <<share, key, storage, owner, run>>

\* Content, size, limits and quota of the assembled object.
Validate(s) ==
    /\ Go(s, "validate", "register")
    /\ object[upload[s]] # "none"
    /\ ~Full
    /\ UNCHANGED <<share, key, storage, owner, run>>

\* Any of them refuses, or throws.
Reject(s) ==
    /\ Go(s, "validate", "discard")
    /\ UNCHANGED <<share, key, storage, owner, run>>

\* Mutant: the transaction does not count again.
CreateUncounted(s) ==
    /\ share # "gone"
    /\ Go(s, "register", "row")
    /\ UNCHANGED <<share, key, storage, owner, run>>

\* createReverseShareFileAtomic: counts and creates in one transaction.
CreateAtomic(s) ==
    /\ share # "gone"
    /\ ~Full
    /\ Go(s, "register", "row")
    /\ UNCHANGED <<share, key, storage, owner, run>>

\* The transaction finds the share full, or fails.
CreateFails(s) ==
    /\ Go(s, "register", "discard")
    /\ UNCHANGED <<share, key, storage, owner, run>>

\* deleteObject after a rejection; its failure is logged.
Discard(s) ==
    /\ at[s] = "discard"
    /\ Leave({s})
    /\ object' = [object EXCEPT ![upload[s]] = "none"]
    /\ UNCHANGED <<share, key, parts, owner, run>>

DiscardFails(s) ==
    /\ at[s] = "discard"
    /\ Leave({s})
    /\ UNCHANGED <<share, key, storage, owner, run>>

-----------------------------------------------------------------------------
(* The owner.                                                              *)

\* Deactivation and activation, by hand or by the date.
Close ==
    /\ share = "open"
    /\ share' = "closed"
    /\ UNCHANGED <<key, storage, slots, owner, run>>

Reopen ==
    /\ share = "closed"
    /\ share' = "open"
    /\ UNCHANGED <<key, storage, slots, owner, run>>

\* deleteReverseShareFile: the object, then the row.
DeleteFile(s) ==
    /\ ownerPc = "idle"
    /\ s \in Rows
    /\ ownerPc' = "fileObject"
    /\ ownerHolds' = Files({s})
    /\ UNCHANGED <<share, key, storage, slots, run>>

DeleteFileObject(f) ==
    /\ ownerPc = "fileObject"
    /\ f \in ownerHolds
    /\ object' = [object EXCEPT ![f.key] = "none"]
    /\ ownerPc' = "fileRow"
    /\ UNCHANGED <<share, key, parts, slots, ownerHolds, run>>

DeleteFileRow(f) ==
    /\ ownerPc = "fileRow"
    /\ f \in ownerHolds
    /\ f.id \in Rows
    /\ Leave({f.id})
    /\ ownerPc' = "idle"
    /\ ownerHolds' = {}
    /\ UNCHANGED <<share, key, storage, run>>

\* Either of the two steps fails.
DeleteFileFails ==
    /\ ownerPc \in {"fileObject", "fileRow"}
    /\ ownerPc' = "idle"
    /\ ownerHolds' = {}
    /\ UNCHANGED <<share, key, storage, slots, run>>

\* deleteReverseShare: the objects of the rows it read, each with its errors
\* swallowed, then the share and its rows.
DeleteShare ==
    /\ ownerPc = "idle"
    /\ share # "gone"
    /\ ownerPc' = "shareObjects"
    /\ ownerHolds' = Files(Rows)
    /\ UNCHANGED <<share, key, storage, slots, run>>

DeleteShareObject(f) ==
    /\ ownerPc = "shareObjects"
    /\ f \in ownerHolds
    /\ ownerHolds' = ownerHolds \ {f}
    /\ \/ object' = [object EXCEPT ![f.key] = "none"]
       \/ UNCHANGED object
    /\ UNCHANGED <<share, key, parts, slots, ownerPc, run>>

\* onDelete: Cascade
Cascade ==
    /\ share' = "gone"
    /\ Leave(Rows)
    /\ UNCHANGED <<key, storage>>

DeleteShareRows ==
    /\ ownerPc = "shareObjects"
    /\ ownerHolds = {}
    /\ \/ share # "gone" /\ Cascade
       \/ UNCHANGED <<share, key, storage, slots>>
    /\ ownerPc' = "idle"
    /\ UNCHANGED <<ownerHolds, run>>

-----------------------------------------------------------------------------
(* The cleanup run: the deletion of an ended share, rows first, then the   *)
(* orphan sweep in its three phases.                                       *)

RunGoes(from, to) ==
    /\ runPc = from
    /\ runPc' = to

\* The run selects the share for deletion, ...
RunSelects ==
    /\ share = "closed"
    /\ RunGoes("idle", "selected")
    /\ UNCHANGED <<share, key, storage, slots, owner, runHolds, runRow, runKeys>>

\* ... reads its files, ...
RunReadsFiles ==
    /\ RunGoes("selected", "cascade")
    /\ runHolds' = Files(Rows)
    /\ UNCHANGED <<share, key, storage, slots, owner, runRow, runKeys>>

\* ... deletes it whatever it has become, ...
RunDeletesShare ==
    /\ share # "gone"
    /\ RunGoes("cascade", "objects")
    /\ Cascade
    /\ UNCHANGED <<owner, runHolds, runRow, runKeys>>

RunDeletesNothing ==
    /\ RunGoes("cascade", "sweep")
    /\ runHolds' = {}
    /\ UNCHANGED <<share, key, storage, slots, owner, runRow, runKeys>>

\* ... and then deletes the objects of the files it had read.
RunDeletesObject(f) ==
    /\ runPc = "objects"
    /\ f \in runHolds
    /\ runHolds' = runHolds \ {f}
    /\ \/ object' = [object EXCEPT ![f.key] = "none"]
       \/ UNCHANGED object
    /\ UNCHANGED <<share, key, parts, slots, owner, runPc, runRow, runKeys>>

RunLeavesShare ==
    /\ \/ RunGoes("idle", "sweep")
       \/ runHolds = {} /\ RunGoes("objects", "sweep")
    /\ UNCHANGED <<share, key, storage, slots, owner, runHolds, runRow, runKeys>>

\* Mutant: the phase looks at files of the file manager only.
SweepNoRows ==
    /\ RunGoes("sweep", "rows")
    /\ UNCHANGED <<share, key, storage, slots, owner, runHolds, runRow, runKeys>>

\* Phase DB -> S3: the rows before the cutoff, ...
SweepRows ==
    /\ RunGoes("sweep", "rows")
    /\ runHolds' = Files(OldRows)
    /\ UNCHANGED <<share, key, storage, slots, owner, runRow, runKeys>>

\* ... each of which is looked up in the bucket ...
SweepLooksUp(f) ==
    /\ f \in runHolds
    /\ runHolds' = runHolds \ {f}
    /\ IF object[f.key] = "none"
       THEN RunGoes("rows", "row") /\ runRow' = f.id
       ELSE RunGoes("rows", "rows") /\ UNCHANGED runRow
    /\ UNCHANGED <<share, key, storage, slots, owner, runKeys>>

\* ... and deleted by its id, if it is still there and the database obliges.
SweepDeletesRow ==
    /\ RunGoes("row", "rows")
    /\ runRow \in Rows
    /\ Leave({runRow})
    /\ runRow' = NoSlot
    /\ UNCHANGED <<share, key, storage, owner, runHolds, runKeys>>

\* An error with one row is counted.
SweepLookupFails(f) ==
    /\ f \in runHolds
    /\ RunGoes("rows", "rows")
    /\ runHolds' = runHolds \ {f}
    /\ UNCHANGED <<share, key, storage, slots, owner, runRow, runKeys>>

SweepRowFails ==
    /\ RunGoes("row", "rows")
    /\ runRow' = NoSlot
    /\ UNCHANGED <<share, key, storage, slots, owner, runHolds, runKeys>>

\* Mutant: the table is missing from the registry of known keys.
KnownNoKeys == {}

\* Phase S3 -> DB: every key a row refers to, ...
KnownKeys == Keys(Rows)

SweepReadsKeys ==
    /\ runHolds = {}
    /\ RunGoes("rows", "list")
    /\ runKeys' = KnownKeys
    /\ UNCHANGED <<share, key, storage, slots, owner, runHolds, runRow>>

\* Mutant: the age of an object does not matter.
OrphansOfAnyAge == {u \in Uploads : object[u] # "none" /\ u \notin runKeys}

\* ... and the objects before the cutoff that are not among them, ...
Orphans == {u \in Uploads : object[u] = "old" /\ u \notin runKeys}

SweepLists ==
    /\ RunGoes("list", "orphans")
    /\ runKeys' = Orphans
    /\ UNCHANGED <<share, key, storage, slots, owner, runHolds, runRow>>

\* ... each of which is deleted.
SweepDeletesObject(u) ==
    /\ runPc = "orphans"
    /\ u \in runKeys
    /\ object' = [object EXCEPT ![u] = "none"]
    /\ runKeys' = runKeys \ {u}
    /\ UNCHANGED <<share, key, parts, slots, owner, runPc, runHolds, runRow>>

\* Mutant: the phase is missing.
NoOldParts == {}

\* Phase of the incomplete multipart uploads: those initiated before the cutoff.
OldParts == {u \in Uploads : parts[u] = "old"}

SweepListsParts ==
    /\ runKeys = {}
    /\ RunGoes("orphans", "aborts")
    /\ runKeys' = OldParts
    /\ UNCHANGED <<share, key, storage, slots, owner, runHolds, runRow>>

SweepAborts(u) ==
    /\ runPc = "aborts"
    /\ u \in runKeys
    /\ parts' = [parts EXCEPT ![u] = "none"]
    /\ runKeys' = runKeys \ {u}
    /\ UNCHANGED <<share, key, object, slots, owner, runPc, runHolds, runRow>>

\* An error of the store with one object or one upload is counted.
SweepKeyFails(u) ==
    /\ runPc \in {"orphans", "aborts"}
    /\ u \in runKeys
    /\ runKeys' = runKeys \ {u}
    /\ UNCHANGED <<share, key, storage, slots, owner, runPc, runHolds, runRow>>

SweepEnds ==
    /\ runKeys = {}
    /\ RunGoes("aborts", "idle")
    /\ UNCHANGED <<share, key, storage, slots, owner, runHolds, runRow, runKeys>>

\* A query or a listing that throws ends the sweep.
SweepFails ==
    /\ \/ runPc \in {"sweep", "list"}
       \/ runPc = "rows" /\ runHolds = {}
       \/ runPc = "orphans" /\ runKeys = {}
    /\ runPc' = "idle"
    /\ runKeys' = {}
    /\ UNCHANGED <<share, key, storage, slots, owner, runHolds, runRow>>

-----------------------------------------------------------------------------
(* The clock and the process.                                              *)

\* The cutoff of a sweep is fixed when it starts, so nothing turns old
\* during one.
Sweeping == runPc \notin {"idle", "selected", "cascade", "objects", "sweep"}

ObjectAges(u) ==
    /\ ~Sweeping
    /\ \/ /\ object[u] = "young"
          /\ object' = [object EXCEPT ![u] = "old"]
          /\ UNCHANGED parts
       \/ /\ parts[u] = "young"
          /\ parts' = [parts EXCEPT ![u] = "old"]
          /\ UNCHANGED object
    /\ UNCHANGED <<share, key, slots, owner, run>>

RowAges(s) ==
    /\ ~Sweeping
    /\ Go(s, "row", "oldRow")
    /\ UNCHANGED <<share, key, storage, owner, run>>

\* The process restarts: requests and runs are lost; the boot runs a cleanup.
Restart ==
    /\ Leave(Slots \ Rows)
    /\ ownerPc' = "idle"
    /\ ownerHolds' = {}
    /\ runPc' = "idle"
    /\ runHolds' = {}
    /\ runRow' = NoSlot
    /\ runKeys' = {}
    /\ UNCHANGED <<share, key, storage>>

-----------------------------------------------------------------------------

UploaderStep ==
    \/ \E u \in Uploads : \/ IssueUrl(u) \/ Put(u) \/ UrlExpires(u)
                          \/ StartMultipart(u) \/ AbortMultipart(u)
                          \/ \E s \in Slots : Register(s, u) \/ Complete(s, u)
    \/ \E s \in Slots : \/ Check(s) \/ Count(s) \/ Create(s) \/ Refuse(s)
                        \/ Assemble(s) \/ AssembleFails(s) \/ Validate(s) \/ Reject(s)
                        \/ CreateAtomic(s) \/ CreateFails(s) \/ Discard(s) \/ DiscardFails(s)

OwnerStep ==
    \/ Close \/ Reopen
    \/ \E s \in Slots : DeleteFile(s)
    \/ \E f \in ownerHolds : DeleteFileObject(f) \/ DeleteFileRow(f) \/ DeleteShareObject(f)
    \/ DeleteFileFails \/ DeleteShare \/ DeleteShareRows

RunStep ==
    \/ RunSelects \/ RunReadsFiles \/ RunDeletesShare \/ RunDeletesNothing
    \/ RunLeavesShare
    \/ \E f \in runHolds : RunDeletesObject(f) \/ SweepLooksUp(f) \/ SweepLookupFails(f)
    \/ SweepRows \/ SweepRowFails \/ SweepDeletesRow \/ SweepReadsKeys \/ SweepLists
    \/ \E u \in Uploads : SweepDeletesObject(u) \/ SweepAborts(u) \/ SweepKeyFails(u)
    \/ SweepListsParts \/ SweepEnds \/ SweepFails

TimeStep ==
    \/ \E u \in Uploads : ObjectAges(u)
    \/ \E s \in Slots : RowAges(s)

Next == UploaderStep \/ OwnerStep \/ RunStep \/ TimeStep \/ Restart

Spec == Init /\ [][Next]_vars

\* Runs go on, URLs expire and time passes (strongly: nothing turns old while a
\* sweep is under way), and from some point on neither the store nor the
\* database fails the sweep and the process is not restarted.
Fairness ==
    /\ WF_vars(RunStep)
    /\ \A u \in Uploads : WF_vars(UrlExpires(u)) /\ SF_vars(ObjectAges(u))
    /\ \A s \in Slots : SF_vars(RowAges(s))
    /\ <>[][~(SweepFails \/ SweepRowFails \/ Restart
              \/ (\E f \in runHolds : SweepLookupFails(f))
              \/ (\E u \in Uploads : SweepKeyFails(u)))]_vars

FairSpec == Spec /\ Fairness

-----------------------------------------------------------------------------
(* Properties.                                                             *)

Ages == {"none", "young", "old"}
FileRecord == [id : Slots, key : Uploads]

TypeOK ==
    /\ share \in {"open", "closed", "gone"}
    /\ key \in [Uploads -> {"unissued", "url", "spent", "multi"}]
    /\ object \in [Uploads -> Ages]
    /\ parts \in [Uploads -> Ages]
    /\ at \in [Slots -> {"free", "check", "count", "create", "complete", "validate",
                         "register", "discard"} \cup InRow]
    /\ upload \in [Slots -> Uploads \cup {NoUpload}]
    /\ ownerPc \in {"idle", "fileObject", "fileRow", "shareObjects"}
    /\ ownerHolds \subseteq FileRecord
    /\ runPc \in {"idle", "selected", "cascade", "objects", "sweep", "rows", "row",
                  "list", "orphans", "aborts"}
    /\ runHolds \subseteq FileRecord
    /\ runRow \in Slots \cup {NoSlot}
    /\ runKeys \subseteq Uploads

\* The inductive invariant behind the properties below, in named parts.

SlotsInv ==
    \A s \in Slots :
        /\ at[s] = "free" <=> upload[s] = NoUpload
        /\ at[s] \in {"check", "count", "create"} => s \in Direct
        /\ at[s] \in {"complete", "validate", "register", "discard"} => s \in Multi
        /\ s \in Multi /\ at[s] # "free" => key[upload[s]] = "multi"
        /\ s \in Direct /\ at[s] # "free" => key[upload[s]] \in {"url", "spent"}

\* S3 has a key's parts or the object made of them, never both.
PartsInv ==
    \A u \in Uploads :
        /\ parts[u] # "none" => key[u] = "multi" /\ object[u] = "none"
        /\ key[u] = "unissued" => object[u] = "none"

\* Of the completions of one upload, S3 lets one through.
Assembled == {s \in Multi : at[s] \in {"validate", "register", "discard"} \cup InRow}

CompletionInv ==
    /\ \A s \in Assembled : parts[upload[s]] = "none"
    /\ \A r, s \in Assembled : upload[r] = upload[s] => r = s

ShareInv ==
    /\ share = "gone" => Rows = {}
    /\ runPc = "objects" => share = "gone"

\* What the sweep read stays good enough until it is used.
SweepInv ==
    /\ runPc = "list" => Keys(OldRows) \subseteq runKeys
    /\ runPc = "orphans" =>
        /\ runKeys \cap Keys(OldRows) = {}
        /\ \A u \in runKeys :
            /\ key[u] # "unissued"
            /\ key[u] = "multi" => object[u] # "young" /\ parts[u] = "none"
    /\ runPc = "aborts" => \A u \in runKeys : key[u] = "multi" /\ parts[u] # "young"

StorageInv ==
    /\ TypeOK
    /\ SlotsInv
    /\ PartsInv
    /\ CompletionInv
    /\ ShareInv
    /\ SweepInv

\* A row's object is deleted by its owner's deletion or, when it was registered
\* so late that its object was already old, by the sweep that read the keys in
\* use before: never by the sweep once the row is old too, and never by an
\* upload that is rejected.
ReferencedObjectsAreKept ==
    [][\A s \in Rows : object[upload[s]] # "none" /\ object'[upload[s]] = "none"
        => \/ \E f \in ownerHolds : f.key = upload[s]
           \/ runPc = "orphans" /\ at[s] = "row"]_vars

\* The minimum age protects a large upload while it is assembled and registered:
\* the sweep neither aborts young parts nor deletes the young object made of
\* them, however old its listing is.
YoungUploadsAreSpared ==
    [][\A u \in Uploads : key[u] = "multi" /\ runKeys' # runKeys
        => /\ object[u] = "young" => object'[u] = "young"
           /\ parts[u] = "young" => parts'[u] = "young"]_vars

\* Whatever a failed step left in the bucket is reclaimed in the end: objects
\* without a row, and the parts of uploads that nobody completes.
StorageIsReclaimed ==
    \A u \in Uploads :
        /\ object[u] # "none" /\ u \notin Keys(Rows) ~> object[u] = "none" \/ u \in Keys(Rows)
        /\ parts[u] # "none" ~> parts[u] = "none"

\* A row whose object is gone does not stay for ever.
DanglingRowsAreRemoved ==
    \A s \in Slots :
        at[s] \in InRow /\ object[upload[s]] = "none"
            ~> at[s] \notin InRow \/ object[upload[s]] # "none"
=============================================================================
