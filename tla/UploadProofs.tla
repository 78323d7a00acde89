---------------------------- MODULE UploadProofs ----------------------------
(***************************************************************************)
(* Proofs about the files of a reverse share, for any number of uploads,   *)
(* of concurrent registrations of either kind, and any limit.              *)
(***************************************************************************)
EXTENDS UploadHistory, FiniteSetTheorems, TLAPS

-----------------------------------------------------------------------------
(* The kinds of steps, by what they do to the slots and to the store.      *)

\* A request goes on, or a row turns old.
Moves(s, to) ==
    /\ at' = [at EXCEPT ![s] = to] /\ upload' = upload
    /\ \/ /\ UNCHANGED storage
          /\ \/ at[s] = "check" /\ to = "count"
             \/ at[s] = "count" /\ to = "create" /\ ~Full
             \/ at[s] = "create" /\ to = "row" /\ share # "gone"
             \/ at[s] = "validate" /\ to \in {"register", "discard"}
             \/ at[s] = "register" /\ to = "row" /\ share # "gone" /\ ~Full
             \/ at[s] = "register" /\ to = "discard"
             \/ at[s] = "row" /\ to = "oldRow" /\ ~Sweeping
       \/ /\ at[s] = "complete" /\ to = "validate"
          /\ parts[upload[s]] # "none"
          /\ parts' = [parts EXCEPT ![upload[s]] = "none"]
          /\ object' = [object EXCEPT ![upload[s]] = "young"]

\* A request begins.
Begins(s, u) ==
    /\ at[s] = "free" /\ share = "open"
    /\ upload' = [upload EXCEPT ![s] = u]
    /\ \/ /\ s \in Direct /\ key[u] \in {"url", "spent"}
          /\ at' = [at EXCEPT ![s] = "check"]
       \/ /\ s \in Multi /\ key[u] = "multi"
          /\ at' = [at EXCEPT ![s] = "complete"]

\* What may happen to a key and to what S3 has of it.
KeyChange(u) ==
    \/ key'[u] = key[u]
    \/ key[u] = "unissued" /\ key'[u] \in {"url", "multi"}
    \/ key[u] = "url" /\ key'[u] = "spent"

PartsChange(u) ==
    \/ parts'[u] \in {parts[u], "none"}
    \/ key[u] = "unissued" /\ key'[u] = "multi" /\ parts'[u] = "young" /\ object'[u] = object[u]
    \/ parts[u] = "young" /\ parts'[u] = "old" /\ ~Sweeping

ObjectChange(u) ==
    \/ object'[u] \in {object[u], "none"}
    \/ object'[u] = "young" /\ key[u] = "url" /\ key' = key
    \/ object'[u] = "young" /\ parts[u] # "none" /\ parts'[u] = "none" /\ key' = key
    \/ object[u] = "young" /\ object'[u] = "old" /\ ~Sweeping

\* The steps that leave the slots alone.
OtherStep ==
    \/ \E u \in Uploads : \/ IssueUrl(u) \/ Put(u) \/ UrlExpires(u)
                          \/ StartMultipart(u) \/ AbortMultipart(u) \/ ObjectAges(u)
                          \/ SweepDeletesObject(u) \/ SweepAborts(u) \/ SweepKeyFails(u)
    \/ Close \/ Reopen \/ DeleteFileFails \/ DeleteShare
    \/ \E s \in Slots : DeleteFile(s)
    \/ \E f \in ownerHolds : DeleteFileObject(f) \/ DeleteShareObject(f)
    \/ RunSelects \/ RunReadsFiles \/ RunDeletesNothing \/ RunLeavesShare
    \/ \E f \in runHolds : RunDeletesObject(f) \/ SweepLooksUp(f) \/ SweepLookupFails(f)
    \/ SweepRows \/ SweepRowFails \/ SweepReadsKeys \/ SweepLists
    \/ SweepListsParts \/ SweepEnds \/ SweepFails

\* The steps that let requests end or delete rows.
LeaveStep ==
    \/ \E s \in Slots : Refuse(s) \/ AssembleFails(s) \/ Discard(s) \/ DiscardFails(s)
    \/ \E f \in ownerHolds : DeleteFileRow(f)
    \/ (share # "gone" /\ Cascade /\ DeleteShareRows)
    \/ RunDeletesShare \/ SweepDeletesRow \/ Restart

LEMMA OtherSteps ==
    ASSUME OtherStep
    PROVE  UNCHANGED slots
BY DEF OtherStep, IssueUrl, Put, UrlExpires, StartMultipart, AbortMultipart, ObjectAges,
       SweepDeletesObject, SweepAborts, SweepKeyFails, Close, Reopen, DeleteFileFails,
       DeleteShare, DeleteFile, DeleteFileObject, DeleteShareObject, RunSelects, RunReadsFiles,
       RunDeletesNothing, RunLeavesShare, RunDeletesObject, SweepLooksUp, SweepLookupFails,
       SweepRows, SweepRowFails, SweepReadsKeys, SweepLists, SweepListsParts, SweepEnds,
       SweepFails, slots

LEMMA LeaveSteps ==
    ASSUME TypeOK, LeaveStep
    PROVE  \E S \in SUBSET Slots :
                /\ Leave(S)
                /\ share' # share => share' = "gone" /\ Rows \subseteq S
<1>1. ASSUME NEW s \in Slots, Refuse(s) \/ AssembleFails(s) \/ Discard(s) \/ DiscardFails(s)
      PROVE  Leave({s}) /\ share' = share
  BY <1>1 DEF Refuse, AssembleFails, Discard, DiscardFails
<1>2. ASSUME NEW f \in ownerHolds, DeleteFileRow(f)
      PROVE  Leave({f.id}) /\ share' = share /\ f.id \in Slots
  BY <1>2 DEF DeleteFileRow, Rows
<1>3. CASE (share # "gone" /\ Cascade /\ DeleteShareRows) \/ RunDeletesShare
  <2>1. Leave(Rows) /\ share' = "gone"
    BY <1>3 DEF RunDeletesShare, Cascade
  <2> QED
    BY <2>1 DEF Rows
<1>4. CASE SweepDeletesRow
  <2>1. Leave({runRow}) /\ share' = share /\ runRow \in Slots
    BY <1>4 DEF SweepDeletesRow, Rows
  <2> QED
    BY <2>1
<1>5. CASE Restart
  <2>1. Leave(Slots \ Rows) /\ share' = share
    BY <1>5 DEF Restart
  <2> QED
    BY <2>1
<1> QED
  BY <1>1, <1>2, <1>3, <1>4, <1>5 DEF LeaveStep

\* Every step is of one of four kinds.
LEMMA Kinds ==
    ASSUME TypeOK, SlotsInv, Next
    PROVE  \/ OtherStep
           \/ LeaveStep
           \/ UNCHANGED <<slots, share, storage, key, ownerHolds, run>> /\ ownerPc' = "idle"
           \/ \E s \in Slots, to \in {"count", "create", "row", "validate", "register",
                                      "discard", "oldRow"} :
                /\ Moves(s, to)
                /\ UNCHANGED <<share, key, owner, run>>
           \/ \E s \in Slots, u \in Uploads :
                /\ Begins(s, u)
                /\ UNCHANGED <<share, key, storage, owner, run>>
<1>1. CASE UploaderStep
  <2>1. ASSUME NEW u \in Uploads, NEW s \in Slots, Register(s, u) \/ Complete(s, u)
        PROVE  Begins(s, u) /\ UNCHANGED <<share, key, storage, owner, run>>
    BY <2>1 DEF Register, Complete, Begin, Free, Begins
  <2>2. ASSUME NEW s \in Slots,
               \/ Check(s) \/ Count(s) \/ Create(s) \/ Validate(s) \/ Reject(s)
               \/ CreateAtomic(s) \/ CreateFails(s)
        PROVE  \E to \in {"count", "create", "row", "register", "discard"} :
                    Moves(s, to) /\ UNCHANGED <<share, key, owner, run>>
    BY <2>2 DEF Check, Count, Create, Validate, Reject, CreateAtomic, CreateFails, Go, Moves
  <2>3. ASSUME NEW s \in Slots, Assemble(s)
        PROVE  Moves(s, "validate") /\ UNCHANGED <<share, key, owner, run>>
    BY <2>3 DEF Assemble, Go, Moves
  <2> QED
    BY <1>1, <2>1, <2>2, <2>3 DEF UploaderStep, OtherStep, LeaveStep
<1>2. CASE OwnerStep
  <2>1. CASE DeleteShareRows
    <3>1. \/ share # "gone" /\ Cascade
          \/ UNCHANGED <<share, key, storage, slots>>
      BY <2>1 DEF DeleteShareRows
    <3>2. UNCHANGED <<ownerHolds, run>> /\ ownerPc' = "idle"
      BY <2>1 DEF DeleteShareRows
    <3> QED
      BY <2>1, <3>1, <3>2 DEF LeaveStep
  <2> QED
    BY <1>2, <2>1 DEF OwnerStep, OtherStep, LeaveStep
<1>3. CASE RunStep
  BY <1>3 DEF RunStep, OtherStep, LeaveStep
<1>4. CASE TimeStep
  <2>1. ASSUME NEW s \in Slots, RowAges(s)
        PROVE  Moves(s, "oldRow") /\ UNCHANGED <<share, key, owner, run>>
    BY <2>1 DEF RowAges, Go, Moves
  <2> QED
    BY <1>4, <2>1 DEF TimeStep, OtherStep
<1>5. CASE Restart
  BY <1>5 DEF LeaveStep
<1> QED
  BY <1>1, <1>2, <1>3, <1>4, <1>5 DEF Next

-----------------------------------------------------------------------------
(* Types.                                                                  *)

LEMMA FilesOfRows ==
    ASSUME TypeOK, SlotsInv, NEW S \in SUBSET Rows
    PROVE  Files(S) \subseteq FileRecord /\ Keys(S) \subseteq Uploads
<1>1. \A s \in S : s \in Slots /\ upload[s] \in Uploads
  BY DEF TypeOK, SlotsInv, Rows, InRow
<1> QED
  BY <1>1 DEF Files, Keys, FileRecord

\* What the owner and the run read of rows has the type of their variables.
LEMMA ReadTypes ==
    ASSUME TypeOK, SlotsInv
    PROVE  /\ Files(Rows) \subseteq FileRecord
           /\ Files(OldRows) \subseteq FileRecord
           /\ \A s \in Rows : Files({s}) \subseteq FileRecord
           /\ KnownKeys \subseteq Uploads /\ Orphans \subseteq Uploads
           /\ OldParts \subseteq Uploads
<1>1. OldRows \subseteq Rows
  BY DEF OldRows, Rows, InRow
<1>2. \A s \in Rows : {s} \subseteq Rows
  OBVIOUS
<1> QED
  BY <1>1, <1>2, FilesOfRows DEF KnownKeys, Orphans, OldParts

LEMMA OtherStepTypes ==
    ASSUME TypeOK, SlotsInv, OtherStep
    PROVE  TypeOK'
<1> USE ReadTypes DEF TypeOK, Ages, storage, slots, owner, run, RunGoes
<1>1. ASSUME NEW u \in Uploads,
             \/ IssueUrl(u) \/ Put(u) \/ UrlExpires(u) \/ StartMultipart(u)
             \/ AbortMultipart(u) \/ ObjectAges(u)
      PROVE  TypeOK'
  BY <1>1 DEF IssueUrl, Put, UrlExpires, StartMultipart, AbortMultipart, ObjectAges
<1>2. ASSUME NEW u \in Uploads,
             SweepDeletesObject(u) \/ SweepAborts(u) \/ SweepKeyFails(u)
      PROVE  TypeOK'
  BY <1>2 DEF SweepDeletesObject, SweepAborts, SweepKeyFails
<1>3. CASE Close \/ Reopen \/ DeleteFileFails \/ DeleteShare
  BY <1>3 DEF Close, Reopen, DeleteFileFails, DeleteShare
<1>4. ASSUME NEW s \in Slots, DeleteFile(s)
      PROVE  TypeOK'
  BY <1>4 DEF DeleteFile
<1>5. ASSUME NEW f \in ownerHolds, DeleteFileObject(f) \/ DeleteShareObject(f)
      PROVE  TypeOK'
  BY <1>5 DEF DeleteFileObject, DeleteShareObject
<1>6. CASE RunSelects \/ RunReadsFiles \/ RunDeletesNothing \/ RunLeavesShare
  BY <1>6 DEF RunSelects, RunReadsFiles, RunDeletesNothing, RunLeavesShare
<1>7. ASSUME NEW f \in runHolds, RunDeletesObject(f) \/ SweepLooksUp(f) \/ SweepLookupFails(f)
      PROVE  TypeOK'
  BY <1>7 DEF RunDeletesObject, SweepLooksUp, SweepLookupFails, FileRecord
<1>8. CASE SweepRows \/ SweepRowFails \/ SweepReadsKeys \/ SweepLists
  BY <1>8 DEF SweepRows, SweepRowFails, SweepReadsKeys, SweepLists
<1>9. CASE SweepListsParts \/ SweepEnds \/ SweepFails
  BY <1>9 DEF SweepListsParts, SweepEnds, SweepFails
<1> QED
  BY <1>1, <1>2, <1>3, <1>4, <1>5, <1>6, <1>7, <1>8, <1>9 DEF OtherStep

LEMMA LeaveStepTypes ==
    ASSUME TypeOK, LeaveStep
    PROVE  TypeOK'
<1> USE DEF TypeOK, Ages, storage, owner, run, RunGoes, Leave
<1>1. ASSUME NEW s \in Slots, Refuse(s) \/ AssembleFails(s) \/ Discard(s) \/ DiscardFails(s)
      PROVE  TypeOK'
  BY <1>1 DEF Refuse, AssembleFails, Discard, DiscardFails
<1>2. ASSUME NEW f \in ownerHolds, DeleteFileRow(f)
      PROVE  TypeOK'
  BY <1>2 DEF DeleteFileRow
<1>3. CASE share # "gone" /\ Cascade /\ DeleteShareRows
  BY <1>3 DEF Cascade, DeleteShareRows
<1>4. CASE RunDeletesShare
  BY <1>4 DEF Cascade, RunDeletesShare
<1>5. CASE SweepDeletesRow
  BY <1>5 DEF SweepDeletesRow
<1>6. CASE Restart
  BY <1>6 DEF Restart
<1> QED
  BY <1>1, <1>2, <1>3, <1>4, <1>5, <1>6 DEF LeaveStep

LEMMA TypeStep ==
    ASSUME TypeOK, SlotsInv, Next
    PROVE  TypeOK'
<1>1. CASE UNCHANGED <<slots, share, storage, key, ownerHolds, run>> /\ ownerPc' = "idle"
  BY <1>1 DEF TypeOK, slots, storage, run
<1>2. ASSUME NEW s \in Slots,
             NEW to \in {"count", "create", "row", "validate", "register", "discard", "oldRow"},
             Moves(s, to), UNCHANGED <<share, key, owner, run>>
      PROVE  TypeOK'
  <2>1. at' \in [Slots -> {"free", "check", "count", "create", "complete", "validate",
                          "register", "discard"} \cup InRow]
    BY <1>2 DEF TypeOK, Moves, InRow
  <2>2. upload' = upload /\ parts' \in [Uploads -> Ages] /\ object' \in [Uploads -> Ages]
    BY <1>2 DEF TypeOK, Moves, Ages, storage
  <2> QED
    BY <1>2, <2>1, <2>2 DEF TypeOK, owner, run
<1>3. ASSUME NEW s \in Slots, NEW u \in Uploads,
             Begins(s, u), UNCHANGED <<share, key, storage, owner, run>>
      PROVE  TypeOK'
  BY <1>3 DEF TypeOK, Begins, storage, owner, run
<1> QED
  BY <1>1, <1>2, <1>3, Kinds, OtherStepTypes, LeaveStepTypes

-----------------------------------------------------------------------------
(* What a step does to a key and to what S3 has of it.                     *)

LEMMA OtherStepKeys ==
    ASSUME TypeOK, OtherStep, NEW k \in Uploads
    PROVE  KeyChange(k) /\ PartsChange(k) /\ ObjectChange(k)
<1> USE DEF TypeOK, KeyChange, PartsChange, ObjectChange, storage, slots, owner, run, RunGoes
<1> DEFINE Goal == KeyChange(k) /\ PartsChange(k) /\ ObjectChange(k)
<1>1. ASSUME NEW u \in Uploads,
             \/ IssueUrl(u) \/ Put(u) \/ UrlExpires(u) \/ StartMultipart(u)
             \/ AbortMultipart(u) \/ ObjectAges(u)
      PROVE  Goal
  BY <1>1 DEF IssueUrl, Put, UrlExpires, StartMultipart, AbortMultipart, ObjectAges
<1>2. ASSUME NEW u \in Uploads,
             SweepDeletesObject(u) \/ SweepAborts(u) \/ SweepKeyFails(u)
      PROVE  Goal
  BY <1>2 DEF SweepDeletesObject, SweepAborts, SweepKeyFails
<1>3. CASE Close \/ Reopen \/ DeleteFileFails \/ DeleteShare
  BY <1>3 DEF Close, Reopen, DeleteFileFails, DeleteShare
<1>4. ASSUME NEW s \in Slots, DeleteFile(s)
      PROVE  Goal
  BY <1>4 DEF DeleteFile
<1>5. ASSUME NEW f \in ownerHolds, DeleteFileObject(f) \/ DeleteShareObject(f)
      PROVE  Goal
  BY <1>5 DEF DeleteFileObject, DeleteShareObject
<1>6. CASE RunSelects \/ RunReadsFiles \/ RunDeletesNothing \/ RunLeavesShare
  BY <1>6 DEF RunSelects, RunReadsFiles, RunDeletesNothing, RunLeavesShare
<1>7. ASSUME NEW f \in runHolds, RunDeletesObject(f) \/ SweepLooksUp(f) \/ SweepLookupFails(f)
      PROVE  Goal
  BY <1>7 DEF RunDeletesObject, SweepLooksUp, SweepLookupFails
<1>8. CASE SweepRows \/ SweepRowFails \/ SweepReadsKeys \/ SweepLists
  BY <1>8 DEF SweepRows, SweepRowFails, SweepReadsKeys, SweepLists
<1>9. CASE SweepListsParts \/ SweepEnds \/ SweepFails
  BY <1>9 DEF SweepListsParts, SweepEnds, SweepFails
<1> QED
  BY <1>1, <1>2, <1>3, <1>4, <1>5, <1>6, <1>7, <1>8, <1>9 DEF OtherStep

LEMMA LeaveStepKeys ==
    ASSUME TypeOK, LeaveStep, NEW k \in Uploads
    PROVE  /\ key' = key /\ parts' = parts
           /\ object'[k] \in {object[k], "none"}
           /\ object'[k] # object[k] => \E s \in Slots : at[s] = "discard" /\ upload[s] = k
<1>1. ASSUME NEW s \in Slots, Discard(s)
      PROVE  /\ key' = key /\ parts' = parts
             /\ object'[k] \in {object[k], "none"}
             /\ object'[k] # object[k] => at[s] = "discard" /\ upload[s] = k
  BY <1>1 DEF Discard, TypeOK
<1>2. ASSUME ~\E s \in Slots : Discard(s)
      PROVE  UNCHANGED <<key, storage>>
  BY <1>2 DEF LeaveStep, Refuse, AssembleFails, DiscardFails, DeleteFileRow, Cascade,
              RunDeletesShare, SweepDeletesRow, Restart
<1> QED
  BY <1>1, <1>2 DEF storage

LEMMA KeySteps ==
    ASSUME TypeOK, SlotsInv, Next, NEW k \in Uploads
    PROVE  KeyChange(k) /\ PartsChange(k) /\ ObjectChange(k)
<1> USE DEF KeyChange, PartsChange, ObjectChange
<1>1. CASE LeaveStep
  BY <1>1, LeaveStepKeys
<1>2. ASSUME NEW s \in Slots,
             NEW to \in {"count", "create", "row", "validate", "register", "discard", "oldRow"},
             Moves(s, to), UNCHANGED <<share, key, owner, run>>
      PROVE  KeyChange(k) /\ PartsChange(k) /\ ObjectChange(k)
  BY <1>2 DEF Moves, storage, TypeOK
<1> QED
  BY <1>1, <1>2, Kinds, OtherStepKeys DEF storage

-----------------------------------------------------------------------------
(* The parts of the invariant, one lemma each.                             *)

\* What any step does to the slots.
LEMMA SlotSteps ==
    ASSUME TypeOK, SlotsInv, Next
    PROVE  \/ UNCHANGED slots /\ (share' = "gone" => share = "gone")
           \/ \E S \in SUBSET Slots :
                /\ Leave(S)
                /\ share' # share => share' = "gone" /\ Rows \subseteq S
           \/ \E s \in Slots, to \in {"count", "create", "row", "validate", "register",
                                      "discard", "oldRow"} :
                Moves(s, to) /\ UNCHANGED <<share, key, owner, run>>
           \/ \E s \in Slots, u \in Uploads :
                Begins(s, u) /\ UNCHANGED <<share, key, storage, owner, run>>
<1>1. CASE OtherStep
  <2>1. share' = "gone" => share = "gone"
    BY <1>1 DEF OtherStep, IssueUrl, Put, UrlExpires, StartMultipart, AbortMultipart,
       ObjectAges, SweepDeletesObject, SweepAborts, SweepKeyFails, Close, Reopen,
       DeleteFileFails, DeleteShare, DeleteFile, DeleteFileObject, DeleteShareObject,
       RunSelects, RunReadsFiles, RunDeletesNothing, RunLeavesShare, RunDeletesObject, SweepLooksUp,
       SweepLookupFails, SweepRows, SweepRowFails, SweepReadsKeys, SweepLists,
       SweepListsParts, SweepEnds, SweepFails
  <2> QED
    BY <1>1, <2>1, OtherSteps
<1>2. CASE LeaveStep
  BY <1>2, LeaveSteps
<1> QED
  BY <1>1, <1>2, Kinds

LEMMA SlotsStep ==
    ASSUME TypeOK, SlotsInv, Next
    PROVE  SlotsInv'
<1>1. \A k \in Uploads : /\ key[k] = "multi" => key'[k] = "multi"
                         /\ key[k] \in {"url", "spent"} => key'[k] \in {"url", "spent"}
  BY KeySteps DEF KeyChange
<1>2. \A s \in Slots : at[s] # "free" => upload[s] \in Uploads
  BY DEF TypeOK, SlotsInv
<1>3. CASE UNCHANGED slots
  BY <1>1, <1>2, <1>3 DEF SlotsInv, slots
<1>4. ASSUME NEW S \in SUBSET Slots, Leave(S)
      PROVE  SlotsInv'
  BY <1>1, <1>2, <1>4 DEF SlotsInv, Leave
<1>5. ASSUME NEW s \in Slots,
             NEW to \in {"count", "create", "row", "validate", "register", "discard", "oldRow"},
             Moves(s, to), UNCHANGED <<share, key, owner, run>>
      PROVE  SlotsInv'
  BY <1>1, <1>2, <1>5 DEF SlotsInv, Moves, TypeOK
<1>6. ASSUME NEW s \in Slots, NEW u \in Uploads,
             Begins(s, u), UNCHANGED <<share, key, storage, owner, run>>
      PROVE  SlotsInv'
  BY <1>1, <1>2, <1>6, UploadsAssumption, SlotsAssumption DEF SlotsInv, Begins, TypeOK, Slots
<1> QED
  BY <1>3, <1>4, <1>5, <1>6, SlotSteps

LEMMA PartsStep ==
    ASSUME TypeOK, SlotsInv, PartsInv, Next
    PROVE  PartsInv'
BY KeySteps DEF PartsInv, KeyChange, PartsChange, ObjectChange, TypeOK

LEMMA CompletionStep ==
    ASSUME TypeOK, SlotsInv, CompletionInv, Next
    PROVE  CompletionInv'
<1>1. \A k \in Uploads : key[k] = "multi" /\ parts[k] = "none" => parts'[k] = "none"
  BY KeySteps DEF PartsChange
<1>2. \A s \in Assembled : /\ upload[s] \in Uploads /\ key[upload[s]] = "multi"
                           /\ parts'[upload[s]] = "none"
  BY <1>1 DEF Assembled, SlotsInv, CompletionInv, TypeOK, InRow, Slots
<1>3. ASSUME Assembled' \subseteq Assembled, \A s \in Assembled' : upload'[s] = upload[s]
      PROVE  CompletionInv'
  BY <1>2, <1>3 DEF CompletionInv
<1>4. CASE UNCHANGED slots
  BY <1>3, <1>4 DEF slots, Assembled
<1>5. ASSUME NEW S \in SUBSET Slots, Leave(S)
      PROVE  CompletionInv'
  BY <1>3, <1>5 DEF Leave, Assembled, InRow, Slots
<1>6. ASSUME NEW s \in Slots,
             NEW to \in {"count", "create", "row", "validate", "register", "discard", "oldRow"},
             Moves(s, to)
      PROVE  CompletionInv'
  <2>1. \A r \in Slots : at'[r] = IF r = s THEN to ELSE at[r]
    BY <1>6 DEF Moves, TypeOK
  <2>2. upload' = upload
    BY <1>6 DEF Moves
  <2>3. CASE at[s] = "complete"
    <3>1. /\ s \in Multi /\ upload[s] \in Uploads
          /\ parts[upload[s]] # "none" /\ parts'[upload[s]] = "none"
      BY <1>6, <2>3 DEF Moves, SlotsInv, TypeOK
    <3>2. \A r \in Assembled : upload[r] # upload[s]
      BY <3>1 DEF CompletionInv
    <3>3. Assembled' \subseteq Assembled \cup {s}
      BY <2>1 DEF Assembled, Slots
    <3> QED
      BY <1>2, <2>2, <3>1, <3>2, <3>3 DEF CompletionInv
  <2>4. CASE at[s] # "complete"
    <3>1. s \in Multi /\ to \in {"validate", "register", "discard"} \cup InRow
            => at[s] \in {"validate", "register", "discard"} \cup InRow
      BY <1>6, <2>4, SlotsAssumption DEF Moves, SlotsInv, InRow
    <3>2. Assembled' \subseteq Assembled
      BY <2>1, <3>1 DEF Assembled, Slots
    <3> QED
      BY <1>3, <2>2, <3>2
  <2> QED
    BY <2>3, <2>4
<1>7. ASSUME NEW s \in Slots, NEW u \in Uploads, Begins(s, u)
      PROVE  CompletionInv'
  <2>1. /\ \A r \in Slots : r # s => at'[r] = at[r] /\ upload'[r] = upload[r]
        /\ at'[s] \in {"check", "complete"}
    BY <1>7 DEF Begins, TypeOK
  <2> QED
    BY <1>3, <2>1 DEF Assembled, InRow, Slots
<1> QED
  BY <1>4, <1>5, <1>6, <1>7, SlotSteps

\* What any step does to the run.
LEMMA RunSteps ==
    ASSUME Next
    PROVE  \/ /\ runPc' = runPc /\ runKeys' \subseteq runKeys
              /\ runPc = "list" => runKeys' = runKeys
           \/ SweepReadsKeys \/ SweepLists \/ SweepListsParts
           \/ RunDeletesShare
           \/ runPc' \notin {"list", "orphans", "aborts", "objects"}
<1> USE DEF run, RunGoes
<1>1. CASE UploaderStep
  BY <1>1 DEF UploaderStep, IssueUrl, Put, UrlExpires, StartMultipart, AbortMultipart,
     Register, Complete, Check, Count, Create, Refuse, Assemble, AssembleFails, Validate,
     Reject, CreateAtomic, CreateFails, Discard, DiscardFails
<1>2. CASE OwnerStep
  BY <1>2 DEF OwnerStep, Close, Reopen, DeleteFile, DeleteFileObject, DeleteFileRow,
     DeleteShareObject, DeleteFileFails, DeleteShare, DeleteShareRows
<1>3. CASE RunStep
  BY <1>3 DEF RunStep, RunSelects, RunReadsFiles, RunDeletesNothing, RunLeavesShare, RunDeletesObject,
     SweepLooksUp, SweepLookupFails, SweepRows, SweepRowFails, SweepDeletesRow,
     SweepDeletesObject, SweepAborts, SweepKeyFails, SweepEnds, SweepFails
<1>4. CASE TimeStep \/ Restart
  BY <1>4 DEF TimeStep, ObjectAges, RowAges, Restart
<1> QED
  BY <1>1, <1>2, <1>3, <1>4 DEF Next

LEMMA ShareStep ==
    ASSUME TypeOK, SlotsInv, ShareInv, Next
    PROVE  ShareInv'
<1>1. share = "gone" => share' = "gone"
  <2>1. CASE LeaveStep
    BY <2>1, LeaveSteps
  <2>2. CASE OtherStep
    BY <2>2 DEF OtherStep, IssueUrl, Put, UrlExpires, StartMultipart, AbortMultipart,
       ObjectAges, SweepDeletesObject, SweepAborts, SweepKeyFails, Close, Reopen,
       DeleteFileFails, DeleteShare, DeleteFile, DeleteFileObject, DeleteShareObject,
       RunSelects, RunReadsFiles, RunDeletesNothing, RunLeavesShare, RunDeletesObject, SweepLooksUp,
       SweepLookupFails, SweepRows, SweepRowFails, SweepReadsKeys, SweepLists,
       SweepListsParts, SweepEnds, SweepFails
  <2> QED
    BY <2>1, <2>2, Kinds
<1>2. share' = "gone" => Rows' = {}
  <2>1. CASE UNCHANGED slots /\ (share' = "gone" => share = "gone")
    BY <2>1 DEF ShareInv, slots, Rows
  <2>2. ASSUME NEW S \in SUBSET Slots, Leave(S),
               share' # share => share' = "gone" /\ Rows \subseteq S
        PROVE  share' = "gone" => Rows' = {}
    BY <2>2 DEF ShareInv, Leave, Rows, InRow
  <2>3. ASSUME NEW s \in Slots,
               NEW to \in {"count", "create", "row", "validate", "register", "discard", "oldRow"},
               Moves(s, to), UNCHANGED <<share, key, owner, run>>
        PROVE  share' = "gone" => Rows' = {}
    <3>1. \A r \in Slots : at'[r] = IF r = s THEN to ELSE at[r]
      BY <2>3 DEF Moves, TypeOK
    <3>2. share = "gone" => to \notin InRow
      BY <2>3 DEF Moves, ShareInv, Rows, InRow
    <3> QED
      BY <2>3, <3>1, <3>2 DEF ShareInv, Rows
  <2>4. ASSUME NEW s \in Slots, NEW u \in Uploads,
               Begins(s, u), UNCHANGED <<share, key, storage, owner, run>>
        PROVE  share' # "gone"
    BY <2>4 DEF Begins
  <2> QED
    BY <2>1, <2>2, <2>3, <2>4, SlotSteps
<1>3. runPc' = "objects" => share' = "gone"
  BY <1>1, RunSteps DEF ShareInv, SweepReadsKeys, SweepLists, SweepListsParts,
     RunDeletesShare, RunGoes, Cascade
<1> QED
  BY <1>2, <1>3 DEF ShareInv

\* No row turns old during a sweep.
LEMMA OldRowSteps ==
    ASSUME TypeOK, SlotsInv, Next, Sweeping
    PROVE  \A s \in OldRows' : s \in OldRows /\ upload'[s] = upload[s]
<1>1. CASE UNCHANGED slots
  BY <1>1 DEF slots, OldRows
<1>2. ASSUME NEW S \in SUBSET Slots, Leave(S)
      PROVE  \A s \in OldRows' : s \in OldRows /\ upload'[s] = upload[s]
  BY <1>2 DEF Leave, OldRows
<1>3. ASSUME NEW r \in Slots,
             NEW to \in {"count", "create", "row", "validate", "register", "discard", "oldRow"},
             Moves(r, to)
      PROVE  \A s \in OldRows' : s \in OldRows /\ upload'[s] = upload[s]
  BY <1>3 DEF Moves, OldRows, TypeOK
<1>4. ASSUME NEW r \in Slots, NEW u \in Uploads, Begins(r, u)
      PROVE  \A s \in OldRows' : s \in OldRows /\ upload'[s] = upload[s]
  BY <1>4 DEF Begins, OldRows, TypeOK
<1> QED
  BY <1>1, <1>2, <1>3, <1>4, SlotSteps

LEMMA SweepStep ==
    ASSUME TypeOK, SlotsInv, PartsInv, SweepInv, Next
    PROVE  SweepInv'
<1>1. runKeys \subseteq Uploads
  BY DEF TypeOK
<1>2. CASE runPc' = runPc /\ runKeys' \subseteq runKeys /\ (runPc = "list" => runKeys' = runKeys)
  <2>1. runPc \in {"list", "orphans", "aborts"} => Keys(OldRows)' \subseteq Keys(OldRows)
    BY OldRowSteps DEF Sweeping, Keys
  <2>2. runPc = "orphans" => \A u \in runKeys :
            /\ key'[u] # "unissued"
            /\ key'[u] = "multi" => object'[u] # "young" /\ parts'[u] = "none"
    BY <1>1, KeySteps DEF SweepInv, KeyChange, PartsChange, ObjectChange
  <2>3. runPc = "aborts" => \A u \in runKeys : key'[u] = "multi" /\ parts'[u] # "young"
    BY <1>1, KeySteps DEF SweepInv, KeyChange, PartsChange
  <2> QED
    BY <1>2, <2>1, <2>2, <2>3 DEF SweepInv
<1>3. CASE SweepReadsKeys
  <2>1. OldRows \subseteq Rows
    BY DEF OldRows, Rows, InRow
  <2> QED
    BY <1>3, <2>1 DEF SweepReadsKeys, SweepInv, RunGoes, KnownKeys, Keys, OldRows, slots
<1>4. CASE SweepLists
  <2>1. runKeys' \cap Keys(OldRows)' = {}
    BY <1>4 DEF SweepLists, SweepInv, RunGoes, Orphans, Keys, OldRows, slots
  <2>2. \A u \in runKeys' : /\ key'[u] # "unissued"
                            /\ key'[u] = "multi" => object'[u] # "young" /\ parts'[u] = "none"
    BY <1>4 DEF SweepLists, PartsInv, Orphans, storage, TypeOK, Ages
  <2>3. runPc' = "orphans"
    BY <1>4 DEF SweepLists, RunGoes
  <2> QED
    BY <2>1, <2>2, <2>3 DEF SweepInv
<1>5. CASE SweepListsParts
  BY <1>5 DEF SweepListsParts, SweepInv, RunGoes, PartsInv, OldParts, storage
<1>6. CASE RunDeletesShare
  BY <1>6 DEF RunDeletesShare, RunGoes, SweepInv
<1>7. CASE runPc' \notin {"list", "orphans", "aborts", "objects"}
  BY <1>7 DEF SweepInv
<1> QED
  BY <1>2, <1>3, <1>4, <1>5, <1>6, <1>7, RunSteps

-----------------------------------------------------------------------------
(* The invariant.                                                          *)

LEMMA StorageInit ==
    ASSUME Init
    PROVE  StorageInv
<1>1. Rows = {} /\ Assembled = {}
  BY DEF Init, Rows, Assembled, InRow, Slots
<1>2. TypeOK
  BY DEF Init, TypeOK, Ages
<1> QED
  BY <1>1, <1>2
  DEF Init, StorageInv, SlotsInv, PartsInv, CompletionInv, ShareInv, SweepInv

LEMMA StorageStep ==
    ASSUME StorageInv, [Next]_vars
    PROVE  StorageInv'
<1>1. CASE Next
  BY <1>1, TypeStep, SlotsStep, PartsStep, CompletionStep, ShareStep, SweepStep
  DEF StorageInv
<1>2. CASE UNCHANGED vars
  BY <1>2 DEF vars, storage, slots, owner, run, StorageInv, TypeOK, SlotsInv, PartsInv,
     CompletionInv, Assembled, ShareInv, SweepInv, Rows, OldRows, Keys
<1> QED
  BY <1>1, <1>2

\* Keys, parts, objects, slots and the cleanup run keep the relations of
\* StorageInv, whatever the uploaders, the owner and the run interleave.
THEOREM StorageInvariant == Spec => []StorageInv
BY StorageInit, StorageStep, PTL DEF Spec

-----------------------------------------------------------------------------
(* The limit of files.                                                     *)

LEMMA SlotsFinite ==
    /\ IsFiniteSet(Slots)
    /\ \A S \in SUBSET Slots : IsFiniteSet(S) /\ Cardinality(S) \in Nat
<1>1. IsFiniteSet(Slots)
  BY SlotsAssumption, FS_Union DEF Slots
<1> QED
  BY <1>1, FS_Subset, FS_CardinalityType

\* What a step adds to the rows: nothing, or one row, a completion's only below
\* the limit.
LEMMA RowAdded ==
    ASSUME TypeOK, SlotsInv, Next
    PROVE  \/ Rows' \subseteq Rows /\ Counted' \subseteq Counted
           \/ Rows' \subseteq Rows /\ ~Full
           \/ \E s \in Counted \ Rows : Rows' = Rows \cup {s} /\ Counted' = Counted \ {s}
           \/ \E s \in Slots : Rows' \subseteq Rows \cup {s} /\ ~Full
<1>1. CASE UNCHANGED slots
  BY <1>1 DEF slots, Rows, Counted
<1>2. ASSUME NEW S \in SUBSET Slots, Leave(S)
      PROVE  Rows' \subseteq Rows /\ Counted' \subseteq Counted
  BY <1>2 DEF Leave, Rows, Counted, InRow, Slots
<1>3. ASSUME NEW s \in Slots, NEW u \in Uploads, Begins(s, u)
      PROVE  Rows' \subseteq Rows /\ Counted' \subseteq Counted
  BY <1>3 DEF Begins, Rows, Counted, InRow, Slots, TypeOK
<1>4. ASSUME NEW s \in Slots,
             NEW to \in {"count", "create", "row", "validate", "register", "discard", "oldRow"},
             Moves(s, to)
      PROVE  \/ Rows' \subseteq Rows /\ Counted' \subseteq Counted
             \/ s \in Counted \ Rows /\ Rows' = Rows \cup {s} /\ Counted' = Counted \ {s}
             \/ Rows' \subseteq Rows \cup {s} /\ ~Full
  <2>1. \A r \in Slots : at'[r] = IF r = s THEN to ELSE at[r]
    BY <1>4 DEF Moves, TypeOK
  <2>2. CASE ~Full
    BY <2>1, <2>2 DEF Rows
  <2>3. CASE at[s] = "create"
    <3>1. s \in Counted /\ s \notin Rows /\ to = "row"
      BY <1>4, <2>3 DEF Moves, SlotsInv, Counted, Rows, InRow
    <3> QED
      BY <2>1, <3>1 DEF Rows, Counted, InRow, Slots
  <2>4. CASE Full /\ at[s] # "create"
    <3>1. to # "create" /\ (to \in InRow => at[s] \in InRow)
      BY <1>4, <2>4 DEF Moves, InRow
    <3> QED
      BY <2>1, <3>1 DEF Rows, Counted, Slots
  <2> QED
    BY <2>2, <2>3, <2>4
<1> QED
  BY <1>1, <1>2, <1>3, <1>4, SlotSteps

\* Rows and registrations keep their history.
LEMMA OvertakenKept ==
    ASSUME TypeOK, Record
    PROVE  /\ \A s \in overtaken \cap Slots : at'[s] # "free" => s \in overtaken'
           /\ Rows' \ overtaken' \subseteq Slots
           /\ ~(Rows' \subseteq Rows) => Counted' \subseteq overtaken'
BY DEF Record, Rows, Counted, Slots

LEMMA LimitStep ==
    ASSUME TypeOK, SlotsInv, LimitInv, Next, Record
    PROVE  LimitInv'
<1> DEFINE Regular == Rows \ overtaken
<1> SUFFICES ASSUME MaxFiles # 0
             PROVE  /\ Cardinality(Regular') <= MaxFiles
                    /\ Counted' \subseteq overtaken' \/ Cardinality(Rows') < MaxFiles
  BY DEF LimitInv
<1>1. /\ Rows \subseteq Slots /\ Rows' \subseteq Slots
      /\ Counted \subseteq Slots /\ Counted' \subseteq Slots
  BY DEF Rows, Counted, Slots
<1>2. /\ IsFiniteSet(Rows) /\ Cardinality(Rows) \in Nat
      /\ IsFiniteSet(Rows') /\ Cardinality(Rows') \in Nat
      /\ IsFiniteSet(Regular) /\ Cardinality(Regular) \in Nat
      /\ IsFiniteSet(Regular') /\ Cardinality(Regular') \in Nat
      /\ MaxFiles \in Nat
  BY <1>1, SlotsFinite, MaxFilesAssumption
<1>3. /\ Cardinality(Regular) <= MaxFiles
      /\ Counted \subseteq overtaken \/ Cardinality(Rows) < MaxFiles
  BY DEF LimitInv
<1>4. /\ \A s \in Slots : s \in overtaken /\ at'[s] # "free" => s \in overtaken'
      /\ ~(Rows' \subseteq Rows) => Counted' \subseteq overtaken'
  BY OvertakenKept
<1>5. \A s \in Rows' \cup Counted' : at'[s] # "free"
  BY DEF Rows, Counted, InRow
<1>6. ASSUME Rows' \subseteq Rows
      PROVE  Cardinality(Rows') <= Cardinality(Rows) /\ Cardinality(Regular') <= MaxFiles
  <2>1. Regular' \subseteq Regular
    BY <1>1, <1>4, <1>5, <1>6
  <2>2. /\ Cardinality(Regular') <= Cardinality(Regular)
        /\ Cardinality(Rows') <= Cardinality(Rows)
    BY <1>2, <1>6, <2>1, FS_Subset
  <2> QED
    BY <1>2, <1>3, <2>2
<1>7. CASE Rows' \subseteq Rows /\ Counted' \subseteq Counted
  <2>1. Counted \subseteq overtaken => Counted' \subseteq overtaken'
    BY <1>1, <1>4, <1>5, <1>7
  <2> QED
    BY <1>2, <1>3, <1>6, <1>7, <2>1
<1>8. CASE Rows' \subseteq Rows /\ ~Full
  BY <1>2, <1>6, <1>8 DEF Full
<1>9. ASSUME NEW s \in Slots, Rows' \subseteq Rows \cup {s}, ~Full
      PROVE  /\ Cardinality(Regular') <= MaxFiles
             /\ Counted' \subseteq overtaken' \/ Cardinality(Rows') < MaxFiles
  <2>1. CASE Rows' \subseteq Rows
    BY <1>8, <1>9, <2>1
  <2>2. CASE ~(Rows' \subseteq Rows)
    <3>1. /\ IsFiniteSet(Rows \cup {s})
          /\ \/ Cardinality(Rows \cup {s}) = Cardinality(Rows) + 1
             \/ Cardinality(Rows \cup {s}) = Cardinality(Rows)
      BY <1>2, FS_AddElement
    <3>2. Regular' \subseteq Rows \cup {s}
      BY <1>9
    <3>3. Cardinality(Regular') <= Cardinality(Rows \cup {s})
      BY <3>1, <3>2, FS_Subset
    <3> QED
      BY <1>2, <1>4, <1>9, <2>2, <3>1, <3>3 DEF Full
  <2> QED
    BY <2>1, <2>2
<1>10. ASSUME NEW s \in Counted \ Rows, Rows' = Rows \cup {s}
       PROVE  /\ Cardinality(Regular') <= MaxFiles
              /\ Counted' \subseteq overtaken' \/ Cardinality(Rows') < MaxFiles
  <2>1. CASE s \in overtaken
    <3>1. Regular' \subseteq Regular
      BY <1>1, <1>4, <1>5, <1>10, <2>1
    <3>2. Cardinality(Regular') <= Cardinality(Regular)
      BY <1>2, <3>1, FS_Subset
    <3> QED
      BY <1>2, <1>3, <1>4, <1>10, <3>2
  <2>2. CASE s \notin overtaken
    <3>1. ~Full /\ s \in Slots
      BY <1>1, <1>2, <1>3, <1>10, <2>2 DEF Full
    <3> QED
      BY <1>9, <1>10, <3>1
  <2> QED
    BY <2>1, <2>2
<1> QED
  BY <1>7, <1>8, <1>9, <1>10, RowAdded

LEMMA HistoryInvInit == Init /\ HistoryInit => HistoryInv
<1> SUFFICES ASSUME Init, HistoryInit PROVE HistoryInv
  OBVIOUS
<1>1. Rows = {} /\ Counted = {}
  BY DEF Init, Rows, Counted, InRow, Slots
<1>2. LimitInv
  <2>1. Rows \ overtaken = {}
    BY <1>1
  <2> QED
    BY <1>1, <2>1, FS_EmptySet, MaxFilesAssumption DEF LimitInv
<1> QED
  BY <1>2, StorageInit DEF HistoryInv

LEMMA HistoryInvStep == HistoryInv /\ [Next /\ Record]_<<vars, overtaken>> => HistoryInv'
<1> SUFFICES ASSUME HistoryInv, [Next /\ Record]_<<vars, overtaken>> PROVE HistoryInv'
  OBVIOUS
<1>1. StorageInv /\ LimitInv /\ StorageInv'
  BY StorageStep DEF HistoryInv
<1>2. CASE Next /\ Record
  BY <1>1, <1>2, LimitStep DEF HistoryInv, StorageInv
<1>3. CASE UNCHANGED <<vars, overtaken>>
  BY <1>1, <1>3 DEF vars, slots, HistoryInv, LimitInv, Counted, Rows
<1> QED
  BY <1>2, <1>3

\* The inductive invariant: what registerFileUpload has counted holds until another
\* file is created, and the files of those who were not overtaken fit the limit.
THEOREM LimitInvariant == HistorySpec => []HistoryInv
BY HistoryInvInit, HistoryInvStep, PTL DEF HistorySpec

\* However completions, registrations, deletions and restarts interleave, a share for
\* MaxFiles files has no more of them than that, leaving out direct registrations
\* that another file was created in between.
THEOREM LimitKept == HistorySpec => []FilesWithinLimit
<1>1. HistoryInv => FilesWithinLimit
  BY DEF HistoryInv, LimitInv, FilesWithinLimit
<1> QED
  BY <1>1, LimitInvariant, PTL

-----------------------------------------------------------------------------
(* What the steps may do to the objects.                                   *)

\* The steps that remove an object: by whom, and from where.
LEMMA Removals ==
    ASSUME TypeOK, SlotsInv, Next, NEW k \in Uploads, object[k] # "none", object'[k] = "none"
    PROVE  \/ \E f \in ownerHolds : f.key = k
           \/ runPc = "objects"
           \/ runPc = "orphans" /\ k \in runKeys
           \/ \E s \in Multi : at[s] = "discard" /\ upload[s] = k
<1> USE DEF TypeOK, storage, slots, owner, run, RunGoes
<1> DEFINE Goal == \/ \E f \in ownerHolds : f.key = k
                   \/ runPc = "objects"
                   \/ runPc = "orphans" /\ k \in runKeys
                   \/ \E s \in Multi : at[s] = "discard" /\ upload[s] = k
<1>1. CASE LeaveStep
  BY <1>1, LeaveStepKeys DEF SlotsInv
<1>2. ASSUME NEW s \in Slots,
             NEW to \in {"count", "create", "row", "validate", "register", "discard", "oldRow"},
             Moves(s, to)
      PROVE  Goal
  BY <1>2 DEF Moves
<1>3. CASE OtherStep
  <2>1. ASSUME NEW u \in Uploads,
               \/ IssueUrl(u) \/ Put(u) \/ UrlExpires(u) \/ StartMultipart(u)
               \/ AbortMultipart(u) \/ ObjectAges(u)
        PROVE  Goal
    BY <2>1 DEF IssueUrl, Put, UrlExpires, StartMultipart, AbortMultipart, ObjectAges
  <2>2. ASSUME NEW u \in Uploads, SweepDeletesObject(u) \/ SweepAborts(u) \/ SweepKeyFails(u)
        PROVE  Goal
    BY <2>2 DEF SweepDeletesObject, SweepAborts, SweepKeyFails
  <2>3. ASSUME NEW f \in ownerHolds, DeleteFileObject(f) \/ DeleteShareObject(f)
        PROVE  Goal
    BY <2>3 DEF DeleteFileObject, DeleteShareObject
  <2>4. ASSUME NEW f \in runHolds, RunDeletesObject(f) \/ SweepLooksUp(f) \/ SweepLookupFails(f)
        PROVE  Goal
    BY <2>4 DEF RunDeletesObject, SweepLooksUp, SweepLookupFails
  <2>5. CASE UNCHANGED object
    BY <2>5
  <2> QED
    BY <1>3, <2>1, <2>2, <2>3, <2>4, <2>5 DEF OtherStep, Close, Reopen, DeleteFileFails,
       DeleteShare, DeleteFile, RunSelects, RunReadsFiles, RunDeletesNothing, RunLeavesShare, SweepRows,
       SweepRowFails, SweepReadsKeys, SweepLists, SweepListsParts, SweepEnds, SweepFails
<1> QED
  BY <1>1, <1>2, <1>3, Kinds

\* The object of a row is only ever deleted on behalf of the owner or, when the
\* row is younger than its object, by a sweep that read the keys in use before:
\* not by a rejected upload, not by the deletion of another share's files, and
\* not by a sweep whose listing has gone stale.
THEOREM ReferencesKept == Spec => ReferencedObjectsAreKept
<1>1. ASSUME StorageInv, Next, NEW s \in Rows,
             object[upload[s]] # "none", object'[upload[s]] = "none"
      PROVE  \/ \E f \in ownerHolds : f.key = upload[s]
             \/ runPc = "orphans" /\ at[s] = "row"
  <2>1. TypeOK /\ SlotsInv /\ CompletionInv /\ ShareInv /\ SweepInv
    BY <1>1 DEF StorageInv
  <2>2. s \in Slots /\ upload[s] \in Uploads /\ at[s] \in InRow
    BY <2>1 DEF Rows, TypeOK, SlotsInv, InRow
  <2>3. runPc # "objects"
    BY <1>1, <2>1 DEF ShareInv
  <2>4. runPc = "orphans" /\ upload[s] \in runKeys => at[s] = "row"
    BY <2>1, <2>2 DEF SweepInv, Keys, OldRows, InRow
  <2>5. \A r \in Multi : ~(at[r] = "discard" /\ upload[r] = upload[s])
    <3>1. SUFFICES ASSUME NEW r \in Multi, at[r] = "discard", upload[r] = upload[s]
                   PROVE  FALSE
      OBVIOUS
    <3>2. r \in Slots /\ r # s /\ r \in Assembled /\ key[upload[s]] = "multi"
      BY <2>1, <2>2, <3>1 DEF Slots, InRow, Assembled, SlotsInv
    <3>3. s \in Multi /\ s \in Assembled
      BY <2>1, <2>2, <3>2 DEF SlotsInv, InRow, Slots, Assembled
    <3> QED
      BY <2>1, <3>1, <3>2, <3>3 DEF CompletionInv
  <2> QED
    BY <1>1, <2>1, <2>2, <2>3, <2>4, <2>5, Removals
<1>2. ASSUME StorageInv, [Next]_vars
      PROVE  [\A s \in Rows : object[upload[s]] # "none" /\ object'[upload[s]] = "none"
                => \/ \E f \in ownerHolds : f.key = upload[s]
                   \/ runPc = "orphans" /\ at[s] = "row"]_vars
  BY <1>1, <1>2
<1> QED
  BY <1>2, StorageInvariant, PTL DEF Spec, ReferencedObjectsAreKept

\* No step of the sweep harms a multipart upload that is younger than its
\* cutoff, whether its parts are still arriving or its object awaits its row.
THEOREM YoungSpared == Spec => YoungUploadsAreSpared
<1>1. ASSUME StorageInv, Next, NEW u \in Uploads, key[u] = "multi", runKeys' # runKeys
      PROVE  /\ object[u] = "young" => object'[u] = "young"
             /\ parts[u] = "young" => parts'[u] = "young"
  <2>1. \/ UNCHANGED storage
        \/ \E k \in Uploads : SweepDeletesObject(k) \/ SweepAborts(k)
    <3> USE DEF run, storage
    <3>1. CASE UploaderStep
      BY <1>1, <3>1 DEF UploaderStep, IssueUrl, Put, UrlExpires, StartMultipart,
         AbortMultipart, Register, Complete, Check, Count, Create, Refuse, Assemble,
         AssembleFails, Validate, Reject, CreateAtomic, CreateFails, Discard, DiscardFails
    <3>2. CASE OwnerStep
      BY <1>1, <3>2 DEF OwnerStep, Close, Reopen, DeleteFile, DeleteFileObject,
         DeleteFileRow, DeleteShareObject, DeleteFileFails, DeleteShare, DeleteShareRows
    <3>3. CASE RunStep
      BY <1>1, <3>3 DEF RunStep, RunSelects, RunReadsFiles, RunDeletesShare, RunDeletesNothing,
         RunLeavesShare, RunDeletesObject, SweepLooksUp, SweepLookupFails, SweepRows,
         SweepRowFails, SweepDeletesRow, SweepReadsKeys, SweepLists, SweepKeyFails,
         SweepListsParts, SweepEnds, SweepFails
    <3>4. CASE TimeStep \/ Restart
      BY <1>1, <3>4 DEF TimeStep, ObjectAges, RowAges, Restart
    <3> QED
      BY <1>1, <3>1, <3>2, <3>3, <3>4 DEF Next
  <2>2. ASSUME NEW k \in Uploads, SweepDeletesObject(k) \/ SweepAborts(k)
        PROVE  /\ object[u] = "young" => object'[u] = "young"
               /\ parts[u] = "young" => parts'[u] = "young"
    BY <1>1, <2>2 DEF SweepDeletesObject, SweepAborts, StorageInv, SweepInv, TypeOK
  <2> QED
    BY <2>1, <2>2 DEF storage
<1>2. ASSUME StorageInv, [Next]_vars
      PROVE  [\A u \in Uploads : key[u] = "multi" /\ runKeys' # runKeys
                => /\ object[u] = "young" => object'[u] = "young"
                   /\ parts[u] = "young" => parts'[u] = "young"]_vars
  BY <1>1, <1>2
<1> QED
  BY <1>2, StorageInvariant, PTL DEF Spec, YoungUploadsAreSpared
=============================================================================
