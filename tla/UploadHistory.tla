---------------------------- MODULE UploadHistory ----------------------------
(***************************************************************************)
(* UploadStorage with a history variable, and the limit of files.          *)
(***************************************************************************)
EXTENDS UploadStorage

VARIABLE
    overtaken  \* direct registrations, and the rows they became, that another file
               \* was created after their count and before their own creation

HistoryInit == overtaken = {}

Record ==
    overtaken' = {s \in Slots : /\ at'[s] # "free"
                                /\ \/ s \in overtaken
                                   \/ at'[s] = "create" /\ ~(Rows' \subseteq Rows)}

HistorySpec == Init /\ HistoryInit /\ [][Next /\ Record]_<<vars, overtaken>>

-----------------------------------------------------------------------------
(* The inductive invariant behind the property below, in named parts.      *)

\* Direct registrations that are past their count.
Counted == {s \in Direct : at[s] = "create"}

\* What was counted holds until somebody else creates a file.
LimitInv == MaxFiles # 0 =>
    /\ Cardinality(Rows \ overtaken) <= MaxFiles
    /\ Counted \subseteq overtaken \/ Cardinality(Rows) < MaxFiles

HistoryInv ==
    /\ StorageInv
    /\ LimitInv

-----------------------------------------------------------------------------
(* Properties.                                                             *)

\* "Two concurrent completions cannot both slip past a single-slot limit", and neither
\* can anything else: the only files beyond maxFiles are those of direct registrations
\* (registerFileUpload), which count and create in two steps, and only of those that
\* another file was created in between.
FilesWithinLimit == MaxFiles # 0 => Cardinality(Rows \ overtaken) <= MaxFiles
=============================================================================
