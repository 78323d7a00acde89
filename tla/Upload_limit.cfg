\* Two completions and a direct registration on a share for one file.
CONSTANTS
    Uploads = {u1, u2}
    Direct = {d1}
    Multi = {m1, m2}
    NoUpload = NoUpload
    NoSlot = NoSlot
    MaxFiles = 1
SPECIFICATION MCSpec
INVARIANTS
    FilesWithinLimit
PROPERTIES
    ReferencedObjectsAreKept
    YoungUploadsAreSpared
SYMMETRY Symmetry
