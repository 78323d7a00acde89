\* One key, two direct slots, one completion, a share for one file, fair cleanup runs.
CONSTANTS
    Uploads = {u1}
    Direct = {d1, d2}
    Multi = {m1}
    NoUpload = NoUpload
    NoSlot = NoSlot
    MaxFiles = 1
SPECIFICATION FairSpec
PROPERTIES
    StorageIsReclaimed
    DanglingRowsAreRemoved
