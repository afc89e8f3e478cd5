SPECIFICATION Spec
CONSTANTS
    Threads <- MCThreads
    Names <- MCNames
    Inodes <- MCInodes
    BlockSize = 3
    MaxFileSize = 5
    LockFailed = 4
    Modes <- MCModes
    Programs <- MCPrograms
INVARIANTS
    FilesAsPosix
    DiskConsistent
    RenameAtomic
PROPERTIES
    DiskOrder
    EveryCallReturns
