SPECIFICATION Spec
CONSTANTS
    Ftp = {f}
    Sftp = {s}
    Files = 2
    Blocks = 1
    Limit = 1
    Attempts = 2
    MaxCancels = 1

INVARIANTS
    SessionInv
    FilesInv
    CancellationReported

PROPERTIES
    ExclusiveKeeps
