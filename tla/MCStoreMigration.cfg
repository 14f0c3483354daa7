SPECIFICATION Spec
CONSTANTS
    Job = {j1, j2, j3}
    LegacyJob = {j1, j2}
    None = None
    MaxAttempts = 3
    MaxServed = 2
INVARIANT NothingIsLost InterruptedImportResumes
PROPERTY MigrationOnlyAdds
CHECK_DEADLOCK FALSE
