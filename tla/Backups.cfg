SPECIFICATION BackupSpec
CONSTANTS
    MaxBackups = 3
    Retention = 1
    Faults = {"job", "status", "storage", "rows", "panic", "restart", "same second"}
    Restores = {r1, r2}
    Size = 2
    RestoreFaults = {"job", "slow", "status", "scale", "panic", "overlap", "rollout", "restart"}
INVARIANTS BucketMatchesRows RestoreIsSafe
PROPERTIES EveryBackupEnds EveryRestoreEnds
CHECK_DEADLOCK FALSE
