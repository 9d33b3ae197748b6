----------------------------- MODULE MCBackups ------------------------------
(***************************************************************************)
(* Backups and the restore of a volume for TLC, side by side: a behaviour  *)
(* is one part's, and the other stays as it began.  Every constant is      *)
(* given by the configuration.                                             *)
(***************************************************************************)
EXTENDS Backups, VolumeRestore

VARIABLE part

BackupInit == part \in {"backups", "restore"} /\ Init /\ RestoreInit
BackupNext ==
    \/ part = "backups" /\ Next /\ UNCHANGED <<restoreVars, part>>
    \/ part = "restore" /\ RestoreNext /\ UNCHANGED <<vars, part>>

\* The fairness of Backups and of VolumeRestore, each asked of the part that runs.
BackupFairness ==
    \A b \in Ids : /\ WF_vars(part = "backups" /\ BackupStep(b))
                   /\ WF_vars(part = "backups" /\ JobStep(b))
VolumeFairness ==
    /\ \A r \in Restores : /\ WF_restoreVars(part = "restore" /\ RestoreStep(r))
                           /\ WF_restoreVars(part = "restore" /\ JobUnpacks(r))
    /\ WF_restoreVars(part = "restore" /\ PodsFollow)
BackupSpec ==
    /\ BackupInit /\ [][BackupNext]_<<vars, restoreVars, part>>
    /\ BackupFairness /\ VolumeFairness

\* One part alone, for the configurations that ask about what the documentation says.
BackupsOnly == BackupSpec /\ part = "backups"
RestoreOnly == BackupSpec /\ part = "restore"
=============================================================================
