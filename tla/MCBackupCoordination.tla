------------------------ MODULE MCBackupCoordination ------------------------
(* Instances of BackupCoordination for TLC.                                *)
EXTENDS BackupCoordination

CONSTANTS config, commands   \* keys of the storage locks of a user's commands

\* add_user_command, load_user_commands, a commit, and a commit in a write.
MCPlans == {<<config, commands>>, <<commands>>, <<Plain>>, <<Plain, Plain>>}

=============================================================================
