---------------------------- MODULE MCDMaaSBackup ----------------------------
(* Values for the constants of DMaaSBackup, for TLC. *)
EXTENDS DMaaSBackupProperties

PeriodicSpec(keep, check) ==
  [cron |-> "valid", schedule |-> TRUE, keep |-> keep, check |-> check, state |-> "Active"]

NonPeriodicSpec(keep, check) ==
  [cron |-> "none", schedule |-> TRUE, keep |-> keep, check |-> check, state |-> "Active"]

OnceSpec ==
  [cron |-> "none", schedule |-> FALSE, keep |-> 0, check |-> TRUE, state |-> "Active"]

MCEveryMode ==
  {PeriodicSpec(1, FALSE), NonPeriodicSpec(1, TRUE), OnceSpec,
   [PeriodicSpec(0, TRUE) EXCEPT !.cron = "invalid", !.state = "Paused"]}

MCOursOrBoth == {{"dmaas"}, {"dmaas", "other"}}
MCKeepOne == {PeriodicSpec(1, TRUE)}
MCKeepOneUnchecked == {PeriodicSpec(1, FALSE)}
MCNoFullBackup == {NonPeriodicSpec(2, TRUE), OnceSpec}
MCPaused == {[PeriodicSpec(0, TRUE) EXCEPT !.state = "Paused"]}
MCOnce == {OnceSpec}
MCNone == {{}}
MCOurs == {{"dmaas"}}
=============================================================================
