---------------------------- MODULE MCRollingUpdate ----------------------------
(* Values for the constants of RollingUpdate, for TLC. *)
EXTENDS RollingUpdate

MCKeepOne ==
  {[cron |-> "valid", schedule |-> TRUE, keep |-> 1, check |-> TRUE, state |-> "Active"]}
MCOurs == {{"dmaas"}}
=============================================================================
