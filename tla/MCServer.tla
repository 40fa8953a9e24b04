------------------------------- MODULE MCServer -------------------------------
(***************************************************************************)
(* Constants for the model checking of Server: the backup controller with    *)
(* one object, which changes twice, and with two workers where the code has *)
(* one (defaultControllerWorker); options of each kind.                     *)
(***************************************************************************)
EXTENDS ServerProperties

CONSTANT backup

MCKey == {backup}
MCControllers == {"dmaasBackup"}
MCOwner == [k \in MCKey |-> "dmaasBackup"]
MCNumWorker == [c \in MCControllers |-> 2]
MCMaxVersion == [k \in MCKey |-> 2]

Usable == [namespace |-> "dmaas", openebs |-> "openebs", velero |-> "", qps |-> 20,
           burst |-> 30, kubeconfig |-> TRUE]

MCOptions ==
  {Usable, [Usable EXCEPT !.namespace = ""], [Usable EXCEPT !.qps = -1],
   [Usable EXCEPT !.burst = 0], [Usable EXCEPT !.kubeconfig = FALSE]}
=============================================================================
