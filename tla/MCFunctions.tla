------------------------------ MODULE MCFunctions ------------------------------
(***************************************************************************)
(* The functions without a state of their own, over bounded inputs: those   *)
(* of MCScheduleList, and the copying of API objects, on every object of    *)
(* every kind with up to MaxReferences references that are not nil.         *)
(***************************************************************************)
EXTENDS MCScheduleList, APITypes

CONSTANT MaxReferences

VARIABLES
  root,  \* the type of an object
  size   \* its references that are not nil, and to how many things they lead
functionVars == <<vars, root, size>>

Kinds == {"DMaaSBackup", "DMaaSBackupList", "PreBackupAction", "PreBackupActionList",
          "DMaaSRestore", "DMaaSRestoreList", "SnapshotStatusDetails"}

FunctionsInit == Init /\ root \in Kinds /\ size = <<>>

Refer ==
  /\ list = <<>> /\ phases = <<>>
  /\ Cardinality(DOMAIN size) < MaxReferences
  /\ \E nil \in Nils(root, size) :
       \E n \in IF Field(Last(nil)).kind = "pointer" THEN {1} ELSE 0 .. 2 :
         size' = [w \in DOMAIN size \union {nil} |-> IF w = nil THEN n ELSE size[w]]
  /\ UNCHANGED <<list, phases, root>>

FunctionsNext ==
  \/ root = "DMaaSBackup" /\ size = <<>> /\ Next /\ UNCHANGED <<root, size>>
  \/ Refer

FunctionsSpec == FunctionsInit /\ [][FunctionsNext]_functionVars

-----------------------------------------------------------------------------
\* DeepCopy returns an object that says the same, nil and empty lists told
\* apart (the patch is the difference of the two), and that shares no memory
\* with the informer's object, for every API type and whatever is set in it
\* (zz_generated.deepcopy.go against the types).
DeepCopyDetached ==
  LET read == Made(size)
      dbkp == Copied(read)
  IN  /\ Content(dbkp) = Content(read)
      /\ Places(dbkp) \intersect Places(read) = {}
=============================================================================
