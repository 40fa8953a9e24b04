------------------------------- MODULE APITypes -------------------------------
(***************************************************************************)
(* The API types and the generated functions that copy them (pkg/apis).     *)
(* An object that a lister returns is the informer's own, shared by all      *)
(* goroutines, and so is whatever its pointers and slices lead to: who       *)
(* wants to change it works on a DeepCopy.  The copying functions are        *)
(* generated from the types by a script that a developer runs; here the two *)
(* are translated each from its own file.                                  *)
(*                                                                         *)
(* Of a struct the fields count that are, or lead to, references; the        *)
(* others are copied by the assignment of the whole struct.                *)
(***************************************************************************)
EXTENDS Naturals, SequencesExt

Struct(T)  == [kind |-> "struct", of |-> T]
Pointer(T) == [kind |-> "pointer", of |-> T]
SliceOf(T) == [kind |-> "slice", of |-> T]

NoReference == [f \in {} |-> Struct(f)]

-----------------------------------------------------------------------------
(* The types.                                                              *)

\* Kubernetes' and Velero's own types, with one of their references each.
ObjectMeta == [Finalizers |-> SliceOf("string")]
ListMeta == [RemainingItemCount |-> Pointer("int64")]
ScheduleSpec == [IncludedNamespaces |-> SliceOf("string")]
VeleroRestoreSpec == [IncludedNamespaces |-> SliceOf("string")]

\* backup_schedule.go
DMaaSBackup == [ObjectMeta |-> Struct("ObjectMeta"), Spec |-> Struct("DMaaSBackupSpec"),
                Status |-> Struct("DMaaSBackupStatus")]
DMaaSBackupSpec == [PreBackupActionName   |-> Pointer("string"),
                    PeriodicFullBackupCfg |-> Struct("PeriodicFullBackupConfig"),
                    VeleroScheduleSpec    |-> Struct("ScheduleSpec")]
PeriodicFullBackupConfig == NoReference
DMaaSBackupStatus == [VeleroSchedules  |-> SliceOf("VeleroScheduleDetails"),
                      VeleroBackupName |-> Pointer("string")]
VeleroScheduleDetails == [CreationTimestamp |-> Pointer("Time")]
SnapshotStatusDetails == [StartTimestamp |-> Pointer("Time"),
                          CompletionTimestamp |-> Pointer("Time"), Progress |-> Struct("Progress")]
Progress == NoReference
DMaaSBackupList == [ListMeta |-> Struct("ListMeta"), Items |-> SliceOf("DMaaSBackup")]

\* pre_backup_action.go
PreBackupAction == [ObjectMeta |-> Struct("ObjectMeta"), Spec |-> Struct("PreBackupActionSpec"),
                    Status |-> Struct("PreBackupActionStatus")]
PreBackupActionSpec == [SetLabel |-> Struct("PreBackupActionSetLabel"),
                        SetAnnotation |-> Struct("PreBackupActionSetAnnotation")]
PreBackupActionSetLabel == [Labels |-> SliceOf("string"),
                            IncludeResourceList |-> SliceOf("TargetResource"),
                            ExcludeResourceList |-> SliceOf("TargetResource")]
PreBackupActionSetAnnotation == [IncludeResourceList |-> SliceOf("TargetResource"),
                                 ExcludeResourceList |-> SliceOf("TargetResource")]
TargetResource == [Name |-> SliceOf("string")]
PreBackupActionStatus == [LastSuccessfulTimestamp |-> Pointer("Time"),
                          LastFailureTimestamp |-> Pointer("Time"),
                          UpdatedSelectedList  |-> SliceOf("TargetResource"),
                          UpdatedAnnotatedList |-> SliceOf("TargetResource")]
PreBackupActionList == [ListMeta |-> Struct("ListMeta"), Items |-> SliceOf("PreBackupAction")]

\* restore.go
DMaaSRestore == [ObjectMeta |-> Struct("ObjectMeta"), Spec |-> Struct("RestoreSpec"),
                 Status |-> Struct("RestoreStatus")]
RestoreSpec == [RestoreSpec |-> Struct("VeleroRestoreSpec")]
RestoreStatus == [Conditions |-> SliceOf("RestoreCondition"),
                  Restores   |-> SliceOf("RestoreDetails")]
RestoreCondition == [LastUpdatedTime |-> Pointer("Time"), LastTransitionTime |-> Pointer("Time")]
RestoreDetails == [StartedAt |-> Pointer("Time"), CompletedAt |-> Pointer("Time"),
                   PVRestoreStatus |-> SliceOf("PVRestoreStatusDetails")]
PVRestoreStatusDetails == [StartTimestamp |-> Pointer("Time"),
                           CompletionTimestamp |-> Pointer("Time"),
                           Conditions |-> SliceOf("RestoreCondition"),
                           Progress   |-> Struct("Progress")]
DMaaSRestoreList == [ListMeta |-> Struct("ListMeta"), Items |-> SliceOf("DMaaSRestore")]
-----------------------------------------------------------------------------
(* zz_generated.deepcopy.go: what DeepCopyInto does with the fields, after   *)
(* *out = *in has copied the struct itself.  A field is not mentioned when   *)
(* the assignment is all there is, which leaves a reference where it was.    *)

\* in.X.DeepCopyInto(&out.X) of a struct within the struct.
Into == "Into"
\* out.X becomes new memory of the same size, with the contents assigned ...
Fresh == "Fresh"
\* ... or with the contents copied by their own DeepCopyInto.
FreshInto == "FreshInto"

CopyObjectMeta == [Finalizers |-> Fresh]
CopyListMeta == [RemainingItemCount |-> Fresh]
CopyScheduleSpec == [IncludedNamespaces |-> Fresh]
CopyVeleroRestoreSpec == [IncludedNamespaces |-> Fresh]

CopyDMaaSBackup == [ObjectMeta |-> Into, Spec |-> Into, Status |-> Into]
CopyDMaaSBackupList == [ListMeta |-> Into, Items |-> FreshInto]
CopyDMaaSBackupSpec == [PreBackupActionName |-> Fresh, VeleroScheduleSpec |-> Into]
CopyDMaaSBackupStatus == [VeleroSchedules |-> FreshInto, VeleroBackupName |-> Fresh]
CopyDMaaSRestore == [ObjectMeta |-> Into, Spec |-> Into, Status |-> Into]
CopyDMaaSRestoreList == [ListMeta |-> Into, Items |-> FreshInto]
CopyPVRestoreStatusDetails ==
  [StartTimestamp |-> FreshInto, CompletionTimestamp |-> FreshInto, Conditions |-> FreshInto]
CopyPeriodicFullBackupConfig == NoReference
CopyPreBackupAction == [ObjectMeta |-> Into, Spec |-> Into, Status |-> Into]
CopyPreBackupActionList == [ListMeta |-> Into, Items |-> FreshInto]
CopyPreBackupActionSetAnnotation ==
  [IncludeResourceList |-> FreshInto, ExcludeResourceList |-> FreshInto]
CopyPreBackupActionSetLabel ==
  [Labels |-> Fresh, IncludeResourceList |-> FreshInto, ExcludeResourceList |-> FreshInto]
CopyPreBackupActionSpec == [SetLabel |-> Into, SetAnnotation |-> Into]
CopyPreBackupActionStatus ==
  [LastSuccessfulTimestamp |-> FreshInto, LastFailureTimestamp |-> FreshInto,
   UpdatedSelectedList |-> FreshInto, UpdatedAnnotatedList |-> FreshInto]
CopyProgress == NoReference
CopyRestoreCondition == [LastUpdatedTime |-> FreshInto, LastTransitionTime |-> FreshInto]

\* Seeded fault: generated before the details of the volumes were added.
CopyRestoreDetailsStale == [StartedAt |-> FreshInto, CompletedAt |-> FreshInto]

CopyRestoreDetails ==
  [StartedAt |-> FreshInto, CompletedAt |-> FreshInto, PVRestoreStatus |-> FreshInto]
CopyRestoreSpec == [RestoreSpec |-> Into]
CopyRestoreStatus == [Conditions |-> FreshInto, Restores |-> FreshInto]
CopySnapshotStatusDetails == [StartTimestamp |-> FreshInto, CompletionTimestamp |-> FreshInto]
CopyTargetResource == [Name |-> Fresh]
CopyVeleroScheduleDetails == [CreationTimestamp |-> FreshInto]

-----------------------------------------------------------------------------
(* By name.                                                                *)

TypeOf ==
  [ObjectMeta |-> ObjectMeta, ListMeta |-> ListMeta, ScheduleSpec |-> ScheduleSpec,
   VeleroRestoreSpec |-> VeleroRestoreSpec, DMaaSBackup |-> DMaaSBackup,
   DMaaSBackupSpec |-> DMaaSBackupSpec,
   PeriodicFullBackupConfig |-> PeriodicFullBackupConfig,
   DMaaSBackupStatus |-> DMaaSBackupStatus,
   VeleroScheduleDetails |-> VeleroScheduleDetails,
   SnapshotStatusDetails |-> SnapshotStatusDetails, Progress |-> Progress,
   DMaaSBackupList |-> DMaaSBackupList, PreBackupAction |-> PreBackupAction,
   PreBackupActionSpec |-> PreBackupActionSpec,
   PreBackupActionSetLabel |-> PreBackupActionSetLabel,
   PreBackupActionSetAnnotation |-> PreBackupActionSetAnnotation,
   TargetResource |-> TargetResource, PreBackupActionStatus |-> PreBackupActionStatus,
   PreBackupActionList |-> PreBackupActionList, DMaaSRestore |-> DMaaSRestore,
   RestoreSpec |-> RestoreSpec, RestoreStatus |-> RestoreStatus,
   RestoreCondition |-> RestoreCondition, RestoreDetails |-> RestoreDetails,
   PVRestoreStatusDetails |-> PVRestoreStatusDetails, DMaaSRestoreList |-> DMaaSRestoreList,
   string |-> NoReference, int64 |-> NoReference, Time |-> NoReference]

CopyOf ==
  [ObjectMeta |-> CopyObjectMeta, ListMeta |-> CopyListMeta,
   ScheduleSpec |-> CopyScheduleSpec, VeleroRestoreSpec |-> CopyVeleroRestoreSpec,
   DMaaSBackup |-> CopyDMaaSBackup, DMaaSBackupSpec |-> CopyDMaaSBackupSpec,
   PeriodicFullBackupConfig |-> CopyPeriodicFullBackupConfig,
   DMaaSBackupStatus |-> CopyDMaaSBackupStatus,
   VeleroScheduleDetails |-> CopyVeleroScheduleDetails,
   SnapshotStatusDetails |-> CopySnapshotStatusDetails, Progress |-> CopyProgress,
   DMaaSBackupList |-> CopyDMaaSBackupList, PreBackupAction |-> CopyPreBackupAction,
   PreBackupActionSpec |-> CopyPreBackupActionSpec,
   PreBackupActionSetLabel |-> CopyPreBackupActionSetLabel,
   PreBackupActionSetAnnotation |-> CopyPreBackupActionSetAnnotation,
   TargetResource |-> CopyTargetResource,
   PreBackupActionStatus |-> CopyPreBackupActionStatus,
   PreBackupActionList |-> CopyPreBackupActionList, DMaaSRestore |-> CopyDMaaSRestore,
   RestoreSpec |-> CopyRestoreSpec, RestoreStatus |-> CopyRestoreStatus,
   RestoreCondition |-> CopyRestoreCondition, RestoreDetails |-> CopyRestoreDetails,
   PVRestoreStatusDetails |-> CopyPVRestoreStatusDetails,
   DMaaSRestoreList |-> CopyDMaaSRestoreList,
   string |-> NoReference, int64 |-> NoReference, Time |-> NoReference]

-----------------------------------------------------------------------------
(* Objects in memory: what the references of an object lead to that are not  *)
(* nil, each named by the way to it.  A way is a sequence of steps, each from *)
(* a struct to one of its fields.                                           *)

\* The step to field f of a struct of type T.
Step(T, f) == [of |-> T, field |-> f, element |-> 0]

\* A way that goes on through a reference, into the i-th thing it leads to.
Through(way, i) == [way EXCEPT ![Len(way)].element = i]

Field(step) == TypeOf[step.of][step.field]

Holder(way, T) == [way |-> way, type |-> T]

\* The structs at hand and those that are fields of them.
WithFields(holders) ==
  holders \union
  UNION {{Holder(Append(h.way, Step(h.type, f)), TypeOf[h.type][f].of) :
            f \in {g \in DOMAIN TypeOf[h.type] : TypeOf[h.type][g].kind = "struct"}} : h \in holders}

\* The structs of an object of type T whose references lead to size[way] things;
\* structs are nested at most twice.
Structs(T, size) ==
  WithFields(WithFields(
    {Holder(<<>>, T)} \union
    UNION {{Holder(Through(w, i), Field(Last(w)).of) : i \in 1 .. size[w]} : w \in DOMAIN size}))

\* The ways to its nil references.
Nils(T, size) ==
  UNION {{Append(h.way, Step(h.type, f)) :
            f \in {g \in DOMAIN TypeOf[h.type] : TypeOf[h.type][g].kind # "struct"}} :
         h \in Structs(T, size)}
    \ DOMAIN size

\* The place a reference leads to: one thing, or a slice's elements.
Reference(memory, way, things) == [at |-> [memory |-> memory, way |-> way], to |-> things]

\* The object as the informer holds it.
Made(size) == [w \in DOMAIN size |-> Reference("informer", w, size[w])]

\* The memory an object's references lead to.
Places(obj) == {obj[w].at : w \in DOMAIN obj}

\* What an object says, wherever it stands: a way that is missing is a nil.
Content(obj) == [w \in DOMAIN obj |-> obj[w].to]

\* What DeepCopyInto does with the field a step leads to.
How(step) ==
  IF step.field \in DOMAIN CopyOf[step.of] THEN CopyOf[step.of][step.field] ELSE "assigned"

\* The copying functions call each other down to the struct that the way ends
\* in, and the last one makes new memory for the reference.  Where one of them
\* only assigns, all that is below stays where it was.
Renewed(way) ==
  /\ \A k \in 1 .. Len(way) - 1 : How(way[k]) \in {Into, FreshInto}
  /\ How(Last(way)) \in {Fresh, FreshInto}

\* DeepCopy.  A nil reference stays one.
Copied(obj) ==
  [w \in DOMAIN obj |-> IF Renewed(w) THEN Reference("copy", w, obj[w].to) ELSE obj[w]]
=============================================================================
