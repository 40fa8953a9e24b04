-------------------------- MODULE RollingUpdateProofs --------------------------
(***************************************************************************)
(* What two operators at work on one object cannot break: neither of them    *)
(* panics, and Completed still means backed up.  The steps of each keep its  *)
(* own invariant, as DMaaSBackupProofs shows; here it is shown that they     *)
(* keep the other's as well, whose copy of the object they make stale.       *)
(***************************************************************************)
EXTENDS RollingUpdate, TLAPS

\* The two processes talk of the same objects.
LEMMA SameTypes ==
  /\ Old!SpecType = New!SpecType /\ Old!Object = New!Object
  /\ Old!Backup = New!Backup
<1>1. Old!SpecType = New!SpecType
  BY DEF Old!SpecType, New!SpecType
<1>2. Old!Entry = New!Entry /\ Old!Finalizer = New!Finalizer
  BY DEF Old!Entry, New!Entry, Old!Finalizer, New!Finalizer, Old!ScheduleStatus, New!ScheduleStatus
<1>3. Old!Object = New!Object
  BY <1>1, <1>2, Zenon DEF Old!Object, New!Object
<1>4. Old!Backup = New!Backup
  BY DEF Old!Backup, New!Backup, Old!BackupPhase, New!BackupPhase
<1> QED BY <1>1, <1>3, <1>4

LEMMA SameAssumption == Old!ConstantsAssumption => New!ConstantsAssumption
<1>1. Old!FaultKind = New!FaultKind /\ Old!Finalizer = New!Finalizer
  BY DEF Old!FaultKind, New!FaultKind, Old!Finalizer, New!Finalizer
<1> QED BY <1>1, SameTypes, Zenon DEF Old!ConstantsAssumption, New!ConstantsAssumption

LEMMA SameLists == \A s : Old!Listed(s) <=> New!Listed(s)
<1>1. \A s : Old!HasQueued(s) <=> New!HasQueued(s)
  BY Zenon DEF Old!HasQueued, New!HasQueued, Old!Undated, New!Undated, Old!Last, New!Last
<1>2. \A s : Old!Active(s) = New!Active(s)
  BY DEF Old!Active, New!Active
<1> QED BY <1>1, <1>2, Zenon DEF Old!Listed, New!Listed

\* The invariants of each process.
OldInv == Old!TypeInv /\ Old!SliceInv /\ Old!DoneInv
NewInv == New!TypeInv /\ New!SliceInv /\ New!DoneInv

LEMMA OldKeepsOwn ==
  ASSUME Old!ConstantsAssumption, OldInv, Old!Next
  PROVE  OldInv'
<1>1. Old!TypeInv /\ [Old!Next]_(Old!vars) => Old!TypeInv'
  BY Old!NextTypeInv DEF Old!ConstantsAssumption
<1>2. Old!TypeInv /\ Old!SliceInv /\ [Old!Next]_(Old!vars) => Old!SliceInv'
  BY Old!NextSlice DEF Old!ConstantsAssumption
<1>3. Old!TypeInv /\ Old!DoneInv /\ [Old!Next]_(Old!vars) => Old!DoneInv'
  BY Old!NextDone DEF Old!ConstantsAssumption
<1> QED BY <1>1, <1>2, <1>3 DEF OldInv

LEMMA NewKeepsOwn ==
  ASSUME New!ConstantsAssumption, NewInv, New!Next
  PROVE  NewInv'
<1>1. New!TypeInv /\ [New!Next]_(New!vars) => New!TypeInv'
  BY New!NextTypeInv DEF New!ConstantsAssumption
<1>2. New!TypeInv /\ New!SliceInv /\ [New!Next]_(New!vars) => New!SliceInv'
  BY New!NextSlice DEF New!ConstantsAssumption
<1>3. New!TypeInv /\ New!DoneInv /\ [New!Next]_(New!vars) => New!DoneInv'
  BY New!NextDone DEF New!ConstantsAssumption
<1> QED BY <1>1, <1>2, <1>3 DEF NewInv

-----------------------------------------------------------------------------
(* The other process: the object changes under the copy it has in memory.  *)

\* What one process leaves in the API server is what the other counts on.
LEMMA NewKeptByOld ==
  ASSUME OldInv', NewInv, opNew' = opNew, queuedNew' \in BOOLEAN,
         cacheNew' = cacheNew \/ cacheNew' = backups', oneShot => oneShot'
  PROVE  NewInv'
<1>1. /\ obj' \in New!Object \union {NoObject} /\ New!RestOK'
  BY SameTypes DEF OldInv, Old!TypeInv, Old!RestOK, NewInv, New!TypeInv, New!RestOK
<1>2. New!TypeInv'
  BY <1>1 DEF NewInv, New!TypeInv, New!OpOK
<1>3. New!SliceInv'
  BY SameLists DEF OldInv, NewInv, Old!SliceInv, New!SliceInv, Old!Stored, New!Stored
<1>4. New!DoneInv'
  BY DEF OldInv, NewInv, Old!DoneInv, New!DoneInv, Old!CompletedMeansBackedUp,
         New!CompletedMeansBackedUp, Old!Stored, New!Stored
<1> QED BY <1>2, <1>3, <1>4 DEF NewInv

LEMMA OldKeptByNew ==
  ASSUME NewInv', OldInv, opOld' = opOld, queuedOld' \in BOOLEAN,
         cacheOld' = cacheOld, oneShot => oneShot'
  PROVE  OldInv'
<1>1. /\ obj' \in Old!Object \union {NoObject} /\ Old!RestOK'
  BY SameTypes DEF NewInv, New!TypeInv, New!RestOK, OldInv, Old!TypeInv, Old!RestOK
<1>2. Old!TypeInv'
  BY <1>1 DEF OldInv, Old!TypeInv, Old!OpOK
<1>3. Old!SliceInv'
  BY SameLists DEF OldInv, NewInv, Old!SliceInv, New!SliceInv, Old!Stored, New!Stored
<1>4. Old!DoneInv'
  BY DEF OldInv, NewInv, Old!DoneInv, New!DoneInv, Old!CompletedMeansBackedUp,
         New!CompletedMeansBackedUp, Old!Stored, New!Stored
<1> QED BY <1>2, <1>3, <1>4 DEF OldInv

-----------------------------------------------------------------------------
(* Every step.                                                             *)

Inv == OldInv /\ NewInv

LEMMA InitInv == Old!ConstantsAssumption /\ Init => Inv
<1> SUFFICES ASSUME Old!ConstantsAssumption, Init PROVE Inv
  OBVIOUS
<1>1. New!ConstantsAssumption
  BY SameAssumption
<1>2. Old!TypeInv /\ Old!SliceInv /\ Old!DoneInv
  BY Old!InitTypeInv, Old!InitSlice, Old!InitDone DEF Init, Old!ConstantsAssumption
<1>3. New!TypeInv /\ New!SliceInv /\ New!DoneInv
  BY <1>1, New!InitTypeInv, New!InitSlice, New!InitDone DEF Init, New!ConstantsAssumption
<1> QED BY <1>2, <1>3 DEF Inv, OldInv, NewInv

\* A process that does nothing, about whose objects nothing changes.
LEMMA OldUnchanged == OldInv /\ UNCHANGED <<shared, oldVars>> => OldInv'
  BY DEF OldInv, shared, oldVars, Old!TypeInv, Old!OpOK, Old!RestOK, Old!SliceInv, Old!DoneInv,
         Old!CompletedMeansBackedUp, Old!Stored

LEMMA NewUnchanged == NewInv /\ UNCHANGED <<shared, newVars>> => NewInv'
  BY DEF NewInv, shared, newVars, New!TypeInv, New!OpOK, New!RestOK, New!SliceInv, New!DoneInv,
         New!CompletedMeansBackedUp, New!Stored

LEMMA KilledInv ==
  ASSUME Old!ConstantsAssumption, OldInv, UNCHANGED <<shared, cacheOld>>,
         queuedOld' = FALSE, opOld' = Old!IdleOp
  PROVE  OldInv'
<1>1. Old!OpOK'
  BY Old!IdleOpOK DEF Old!ConstantsAssumption
<1>2. Old!TypeInv'
  BY <1>1 DEF OldInv, shared, Old!TypeInv, Old!RestOK
<1>3. opOld'.pc = "idle"
  BY DEF Old!IdleOp
<1>4. Old!SliceInv'
  BY <1>3 DEF OldInv, shared, Old!SliceInv, Old!Stored
<1>5. Old!DoneInv'
  BY <1>3 DEF OldInv, shared, Old!DoneInv, Old!CompletedMeansBackedUp, Old!Stored
<1> QED BY <1>2, <1>4, <1>5 DEF OldInv

\* Time concerns neither.
LEMMA TickInv == Inv /\ Tick => Inv'
<1> SUFFICES ASSUME Inv, Tick PROVE Inv'
  OBVIOUS
<1>1. UNCHANGED <<obj, velero, oneShot, backups, taken, requests, faults, edits, oldVars,
                  newVars>>
      /\ now' = now + 1
  BY DEF Tick
<1>2. now' \in Nat
  BY <1>1 DEF Inv, OldInv, Old!TypeInv, Old!RestOK
<1>3. OldInv'
  BY <1>1, <1>2 DEF Inv, OldInv, oldVars, Old!TypeInv, Old!OpOK, Old!RestOK, Old!SliceInv,
                    Old!DoneInv, Old!CompletedMeansBackedUp, Old!Stored
<1>4. NewInv'
  BY <1>1, <1>2 DEF Inv, NewInv, newVars, New!TypeInv, New!OpOK, New!RestOK, New!SliceInv,
                    New!DoneInv, New!CompletedMeansBackedUp, New!Stored
<1> QED BY <1>3, <1>4 DEF Inv

LEMMA OldStepInv ==
  ASSUME Old!ConstantsAssumption, Inv, Old!Next, NewNotices, UNCHANGED <<opNew, cacheNew>>
  PROVE  Inv'
<1>1. OldInv'
  BY OldKeepsOwn DEF Inv
<1>2. oneShot => oneShot'
  BY Old!BackupStays DEF Old!ConstantsAssumption
<1>3. queuedNew' \in BOOLEAN
  BY DEF NewNotices, NewRuns, Inv, NewInv, New!TypeInv, New!RestOK
<1> QED BY <1>1, <1>2, <1>3, NewKeptByOld DEF Inv

LEMMA NewStepInv ==
  ASSUME New!ConstantsAssumption, Inv, New!Next, queuedOld' \in BOOLEAN,
         UNCHANGED <<opOld, cacheOld>>
  PROVE  Inv'
<1>1. NewInv'
  BY NewKeepsOwn DEF Inv
<1>2. oneShot => oneShot'
  BY New!BackupStays DEF New!ConstantsAssumption
<1> QED BY <1>1, <1>2, OldKeptByNew DEF Inv

LEMMA NextInv == Old!ConstantsAssumption /\ Inv /\ [Next]_vars => Inv'
<1> SUFFICES ASSUME Old!ConstantsAssumption, Inv, [Next]_vars PROVE Inv'
  OBVIOUS
<1>0. New!ConstantsAssumption
  BY SameAssumption
<1>1. CASE OldStep
  <2>1. Old!Next
    BY <1>1 DEF OldStep, Old!Next
  <2> QED BY <1>1, <2>1, OldStepInv DEF OldStep
<1>2. CASE NewStep
  <2>1. New!Next
    BY <1>2 DEF NewStep, New!Next
  <2>2. queuedOld' \in BOOLEAN
    BY <1>2 DEF NewStep, OldNotices, OldRuns, Inv, OldInv, Old!TypeInv, Old!RestOK
  <2> QED BY <1>0, <1>2, <2>1, <2>2, NewStepInv DEF NewStep
<1>3. CASE StartNew
  <2>1. UNCHANGED <<shared, oldVars>> /\ opNew' = opNew /\ cacheNew' = backups'
          /\ queuedNew' \in BOOLEAN
    BY <1>3 DEF StartNew, shared, New!Stored
  <2>2. OldInv'
    BY <2>1, OldUnchanged DEF Inv
  <2> QED BY <2>1, <2>2, NewKeptByOld DEF Inv, shared
<1>4. CASE KillOld
  <2>1. UNCHANGED <<shared, newVars, cacheOld>> /\ queuedOld' = FALSE /\ opOld' = Old!IdleOp
    BY <1>4 DEF KillOld
  <2>2. NewInv'
    BY <2>1, NewUnchanged DEF Inv
  <2>3. OldInv'
    BY <2>1, KilledInv DEF Inv
  <2> QED BY <2>2, <2>3 DEF Inv
<1>5. CASE Outside
  <2>1. CASE OldRuns
    <3>1. Old!Next /\ NewNotices /\ UNCHANGED <<opNew, cacheNew>>
      BY <1>5, <2>1 DEF Outside, Old!Next
    <3> QED BY <3>1, OldStepInv
  <2>2. CASE ~OldRuns
    <3>1. New!Next /\ UNCHANGED oldVars
      BY <1>5, <2>2 DEF Outside, New!Next
    <3>2. queuedOld' \in BOOLEAN
      BY <3>1 DEF oldVars, Inv, OldInv, Old!TypeInv, Old!RestOK
    <3> QED BY <1>0, <3>1, <3>2, NewStepInv DEF oldVars
  <2> QED BY <2>1, <2>2
<1>6. CASE Tick
  BY <1>6, TickInv
<1>7. CASE UNCHANGED vars
  BY <1>7, OldUnchanged, NewUnchanged DEF vars, Inv
<1> QED BY <1>1, <1>2, <1>3, <1>4, <1>5, <1>6, <1>7 DEF Next

THEOREM AlwaysInv ==
  ASSUME Old!ConstantsAssumption
  PROVE  Spec => []Inv
<1>1. Init => Inv
  BY InitInv
<1>2. Inv /\ [Next]_vars => Inv'
  BY NextInv
<1> QED BY <1>1, <1>2, PTL DEF Spec

\* Rolling the operator over does not make either process panic: whatever the
\* other one has patched into the list, the list each of them works on has an
\* entry at which cleanupPeriodicSchedule may cut it.
THEOREM NoSlicePanicWhileRolling ==
  ASSUME Old!ConstantsAssumption
  PROVE  Spec => [](Old!SliceInBounds /\ New!SliceInBounds)
<1>1. New!ConstantsAssumption
  BY SameAssumption
<1>2. Inv => Old!SliceInBounds /\ New!SliceInBounds
  BY <1>1, Old!SliceInvBounds, New!SliceInvBounds
     DEF Inv, OldInv, NewInv, Old!ConstantsAssumption, New!ConstantsAssumption
<1> QED BY <1>2, AlwaysInv, PTL

\* Nor does it make Completed a lie: though each process patches the phase it
\* worked out from a copy the other knows nothing of, an object says Completed
\* only when its backup has been made.
THEOREM CompletedBackedUpWhileRolling ==
  ASSUME Old!ConstantsAssumption
  PROVE  Spec => []Old!CompletedMeansBackedUp
<1>1. Inv => Old!CompletedMeansBackedUp
  BY DEF Inv, OldInv, Old!DoneInv
<1> QED BY <1>1, AlwaysInv, PTL
=============================================================================
