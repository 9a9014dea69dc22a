------------------------- MODULE SingleUseWorkersProofs -------------------------
(***************************************************************************)
(* Proofs about SingleUseWorkers for any number of tasks and machines.     *)
(***************************************************************************)
EXTENDS SingleUseWorkers, FiniteSetTheorems, TLAPS

RowType == [known : BOOLEAN, max_load : {0, 1}, enabled : BOOLEAN]

(* Whatever runs or calls the hub has a worker.                            *)
PlacedInv ==
  \A j \in Jobs : state[j] \in Running \/ call[j] # "none" => on[j] \in Workers

(* A machine that is let go is up, idle, and full or disabled: a late save *)
(* of its row may change one of both, never clear both.                    *)
LeavingInv ==
  \A w \in leaving :
    /\ vm[w] = "up"
    /\ row[w].max_load = 0 \/ row[w].enabled = FALSE
    /\ \A j \in Jobs : on[j] = w => state[j] \notin Running

IInv == TypeOK /\ PlacedInv /\ LeavingInv

USE NoWorkerAssumption, TasksAssumption
USE DEF Running, Ended

-----------------------------------------------------------------------------
LEMMA JobNames ==
  /\ \A t \in Tasks : Main(t) \in Jobs /\ Base(t) \in Jobs /\ Main(t) # Base(t)
  /\ \A j \in Jobs : j[1] \in Tasks
  BY DEF Jobs, Kinds, Main, Base

LEMMA JobsAreFinite == IsFiniteSet(Jobs)
<1>1. IsFiniteSet(Kinds)
  <2>1. PICK m, b : m = "main" /\ b = "base"
    OBVIOUS
  <2>2. IsFiniteSet({m} \cup {b})
    BY FS_Singleton, FS_AddElement
  <2> QED BY <2>1, <2>2 DEF Kinds
<1> QED BY <1>1, FS_Product DEF Jobs

LEMMA LoadIsNat == \A w : Load(w) \in Nat
  BY JobsAreFinite, FS_Subset, FS_CardinalityType DEF Load

(* A worker that has room and is enabled is not being deleted.             *)
LEMMA LeavingTakesNothing ==
  ASSUME IInv, NEW w \in Workers, HasRoom(w), row[w].enabled
  PROVE  w \notin leaving
<1>1. PICK n \in Nat : n = Load(w)
  BY LoadIsNat
<1>2. row[w].max_load \in {0, 1} /\ n < row[w].max_load
  BY <1>1 DEF IInv, TypeOK, RowType, HasRoom
<1> QED BY <1>2 DEF IInv, LeavingInv

LEMMA RowTypes ==
  /\ NoRow \in RowType /\ NewRow \in RowType
  /\ \A r \in RowType :
       /\ Full(r) \in RowType /\ Disabled(r) \in RowType
       /\ Full(r).max_load = 0 /\ Disabled(r).enabled = FALSE
       /\ \A b \in BOOLEAN : /\ [r EXCEPT !.known = b] \in RowType
                             /\ [r EXCEPT !.known = b].max_load = r.max_load
                             /\ [r EXCEPT !.known = b].enabled = r.enabled
       /\ [r EXCEPT !.max_load = 1] \in RowType
  BY DEF RowType, NoRow, NewRow, Full, Disabled

(* The row a call writes is typed, and full or disabled.                   *)
LEMMA SavedRow ==
  ASSUME TypeOK, NEW j \in Jobs, call[j] \in {"opened", "notified"}
  PROVE  /\ [Saved(j) EXCEPT !.known = TRUE] \in RowType
         /\ \/ [Saved(j) EXCEPT !.known = TRUE].max_load = 0
            \/ [Saved(j) EXCEPT !.known = TRUE].enabled = FALSE
<1>1. copy[j] \in RowType
  BY DEF TypeOK, RowType
<1>2. PICK r \in RowType : r = Saved(j) /\ (r.max_load = 0 \/ r.enabled = FALSE)
  BY <1>1, RowTypes DEF Saved
<1> QED BY <1>2, RowTypes

-----------------------------------------------------------------------------
LEMMA InitIInv == Init => IInv
<1> SUFFICES ASSUME Init PROVE IInv
  OBVIOUS
<1>1. TypeOK
  BY DEF Init, TypeOK, NoRow
<1> QED BY <1>1 DEF Init, IInv, PlacedInv, LeavingInv

LEMMA NextType == IInv /\ [Next]_vars => TypeOK'
<1> SUFFICES ASSUME IInv, [Next]_vars PROVE TypeOK'
  OBVIOUS
<1> USE DEF IInv, TypeOK
<1>1. ASSUME NEW t \in Tasks, Submit(t) PROVE TypeOK'
  BY <1>1, JobNames DEF Submit, Moves
<1>2. ASSUME NEW t \in Tasks, Spawn(t) PROVE TypeOK'
  BY <1>2, JobNames DEF Spawn
<1>3. ASSUME NEW t \in Tasks, NEW w \in Workers, Take(w, t) PROVE TypeOK'
  BY <1>3, JobNames DEF Take, Moves
<1>4. ASSUME NEW j \in Jobs, Open(j) PROVE TypeOK'
  <2>1. on[j] \in Workers
    BY <1>4 DEF Open, PlacedInv
  <2>2. served' \in [Workers -> SUBSET Jobs]
    BY <1>4, <2>1 DEF Open
  <2> QED BY <1>4, <2>2 DEF Open, Moves
<1>5. ASSUME NEW j \in Jobs, Wake(j[1]) PROVE TypeOK'
  BY <1>5, JobNames DEF Wake, Moves
<1>6. ASSUME NEW j \in Jobs, End(j) PROVE TypeOK'
  <2>1. PICK s \in {"closed", "failed"} : Finish(j, s)
    BY <1>6 DEF End
  <2> QED BY <2>1 DEF Finish, Moves
<1>7. ASSUME NEW j \in Jobs, ReadWorker(j) PROVE TypeOK'
  <2>1. row[on[j]] \in RowType
    BY <1>7 DEF ReadWorker, PlacedInv, RowType
  <2> QED BY <1>7, <2>1 DEF ReadWorker, RowType
<1>8. ASSUME NEW j \in Jobs, SaveWorker(j) PROVE TypeOK'
  <2>1. row' \in [Workers -> RowType]
    <3>1. row \in [Workers -> RowType]
      BY DEF RowType
    <3> QED BY <1>8, <3>1, SavedRow DEF SaveWorker
  <2>2. copy' \in [Jobs -> RowType]
    BY <1>8, RowTypes DEF SaveWorker, RowType
  <2> QED BY <1>8, <2>1, <2>2 DEF SaveWorker, RowType
<1>9. ASSUME NEW j \in Jobs, Cancel(j) PROVE TypeOK'
  BY <1>9 DEF Cancel
<1>10. ASSUME NEW w \in Workers, CreateWorker(w) PROVE TypeOK'
  <2>1. row' \in [Workers -> RowType]
    BY <1>10, RowTypes DEF CreateWorker, RowType
  <2> QED BY <1>10, <2>1 DEF CreateWorker, RowType
<1>11. ASSUME NEW w \in Workers, NEW ok \in BOOLEAN, StartWorker(w, ok) PROVE TypeOK'
  <2>1. row' \in [Workers -> RowType]
    BY <1>11, RowTypes DEF StartWorker, RowType
  <2> QED BY <1>11, <2>1 DEF StartWorker, RowType
<1>12. ASSUME NEW w \in Workers, check_finished(w) PROVE TypeOK'
  BY <1>12 DEF check_finished
<1>13. ASSUME NEW w \in Workers, delete_worker(w) PROVE TypeOK'
  <2>1. row' \in [Workers -> RowType]
    BY <1>13, RowTypes DEF delete_worker, RowType
  <2>2. \A k \in Jobs : copy[k] \in RowType /\ [copy[k] EXCEPT !.known = FALSE] \in RowType
    <3>1. copy \in [Jobs -> RowType]
      BY DEF RowType
    <3> QED BY <3>1, RowTypes
  <2>3. copy' \in [Jobs -> RowType]
    BY <1>13, <2>2 DEF delete_worker
  <2>4. served' \in [Workers -> SUBSET Jobs]
    BY <1>13 DEF delete_worker
  <2> QED BY <1>13, <2>1, <2>3, <2>4 DEF delete_worker, RowType
<1>14. CASE UNCHANGED vars
  BY <1>14 DEF vars
<1> QED BY <1>1, <1>2, <1>3, <1>4, <1>5, <1>6, <1>7, <1>8, <1>9, <1>10, <1>11, <1>12,
           <1>13, <1>14 DEF Next, Process, Manage

LEMMA NextPlaced == IInv /\ [Next]_vars => PlacedInv'
<1> SUFFICES ASSUME IInv, [Next]_vars PROVE PlacedInv'
  OBVIOUS
<1> USE JobNames DEF IInv, TypeOK, PlacedInv
<1>1. ASSUME NEW t \in Tasks, Submit(t) PROVE PlacedInv'
  BY <1>1 DEF Submit, Moves
<1>2. ASSUME NEW t \in Tasks, Spawn(t) PROVE PlacedInv'
  BY <1>2 DEF Spawn
<1>3. ASSUME NEW t \in Tasks, NEW w \in Workers, Take(w, t) PROVE PlacedInv'
  BY <1>3 DEF Take, Moves
<1>4. ASSUME NEW j \in Jobs, Open(j) PROVE PlacedInv'
  BY <1>4 DEF Open, Moves
<1>5. ASSUME NEW j \in Jobs, Wake(j[1]) PROVE PlacedInv'
  BY <1>5 DEF Wake, Moves
<1>6. ASSUME NEW j \in Jobs, End(j) PROVE PlacedInv'
  BY <1>6 DEF End, Finish, Moves
<1>7. ASSUME NEW j \in Jobs, ReadWorker(j) PROVE PlacedInv'
  BY <1>7 DEF ReadWorker
<1>8. ASSUME NEW j \in Jobs, SaveWorker(j) PROVE PlacedInv'
  BY <1>8 DEF SaveWorker
<1>9. ASSUME NEW j \in Jobs, Cancel(j) PROVE PlacedInv'
  BY <1>9 DEF Cancel
<1>10. ASSUME NEW w \in Workers, Manage(w) PROVE PlacedInv'
  BY <1>10 DEF Manage, CreateWorker, StartWorker, check_finished, delete_worker
<1>11. CASE UNCHANGED vars
  BY <1>11 DEF vars
<1> QED BY <1>1, <1>2, <1>3, <1>4, <1>5, <1>6, <1>7, <1>8, <1>9, <1>10, <1>11
        DEF Next, Process

LEMMA NextLeaving == IInv /\ [Next]_vars => LeavingInv'
<1> SUFFICES ASSUME IInv, [Next]_vars PROVE LeavingInv'
  OBVIOUS
<1> USE JobNames DEF IInv, TypeOK, LeavingInv
<1>1. ASSUME NEW t \in Tasks, Submit(t) PROVE LeavingInv'
  BY <1>1 DEF Submit, Moves
<1>2. ASSUME NEW t \in Tasks, Spawn(t) PROVE LeavingInv'
  BY <1>2 DEF Spawn
<1>3. ASSUME NEW t \in Tasks, NEW w \in Workers, Take(w, t) PROVE LeavingInv'
  <2>1. w \notin leaving
    BY <1>3, LeavingTakesNothing DEF Take
  <2> QED BY <1>3, <2>1 DEF Take, Moves
<1>4. ASSUME NEW j \in Jobs, Open(j) PROVE LeavingInv'
  BY <1>4 DEF Open, Moves
<1>5. ASSUME NEW j \in Jobs, Wake(j[1]) PROVE LeavingInv'
  BY <1>5 DEF Wake, Moves
<1>6. ASSUME NEW j \in Jobs, End(j) PROVE LeavingInv'
  BY <1>6 DEF End, Finish, Moves
<1>7. ASSUME NEW j \in Jobs, ReadWorker(j) PROVE LeavingInv'
  BY <1>7 DEF ReadWorker
<1>8. ASSUME NEW j \in Jobs, SaveWorker(j) PROVE LeavingInv'
  <2>1. ASSUME NEW w \in leaving
        PROVE  row'[w].max_load = 0 \/ row'[w].enabled = FALSE
    <3>1. row'[w] = row[w] \/ row'[w] = [Saved(j) EXCEPT !.known = TRUE]
      BY <1>8, <2>1 DEF SaveWorker
    <3>2. CASE row'[w] = row[w]
      BY <2>1, <3>2
    <3>3. CASE row'[w] = [Saved(j) EXCEPT !.known = TRUE]
      <4>1. call[j] \in {"opened", "notified"}
        BY <1>8 DEF SaveWorker
      <4> HIDE DEF IInv, TypeOK, LeavingInv
      <4> QED BY <3>3, <4>1, SavedRow DEF IInv
    <3> QED BY <3>1, <3>2, <3>3
  <2> QED BY <1>8, <2>1 DEF SaveWorker
<1>9. ASSUME NEW j \in Jobs, Cancel(j) PROVE LeavingInv'
  BY <1>9 DEF Cancel
<1>10. ASSUME NEW w \in Workers, CreateWorker(w) PROVE LeavingInv'
  BY <1>10 DEF CreateWorker
<1>11. ASSUME NEW w \in Workers, NEW ok \in BOOLEAN, StartWorker(w, ok) PROVE LeavingInv'
  BY <1>11 DEF StartWorker
<1>12. ASSUME NEW w \in Workers, check_finished(w) PROVE LeavingInv'
  BY <1>12 DEF check_finished, Finished
<1>13. ASSUME NEW w \in Workers, delete_worker(w) PROVE LeavingInv'
  BY <1>13 DEF delete_worker
<1>14. CASE UNCHANGED vars
  BY <1>14 DEF vars
<1> QED BY <1>1, <1>2, <1>3, <1>4, <1>5, <1>6, <1>7, <1>8, <1>9, <1>10, <1>11, <1>12,
           <1>13, <1>14 DEF Next, Process, Manage

(* Machines, rows of workers with their copies, and tasks stay consistent. *)
THEOREM Inductive == Spec => []IInv
<1>1. IInv /\ [Next]_vars => IInv'
  BY NextType, NextPlaced, NextLeaving DEF IInv
<1> QED BY <1>1, InitIInv, PTL DEF Spec

(* Tasks, rows of workers and calls of the hub keep their types.           *)
THEOREM TypeCorrect == Spec => []TypeOK
<1>1. IInv => TypeOK
  BY DEF IInv
<1> QED BY <1>1, Inductive, PTL

(* However late the calls of its last task are, and whatever is canceled,  *)
(* nothing runs on a machine that osh-worker-manager deletes.              *)
THEOREM LeavingAlwaysIdle == Spec => []LeavingIsIdle
<1>1. IInv => LeavingIsIdle
  BY DEF IInv, LeavingInv, LeavingIsIdle
<1> QED BY <1>1, Inductive, PTL

-----------------------------------------------------------------------------
(* One task for each machine.                                              *)
(*                                                                         *)
(* Only the rows tell that a machine is used up: kobo gives a task to a    *)
(* machine whose row is untouched and that has no load.  So the invariant  *)
(* says that as long as no call has saved the row, a task that was served  *)
(* and not canceled still weighs on its machine: it is in open_task, or a  *)
(* base that is to come is assigned there or in open_task.                 *)

Untouched(w) == row[w].max_load = 1 /\ row[w].enabled
Opening(j)   == state[j] = "open" /\ call[j] \in {"open", "opened"}
Early        == {"none", "free", "assigned"}

OpeningMain(t) ==
  /\ state[Main(t)] = "open" /\ state[Base(t)] = "none"
  /\ Opening(Main(t)) \/ method[t] = "VersionDiffBuild"

OpeningBase(t, w) ==
  /\ method[t] = "VersionDiffBuild"
  /\ state[Main(t)] = "waiting" /\ on[Base(t)] = w
  /\ state[Base(t)] = "assigned" \/ Opening(Base(t))

Served(t, w) == Main(t) \in served[w]
Clean(w)     == \A t \in Tasks : Served(t, w) => ~Canceled(t)
AssignedTo(t, w) == state[Main(t)] = "assigned" /\ on[Main(t)] = w

(* A task that has not opened calls nothing and has no base.               *)
EarlyInv ==
  /\ \A j \in Jobs : state[j] \in Early => call[j] = "none"
  /\ \A t \in Tasks : state[Main(t)] \in Early => state[Base(t)] = "none"

(* A machine has a row, one that serves or runs something is up, and the   *)
(* row that open_task has read for a task that runs is still there.        *)
MachineInv ==
  /\ \A w \in Workers : vm[w] # "none" => row[w].known
  /\ \A w \in Workers : vm[w] # "up" => served[w] = {}
  /\ \A j \in Jobs : state[j] \in Running => vm[on[j]] = "up"
  /\ \A j \in Jobs : state[j] \in Running /\ call[j] = "opened" => copy[j].known

ServedInv ==
  \A t \in Tasks, w \in Workers :
    Served(t, w) => on[Main(t)] = w /\ state[Main(t)] \notin Early

HeldInv ==
  \A t \in Tasks, w \in Workers :
    Served(t, w) /\ Untouched(w) => Canceled(t) \/ OpeningMain(t) \/ OpeningBase(t, w)

AloneInv ==
  \A t, u \in Tasks, w \in Workers :
    /\ AssignedTo(t, w) /\ AssignedTo(u, w) => t = u
    /\ AssignedTo(t, w) /\ Served(u, w) => ~Clean(w)
    /\ Served(t, w) /\ Served(u, w) /\ Clean(w) => t = u

OneInv == IInv /\ EarlyInv /\ MachineInv /\ ServedInv /\ HeldInv /\ AloneInv

LEMMA JobParts ==
  ASSUME NEW t \in Tasks, NEW u \in Tasks
  PROVE  /\ Main(t) = Main(u) <=> t = u
         /\ Base(t) = Base(u) <=> t = u
         /\ Main(t) # Base(u)
         /\ Main(t)[1] = t /\ Base(t)[1] = t /\ Main(t)[2] = "main" /\ Base(t)[2] = "base"
  BY DEF Main, Base

LEMMA JobIsMainOrBase ==
  ASSUME NEW j \in Jobs
  PROVE  \E t \in Tasks : j = Main(t) \/ j = Base(t)
  BY DEF Jobs, Kinds, Main, Base

(* A job that is open is load.                                             *)
LEMMA OpenIsLoad ==
  ASSUME NEW j \in Jobs, state[j] = "open"
  PROVE  Load(on[j]) # 0
<1> DEFINE L == {k \in Jobs : on[k] = on[j] /\ state[k] = "open"}
<1>1. IsFiniteSet(L) /\ L # {}
  BY JobsAreFinite, FS_Subset
<1> QED BY <1>1, FS_EmptySet DEF Load

(* What has room and is enabled was not touched, and nothing is open there. *)
LEMMA RoomIsIdle ==
  ASSUME IInv, NEW w \in Workers, HasRoom(w), row[w].enabled
  PROVE  Untouched(w) /\ \A j \in Jobs : on[j] = w => state[j] # "open"
<1>1. row[w].max_load \in {0, 1}
  BY DEF IInv, TypeOK
<1>2. PICK n \in Nat : n = Load(w)
  BY LoadIsNat
<1>3. n < row[w].max_load
  BY <1>2 DEF HasRoom
<1>4. row[w].max_load = 1 /\ Load(w) = 0
  BY <1>1, <1>2, <1>3
<1> QED BY <1>4, OpenIsLoad DEF Untouched

LEMMA NextEarly == OneInv /\ [Next]_vars => EarlyInv'
<1> SUFFICES ASSUME OneInv, [Next]_vars PROVE EarlyInv'
  OBVIOUS
<1> USE JobNames, JobParts DEF OneInv, IInv, TypeOK, EarlyInv, Early
<1>1. ASSUME NEW t \in Tasks, Submit(t) PROVE EarlyInv'
  BY <1>1 DEF Submit, Moves
<1>2. ASSUME NEW t \in Tasks, Spawn(t) PROVE EarlyInv'
  BY <1>2 DEF Spawn
<1>3. ASSUME NEW t \in Tasks, NEW w \in Workers, Take(w, t) PROVE EarlyInv'
  BY <1>3 DEF Take, Moves
<1>4. ASSUME NEW j \in Jobs, Open(j) PROVE EarlyInv'
  BY <1>4 DEF Open, Moves
<1>5. ASSUME NEW j \in Jobs, Wake(j[1]) PROVE EarlyInv'
  BY <1>5 DEF Wake, Moves
<1>6. ASSUME NEW j \in Jobs, End(j) PROVE EarlyInv'
  <2>1. PICK s \in {"closed", "failed"} : Finish(j, s)
    BY <1>6 DEF End
  <2>2. state[j] \in {"open", "waiting"}
    BY <1>6 DEF End
  <2> QED BY <2>1, <2>2 DEF Finish, Moves
<1>7. ASSUME NEW j \in Jobs, ReadWorker(j) PROVE EarlyInv'
  BY <1>7 DEF ReadWorker
<1>8. ASSUME NEW j \in Jobs, SaveWorker(j) PROVE EarlyInv'
  BY <1>8 DEF SaveWorker
<1>9. ASSUME NEW j \in Jobs, Cancel(j) PROVE EarlyInv'
  BY <1>9 DEF Cancel
<1>10. ASSUME NEW w \in Workers, Manage(w) PROVE EarlyInv'
  BY <1>10 DEF Manage, CreateWorker, StartWorker, check_finished, delete_worker
<1>11. CASE UNCHANGED vars
  BY <1>11 DEF vars
<1> QED BY <1>1, <1>2, <1>3, <1>4, <1>5, <1>6, <1>7, <1>8, <1>9, <1>10, <1>11
        DEF Next, Process

LEMMA NextMachine == OneInv /\ [Next]_vars => MachineInv'
<1> SUFFICES ASSUME OneInv, [Next]_vars PROVE MachineInv'
  OBVIOUS
<1> USE JobNames, JobParts DEF OneInv, IInv, TypeOK, PlacedInv, EarlyInv, Early, MachineInv
<1>1. ASSUME NEW t \in Tasks, Submit(t) PROVE MachineInv'
  BY <1>1 DEF Submit, Moves
<1>2. ASSUME NEW t \in Tasks, Spawn(t) PROVE MachineInv'
  BY <1>2 DEF Spawn
<1>3. ASSUME NEW t \in Tasks, NEW w \in Workers, Take(w, t) PROVE MachineInv'
  BY <1>3 DEF Take, Moves, HasRoom
<1>4. ASSUME NEW j \in Jobs, Open(j) PROVE MachineInv'
  BY <1>4 DEF Open, Moves, HasRoom
<1>5. ASSUME NEW j \in Jobs, Wake(j[1]) PROVE MachineInv'
  BY <1>5 DEF Wake, Moves
<1>6. ASSUME NEW j \in Jobs, End(j) PROVE MachineInv'
  <2>1. PICK s \in {"closed", "failed"} : Finish(j, s)
    BY <1>6 DEF End
  <2>2. state[j] \in {"open", "waiting"}
    BY <1>6 DEF End
  <2> QED BY <2>1, <2>2 DEF Finish, Moves
<1>7. ASSUME NEW j \in Jobs, ReadWorker(j) PROVE MachineInv'
  BY <1>7 DEF ReadWorker
<1>8. ASSUME NEW j \in Jobs, SaveWorker(j) PROVE MachineInv'
  <2>1. \A w \in Workers : row[w].known => row'[w].known
    <3>1. [Saved(j) EXCEPT !.known = TRUE] \in RowType => [Saved(j) EXCEPT !.known = TRUE].known
      <4> SUFFICES ASSUME NEW r \in RowType PROVE [r EXCEPT !.known = TRUE].known
        BY <1>8, RowTypes DEF SaveWorker, Saved, RowType
      <4> QED BY DEF RowType
    <3>2. [Saved(j) EXCEPT !.known = TRUE] \in RowType
      BY <1>8, SavedRow DEF SaveWorker
    <3> QED BY <1>8, <3>1, <3>2 DEF SaveWorker
  <2> QED BY <1>8, <2>1 DEF SaveWorker
<1>9. ASSUME NEW j \in Jobs, Cancel(j) PROVE MachineInv'
  BY <1>9 DEF Cancel
<1>10. ASSUME NEW w \in Workers, CreateWorker(w) PROVE MachineInv'
  BY <1>10 DEF CreateWorker, NewRow
<1>11. ASSUME NEW w \in Workers, NEW ok \in BOOLEAN, StartWorker(w, ok) PROVE MachineInv'
  BY <1>11 DEF StartWorker
<1>12. ASSUME NEW w \in Workers, check_finished(w) PROVE MachineInv'
  BY <1>12 DEF check_finished
<1>13. ASSUME NEW w \in Workers, delete_worker(w) PROVE MachineInv'
  BY <1>13 DEF delete_worker, LeavingInv, NoRow
<1>14. CASE UNCHANGED vars
  BY <1>14 DEF vars
<1> QED BY <1>1, <1>2, <1>3, <1>4, <1>5, <1>6, <1>7, <1>8, <1>9, <1>10, <1>11, <1>12,
           <1>13, <1>14 DEF Next, Process, Manage

LEMMA NextServed == OneInv /\ [Next]_vars => ServedInv'
<1> SUFFICES ASSUME OneInv, [Next]_vars PROVE ServedInv'
  OBVIOUS
<1> USE JobNames, JobParts DEF OneInv, IInv, TypeOK, PlacedInv, ServedInv, Served, Early
<1>1. ASSUME NEW t \in Tasks, Submit(t) PROVE ServedInv'
  BY <1>1 DEF Submit, Moves
<1>2. ASSUME NEW t \in Tasks, Spawn(t) PROVE ServedInv'
  BY <1>2 DEF Spawn
<1>3. ASSUME NEW t \in Tasks, NEW w \in Workers, Take(w, t) PROVE ServedInv'
  BY <1>3 DEF Take, Moves
<1>4. ASSUME NEW j \in Jobs, Open(j) PROVE ServedInv'
  BY <1>4 DEF Open, Moves
<1>5. ASSUME NEW j \in Jobs, Wake(j[1]) PROVE ServedInv'
  BY <1>5 DEF Wake, Moves
<1>6. ASSUME NEW j \in Jobs, End(j) PROVE ServedInv'
  BY <1>6 DEF End, Finish, Moves
<1>7. ASSUME NEW j \in Jobs, ReadWorker(j) PROVE ServedInv'
  BY <1>7 DEF ReadWorker
<1>8. ASSUME NEW j \in Jobs, SaveWorker(j) PROVE ServedInv'
  BY <1>8 DEF SaveWorker
<1>9. ASSUME NEW j \in Jobs, Cancel(j) PROVE ServedInv'
  BY <1>9 DEF Cancel
<1>10. ASSUME NEW w \in Workers, Manage(w) PROVE ServedInv'
  BY <1>10 DEF Manage, CreateWorker, StartWorker, check_finished, delete_worker
<1>11. CASE UNCHANGED vars
  BY <1>11 DEF vars
<1> QED BY <1>1, <1>2, <1>3, <1>4, <1>5, <1>6, <1>7, <1>8, <1>9, <1>10, <1>11
        DEF Next, Process

LEMMA NextHeld == OneInv /\ [Next]_vars => HeldInv'
<1> SUFFICES ASSUME OneInv, [Next]_vars PROVE HeldInv'
  OBVIOUS
<1> SUFFICES ASSUME NEW t \in Tasks, NEW w \in Workers, Served(t, w)', Untouched(w)'
             PROVE  Canceled(t)' \/ OpeningMain(t)' \/ OpeningBase(t, w)'
  BY DEF HeldInv
<1> DEFINE m == Main(t)
           b == Base(t)
           Gone == state[m] = "canceled" \/ state[b] = "canceled"
           Held == Gone \/ OpeningMain(t) \/ OpeningBase(t, w)
           Goal == Canceled(t)' \/ OpeningMain(t)' \/ OpeningBase(t, w)'
<1>c. (Canceled(t) <=> Gone) /\ (Canceled(t)' <=> Gone')
  BY DEF Canceled, Kinds, Main, Base
<1>m. m \in Jobs /\ b \in Jobs /\ m # b
  BY JobNames
<1>p. \A u \in Tasks : /\ Main(u) = m <=> u = t
                       /\ Base(u) = b <=> u = t
                       /\ Main(u) # b /\ Base(u) # m
  BY JobParts
<1>q. m[1] = t /\ m[2] = "main" /\ b[1] = t /\ b[2] = "base"
  BY JobParts
<1>0. Served(t, w) => on[m] = w /\ state[m] \notin Early
  BY DEF OneInv, ServedInv
<1>h. Served(t, w) /\ Untouched(w) => Held
  BY <1>c DEF OneInv, HeldInv
<1> DEFINE Same == /\ served'[w] = served[w] /\ row'[w] = row[w] /\ method'[t] = method[t]
                   /\ state'[m] = state[m] /\ state'[b] = state[b] /\ on'[b] = on[b]
                   /\ call'[m] = call[m] /\ call'[b] = call[b]
<1>s. Same => Goal
  BY <1>c, <1>h DEF Served, Untouched, OpeningMain, OpeningBase, Opening
<1> USE <1>m, <1>c, JobNames DEF OneInv, IInv, TypeOK
<1> USE DEF Served, Untouched, OpeningMain, OpeningBase, Opening, Early
<1>1. ASSUME NEW u \in Tasks, Submit(u) PROVE Goal
  <2>1. u # t
    BY <1>0, <1>1 DEF Submit
  <2>2. Same
    BY <1>1, <1>p, <2>1 DEF Submit, Moves
  <2> QED BY <1>s, <2>2
<1>2. ASSUME NEW u \in Tasks, Spawn(u) PROVE Goal
  <2>1. CASE u = t
    BY <1>0, <1>h, <1>2, <2>1 DEF Spawn
  <2>2. CASE u # t
    <3>1. Same
      BY <1>2, <1>p, <2>2 DEF Spawn
    <3> QED BY <1>s, <3>1
  <2> QED BY <2>1, <2>2
<1>3. ASSUME NEW u \in Tasks, NEW v \in Workers, Take(v, u) PROVE Goal
  <2>1. u # t
    BY <1>0, <1>3 DEF Take
  <2>2. Same
    BY <1>3, <1>p, <2>1 DEF Take, Moves
  <2> QED BY <1>s, <2>2
<1>4. ASSUME NEW j \in Jobs, Open(j) PROVE Goal
  <2>1. CASE j = Main(t)
    BY <1>4, <2>1 DEF Open, Moves, EarlyInv
  <2>2. CASE j # Main(t)
    BY <1>h, <1>4, <2>2 DEF Open, Moves, PlacedInv
  <2> QED BY <2>1, <2>2
<1>5. ASSUME NEW j \in Jobs, Wake(j[1]) PROVE Goal
  <2>1. state[Main(j[1])] = "waiting" /\ state[Base(j[1])] = "closed"
    BY <1>5 DEF Wake
  <2>2. CASE j[1] = t
    BY <1>h, <1>5, <2>1, <2>2 DEF Wake, Moves
  <2>3. CASE j[1] # t
    <3>1. Same
      BY <1>5, <1>p, <2>3 DEF Wake, Moves
    <3> QED BY <1>s, <3>1
  <2> QED BY <2>2, <2>3
<1>6. ASSUME NEW j \in Jobs, End(j) PROVE Goal
  <2>1. PICK s \in {"closed", "failed"} : Finish(j, s)
    BY <1>6 DEF End
  <2>2. CASE j = Main(t)
    BY <1>q, <1>h, <1>6, <2>1, <2>2 DEF End, Finish, Moves, MayHaveBase, MustHaveBase
  <2>3. CASE j = Base(t)
    BY <1>h, <1>6, <2>1, <2>3 DEF End, Finish, Moves
  <2>4. CASE j # Main(t) /\ j # Base(t)
    BY <1>h, <2>1, <2>4 DEF Finish, Moves
  <2> QED BY <2>2, <2>3, <2>4
<1>7. ASSUME NEW j \in Jobs, ReadWorker(j) PROVE Goal
  BY <1>0, <1>h, <1>7 DEF ReadWorker, MachineInv
<1>8. ASSUME NEW j \in Jobs, SaveWorker(j) PROVE Goal
  <2> DEFINE r == [Saved(j) EXCEPT !.known = TRUE]
  <2>1. r.max_load = 0 \/ r.enabled = FALSE
    BY <1>8, SavedRow DEF SaveWorker
  <2>2. row'[w] # r
    <3>1. SUFFICES ASSUME NEW x, x = r, row'[w] = x PROVE FALSE
      OBVIOUS
    <3>2. x.max_load = 0 \/ x.enabled = FALSE
      BY <2>1, <3>1
    <3> HIDE DEF r
    <3> QED BY <3>1, <3>2
  <2> HIDE DEF r
  <2>3. on[j] = w => row'[w] = CASE call[j] = "opened" /\ ~LastToOpen(j) -> row[w]
                                 [] copy[j].known \/ ~row[w].known -> r
                                 [] OTHER -> row[w]
    BY <1>8 DEF SaveWorker, r
  <2>4. row'[w] = row[w]
    <3>1. CASE on[j] = w
      BY <2>2, <2>3, <3>1
    <3>2. CASE on[j] # w
      BY <1>8, <3>2 DEF SaveWorker
    <3> QED BY <3>1, <3>2
  <2>5. on[j] = w => (call[j] = "opened" /\ ~LastToOpen(j)) \/ ~copy[j].known
    BY <2>2, <2>3
  <2>6. CASE j = m
    <3>1. Served(t, w) /\ Untouched(w) /\ on[m] = w
      BY <1>0, <1>8, <2>4 DEF SaveWorker
    <3>2. (call[m] = "opened" /\ method[t] = "VersionDiffBuild") \/ ~copy[m].known
      BY <1>q, <2>5, <2>6, <3>1 DEF LastToOpen
    <3>3. state[m] = "open" /\ Opening(m) => method[t] = "VersionDiffBuild"
      BY <1>8, <2>6, <3>2 DEF SaveWorker, MachineInv
    <3> QED BY <1>h, <1>8, <2>6, <3>1, <3>3 DEF SaveWorker
  <2>7. CASE j = b
    BY <1>q, <1>h, <1>8, <2>4, <2>5, <2>7 DEF SaveWorker, LastToOpen, MachineInv
  <2>8. CASE j # m /\ j # b
    <3>1. Same
      BY <1>8, <2>4, <2>8 DEF SaveWorker
    <3> QED BY <1>s, <3>1
  <2> QED BY <2>6, <2>7, <2>8
<1>9. ASSUME NEW j \in Jobs, Cancel(j) PROVE Goal
  BY <1>h, <1>9 DEF Cancel
<1>10. ASSUME NEW v \in Workers, CreateWorker(v) PROVE Goal
  BY <1>h, <1>10 DEF CreateWorker, MachineInv
<1>11. ASSUME NEW v \in Workers, NEW ok \in BOOLEAN, StartWorker(v, ok) PROVE Goal
  BY <1>h, <1>11 DEF StartWorker, MachineInv
<1>12. ASSUME NEW v \in Workers, check_finished(v) PROVE Goal
  BY <1>h, <1>12 DEF check_finished
<1>13. ASSUME NEW v \in Workers, delete_worker(v) PROVE Goal
  BY <1>h, <1>13 DEF delete_worker
<1>14. CASE UNCHANGED vars
  BY <1>h, <1>14 DEF vars
<1> QED BY <1>1, <1>2, <1>3, <1>4, <1>5, <1>6, <1>7, <1>8, <1>9, <1>10, <1>11, <1>12,
           <1>13, <1>14 DEF Next, Process, Manage

(* A machine that takes or opens a task serves no other that is left: the  *)
(* one that it served would still weigh on it.                             *)
LEMMA NextAlone == OneInv /\ [Next]_vars => AloneInv'
<1> SUFFICES ASSUME OneInv, [Next]_vars PROVE AloneInv'
  OBVIOUS
<1>c. \A t \in Tasks : /\ Canceled(t) <=> state[Main(t)] = "canceled" \/ state[Base(t)] = "canceled"
                       /\ Canceled(t)' <=> state'[Main(t)] = "canceled" \/ state'[Base(t)] = "canceled"
  BY DEF Canceled, Kinds, Main, Base
<1> DEFINE Settled == /\ \A t \in Tasks, w \in Workers :
                           /\ AssignedTo(t, w)' => AssignedTo(t, w)
                           /\ Served(t, w)' => Served(t, w)
                      /\ \A t \in Tasks : Canceled(t) => Canceled(t)'
                      /\ \A t, u \in Tasks, w \in Workers :
                           Served(t, w)' /\ Served(u, w) => Served(u, w)'
<1>s. Settled => AloneInv'
  BY DEF OneInv, AloneInv, Clean
<1> HIDE DEF Settled
<1> USE JobNames, JobParts DEF OneInv, IInv, TypeOK
<1>1. ASSUME NEW t \in Tasks, Submit(t) PROVE AloneInv'
  <2>1. Settled
    BY <1>c, <1>1 DEF Submit, Moves, Settled, AssignedTo, Served
  <2> QED BY <1>s, <2>1
<1>2. ASSUME NEW t \in Tasks, Spawn(t) PROVE AloneInv'
  <2>1. Settled
    BY <1>c, <1>2 DEF Spawn, Settled, AssignedTo, Served
  <2> QED BY <1>s, <2>1
<1>5. ASSUME NEW j \in Jobs, Wake(j[1]) PROVE AloneInv'
  <2>1. Settled
    BY <1>c, <1>5 DEF Wake, Moves, Settled, AssignedTo, Served
  <2> QED BY <1>s, <2>1
<1>6. ASSUME NEW j \in Jobs, End(j) PROVE AloneInv'
  <2>1. PICK s \in {"closed", "failed"} : Finish(j, s)
    BY <1>6 DEF End
  <2>2. state[j] \in {"open", "waiting"}
    BY <1>6 DEF End
  <2>3. /\ \A k \in Jobs : /\ state[k] = "canceled" => state'[k] = "canceled"
                           /\ state'[k] = "assigned" => state[k] = "assigned"
        /\ UNCHANGED <<on, served>>
    BY <2>1, <2>2 DEF Finish, Moves
  <2> HIDE DEF IInv, TypeOK
  <2>4. Settled
    BY <1>c, <2>3 DEF Settled, AssignedTo, Served
  <2> QED BY <1>s, <2>4
<1>7. ASSUME NEW j \in Jobs, ReadWorker(j) \/ SaveWorker(j) PROVE AloneInv'
  <2>1. Settled
    BY <1>c, <1>7 DEF ReadWorker, SaveWorker, Settled, AssignedTo, Served
  <2> QED BY <1>s, <2>1
<1>9. ASSUME NEW j \in Jobs, Cancel(j) PROVE AloneInv'
  <2>1. Settled
    BY <1>c, <1>9 DEF Cancel, Settled, AssignedTo, Served
  <2> QED BY <1>s, <2>1
<1>10. ASSUME NEW w \in Workers, Manage(w) PROVE AloneInv'
  <2>1. /\ \A v \in Workers : served'[v] = served[v] \/ served'[v] = {}
        /\ UNCHANGED <<state, on>>
    BY <1>10 DEF Manage, CreateWorker, StartWorker, check_finished, delete_worker
  <2>2. Settled
    BY <1>c, <2>1 DEF Settled, AssignedTo, Served
  <2> QED BY <1>s, <2>2
<1>11. CASE UNCHANGED vars
  <2>1. Settled
    BY <1>c, <1>11 DEF vars, Settled, AssignedTo, Served
  <2> QED BY <1>s, <2>1
<1>3. ASSUME NEW u \in Tasks, NEW v \in Workers, Take(v, u) PROVE AloneInv'
  <2>1. /\ \A j \in Jobs : on[j] = v => state[j] \notin {"assigned", "open"}
        /\ Untouched(v)
    BY <1>3, RoomIsIdle DEF Take
  <2>2. ASSUME NEW t \in Tasks, Served(t, v) PROVE Canceled(t)
    BY <2>1, <2>2 DEF ServedInv, HeldInv, OpeningMain, OpeningBase, Opening
  <2>3. ASSUME NEW t \in Tasks, NEW w \in Workers
        PROVE  /\ AssignedTo(t, w)' <=> AssignedTo(t, w) \/ (t = u /\ w = v)
               /\ Served(t, w)' <=> Served(t, w)
               /\ Canceled(t)' <=> Canceled(t)
    BY <1>c, <1>3 DEF Take, Moves, AssignedTo, Served
  <2>4. \A t \in Tasks : ~AssignedTo(t, v)
    BY <2>1 DEF AssignedTo
  <2> HIDE DEF IInv, TypeOK
  <2> QED BY <2>2, <2>3, <2>4 DEF AloneInv, Clean
<1>4. ASSUME NEW j \in Jobs, Open(j) PROVE AloneInv'
  <2>1. CASE \E t \in Tasks : j = Base(t)
    <3>1. Settled
      BY <1>c, <1>4, <2>1 DEF Open, Moves, Settled, AssignedTo, Served
    <3> QED BY <1>s, <3>1
  <2>2. CASE \E t \in Tasks : j = Main(t)
    <3>1. PICK u \in Tasks : j = Main(u)
      BY <2>2
    <3>2. PICK v \in Workers : v = on[j]
      BY <1>4 DEF Open, PlacedInv
    <3>3. ASSUME NEW t \in Tasks, NEW w \in Workers
          PROVE  /\ AssignedTo(t, w)' <=> AssignedTo(t, w) /\ t # u
                 /\ Served(t, w)' <=> Served(t, w) \/ (t = u /\ w = v)
                 /\ Canceled(t)' <=> Canceled(t)
      BY <1>c, <1>4, <3>1, <3>2 DEF Open, Moves, AssignedTo, Served
    <3>4. AssignedTo(u, v)
      BY <1>4, <3>1, <3>2 DEF Open, AssignedTo
    <3> HIDE DEF IInv, TypeOK
    <3> QED BY <3>3, <3>4 DEF AloneInv, Clean
  <2> QED BY <2>1, <2>2, JobIsMainOrBase
<1> QED BY <1>1, <1>2, <1>3, <1>4, <1>5, <1>6, <1>7, <1>9, <1>10, <1>11 DEF Next, Process

LEMMA InitOneInv == Init => OneInv
<1> SUFFICES ASSUME Init PROVE OneInv
  OBVIOUS
<1> QED BY InitIInv, JobNames DEF Init, OneInv, EarlyInv, MachineInv, ServedInv, HeldInv,
        AloneInv, Served, AssignedTo

LEMMA OneInductive == Spec => []OneInv
<1>1. IInv /\ [Next]_vars => IInv'
  BY NextType, NextPlaced, NextLeaving DEF IInv
<1>2. OneInv /\ [Next]_vars => OneInv'
  BY <1>1, NextEarly, NextMachine, NextServed, NextHeld, NextAlone DEF OneInv
<1> QED BY <1>2, InitOneInv, PTL DEF Spec

(* However the programs that save its row overtake each other, a machine   *)
(* opens the main task of one task only, unless one of those it opened, or *)
(* its base, is canceled.                                                  *)
THEOREM OneTaskAlways == Spec => []OneTaskEach
<1>1. OneInv => OneTaskEach
  <2> SUFFICES ASSUME OneInv, NEW w \in Workers,
                      \A t \in Tasks : Main(t) \in served[w] => ~Canceled(t)
               PROVE  ~(Cardinality({t \in Tasks : Main(t) \in served[w]}) > 1)
    BY DEF OneTaskEach
  <2> DEFINE mains == {t \in Tasks : Main(t) \in served[w]}
  <2>1. \A t, u \in mains : t = u
    BY DEF OneInv, AloneInv, Served, Clean
  <2>2. CASE mains = {}
    BY <2>2, FS_EmptySet
  <2>3. CASE mains # {}
    <3>1. PICK t : mains = {t}
      BY <2>1, <2>3
    <3> QED BY <3>1, FS_Singleton
  <2> QED BY <2>2, <2>3
<1> QED BY <1>1, OneInductive, PTL
=============================================================================
