--------------------------- MODULE SingleUseWorkers ---------------------------
(***************************************************************************)
(* Single-use workers: a virtual machine is allocated for the tasks that   *)
(* wait, should get exactly one of them, and is deleted after that.        *)
(*                                                                         *)
(* Three programs change the row of a worker, each reading and saving all  *)
(* of it: the script osh-worker-manager (create, check, delete), open_task *)
(* (max_load becomes 0) and the two notifications (enabled becomes False)  *)
(* of osh_xmlrpc/worker.py.  Assigning tasks is kobo's; it is modelled     *)
(* from what open_task's comments say of it: a worker that is full starts  *)
(* nothing, a task that waits for a subtask does not count as load, and a  *)
(* spawned subtask is assigned to the worker of its parent.                *)
(***************************************************************************)
EXTENDS Naturals, FiniteSets

CONSTANTS
  Workers,     \* host names
  NoWorker,    \* none of them: a task without a worker
  Tasks,       \* main tasks
  Methods,     \* methods of main tasks
  MaxWorkers,  \* settings.MAX_SINGLE_USE_WORKERS
  MaxCancels   \* bound: tasks that users cancel

ASSUME NoWorkerAssumption == NoWorker \notin Workers
ASSUME MaxWorkersAssumption == MaxWorkers \in Nat \ {0}
ASSUME MethodsAssumption ==
  Methods \subseteq {"MockBuild", "VersionDiffBuild", "ErrataDiffBuild"}
ASSUME CancelsAssumption == MaxCancels \in Nat
ASSUME TasksAssumption == IsFiniteSet(Tasks)

VARIABLES
  method,   \* Task.method of a main task
  state,    \* Task.state of a main task and of its base
  on,       \* Task.worker
  call,     \* the call of the hub that a job is in
  copy,     \* the worker's row that the call has read; known while it is there
  row,      \* table of workers
  vm,       \* virtual machine of a name: "none", "starting" or "up"
  leaving,  \* workers that --check-finished let go, not deleted yet
  served    \* history: main tasks and bases that this machine opened

vars == <<method, state, on, call, copy, row, vm, leaving, served>>

Kinds == {"main", "base"}
Jobs  == Tasks \X Kinds
Main(t) == <<t, "main">>
Base(t) == <<t, "base">>

Ended    == {"closed", "failed", "canceled"}
Running  == {"assigned", "open", "waiting"}
NoRow    == [known |-> FALSE, max_load |-> 0, enabled |-> FALSE]
NewRow   == [known |-> TRUE, max_load |-> 1, enabled |-> TRUE]

(* Load of a worker, for kobo.                                             *)
Load(w) == Cardinality({j \in Jobs : on[j] = w /\ state[j] = "open"})
HasRoom(w) == vm[w] = "up" /\ row[w].known /\ Load(w) < row[w].max_load

(* Only a target with base_task_args, and a scan whose base is not there.  *)
MayHaveBase(t) == method[t] \in {"VersionDiffBuild", "ErrataDiffBuild"}
MustHaveBase(t) == method[t] = "VersionDiffBuild"

Moves(j, s) == state' = [state EXCEPT ![j] = s]

-----------------------------------------------------------------------------
(* Users and the queue.                                                    *)

Submit(t) ==
  /\ state[Main(t)] = "none"
  /\ Moves(Main(t), "free")
  /\ \E m \in Methods : method' = [method EXCEPT ![t] = m]
  /\ UNCHANGED <<on, call, copy, row, vm, leaving, served>>

(* A worker takes a free task only after those assigned to it.             *)
Take(w, t) ==
  /\ state[Main(t)] = "free"
  /\ HasRoom(w)
  /\ row[w].enabled
  /\ \A j \in Jobs : on[j] = w => state[j] # "assigned"
  /\ Moves(Main(t), "assigned")
  /\ on' = [on EXCEPT ![Main(t)] = w]
  /\ UNCHANGED <<method, call, copy, row, vm, leaving, served>>

(* cancel_task(recursive=True); whether a killed process still notifies is *)
(* kobo's.                                                                 *)
Cancel(j) ==
  LET both == {j} \cup (IF j[2] = "main" THEN {Base(j[1])} ELSE {})
      gone == {k \in both : state[k] \in Running \cup {"free"}}
  IN  /\ Cardinality({t \in Tasks : \E k \in Kinds : state[<<t, k>>] = "canceled"}) < MaxCancels
      /\ state[j] \in Running \cup {"free"}
      /\ state' = [k \in Jobs |-> IF k \in gone THEN "canceled" ELSE state[k]]
      /\ \/ UNCHANGED call
         \/ /\ state[j] \in {"open", "waiting"}
            /\ call[j] = "none"
            /\ call' = [call EXCEPT ![j] = "notify"]
      /\ UNCHANGED <<method, on, copy, row, vm, leaving, served>>

-----------------------------------------------------------------------------
(* The process of a task on its worker.                                    *)

(* kobo's half of open_task.                                               *)
Open(j) ==
  /\ state[j] = "assigned"
  /\ HasRoom(on[j])
  /\ Moves(j, "open")
  /\ served' = [served EXCEPT ![on[j]] = @ \cup {j}]
  /\ call' = [call EXCEPT ![j] = "open"]
  /\ UNCHANGED <<method, on, copy, row, vm, leaving>>

(* Build.run and ErrataDiffBuild.run: spawn_subtask and wait.              *)
Spawn(t) ==
  /\ state[Main(t)] = "open"
  /\ call[Main(t)] = "none"
  /\ MayHaveBase(t)
  /\ state[Base(t)] = "none"
  /\ state' = [state EXCEPT ![Main(t)] = "waiting", ![Base(t)] = "assigned"]
  /\ on' = [on EXCEPT ![Base(t)] = on[Main(t)]]
  /\ UNCHANGED <<method, call, copy, row, vm, leaving, served>>

Wake(t) ==
  /\ state[Main(t)] = "waiting"
  /\ state[Base(t)] = "closed"
  /\ Moves(Main(t), "open")
  /\ UNCHANGED <<method, on, call, copy, row, vm, leaving, served>>

Finish(j, s) ==
  /\ Moves(j, s)
  /\ call' = [call EXCEPT ![j] = "notify"]
  /\ UNCHANGED <<method, on, copy, row, vm, leaving, served>>

(* A task ends well or badly, or because its subtask did not end well.     *)
End(j) ==
  \/ /\ state[j] = "open"
     /\ call[j] = "none"
     /\ j[2] = "main" /\ MustHaveBase(j[1]) => state[Base(j[1])] = "closed"
     /\ \E s \in {"closed", "failed"} : Finish(j, s)
  \/ /\ state[j] = "waiting"
     /\ state[Base(j[1])] \in {"failed", "canceled"}
     /\ Finish(j, "failed")

-----------------------------------------------------------------------------
(* The hub: open_task after kobo's half, email_task_notification and       *)
(* email_scan_notification: task.worker is read, changed and saved.        *)

(* A worker that is deleted already makes the call fail.                   *)
ReadWorker(j) ==
  /\ call[j] \in {"open", "notify"}
  /\ call' = [call EXCEPT ![j] = CASE ~row[on[j]].known -> "none"
                                   [] call[j] = "open"  -> "opened"
                                   [] OTHER             -> "notified"]
  /\ copy' = [copy EXCEPT ![j] = row[on[j]]]
  /\ UNCHANGED <<method, state, on, row, vm, leaving, served>>

(* Bug: the base does not count as the last one.                           *)
MutLastToOpen(j) == method[j[1]] # "VersionDiffBuild"

(* Bug: every task counts as the last one.                                 *)
MutLastAlways(j) == TRUE

(* A base that is to come must still start on this worker.                 *)
LastToOpen(j) == method[j[1]] # "VersionDiffBuild" \/ j[2] = "base"

Full(r) == [r EXCEPT !.max_load = 0]
(* Bug: a worker stays enabled after its task.                             *)
MutDisabled(r) == r

Disabled(r) == [r EXCEPT !.enabled = FALSE]

Saved(j) ==
  CASE call[j] = "notified" -> Disabled(copy[j])
    [] call[j] = "opened"   -> Full(copy[j])

(* Saving a row that was deleted meanwhile inserts it again, unless there  *)
(* is a new one of that name: the name is unique.                          *)
SaveWorker(j) ==
  /\ call[j] \in {"opened", "notified"}
  /\ call' = [call EXCEPT ![j] = "none"]
  /\ row' = [row EXCEPT ![on[j]] =
               CASE call[j] = "opened" /\ ~LastToOpen(j) -> @
                 [] copy[j].known \/ ~@.known -> [Saved(j) EXCEPT !.known = TRUE]
                 [] OTHER -> @]
  /\ copy' = [copy EXCEPT ![j] = NoRow]
  /\ UNCHANGED <<method, state, on, vm, leaving, served>>

-----------------------------------------------------------------------------
(* osh-worker-manager.                                                     *)

workers_needed ==
  LET wanted == {t \in Tasks : state[Main(t)] \in Running \cup {"free"}}
  IN  IF Cardinality(wanted) < MaxWorkers THEN Cardinality(wanted) ELSE MaxWorkers

(* create_worker_in_kobo, when the spawner finds that a machine is missing; *)
(* a row of that name is used again, whatever it says of enabled.          *)
CreateWorker(w) ==
  /\ vm[w] = "none"
  /\ Cardinality({v \in Workers : vm[v] # "none"}) < workers_needed
  /\ vm' = [vm EXCEPT ![w] = "starting"]
  /\ row' = [row EXCEPT ![w] = IF @.known THEN [@ EXCEPT !.max_load = 1] ELSE NewRow]
  /\ UNCHANGED <<method, state, on, call, copy, leaving, served>>

(* start_worker: the service starts, or row and machine are given up.      *)
StartWorker(w, ok) ==
  /\ vm[w] = "starting"
  /\ vm' = [vm EXCEPT ![w] = IF ok THEN "up" ELSE "none"]
  /\ row' = [row EXCEPT ![w] = IF ok THEN @ ELSE NoRow]
  /\ UNCHANGED <<method, state, on, call, copy, leaving, served>>

(* Bug: the tasks that run are not looked at.                              *)
MutFinished(w) == row[w].max_load = 0 /\ ~row[w].enabled

Finished(w) ==
  /\ row[w].max_load = 0
  /\ \A j \in Jobs : on[j] = w => state[j] \notin Running
  /\ ~row[w].enabled

check_finished(w) ==
  /\ vm[w] = "up" /\ row[w].known /\ w \notin leaving
  /\ Finished(w)
  /\ leaving' = leaving \cup {w}
  /\ UNCHANGED <<method, state, on, call, copy, row, vm, served>>

delete_worker(w) ==
  /\ w \in leaving
  /\ leaving' = leaving \ {w}
  /\ vm' = [vm EXCEPT ![w] = "none"]
  /\ row' = [row EXCEPT ![w] = NoRow]
  /\ copy' = [j \in Jobs |-> IF on[j] = w THEN [copy[j] EXCEPT !.known = FALSE]
                                           ELSE copy[j]]
  /\ served' = [served EXCEPT ![w] = {}]
  /\ UNCHANGED <<method, state, on, call>>

-----------------------------------------------------------------------------
Init ==
  /\ method = [t \in Tasks |-> "none"]
  /\ state = [j \in Jobs |-> "none"]
  /\ on = [j \in Jobs |-> NoWorker]
  /\ call = [j \in Jobs |-> "none"]
  /\ copy = [j \in Jobs |-> NoRow]
  /\ row = [w \in Workers |-> NoRow]
  /\ vm = [w \in Workers |-> "none"]
  /\ leaving = {}
  /\ served = [w \in Workers |-> {}]

Process(j) == Open(j) \/ Wake(j[1]) \/ End(j) \/ ReadWorker(j) \/ SaveWorker(j)

Manage(w) ==
  \/ CreateWorker(w) \/ check_finished(w) \/ delete_worker(w)
  \/ \E ok \in BOOLEAN : StartWorker(w, ok)

Next ==
  \/ \E t \in Tasks : Submit(t) \/ Spawn(t) \/ \E w \in Workers : Take(w, t)
  \/ \E j \in Jobs : Process(j) \/ Cancel(j)
  \/ \E w \in Workers : Manage(w)

(* A worker polls, a task runs to its end, the spawner polls; a machine    *)
(* that is tried again and again starts in the end.                        *)
Fairness ==
  /\ \A j \in Jobs : WF_vars(Process(j)) /\ WF_vars(Spawn(j[1]))
  /\ \A w \in Workers :
       /\ WF_vars(check_finished(w)) /\ WF_vars(delete_worker(w))
       /\ WF_vars(\E ok \in BOOLEAN : StartWorker(w, ok))
       /\ SF_vars(StartWorker(w, TRUE))
  /\ WF_vars(\E w \in Workers : CreateWorker(w))
  /\ \A t \in Tasks : SF_vars(\E w \in Workers : Take(w, t))

Spec == Init /\ [][Next]_vars /\ Fairness

-----------------------------------------------------------------------------
TypeOK ==
  /\ method \in [Tasks -> Methods \cup {"none"}]
  /\ state \in [Jobs -> {"none", "free"} \cup Running \cup Ended]
  /\ on \in [Jobs -> Workers \cup {NoWorker}]
  /\ call \in [Jobs -> {"none", "open", "opened", "notify", "notified"}]
  /\ copy \in [Jobs -> [known : BOOLEAN, max_load : {0, 1}, enabled : BOOLEAN]]
  /\ row \in [Workers -> [known : BOOLEAN, max_load : {0, 1}, enabled : BOOLEAN]]
  /\ vm \in [Workers -> {"none", "starting", "up"}]
  /\ leaving \subseteq Workers
  /\ served \in [Workers -> SUBSET Jobs]

Canceled(t) == \E k \in Kinds : state[<<t, k>>] = "canceled"

(* A machine gets exactly one task, unless a user cancels it, or the base  *)
(* of a diff task is canceled before it opens: the TODO in open_task.      *)
OneTaskEach ==
  \A w \in Workers :
    LET mains == {t \in Tasks : Main(t) \in served[w]}
    IN  Cardinality(mains) > 1 => \E t \in mains : Canceled(t)

(* While a machine is being deleted nothing runs on it, and nothing starts *)
(* on it any more, although calls of its last task may still save its row. *)
LeavingIsIdle ==
  \A w \in leaving : \A j \in Jobs : on[j] = w => state[j] \notin Running

(* Open bugs: open_task closes the worker of an ErrataDiffBuild before its *)
(* base could start; a late save brings back the row of a deleted worker,  *)
(* which is disabled when the name is used again.                          *)
Stuck(t) ==
  method[t] = "ErrataDiffBuild" /\ state[Main(t)] = "waiting" /\ state[Base(t)] = "assigned"
Ghost(w) ==
  row[w].known /\ (vm[w] = "none" \/ (row[w].max_load = 1 /\ ~row[w].enabled))

Troubled ==
  \/ \E t \in Tasks : Canceled(t) \/ Stuck(t)
  \/ \E w \in Workers : Ghost(w)

(* Every task is run in the end, also when as many machines as allowed     *)
(* are there and have to be used up and deleted first.                     *)
TasksEnd ==
  \A t \in Tasks : state[Main(t)] = "free" ~> state[Main(t)] \in Ended \/ Troubled

(* A machine that served a task is deleted in the end.                     *)
WorkersRetire ==
  \A w \in Workers : served[w] # {} ~> served[w] = {} \/ Troubled
=============================================================================
