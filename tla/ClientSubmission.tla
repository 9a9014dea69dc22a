--------------------------- MODULE ClientSubmission ---------------------------
(***************************************************************************)
(* Tasks that users submit with the client: MockBuild, DiffBuild and       *)
(* VersionDiffBuild.  The sources and the custom model are files that the  *)
(* client uploaded before; the hub moves them to the directory of the task *)
(* (ClientScanScheduler.spawn), a base's sources are moved only when its   *)
(* worker asks for it (move_upload), and the worker downloads what it      *)
(* needs from the directory of its own task (Build.run).                   *)
(*                                                                         *)
(* A job is a task of a request, the main one or its base.  A request has  *)
(* up to three processes: the handler of the hub, which works on the main  *)
(* job, and the worker's processes of the two jobs.  What a process still  *)
(* has to do is a sequence of steps, and an exception ends it where it is. *)
(***************************************************************************)
EXTENDS Sequences, FiniteSets

CONSTANTS
  Requests,  \* calls of mock_build, diff_build and create_user_diff_task
  Files,     \* uploads
  NoFile,    \* none of them
  Unasked,   \* in place of the options of a call that did not come yet
  Refused,   \* and of one that raised before it created a task
  Options    \* the options that are tried

Builds == {"none", "rpm", "container"}
Choices == [version_diff : BOOLEAN,
            brew_build : Builds, dist_git_url : BOOLEAN,
            upload_id : Files \cup {NoFile}, upload_model_id : Files \cup {NoFile},
            auto : BOOLEAN,                         \* mock_config = 'auto'
            base_brew_build : Builds, base_upload_id : Files \cup {NoFile},
            base_mock_config : {"absent", "auto", "named"}]

ASSUME NoFileAssumption == NoFile \notin Files
ASSUME OptionsAssumption ==
  Options \subseteq Choices /\ Unasked \notin Choices /\ Refused \notin Choices

VARIABLES
  record,   \* uploads whose FileUpload row exists
  place,    \* where a file is: UploadDir, or the directory of a job
  asked,    \* options of a request that was accepted
  task,     \* Task.state of a job
  todo,     \* steps ahead of a process
  configs,  \* jobs with mock configs in their directory
  died,     \* requests whose handler was killed
  lost      \* history: jobs that were ended by an exception over their files

clientVars == <<record, place, asked, task, todo, configs, died, lost>>

Jobs == Requests \X {"main", "base"}
Main(r) == <<r, "main">>
Base(r) == <<r, "base">>
Hub(r)  == <<r, "hub">>
Processes == Jobs \cup {Hub(r) : r \in Requests}
JobOf(p) == IF p[2] = "hub" THEN Main(p[1]) ELSE p

Given(f) == f # NoFile
UploadDir == <<>>

With(op, f) == <<[op |-> op, file |-> f]>>
Do(op) == With(op, NoFile)
If(c, steps) == IF c THEN steps ELSE <<>>

-----------------------------------------------------------------------------
(* validate_options and prepare_args.  What is not about sources, files or *)
(* mock configs (analyzers, profile, priority, metadata, koji) only adds   *)
(* reasons to refuse, and any request may be refused.                      *)

(* check_upload; that the upload is the user's own is one more reason.     *)
Usable(f) == f \in record

(* check_srpm: a build goes before an upload.                              *)
SourceGiven(build, f) == build # "none" \/ (Given(f) /\ Usable(f))

(* mock_config after validation: 'auto' becomes 'cspodman' for dist-git    *)
(* and container builds.                                                   *)
MockAuto(o) == o.auto /\ ~o.dist_git_url /\ o.brew_build = "rpm"

(* base_mock_config after validation: it is looked into only when given.   *)
BaseAuto(o) ==
  \/ o.base_mock_config = "absent" /\ MockAuto(o)
  \/ o.base_mock_config = "auto" /\ o.base_brew_build = "rpm"

Valid(o) ==
  /\ Given(o.upload_model_id) => Usable(o.upload_model_id)
  /\ IF o.brew_build # "none" \/ Given(o.upload_id)
       THEN SourceGiven(o.brew_build, o.upload_id)
       ELSE o.dist_git_url
  /\ o.auto => o.brew_build # "none" \/ o.dist_git_url
  /\ o.version_diff =>
       /\ SourceGiven(o.base_brew_build, o.base_upload_id)
       /\ o.base_mock_config = "auto" => o.base_brew_build # "none"
       /\ BaseAuto(o) => o.base_brew_build # "none"

(* spawn.  With a build and an upload the upload still is to be moved, but *)
(* its path was never set.                                                 *)
MoveSteps(f, known) == With("move", IF known THEN f ELSE NoFile) \o With("delete", f)

\* Mutant: the task is freed as soon as it is created.
MutSpawnSteps(o) ==
  Do("create") \o Do("free")
    \o If(Given(o.upload_id), MoveSteps(o.upload_id, o.brew_build = "none"))
    \o If(Given(o.upload_model_id), MoveSteps(o.upload_model_id, TRUE))
    \o If(MockAuto(o), Do("put configs"))

SpawnSteps(o) ==
  Do("create")
    \o If(Given(o.upload_id), MoveSteps(o.upload_id, o.brew_build = "none"))
    \o If(Given(o.upload_model_id), MoveSteps(o.upload_model_id, TRUE))
    \o If(MockAuto(o), Do("put configs"))
    \o Do("free")

(* Build.run, for a target and for a base.                                 *)
RunSteps(o, kind) ==
  LET base  == kind = "base"
      build == IF base THEN o.base_brew_build ELSE o.brew_build
      file  == IF base THEN o.base_upload_id ELSE o.upload_id
      auto  == IF base THEN BaseAuto(o) ELSE MockAuto(o)
      named == build = "none" /\ Given(file)     \* srpm_name
  IN  If(~base /\ o.version_diff, Do("spawn base") \o Do("wait"))
        \o If(auto, If(base, Do("generate configs")) \o Do("fetch config"))
        \o If(base /\ named, With("find", file) \o MoveSteps(file, TRUE))
        \o If(Given(o.upload_model_id), With("fetch", o.upload_model_id))
        \o If(named, With("fetch", file))
        \o Do("analyze")

-----------------------------------------------------------------------------
(* How a process goes on.                                                  *)

AtStep(p, op) == todo[p] # <<>> /\ Head(todo[p]).op = op
File(p) == Head(todo[p]).file
GoOn(p) == todo' = [todo EXCEPT ![p] = Tail(@)]
Moves(p, s) == task' = [task EXCEPT ![JobOf(p)] = s]

(* kobo fails the task of a worker's process that raises; after the hub's  *)
(* the task stays as it is.                                                *)
Raises(p) ==
  /\ todo' = [todo EXCEPT ![p] = <<>>]
  /\ IF p \in Jobs THEN Moves(p, "failed") ELSE UNCHANGED task

Lose(p) == Raises(p) /\ lost' = lost \cup {JobOf(p)}

-----------------------------------------------------------------------------
(* The hub.                                                                *)

ClientInit ==
  /\ record = Files
  /\ place = [f \in Files |-> UploadDir]
  /\ asked = [r \in Requests |-> Unasked]
  /\ task = [j \in Jobs |-> "none"]
  /\ todo = [p \in Processes |-> <<>>]
  /\ configs = {}
  /\ died = {}
  /\ lost = {}

Accept(r) ==
  /\ asked[r] = Unasked
  /\ \E o \in Options :
       /\ Valid(o)
       /\ asked' = [asked EXCEPT ![r] = o]
       /\ todo' = [todo EXCEPT ![Hub(r)] = SpawnSteps(o)]
  /\ UNCHANGED <<record, place, task, configs, died, lost>>

Refuse(r) ==
  /\ asked[r] = Unasked
  /\ asked' = [asked EXCEPT ![r] = Refused]
  /\ UNCHANGED <<record, place, task, todo, configs, died, lost>>

Create(p) ==
  /\ AtStep(p, "create")
  /\ Moves(p, "created")
  /\ GoOn(p)
  /\ UNCHANGED <<record, place, asked, configs, died, lost>>

(* shutil.move: from the directory of the uploads, wherever the file is by *)
(* now.                                                                    *)
Move(p) ==
  /\ AtStep(p, "move")
  /\ IF Given(File(p)) /\ place[File(p)] = UploadDir
       THEN /\ place' = [place EXCEPT ![File(p)] = JobOf(p)]
            /\ GoOn(p)
            /\ UNCHANGED <<task, lost>>
       ELSE Lose(p) /\ UNCHANGED place
  /\ UNCHANGED <<record, asked, configs, died>>

(* FileUpload.objects.get, by itself in move_upload.                       *)
Find(p) ==
  /\ AtStep(p, "find")
  /\ IF File(p) \in record
       THEN GoOn(p) /\ UNCHANGED <<task, lost>>
       ELSE Lose(p)
  /\ UNCHANGED <<record, place, asked, configs, died>>

Delete(p) ==
  /\ AtStep(p, "delete")
  /\ record' = record \ {File(p)}
  /\ IF File(p) \in record
       THEN GoOn(p) /\ UNCHANGED <<task, lost>>
       ELSE Lose(p)
  /\ UNCHANGED <<place, asked, configs, died>>

(* move_mock_configs: what generate_mock_configs wrote before the task was *)
(* created.                                                                *)
PutConfigs(p) ==
  /\ AtStep(p, "put configs")
  /\ configs' = configs \cup {JobOf(p)}
  /\ GoOn(p)
  /\ UNCHANGED <<record, place, asked, task, died, lost>>

Free(p) ==
  /\ AtStep(p, "free")
  /\ Moves(p, "free")
  /\ GoOn(p)
  /\ UNCHANGED <<record, place, asked, configs, died, lost>>

(* The process that serves the request is killed.                          *)
Die(r) ==
  /\ todo[Hub(r)] # <<>>
  /\ died' = died \cup {r}
  /\ Raises(Hub(r))
  /\ UNCHANGED <<record, place, asked, configs, lost>>

-----------------------------------------------------------------------------
(* The worker.                                                             *)

Take(j) ==
  /\ task[j] = "free"
  /\ Moves(j, "open")
  /\ todo' = [todo EXCEPT ![j] = RunSteps(asked[j[1]], j[2])]
  /\ UNCHANGED <<record, place, asked, configs, died, lost>>

SpawnBase(r) ==
  /\ AtStep(Main(r), "spawn base")
  /\ Moves(Base(r), "free")
  /\ GoOn(Main(r))
  /\ UNCHANGED <<record, place, asked, configs, died, lost>>

\* Mutant: only a base that is closed ends the wait.
MutWait(r) ==
  /\ AtStep(Main(r), "wait")
  /\ task[Base(r)] = "closed"
  /\ GoOn(Main(r))
  /\ UNCHANGED <<record, place, asked, task, configs, died, lost>>

(* The task goes on when its base is closed, and fails with it.            *)
Wait(r) ==
  /\ AtStep(Main(r), "wait")
  /\ \/ task[Base(r)] = "closed" /\ GoOn(Main(r)) /\ UNCHANGED task
     \/ task[Base(r)] = "failed" /\ Raises(Main(r))
  /\ UNCHANGED <<record, place, asked, configs, died, lost>>

(* create_mock_configs for a base; koji may also not answer.               *)
GenerateConfigs(j) ==
  /\ AtStep(j, "generate configs")
  /\ \/ /\ asked[j[1]].base_brew_build = "rpm"
        /\ configs' = configs \cup {j}
        /\ GoOn(j)
        /\ UNCHANGED task
     \/ Raises(j) /\ UNCHANGED configs
  /\ UNCHANGED <<record, place, asked, died, lost>>

(* CsmockRunner.download_file, from the directory of the task.             *)
Fetch(p) ==
  /\ AtStep(p, "fetch")
  /\ IF place[File(p)] = p
       THEN GoOn(p) /\ UNCHANGED <<task, lost>>
       ELSE Lose(p)
  /\ UNCHANGED <<record, place, asked, configs, died>>

FetchConfig(p) ==
  /\ AtStep(p, "fetch config")
  /\ IF p \in configs
       THEN GoOn(p) /\ UNCHANGED <<task, lost>>
       ELSE Lose(p)
  /\ UNCHANGED <<record, place, asked, configs, died>>

Analyze(j) ==
  /\ AtStep(j, "analyze")
  /\ \E s \in {"closed", "failed"} : Moves(j, s)
  /\ GoOn(j)
  /\ UNCHANGED <<record, place, asked, configs, died, lost>>

-----------------------------------------------------------------------------
\* A process that can go on does; a task that is free is taken by a worker.
Goes(p) ==
  \/ Create(p) \/ Move(p) \/ Find(p) \/ Delete(p) \/ PutConfigs(p) \/ Free(p)
  \/ Fetch(p) \/ FetchConfig(p)

Works(j) == Take(j) \/ GenerateConfigs(j) \/ Analyze(j)

Spawns(r) == SpawnBase(r) \/ Wait(r)

ClientNext ==
  \/ \E r \in Requests : Accept(r) \/ Refuse(r) \/ Die(r) \/ Spawns(r)
  \/ \E p \in Processes : Goes(p)
  \/ \E j \in Jobs : Works(j)

ClientSpec ==
  /\ ClientInit /\ [][ClientNext]_clientVars
  /\ \A p \in Processes : WF_clientVars(Goes(p))
  /\ \A j \in Jobs : WF_clientVars(Works(j))
  /\ \A r \in Requests : WF_clientVars(Spawns(r))

-----------------------------------------------------------------------------
Accepted(r) == asked[r] \notin {Unasked, Refused}

(* The uses of uploads that a request makes, by the name of the option.    *)
Uses(r) ==
  IF ~Accepted(r)
    THEN {}
    ELSE {"upload_id", "upload_model_id"}
           \cup {n \in {"base_upload_id"} : asked[r].version_diff
                                              /\ asked[r].base_brew_build = "none"}

Shares(r) ==
  \E n \in Uses(r), s \in Requests : \E m \in Uses(s) :
    /\ <<r, n>> # <<s, m>>
    /\ Given(asked[r][n])
    /\ asked[r][n] = asked[s][m]

(* Why a job may be given up for its files: one of them is named twice, an *)
(* upload comes with a build, or a base wants the custom model, which is   *)
(* only in the directory of the target.                                    *)
Explained(j) ==
  LET o == asked[j[1]]
  IN  /\ Accepted(j[1])
      /\ \/ Shares(j[1])
         \/ j[2] = "main" /\ (j[1] \in died \/ (o.brew_build # "none" /\ Given(o.upload_id)))
         \/ j[2] = "base" /\ Given(o.upload_model_id)

Abandoned(j) == task[j] = "created" /\ todo[Hub(j[1])] = <<>>

(* No task is left in CREATED for ever and no job fails for want of a      *)
(* file, except for the reasons that Explained lists: spawn frees a task   *)
(* after all its files moved, nobody takes them away afterwards, and       *)
(* a base finds its upload for as long as no other job takes it.           *)
LostIsExplained ==
  \A j \in Jobs : j \in lost \/ Abandoned(j) => Explained(j)

(* A request that was accepted and has its uploads for itself ends: the    *)
(* hub frees its task, and the task does not wait for a base that failed.  *)
AcceptedEnds ==
  \A r \in Requests :
    Accepted(r) ~> (task[Main(r)] \in {"closed", "failed"} \/ Explained(Main(r)))

=============================================================================
