----------------------------- MODULE Announcements -----------------------------
(***************************************************************************)
(* What the hub tells others of a scan: messages on the buses whenever     *)
(* set_state changes Scan.state, e-mail to the owner when the task ends    *)
(* (scan/models.py, messaging.py, kafka_messaging.py, notify.py).          *)
(*                                                                         *)
(* A call of the hub reads the row, saves it, starts the threads that send *)
(* and in some handlers saves the row once more; the submission, the two   *)
(* worker processes and users make such calls at once.  Only messages of   *)
(* one state are followed, any of them; two equal ones in flight are one.  *)
(* The admin buttons but "notify" are left out: they mail nobody.          *)
(***************************************************************************)
EXTENDS Naturals, FiniteSets

CONSTANTS
  Buses,       \* the buses in use: "umb", "kafka"
  Prefixes,    \* topic prefixes of a bus
  Kinds,       \* kinds of targets
  Verdicts,    \* states a scan may finish in
  Owners,      \* kinds of users that own the scan
  SendMail,    \* AppSettings SEND_MAIL
  Tasks,       \* tasks that users submitted: method, parent, state, email_to
  Watched,     \* states whose messages are followed
  MaxRequests  \* bound: requests of users

States ==
  { "INIT", "QUEUED", "SCANNING", "BASE_SCANNING", "NEEDS_INSPECTION", "WAIVED",
    "PASSED", "FINISHED", "FAILED", "CANCELED", "DISPUTED", "BUG_CONFIRMED" }
InProgress == {"QUEUED", "SCANNING", "BASE_SCANNING", "INIT"}

Scans     == {"target", "base"}
Processes == {"submit", "worker", "base", "user"}
Addresses == {"username", "email", "default", "none"}

ASSUME KindsAssumption == Kinds \subseteq {"ERRATA", "REBASE", "NEWPKG"}
ASSUME VerdictsAssumption ==
  Verdicts \subseteq {"NEEDS_INSPECTION", "PASSED", "BUG_CONFIRMED"}
ASSUME WatchedAssumption == Watched \subseteq States \ {"INIT", "FINISHED"}
ASSUME BusesAssumption == Buses \subseteq {"umb", "kafka"}
ASSUME OwnersAssumption ==
  Owners \subseteq [at : BOOLEAN, system : BOOLEAN, email : BOOLEAN]
ASSUME TasksAssumption ==
  Tasks \subseteq [method : {"MockBuild", "DiffBuild", "VersionDiffBuild", "other"},
                   parent : BOOLEAN, state : {"OPEN", "CLOSED", "FAILED"},
                   email_to : BOOLEAN]
ASSUME BoundsAssumption == MaxRequests \in Nat /\ SendMail \in BOOLEAN

VARIABLES
  kind,      \* Scan.scan_type of the target
  owner,     \* its user
  state,     \* Scan.state of the target and of its base
  mapped,    \* ETMapping.latest_run is the binding of the target
  pc,        \* where a process is
  call,      \* the call of the hub it is in
  watch,     \* the state whose messages are followed
  fate,      \* of the messages of that state, by bus and prefix
  mails,     \* e-mails sent
  requests

scanVars == <<kind, owner, watch>>
vars == <<scanVars, state, mapped, pc, call, fate, mails, requests>>

Idle == [step |-> "idle"]

-----------------------------------------------------------------------------
(* E-mail: notify.py and scan_notification_email.                          *)

get_recipient(u) ==
  CASE u.at     -> "username"
    [] ~u.at /\ u.system -> "none"
    [] OTHER    -> IF u.email THEN "email" ELSE "default"

(* Without SEND_MAIL everything goes to the admins.                        *)
Mail(about, text, st, to) ==
  [about |-> about, text |-> text, state |-> st,
   to |-> IF SendMail THEN to \ {"none"} ELSE {"admins"}]

(* The failed come first, the disputed before the kinds of scans.          *)
Text(st) ==
  CASE st \in {"FAILED", "CANCELED"} -> "failed"
    [] st = "DISPUTED" -> "disputed"
    [] OTHER -> kind

send_scan_notification ==
  LET st == state["target"]
  IN  Mail("scan", Text(st), st,
           {get_recipient(owner)} \cup (IF Text(st) = "failed" THEN {"devel"} ELSE {}))

(* Bug: failures are not worth a mail.                                     *)
MutSendMail == {"NEEDS_INSPECTION"}

SCAN_STATES_SEND_MAIL == {"NEEDS_INSPECTION", "FAILED"}

(* A base that failed is reported as its target.                           *)
scan_notification_email(s) ==
  IF (IF s = "target" THEN state[s] \in SCAN_STATES_SEND_MAIL ELSE state[s] = "FAILED")
  THEN {send_scan_notification} ELSE {}

send_task_notification(task) ==
  LET to == {get_recipient(owner)} \cup (IF task.email_to THEN {"email_to"} ELSE {})
                                   \cup (IF task.state = "FAILED" THEN {"devel"} ELSE {})
  IN  IF task.parent \/ task.state = "OPEN" \/ task.method = "other" \/ to = {"none"}
      THEN {}
      ELSE {Mail("task", task.method, task.state, to)}

-----------------------------------------------------------------------------
(* Messages.                                                               *)

Topic(st) == IF st \in InProgress THEN "unfinished" ELSE "finished"

Fates == {"none", "sending", "lost", "finished", "unfinished"}

(* scan_state_notice: one thread for each bus and prefix, or it raises     *)
(* since the submission did not map the scan yet.                          *)
Notice(s, st) ==
  fate' = IF s = "base" \/ st # watch
          THEN fate
          ELSE [c \in Buses \X Prefixes |->
                  IF fate[c] \notin {"none", "lost"} THEN fate[c]
                  ELSE IF mapped THEN "sending" ELSE "lost"]

(* UMB connects until it succeeds.                                         *)
UMBSender(c) == c[1] = "umb" /\ fate' = [fate EXCEPT ![c] = Topic(watch)]

(* A failure of Kafka is logged.                                           *)
KafkaSenderThread(c) ==
  c[1] = "kafka" /\ \E end \in {Topic(watch), "lost"} : fate' = [fate EXCEPT ![c] = end]

Deliver(c) ==
  /\ fate[c] = "sending"
  /\ UMBSender(c) \/ KafkaSenderThread(c)
  /\ UNCHANGED <<scanVars, state, mapped, pc, call, mails, requests>>

-----------------------------------------------------------------------------
(* The calls of the hub.                                                   *)

(* A process p reads the scan s to set the state st; after that it is at   *)
(* `next`, or at `except` when the notice raised.                          *)
Read(p, s, st, again, next, except) ==
  /\ call[p] = Idle
  /\ call' = [call EXCEPT ![p] =
                [step |-> "save", scan |-> s, copy |-> state[s], state |-> st,
                 again |-> again, next |-> next, except |-> except]]
  /\ UNCHANGED <<scanVars, state, mapped, pc, fate, mails, requests>>

Return(p, where) ==
  /\ call' = [call EXCEPT ![p] = Idle]
  /\ pc' = [pc EXCEPT ![p] = IF @ = "killed" THEN @ ELSE where]

After(p) ==
  IF call[p].again
  THEN call' = [call EXCEPT ![p].step = "again"] /\ UNCHANGED pc
  ELSE Return(p, call[p].next)

(* Bug: the state of the row is set before it is compared.                 *)
MutSame(c) == TRUE

Same(c) == c.copy = c.state

(* set_state: nothing to do, or save.                                      *)
Save(p) ==
  /\ call[p].step = "save"
  /\ IF Same(call[p])
     THEN After(p) /\ UNCHANGED state
     ELSE /\ state' = [state EXCEPT ![call[p].scan] = call[p].state]
          /\ call' = [call EXCEPT ![p].step = "notice"]
          /\ UNCHANGED pc
  /\ UNCHANGED <<scanVars, mapped, fate, mails, requests>>

Tell(p) ==
  /\ call[p].step = "notice"
  /\ Notice(call[p].scan, call[p].state)
  /\ IF mapped \/ call[p].scan = "base" THEN After(p) ELSE Return(p, call[p].except)
  /\ UNCHANGED <<scanVars, state, mapped, mails, requests>>

(* finish_scan, fail_scan and the waiver form end with scan.save().        *)
SaveAgain(p) ==
  /\ call[p].step = "again"
  /\ state' = [state EXCEPT ![call[p].scan] = call[p].state]
  /\ Return(p, call[p].next)
  /\ UNCHANGED <<scanVars, mapped, fate, mails, requests>>

-----------------------------------------------------------------------------
(* The processes.                                                          *)

Go(p, next) ==
  /\ call[p] = Idle
  /\ pc' = [pc EXCEPT ![p] = next]
  /\ UNCHANGED <<scanVars, state, call, fate, requests>>

(* create_errata_scan, once the task is free.                              *)
Submission ==
  \/ pc["submit"] = "map" /\ mapped' = TRUE /\ Go("submit", "queue") /\ UNCHANGED mails
  \/ pc["submit"] = "queue" /\ Read("submit", "target", "QUEUED", FALSE, "done", "done")

Step(p, s, from, st, next) ==
  pc[p] = from /\ Read(p, s, st, FALSE, next, "failing")

Notify(p, s) ==
  /\ pc[p] = "notify"
  /\ mails' = mails \cup scan_notification_email(s)
  /\ Go(p, "done") /\ UNCHANGED mapped

Fail(p, from, next) ==
  pc[p] = from /\ Read(p, "target", "FAILED", TRUE, next, next)

(* ErrataDiffBuild.run of a target, fail_task, notification.               *)
Worker ==
  \/ Step("worker", "target", "start", "SCANNING", "scan")
  \/ kind # "NEWPKG" /\ Step("worker", "target", "scan", "BASE_SCANNING", "spawn")
  \/ /\ pc["worker"] = "spawn" /\ call["worker"] = Idle /\ pc["base"] = "none"
     /\ pc' = [pc EXCEPT !["worker"] = "wait", !["base"] = "start"]
     /\ UNCHANGED <<scanVars, state, mapped, call, fate, mails, requests>>
  \/ pc["base"] = "done" /\ Step("worker", "target", "wait", "SCANNING", "finish")
  \/ /\ pc["worker"] = "wait" /\ pc["base"] \in {"failed", "killed"}
     /\ Go("worker", "failing") /\ UNCHANGED <<mapped, mails>>
  \/ /\ pc["worker"] \in {"scan", "finish"}
     /\ \E v \in Verdicts : Read("worker", "target", v, TRUE, "notify", "failing")
  \/ \E from \in {"scan", "finish"} : Fail("worker", from, "notify")
  \/ state["target"] # "FAILED" /\ Fail("worker", "failing", "notify")
  \/ /\ pc["worker"] = "failing" /\ state["target"] = "FAILED"
     /\ Go("worker", "notify") /\ UNCHANGED <<mapped, mails>>
  \/ Fail("worker", "interrupted", "killed")
  \/ Notify("worker", "target")

(* The same of a base; fail_scan goes on to the target.  After results     *)
(* that could not be processed the task is closed all the same.            *)
Base ==
  \/ Step("base", "base", "start", "SCANNING", "scan")
  \/ pc["base"] = "scan" /\ Read("base", "base", "FINISHED", TRUE, "notify", "failing")
  \/ pc["base"] = "scan" /\ Read("base", "base", "FAILED", TRUE, "target", "target")
  \/ \E next \in {"notify", "report"} : Fail("base", "target", next)
  \/ Notify("base", "base")
  \/ /\ pc["base"] = "report"
     /\ mails' = mails \cup scan_notification_email("base")
     /\ Go("base", "failed") /\ UNCHANGED mapped

(* The worker is restarted, or the task canceled: its process is gone.     *)
Kill(p, next) ==
  /\ pc[p] \notin {"none", "done", "failed", "killed", "interrupted"}
  /\ pc' = [pc EXCEPT ![p] = IF call[p] = Idle THEN next ELSE "killed"]
  /\ UNCHANGED <<scanVars, state, mapped, call, fate, mails, requests>>

Request ==
  /\ pc["user"] = "idle" /\ call["user"] = Idle
  /\ requests < MaxRequests
  /\ requests' = requests + 1
  /\ UNCHANGED <<scanVars, state, mapped, fate>>

Ask(s, st, again, next) ==
  /\ Request
  /\ call' = [call EXCEPT !["user"] =
                [step |-> "save", scan |-> s, copy |-> state[s], state |-> st,
                 again |-> again, next |-> next, except |-> "idle"]]
  /\ UNCHANGED <<pc, mails>>

(* cancel_scan, apply_waiver and finalize.                                 *)
Cancel == mapped /\ Ask("target", "CANCELED", FALSE, "idle")
Waive ==
  /\ state["target"] \in {"NEEDS_INSPECTION", "DISPUTED", "BUG_CONFIRMED"}
  /\ \E st \in {"WAIVED", "BUG_CONFIRMED"} : Ask("target", st, TRUE, "idle")

(* remove_waiver mails after set_state; scan_notification_email does not   *)
(* for a state that is DISPUTED.                                           *)
Dispute ==
  /\ state["target"] = "WAIVED"
  /\ Ask("target", "DISPUTED", FALSE, "mail")

MailDispute ==
  /\ pc["user"] = "mail"
  /\ mails' = mails \cup scan_notification_email("target")
  /\ Go("user", "idle") /\ UNCHANGED mapped

(* send_notif_new_comment raises for an owner without an address.          *)
Comment ==
  /\ state["target"] \in {"NEEDS_INSPECTION", "DISPUTED", "BUG_CONFIRMED", "WAIVED"}
  /\ Request
  /\ mails' = IF get_recipient(owner) = "none" /\ SendMail
              THEN mails
              ELSE mails \cup {Mail("comment", "comment", state["target"],
                                    {get_recipient(owner)})}
  /\ UNCHANGED <<pc, call>>

(* ScanAdmin.notify                                                        *)
AdminNotify ==
  /\ Request
  /\ mails' = mails \cup {send_scan_notification}
  /\ UNCHANGED <<pc, call>>

(* A task of the same user, with no scan, ends.                            *)
TaskEnds(task) ==
  /\ Request
  /\ mails' = mails \cup send_task_notification(task)
  /\ UNCHANGED <<pc, call>>

-----------------------------------------------------------------------------
Init ==
  /\ kind \in Kinds
  /\ owner \in Owners
  /\ state = [s \in Scans |-> "INIT"]
  /\ mapped = FALSE
  /\ pc = [p \in Processes |-> CASE p = "submit" -> "map"  [] p = "worker" -> "start"
                                 [] p = "base"   -> "none" [] p = "user"   -> "idle"]
  /\ call = [p \in Processes |-> Idle]
  /\ watch \in Watched
  /\ fate = [c \in Buses \X Prefixes |-> "none"]
  /\ mails = {}
  /\ requests = 0

Serve(p) == Save(p) \/ Tell(p) \/ SaveAgain(p)

User ==
  \/ Cancel \/ Waive \/ Dispute \/ MailDispute \/ Comment \/ AdminNotify
  \/ \E task \in Tasks : TaskEnds(task)

Next ==
  \/ Submission \/ Worker \/ Base \/ User
  \/ \E p \in Processes : Serve(p)
  \/ Kill("worker", "interrupted") \/ Kill("worker", "killed") \/ Kill("base", "killed")
  \/ \E c \in Buses \X Prefixes : Deliver(c)

Spec == Init /\ [][Next]_vars

-----------------------------------------------------------------------------
Quiet == \A p \in Processes : call[p] = Idle

(* Every state that a target is left in was told on every bus, or is being *)
(* told, on the topic of finished scans if the state is one: unless Kafka  *)
(* failed or the submission had not mapped the scan, and although calls    *)
(* that hold older copies of the row write their state over it.            *)
StatesAreTold ==
  Quiet /\ state["target"] = watch =>
    \A c \in Buses \X Prefixes :
      fate[c] \in {"sending", "lost", IF watch \in InProgress THEN "unfinished" ELSE "finished"}

(* When the task of a target has ended, neither it nor its base was killed *)
(* and the scan needs somebody's attention, its owner has a mail that says *)
(* so, whoever else changed the state meanwhile.                           *)
OwnerIsTold ==
  Quiet /\ pc["worker"] = "done" /\ pc["base"] # "killed" /\ pc["submit"] = "done" /\ SendMail
        /\ state["target"] \in {"NEEDS_INSPECTION", "FAILED"}
        /\ get_recipient(owner) # "none" =>
    \E e \in mails : /\ e.about = "scan" /\ e.state = state["target"]
                     /\ get_recipient(owner) \in e.to
=============================================================================
