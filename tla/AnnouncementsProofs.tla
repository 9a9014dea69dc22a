-------------------------- MODULE AnnouncementsProofs --------------------------
(***************************************************************************)
(* Proofs about Announcements for any buses and prefixes, kinds of owners  *)
(* and tasks, any watched state and number of requests.                    *)
(***************************************************************************)
EXTENDS Announcements, TLAPS

-----------------------------------------------------------------------------
(* The inductive invariant.                                                *)

Places ==
  {"map", "queue", "done", "start", "scan", "spawn", "wait", "finish", "failing",
   "notify", "killed", "interrupted", "none", "target", "report", "failed", "idle", "mail"}

Calls ==
  [step : {"save", "notice", "again"}, scan : Scans, copy : States, state : States,
   again : BOOLEAN, next : Places, except : Places]

Typed ==
  /\ watch \in Watched
  /\ state \in [Scans -> States]
  /\ mapped \in BOOLEAN
  /\ pc \in [Processes -> Places]
  /\ call \in [Processes -> Calls \cup {Idle}]
  /\ fate \in [Buses \X Prefixes -> {"none", "sending", "lost", Topic(watch)}]

(* A call that may show the watched state of the target: it read it, or is *)
(* going to save it once more.                                             *)
Knows(c) ==
  /\ c # Idle /\ c.scan = "target"
  /\ c.copy = watch \/ (c.step = "again" /\ c.state = watch)

Told == \A m \in Buses \X Prefixes : fate[m] # "none"

Telling(c) == c # Idle /\ c.step = "notice" /\ c.scan = "target" /\ c.state = watch

(* The watched state is in no row, and in no copy, before it is told or    *)
(* about to be told.                                                       *)
ToldInv ==
  state["target"] = watch \/ (\E p \in Processes : Knows(call[p])) =>
    Told \/ \E p \in Processes : Telling(call[p])

Attention == {"NEEDS_INSPECTION", "FAILED"}

(* Only the worker's processes write the states that are mailed, and they  *)
(* are not in a call when they are through.                                *)
CallFits(p, c) ==
  c # Idle =>
    /\ c.scan = "target" /\ c.state \in Attention => p \in {"worker", "base"}
    /\ p \in {"worker", "base"} => {c.next, c.except} \cap {"none", "done", "failed"} = {}

Ended == {"none", "done", "failed", "killed"}

(* The base runs only while the target waits for it, or has been killed.   *)
BaseFits(w, b) ==
  /\ w \in {"start", "scan", "spawn"} => b = "none"
  /\ w \in {"finish", "failing", "notify", "done"} => b \in Ended

PlaceInv ==
  /\ \A p \in Processes : CallFits(p, call[p])
  /\ BaseFits(pc["worker"], pc["base"])
  /\ call["worker"] # Idle /\ pc["worker"] # "killed" =>
       /\ BaseFits(call["worker"].next, pc["base"])
       /\ BaseFits(call["worker"].except, pc["base"])
  /\ pc["worker"] = "done" => call["worker"] = Idle
  /\ pc["base"] \in {"none", "done", "failed"} => call["base"] = Idle

Mailed(sent, st) ==
  \E e \in sent : e.about = "scan" /\ e.state = st /\ get_recipient(owner) \in e.to

MailInv ==
  /\ pc["worker"] = "done" /\ pc["base"] # "killed" /\ SendMail
  /\ state["target"] \in Attention /\ get_recipient(owner) # "none"
  => Mailed(mails, state["target"])

IInv == Typed /\ ToldInv /\ PlaceInv /\ MailInv

USE WatchedAssumption, VerdictsAssumption

-----------------------------------------------------------------------------
(* Calls.                                                                  *)

LEMMA InCall ==
  ASSUME Typed, NEW p \in Processes
  PROVE  /\ call[p] = Idle \/ call[p] \in Calls
         /\ call[p].step \in {"save", "notice", "again"} => call[p] # Idle /\ call[p] \in Calls
  BY DEF Typed, Idle

LEMMA CallsAreBusy == ASSUME NEW c \in Calls PROVE c # Idle
  BY DEF Calls, Idle

LEMMA InitIInv == Init => IInv
<1> SUFFICES ASSUME Init PROVE IInv
  OBVIOUS
<1>1. /\ pc \in [Processes -> Places]
      /\ pc["worker"] = "start" /\ pc["base"] = "none"
  BY DEF Init, Processes, Places
<1>2. \A p \in Processes : call[p] = Idle
  BY DEF Init
<1>3. state["target"] = "INIT" /\ state \in [Scans -> States] /\ watch \in Watched
  BY DEF Init, Scans, States
<1>4. Typed
  BY <1>1, <1>3 DEF Init, Typed
<1>5. watch # "INIT"
  BY <1>3
<1> QED BY <1>1, <1>2, <1>3, <1>4, <1>5 DEF IInv, ToldInv, Knows, PlaceInv, CallFits, BaseFits,
           MailInv, Processes

(* A base that has not ended is the one the target waits for.              *)
LEMMA BaseFitsAll ==
  ASSUME NEW w, NEW b, BaseFits(w, b), b \notin Ended
  PROVE  \A x : BaseFits(w, x)
  BY DEF BaseFits, Ended

(* A process p begins a call.                                              *)
LEMMA CallStarts ==
  ASSUME IInv, NEW p \in Processes, NEW c \in Calls, call[p] = Idle,
         c.step = "save", c.copy = state[c.scan], call' = [call EXCEPT ![p] = c],
         UNCHANGED <<owner, watch, state, mapped, pc, fate>>, mails \subseteq mails',
         CallFits(p, c),
         p = "worker" => /\ BaseFits(c.next, pc["base"]) /\ BaseFits(c.except, pc["base"])
                         /\ pc["worker"] # "done",
         p = "base" => pc["base"] \notin {"none", "done", "failed"}
  PROVE  IInv'
<1>1. call'[p] = c /\ \A q \in Processes \ {p} : call'[q] = call[q]
  BY DEF IInv, Typed
<1>2. c # Idle
  BY CallsAreBusy
<1>3. Typed'
  BY DEF IInv, Typed
<1>4. ToldInv'
  <2>1. Knows(c) => state["target"] = watch
    BY DEF Knows
  <2>2. state["target"] = watch \/ (\E q \in Processes : Knows(call'[q])) =>
          state["target"] = watch \/ (\E q \in Processes : Knows(call[q]))
    BY <1>1, <2>1
  <2>3. ASSUME NEW q \in Processes, Telling(call[q]) PROVE Telling(call'[q])
    BY <1>1, <2>3 DEF Telling
  <2>4. \A x : Telling(x)' <=> Telling(x)
    BY DEF Telling
  <2> QED BY <2>2, <2>3 DEF IInv, ToldInv, Told, Knows, Telling
<1>5. PlaceInv'
  BY <1>1, <1>2 DEF IInv, PlaceInv, CallFits, Processes
<1>6. MailInv'
  BY DEF IInv, MailInv, Mailed, get_recipient
<1> QED BY <1>3, <1>4, <1>5, <1>6 DEF IInv

LEMMA ReadStarts ==
  ASSUME IInv, NEW p \in Processes, NEW s \in Scans, NEW st \in States, NEW again \in BOOLEAN,
         NEW next \in Places, NEW except \in Places, Read(p, s, st, again, next, except),
         s = "target" /\ st \in Attention => p \in {"worker", "base"},
         p \in {"worker", "base"} => {next, except} \cap {"none", "done", "failed"} = {},
         p = "worker" => /\ BaseFits(next, pc["base"]) /\ BaseFits(except, pc["base"])
                         /\ pc["worker"] # "done",
         p = "base" => pc["base"] \notin {"none", "done", "failed"}
  PROVE  IInv'
<1> DEFINE c == [step |-> "save", scan |-> s, copy |-> state[s], state |-> st,
                 again |-> again, next |-> next, except |-> except]
<1>1. c \in Calls
  BY DEF IInv, Typed, Calls
<1>2. /\ call[p] = Idle /\ call' = [call EXCEPT ![p] = c]
      /\ UNCHANGED <<owner, watch, state, mapped, pc, fate>> /\ mails \subseteq mails'
  BY DEF Read, scanVars
<1>3. /\ c.step = "save" /\ c.scan = s /\ c.copy = state[s] /\ c.state = st
      /\ c.next = next /\ c.except = except
  OBVIOUS
<1> HIDE DEF c
<1>4. CallFits(p, c)
  BY <1>3 DEF CallFits
<1> QED BY <1>1, <1>2, <1>3, <1>4, CallStarts

(* What a step of a call leaves: d is the call after it, or Idle.          *)
LEMMA CallStep ==
  ASSUME IInv, NEW p \in Processes, NEW c \in Calls, call[p] = c, NEW d,
         call' = [call EXCEPT ![p] = d],
         \/ /\ d \in Calls /\ pc' = pc
            /\ d.scan = c.scan /\ d.state = c.state /\ d.next = c.next /\ d.except = c.except
         \/ /\ d = Idle
            /\ \E x \in {c.next, c.except} :
                 pc' = [pc EXCEPT ![p] = IF @ = "killed" THEN @ ELSE x],
         state' = state \/ state' = [state EXCEPT ![c.scan] = c.state],
         fate' \in [Buses \X Prefixes -> {"none", "sending", "lost", Topic(watch)}],
         UNCHANGED <<owner, watch, mapped, mails>>
  PROVE  Typed' /\ PlaceInv' /\ MailInv'
<1>1. call'[p] = d /\ \A q \in Processes \ {p} : call'[q] = call[q]
  BY DEF IInv, Typed
<1>2. c # Idle
  BY CallsAreBusy
<1>3. c.next \in Places /\ c.except \in Places /\ c.scan \in Scans /\ c.state \in States
  BY DEF Calls
<1>4. /\ \A q \in Processes \ {p} : pc'[q] = pc[q]
      /\ pc'[p] = pc[p] \/ (d = Idle /\ pc[p] # "killed" /\ pc'[p] \in {c.next, c.except})
      /\ pc' \in [Processes -> Places]
  BY <1>3 DEF IInv, Typed
<1>5. Typed'
  BY <1>1, <1>3, <1>4 DEF IInv, Typed
<1>6. /\ p \in {"worker", "base"} => {c.next, c.except} \cap {"none", "done", "failed"} = {}
      /\ c.scan = "target" /\ c.state \in Attention => p \in {"worker", "base"}
  BY <1>2 DEF IInv, PlaceInv, CallFits
<1>7. \A q \in Processes : CallFits(q, call'[q])
  <2>1. CallFits(p, d)
    BY <1>6 DEF CallFits
  <2> QED BY <1>1, <2>1 DEF IInv, PlaceInv
<1>8. {"worker", "base"} \subseteq Processes
  BY DEF Processes
<1>9. CASE p = "worker"
  <2>1. BaseFits(pc'["worker"], pc["base"]) /\ pc'["base"] = pc["base"]
    BY <1>2, <1>4, <1>8, <1>9 DEF IInv, PlaceInv
  <2>2. pc["worker"] # "done" /\ pc'["worker"] # "done"
    BY <1>2, <1>4, <1>6, <1>9 DEF IInv, PlaceInv
  <2>3. d # Idle /\ pc'["worker"] # "killed" =>
          BaseFits(d.next, pc["base"]) /\ BaseFits(d.except, pc["base"])
    BY <1>2, <1>4, <1>9 DEF IInv, PlaceInv
  <2>4. PlaceInv'
    BY <1>1, <1>7, <1>8, <1>9, <2>1, <2>2, <2>3 DEF IInv, PlaceInv, CallFits
  <2>5. MailInv'
    BY <2>2 DEF MailInv
  <2> QED BY <1>5, <2>4, <2>5
<1>10. CASE p = "base"
  <2>1. pc["base"] \notin {"none", "done", "failed"} /\ pc'["worker"] = pc["worker"]
    BY <1>2, <1>4, <1>8, <1>10 DEF IInv, PlaceInv
  <2>2. CASE pc["base"] = "killed"
    <3>1. pc' = pc
      BY <1>4, <1>10, <2>2 DEF IInv, Typed
    <3>2. PlaceInv'
      BY <1>1, <1>7, <1>8, <1>10, <2>2, <3>1 DEF IInv, PlaceInv, CallFits
    <3> QED BY <1>5, <2>2, <3>1, <3>2 DEF MailInv
  <2>3. CASE pc["base"] # "killed"
    <3>1. pc["base"] \notin Ended
      BY <2>1, <2>3 DEF Ended
    <3>2. pc["worker"] # "done"
      BY <3>1 DEF IInv, PlaceInv, BaseFits
    <3>3. BaseFits(pc["worker"], pc'["base"])
      BY <3>1, BaseFitsAll DEF IInv, PlaceInv
    <3>4. call["worker"] # Idle /\ pc["worker"] # "killed" =>
            /\ BaseFits(call["worker"].next, pc'["base"])
            /\ BaseFits(call["worker"].except, pc'["base"])
      BY <3>1, BaseFitsAll DEF IInv, PlaceInv
    <3>5. pc'["base"] \notin {"none", "done", "failed"}
      BY <1>4, <1>6, <1>10, <2>1
    <3>6. PlaceInv'
      BY <1>1, <1>7, <1>8, <1>10, <2>1, <3>2, <3>3, <3>4, <3>5 DEF PlaceInv, CallFits
    <3> QED BY <1>5, <2>1, <3>2, <3>6 DEF MailInv
  <2> QED BY <2>2, <2>3
<1>11. CASE p \notin {"worker", "base"}
  <2>1. /\ pc'["worker"] = pc["worker"] /\ pc'["base"] = pc["base"]
        /\ call'["worker"] = call["worker"] /\ call'["base"] = call["base"]
    BY <1>1, <1>4, <1>8, <1>11
  <2>2. PlaceInv'
    BY <1>7, <2>1 DEF IInv, PlaceInv, CallFits
  <2>3. state'["target"] = state["target"] \/ state'["target"] \notin Attention
    <3>1. c.scan = "target" => c.state \notin Attention
      BY <1>6, <1>11
    <3>2. "target" \in Scans /\ DOMAIN state = Scans
      BY DEF Scans, IInv, Typed
    <3>3. CASE state' = state
      BY <3>3
    <3>4. CASE state' = [state EXCEPT ![c.scan] = c.state]
      <4>1. state'["target"] = IF c.scan = "target" THEN c.state ELSE state["target"]
        BY <3>2, <3>4
      <4> QED BY <3>1, <4>1
    <3> QED BY <3>3, <3>4
  <2>4. MailInv'
    BY <2>1, <2>3 DEF IInv, MailInv, Mailed, get_recipient
  <2> QED BY <1>5, <2>2, <2>4
<1> QED BY <1>9, <1>10, <1>11

(* Save, Tell and SaveAgain.                                               *)

LEMMA AfterStep ==
  ASSUME Typed, NEW p \in Processes, NEW c \in Calls, call[p] = c, After(p)
  PROVE  \E d : /\ call' = [call EXCEPT ![p] = d]
                /\ \/ /\ d \in Calls /\ pc' = pc /\ d.step = "again" /\ d.copy = c.copy
                      /\ d.scan = c.scan /\ d.state = c.state
                      /\ d.next = c.next /\ d.except = c.except
                   \/ /\ d = Idle
                      /\ \E x \in {c.next, c.except} :
                           pc' = [pc EXCEPT ![p] = IF @ = "killed" THEN @ ELSE x]
<1>1. CASE c.again
  <2> DEFINE d == [c EXCEPT !.step = "again"]
  <2>1. call' = [call EXCEPT ![p] = d] /\ pc' = pc
    BY <1>1 DEF After
  <2>2. /\ d \in Calls /\ d.step = "again" /\ d.copy = c.copy /\ d.scan = c.scan
        /\ d.state = c.state /\ d.next = c.next /\ d.except = c.except
    BY DEF Calls
  <2> HIDE DEF d
  <2> QED BY <2>1, <2>2
<1>2. CASE ~c.again
  BY <1>2 DEF After, Return
<1> QED BY <1>1, <1>2

LEMMA FatesStay ==
  ASSUME Typed, NEW s \in Scans, NEW st, Notice(s, st), UNCHANGED watch
  PROVE  /\ fate' \in [Buses \X Prefixes -> {"none", "sending", "lost", Topic(watch)}]
         /\ Told => Told'
         /\ s = "target" /\ st = watch => Told'
<1>1. CASE s = "base" \/ st # watch
  <2>1. fate' = fate
    BY <1>1 DEF Notice
  <2> QED BY <1>1, <2>1 DEF Typed, Told
<1>2. CASE ~(s = "base" \/ st # watch)
  <2>1. fate' = [m \in Buses \X Prefixes |->
                   IF fate[m] \notin {"none", "lost"} THEN fate[m]
                   ELSE IF mapped THEN "sending" ELSE "lost"]
    BY <1>2 DEF Notice
  <2>2. \A m \in Buses \X Prefixes :
          fate[m] \in {"none", "sending", "lost", Topic(watch)} /\ Topic(watch) # "none"
    BY DEF Typed, Topic
  <2> HIDE DEF Topic
  <2> QED BY <2>1, <2>2 DEF Told
<1> QED BY <1>1, <1>2

(* What keeps ToldInv when the call of p becomes d.                        *)
LEMMA ToldStep ==
  ASSUME IInv, NEW p \in Processes, NEW d, call' = [call EXCEPT ![p] = d], UNCHANGED watch,
         Told => Told',
         state'["target"] = watch =>
           state["target"] = watch \/ Knows(call[p]) \/ Telling(d),
         Knows(d) => state["target"] = watch \/ Knows(call[p]) \/ Telling(d),
         Telling(call[p]) => Told' \/ Telling(d)
  PROVE  ToldInv'
<1>1. call'[p] = d /\ \A q \in Processes \ {p} : call'[q] = call[q]
  BY DEF IInv, Typed
<1>2. \A x : (Telling(x)' <=> Telling(x)) /\ (Knows(x)' <=> Knows(x))
  BY DEF Telling, Knows
<1>3. ASSUME Told' \/ \E q \in Processes : Telling(call'[q]) PROVE ToldInv'
  BY <1>1, <1>3 DEF ToldInv, Telling, Told
<1>4. Telling(d) => \E q \in Processes : Telling(call'[q])
  BY <1>1
<1>5. ASSUME Told \/ \E q \in Processes : Telling(call[q])
      PROVE  Told' \/ \E q \in Processes : Telling(call'[q])
  BY <1>1, <1>4, <1>5
<1>6. CASE state["target"] = watch \/ \E q \in Processes : Knows(call[q])
  BY <1>3, <1>5, <1>6 DEF IInv, ToldInv
<1>7. CASE ~(state["target"] = watch \/ \E q \in Processes : Knows(call[q]))
  <2>1. \A q \in Processes \ {p} : ~Knows(call'[q])
    BY <1>1, <1>7
  <2>2. CASE Telling(d)
    BY <1>3, <1>4, <2>2
  <2>3. CASE ~Telling(d)
    <3>1. state'["target"] # watch /\ ~Knows(call'[p])
      BY <1>1, <1>7, <2>3
    <3> QED BY <2>1, <3>1 DEF ToldInv, Knows
  <2> QED BY <2>2, <2>3
<1> QED BY <1>6, <1>7

LEMMA SaveStays ==
  ASSUME IInv, NEW p \in Processes, Save(p)
  PROVE  IInv'
<1> DEFINE c == call[p]
<1>1. c \in Calls /\ c.step = "save" /\ Typed
  BY InCall DEF Save, IInv
<1>2. UNCHANGED <<owner, watch, mapped, fate, mails>> /\ (Told => Told')
  BY DEF Save, scanVars, Told
<1>3. fate' \in [Buses \X Prefixes -> {"none", "sending", "lost", Topic(watch)}]
  BY <1>2 DEF IInv, Typed
<1>4. c # Idle /\ ~Telling(c)
  BY <1>1, CallsAreBusy DEF Telling
<1>5. CASE Same(c)
  <2>1. After(p) /\ state' = state
    BY <1>5 DEF Save
  <2>2. c.copy = c.state
    BY <1>5 DEF Same
  <2>3. PICK d : /\ call' = [call EXCEPT ![p] = d]
                 /\ \/ /\ d \in Calls /\ pc' = pc /\ d.step = "again" /\ d.copy = c.copy
                       /\ d.scan = c.scan /\ d.state = c.state
                       /\ d.next = c.next /\ d.except = c.except
                    \/ /\ d = Idle
                       /\ \E x \in {c.next, c.except} :
                            pc' = [pc EXCEPT ![p] = IF @ = "killed" THEN @ ELSE x]
    BY <1>1, <2>1, AfterStep
  <2> HIDE DEF c
  <2>4. Knows(d) => Knows(c)
    BY <1>4, <2>2, <2>3 DEF Knows
  <2>5. ToldInv'
    BY <1>2, <1>4, <2>1, <2>3, <2>4, ToldStep DEF c
  <2>6. Typed' /\ PlaceInv' /\ MailInv'
    BY <1>1, <1>2, <1>3, <2>1, <2>3, CallStep DEF c
  <2> QED BY <2>5, <2>6 DEF IInv
<1>6. CASE ~Same(c)
  <2> DEFINE d == [c EXCEPT !.step = "notice"]
  <2>1. /\ state' = [state EXCEPT ![c.scan] = c.state]
        /\ call' = [call EXCEPT ![p] = d] /\ pc' = pc
    BY <1>6 DEF Save
  <2>2. /\ d \in Calls /\ d.step = "notice" /\ d.copy = c.copy /\ d.scan = c.scan
        /\ d.state = c.state /\ d.next = c.next /\ d.except = c.except
    BY <1>1 DEF Calls
  <2> HIDE DEF c, d
  <2>3. d # Idle
    BY <2>2, CallsAreBusy
  <2>4. Knows(d) => Knows(c)
    BY <1>4, <2>2 DEF Knows
  <2>5. state'["target"] = watch => state["target"] = watch \/ Telling(d)
    <3>1. state'["target"] = IF c.scan = "target" THEN c.state ELSE state["target"]
      BY <1>1, <2>1 DEF Typed, Scans
    <3> QED BY <2>2, <2>3, <3>1 DEF Telling
  <2>6. ToldInv'
    BY <1>2, <1>4, <2>1, <2>4, <2>5, ToldStep DEF c
  <2>7. Typed' /\ PlaceInv' /\ MailInv'
    BY <1>1, <1>2, <1>3, <2>1, <2>2, CallStep DEF c
  <2> QED BY <2>6, <2>7 DEF IInv
<1> QED BY <1>5, <1>6

LEMMA TellStays ==
  ASSUME IInv, NEW p \in Processes, Tell(p)
  PROVE  IInv'
<1> DEFINE c == call[p]
<1>1. c \in Calls /\ c.step = "notice" /\ Typed /\ c.scan \in Scans
  BY InCall DEF Tell, IInv, Calls
<1>2. UNCHANGED <<owner, watch, state, mapped, mails>>
  BY DEF Tell, scanVars
<1>3. /\ fate' \in [Buses \X Prefixes -> {"none", "sending", "lost", Topic(watch)}]
      /\ Told => Told'
      /\ c.scan = "target" /\ c.state = watch => Told'
  BY <1>1, <1>2, FatesStay DEF Tell
<1>4. c # Idle
  BY <1>1, CallsAreBusy
<1>5. PICK d : /\ call' = [call EXCEPT ![p] = d]
               /\ \/ /\ d \in Calls /\ pc' = pc /\ d.step = "again" /\ d.copy = c.copy
                     /\ d.scan = c.scan /\ d.state = c.state
                     /\ d.next = c.next /\ d.except = c.except
                  \/ /\ d = Idle
                     /\ \E x \in {c.next, c.except} :
                          pc' = [pc EXCEPT ![p] = IF @ = "killed" THEN @ ELSE x]
  <2>1. CASE After(p)
    BY <1>1, <2>1, AfterStep
  <2>2. CASE Return(p, c.except)
    BY <2>2 DEF Return
  <2> QED BY <2>1, <2>2 DEF Tell
<1> HIDE DEF c
<1>6. Knows(d) => Knows(c) \/ (c.scan = "target" /\ c.state = watch)
  BY <1>4, <1>5 DEF Knows
<1>7. Typed' /\ PlaceInv' /\ MailInv'
  BY <1>1, <1>2, <1>3, <1>5, CallStep DEF c
<1>8. CASE c.scan = "target" /\ c.state = watch
  BY <1>3, <1>7, <1>8 DEF IInv, ToldInv
<1>9. CASE ~(c.scan = "target" /\ c.state = watch)
  <2>1. ~Telling(c)
    BY <1>9 DEF Telling
  <2>2. ToldInv'
    BY <1>2, <1>3, <1>5, <1>6, <1>9, <2>1, ToldStep DEF c
  <2> QED BY <1>7, <2>2 DEF IInv
<1> QED BY <1>8, <1>9

LEMMA SaveAgainStays ==
  ASSUME IInv, NEW p \in Processes, SaveAgain(p)
  PROVE  IInv'
<1> DEFINE c == call[p]
<1>1. c \in Calls /\ c.step = "again" /\ Typed
  BY InCall DEF SaveAgain, IInv
<1>2. /\ UNCHANGED <<owner, watch, mapped, fate, mails>> /\ (Told => Told')
      /\ state' = [state EXCEPT ![c.scan] = c.state]
      /\ call' = [call EXCEPT ![p] = Idle]
      /\ pc' = [pc EXCEPT ![p] = IF @ = "killed" THEN @ ELSE c.next]
  BY DEF SaveAgain, Return, scanVars, Told
<1>3. fate' \in [Buses \X Prefixes -> {"none", "sending", "lost", Topic(watch)}]
  BY <1>2 DEF IInv, Typed
<1> HIDE DEF c
<1>4. c # Idle /\ ~Telling(c) /\ ~Knows(Idle)
  BY <1>1, CallsAreBusy DEF Telling, Knows
<1>5. state'["target"] = watch => state["target"] = watch \/ Knows(c)
  <2>1. state'["target"] = IF c.scan = "target" THEN c.state ELSE state["target"]
    BY <1>1, <1>2 DEF Typed, Scans
  <2> QED BY <1>1, <1>4, <2>1 DEF Knows
<1>6. ToldInv'
  BY <1>2, <1>4, <1>5, ToldStep DEF c
<1>7. Typed' /\ PlaceInv' /\ MailInv'
  BY <1>1, <1>2, <1>3, CallStep DEF c
<1> QED BY <1>6, <1>7 DEF IInv

-----------------------------------------------------------------------------
(* Steps outside of calls.                                                 *)

LEMMA OutsideCalls ==
  ASSUME IInv, UNCHANGED <<owner, watch, state, call>>, mails \subseteq mails',
         mapped' \in BOOLEAN, pc' \in [Processes -> Places],
         fate' \in [Buses \X Prefixes -> {"none", "sending", "lost", Topic(watch)}],
         Told => Told'
  PROVE  /\ Typed' /\ ToldInv'
         /\ \A p \in Processes : CallFits(p, call[p])'
         /\ MailInv \/ ~(pc["worker"] = "done" /\ pc["base"] # "killed")
         /\ \A st : Mailed(mails, st) => Mailed(mails, st)'
<1>1. Typed'
  BY DEF IInv, Typed
<1>2. ToldInv'
  BY DEF IInv, ToldInv, Telling, Knows, Told
<1>3. \A p \in Processes : CallFits(p, call[p])'
  BY DEF IInv, PlaceInv, CallFits
<1>4. \A st : Mailed(mails, st) => Mailed(mails, st)'
  BY DEF Mailed, get_recipient
<1> QED BY <1>1, <1>2, <1>3, <1>4 DEF IInv

LEMMA PlacesStay ==
  ASSUME IInv, UNCHANGED <<owner, watch, state, call>>, mails \subseteq mails',
         mapped' \in BOOLEAN, pc' \in [Processes -> Places],
         pc'["worker"] = pc["worker"], pc'["base"] = pc["base"],
         fate' \in [Buses \X Prefixes -> {"none", "sending", "lost", Topic(watch)}],
         Told => Told'
  PROVE  IInv'
<1>1. /\ Typed' /\ ToldInv' /\ \A p \in Processes : CallFits(p, call[p])'
      /\ \A st : Mailed(mails, st) => Mailed(mails, st)'
  BY OutsideCalls
<1>2. PlaceInv'
  BY <1>1 DEF IInv, PlaceInv
<1>3. MailInv'
  BY <1>1 DEF IInv, MailInv, get_recipient
<1> QED BY <1>1, <1>2, <1>3 DEF IInv

LEMMA WorkerMoves ==
  ASSUME IInv, UNCHANGED <<owner, watch, state, call, fate>>, mails \subseteq mails',
         mapped' \in BOOLEAN, NEW w \in Places, pc' = [pc EXCEPT !["worker"] = w],
         call["worker"] = Idle \/ w = "killed", BaseFits(w, pc["base"]),
         w = "done" /\ SendMail /\ state["target"] \in Attention /\ get_recipient(owner) # "none"
           => Mailed(mails, state["target"])'
  PROVE  IInv'
<1>1. pc' \in [Processes -> Places] /\ pc'["worker"] = w /\ pc'["base"] = pc["base"]
  BY DEF IInv, Typed, Processes
<1>2. /\ fate' \in [Buses \X Prefixes -> {"none", "sending", "lost", Topic(watch)}]
      /\ Told => Told'
  BY DEF IInv, Typed, Told
<1>3. Typed' /\ ToldInv' /\ \A p \in Processes : CallFits(p, call[p])'
  BY <1>1, <1>2, OutsideCalls
<1>4. PlaceInv'
  BY <1>1, <1>3 DEF IInv, PlaceInv
<1>5. MailInv'
  BY <1>1 DEF MailInv, get_recipient
<1> QED BY <1>3, <1>4, <1>5 DEF IInv

LEMMA BaseMoves ==
  ASSUME IInv, UNCHANGED <<owner, watch, state, call, fate, mapped>>, mails \subseteq mails',
         NEW b \in Places, pc' = [pc EXCEPT !["base"] = b], pc["base"] \notin Ended,
         call["base"] = Idle \/ b = "killed"
  PROVE  IInv'
<1>1. pc' \in [Processes -> Places] /\ pc'["base"] = b /\ pc'["worker"] = pc["worker"]
  BY DEF IInv, Typed, Processes
<1>2. /\ fate' \in [Buses \X Prefixes -> {"none", "sending", "lost", Topic(watch)}]
      /\ Told => Told'
  BY DEF IInv, Typed, Told
<1>3. Typed' /\ ToldInv' /\ \A p \in Processes : CallFits(p, call[p])'
  <2>1. UNCHANGED <<owner, watch, state, call>>
    OBVIOUS
  <2>2. mapped' \in BOOLEAN
    BY DEF IInv, Typed
  <2> QED BY <1>1, <1>2, <2>1, <2>2, OutsideCalls
<1>4. pc["worker"] # "done"
  BY DEF IInv, PlaceInv, BaseFits
<1>5. BaseFits(pc["worker"], b)
  BY BaseFitsAll DEF IInv, PlaceInv
<1>6. call["worker"] # Idle /\ pc["worker"] # "killed" =>
        BaseFits(call["worker"].next, b) /\ BaseFits(call["worker"].except, b)
  BY BaseFitsAll DEF IInv, PlaceInv
<1>7. PlaceInv'
  BY <1>1, <1>3, <1>4, <1>5, <1>6 DEF PlaceInv
<1>8. MailInv'
  BY <1>1, <1>4 DEF MailInv
<1> QED BY <1>3, <1>7, <1>8 DEF IInv

LEMMA DeliverStays ==
  ASSUME IInv, NEW m \in Buses \X Prefixes, Deliver(m)
  PROVE  IInv'
<1>1. \E end \in {Topic(watch), "lost"} : fate' = [fate EXCEPT ![m] = end]
  BY DEF Deliver, UMBSender, KafkaSenderThread
<1>2. Topic(watch) # "none"
  BY DEF Topic
<1>3. /\ fate' \in [Buses \X Prefixes -> {"none", "sending", "lost", Topic(watch)}]
      /\ Told => Told'
  BY <1>1, <1>2 DEF IInv, Typed, Told
<1> QED BY <1>3, PlacesStay DEF Deliver, scanVars, IInv, Typed

LEMMA KillStays ==
  ASSUME IInv, NEW p \in {"worker", "base"}, NEW next \in {"interrupted", "killed"},
         p = "base" => next = "killed", Kill(p, next)
  PROVE  IInv'
<1> DEFINE w == IF call[p] = Idle THEN next ELSE "killed"
<1>1. /\ pc' = [pc EXCEPT ![p] = w] /\ pc[p] \notin Ended
      /\ UNCHANGED <<owner, watch, state, call, fate, mapped, mails>>
  BY DEF Kill, scanVars, Ended
<1>2. w \in {"interrupted", "killed"} /\ (call[p] = Idle \/ w = "killed")
  OBVIOUS
<1>3. p = "base" => w = "killed"
  OBVIOUS
<1> HIDE DEF w
<1>4. BaseFits(w, pc["base"]) /\ w \in Places /\ w # "done" /\ mapped \in BOOLEAN
  BY <1>2 DEF BaseFits, Places, IInv, Typed
<1> QED BY <1>1, <1>2, <1>3, <1>4, WorkerMoves, BaseMoves

LEMMA NotifyStays ==
  ASSUME IInv, Notify("worker", "target")
  PROVE  IInv'
<1>1. /\ pc["worker"] = "notify" /\ pc' = [pc EXCEPT !["worker"] = "done"]
      /\ call["worker"] = Idle /\ mails' = mails \cup scan_notification_email("target")
      /\ UNCHANGED <<owner, watch, state, call, fate, mapped>>
  BY DEF Notify, Go, scanVars
<1>2. BaseFits("done", pc["base"])
  BY <1>1 DEF IInv, PlaceInv, BaseFits
<1>3. ASSUME SendMail, state["target"] \in Attention, get_recipient(owner) # "none"
      PROVE  Mailed(mails, state["target"])'
  <2>1. send_scan_notification \in mails'
    BY <1>1, <1>3 DEF scan_notification_email, SCAN_STATES_SEND_MAIL, Attention
  <2>2. /\ send_scan_notification.about = "scan"
        /\ send_scan_notification.state = state["target"]
        /\ get_recipient(owner) \in send_scan_notification.to
    BY <1>3 DEF send_scan_notification, Mail
  <2>3. get_recipient(owner)' = get_recipient(owner)
    BY <1>1 DEF get_recipient
  <2> QED BY <1>1, <2>1, <2>2, <2>3 DEF Mailed
<1> QED BY <1>1, <1>2, <1>3, WorkerMoves DEF Places, IInv, Typed

LEMMA SubmissionStays == ASSUME IInv, Submission PROVE IInv'
<1>1. ASSUME pc["submit"] = "map", mapped' = TRUE, Go("submit", "queue"), UNCHANGED mails
      PROVE  IInv'
  <2>1. /\ pc' \in [Processes -> Places]
        /\ pc'["worker"] = pc["worker"] /\ pc'["base"] = pc["base"]
    BY <1>1 DEF Go, IInv, Typed, Processes, Places
  <2>2. /\ fate' \in [Buses \X Prefixes -> {"none", "sending", "lost", Topic(watch)}]
        /\ Told => Told'
    BY <1>1 DEF Go, IInv, Typed, Told
  <2>3. UNCHANGED <<owner, watch, state, call>> /\ mails \subseteq mails' /\ mapped' \in BOOLEAN
    BY <1>1 DEF Go, scanVars
  <2> QED BY <2>1, <2>2, <2>3, PlacesStay
<1>2. ASSUME Read("submit", "target", "QUEUED", FALSE, "done", "done") PROVE IInv'
  <2>1. /\ "submit" \in Processes /\ "target" \in Scans /\ "QUEUED" \in States
        /\ "done" \in Places /\ "QUEUED" \notin Attention
    BY DEF Processes, Scans, States, Places, Attention
  <2> QED BY <1>2, <2>1, ReadStarts
<1> QED BY <1>1, <1>2 DEF Submission

LEMMA WorkerStays == ASSUME IInv, Worker PROVE IInv'
<1>1. "worker" \in Processes /\ "target" \in Scans
  BY DEF Processes, Scans
<1>2. BaseFits(pc["worker"], pc["base"])
  BY DEF IInv, PlaceInv
<1>3. \A st \in States, again \in BOOLEAN, next \in Places, except \in Places :
        /\ Read("worker", "target", st, again, next, except)
        /\ {next, except} \cap {"none", "done", "failed"} = {}
        /\ BaseFits(next, pc["base"]) /\ BaseFits(except, pc["base"])
        /\ pc["worker"] # "done"
        => IInv'
  BY <1>1, ReadStarts
<1>4. {"SCANNING", "BASE_SCANNING", "FAILED"} \cup Verdicts \subseteq States
  BY DEF States
<1>5. {"scan", "spawn", "wait", "finish", "failing", "notify", "killed"} \subseteq Places
  BY DEF Places
<1>6. ASSUME NEW from, NEW st \in {"SCANNING", "BASE_SCANNING"}, NEW next,
             Step("worker", "target", from, st, next),
             <<from, next>> \in {<<"start", "scan">>, <<"scan", "spawn">>, <<"wait", "finish">>},
             from = "wait" => pc["base"] = "done"
      PROVE  IInv'
  <2>1. /\ pc["worker"] = from /\ from # "done" /\ next \in {"scan", "spawn", "finish"}
        /\ Read("worker", "target", st, FALSE, next, "failing")
    BY <1>6 DEF Step
  <2>2. BaseFits(next, pc["base"]) /\ BaseFits("failing", pc["base"])
    BY <1>2, <1>6, <2>1 DEF BaseFits, Ended
  <2> QED BY <1>3, <1>4, <1>5, <2>1, <2>2
<1>7. ASSUME pc["worker"] = "spawn", call["worker"] = Idle, pc["base"] = "none",
             pc' = [pc EXCEPT !["worker"] = "wait", !["base"] = "start"],
             UNCHANGED <<scanVars, state, mapped, call, fate, mails, requests>>
      PROVE  IInv'
  <2>1. pc' \in [Processes -> Places] /\ pc'["worker"] = "wait" /\ pc'["base"] = "start"
    BY <1>7 DEF IInv, Typed, Processes, Places
  <2>2. /\ fate' \in [Buses \X Prefixes -> {"none", "sending", "lost", Topic(watch)}]
        /\ Told => Told'
    BY <1>7 DEF IInv, Typed, Told
  <2>3. UNCHANGED <<owner, watch, state, call>> /\ mails \subseteq mails' /\ mapped' \in BOOLEAN
    BY <1>7 DEF scanVars, IInv, Typed
  <2>4. Typed' /\ ToldInv' /\ \A p \in Processes : CallFits(p, call[p])'
    BY <2>1, <2>2, <2>3, OutsideCalls
  <2>5. PlaceInv'
    BY <1>7, <2>1, <2>4 DEF PlaceInv, BaseFits
  <2> QED BY <2>1, <2>4, <2>5 DEF IInv, MailInv
<1>8. ASSUME NEW next \in {"failing", "notify"}, Go("worker", next), UNCHANGED <<mapped, mails>>,
             pc["base"] \in Ended
      PROVE  IInv'
  <2>1. BaseFits(next, pc["base"])
    BY <1>8 DEF BaseFits
  <2> QED BY <1>5, <1>8, <2>1, WorkerMoves DEF Go, scanVars, IInv, Typed
<1>9. CASE pc["worker"] = "wait" /\ pc["base"] \in {"failed", "killed"} /\ Go("worker", "failing")
           /\ UNCHANGED <<mapped, mails>>
  BY <1>8, <1>9 DEF Ended
<1>10. ASSUME pc["worker"] \in {"scan", "finish"}, NEW v \in Verdicts,
              Read("worker", "target", v, TRUE, "notify", "failing")
       PROVE  IInv'
  <2>1. BaseFits("notify", pc["base"]) /\ BaseFits("failing", pc["base"])
    BY <1>2, <1>10 DEF BaseFits, Ended
  <2> QED BY <1>3, <1>4, <1>5, <1>10, <2>1
<1>11. ASSUME NEW from \in {"scan", "finish", "failing"}, Fail("worker", from, "notify")
       PROVE  IInv'
  <2>1. /\ BaseFits("notify", pc["base"]) /\ pc["worker"] # "done"
        /\ Read("worker", "target", "FAILED", TRUE, "notify", "notify")
    BY <1>2, <1>11 DEF BaseFits, Ended, Fail
  <2> QED BY <1>3, <1>4, <1>5, <2>1
<1>12. ASSUME pc["worker"] = "failing", Go("worker", "notify"), UNCHANGED <<mapped, mails>>
       PROVE  IInv'
  BY <1>2, <1>8, <1>12 DEF BaseFits
<1>13. ASSUME Fail("worker", "interrupted", "killed") PROVE IInv'
  <2>1. /\ BaseFits("killed", pc["base"]) /\ pc["worker"] # "done"
        /\ Read("worker", "target", "FAILED", TRUE, "killed", "killed")
    BY <1>13 DEF BaseFits, Fail
  <2> QED BY <1>3, <1>4, <1>5, <2>1
<1> QED BY <1>6, <1>7, <1>9, <1>10, <1>11, <1>12, <1>13, NotifyStays DEF Worker

LEMMA BaseStays == ASSUME IInv, Base PROVE IInv'
<1>1. "base" \in Processes /\ Scans = {"target", "base"}
  BY DEF Processes, Scans
<1>2. \A s \in Scans, st \in States, again \in BOOLEAN, next \in Places, except \in Places :
        /\ Read("base", s, st, again, next, except)
        /\ {next, except} \cap {"none", "done", "failed"} = {}
        /\ pc["base"] \notin {"none", "done", "failed"}
        => IInv'
  BY <1>1, ReadStarts
<1>3. {"SCANNING", "FINISHED", "FAILED"} \subseteq States
  BY DEF States
<1>4. {"scan", "failing", "notify", "target", "report", "done", "failed"} \subseteq Places
  BY DEF Places
<1>5. CASE Step("base", "base", "start", "SCANNING", "scan")
  <2>1. pc["base"] = "start" /\ Read("base", "base", "SCANNING", FALSE, "scan", "failing")
    BY <1>5 DEF Step
  <2> QED BY <1>1, <1>2, <1>3, <1>4, <2>1
<1>6. CASE pc["base"] = "scan" /\ Read("base", "base", "FINISHED", TRUE, "notify", "failing")
  BY <1>1, <1>2, <1>3, <1>4, <1>6
<1>7. CASE pc["base"] = "scan" /\ Read("base", "base", "FAILED", TRUE, "target", "target")
  BY <1>1, <1>2, <1>3, <1>4, <1>7
<1>8. ASSUME NEW next \in {"notify", "report"}, Fail("base", "target", next) PROVE IInv'
  <2>1. pc["base"] = "target" /\ Read("base", "target", "FAILED", TRUE, next, next)
    BY <1>8 DEF Fail
  <2> QED BY <1>1, <1>2, <1>3, <1>4, <2>1
<1>9. ASSUME pc["base"] \in {"notify", "report"}, NEW next \in {"done", "failed"},
             Go("base", next), UNCHANGED mapped,
             mails' = mails \cup scan_notification_email("base")
      PROVE  IInv'
  <2>1. /\ UNCHANGED <<owner, watch, state, call, fate, mapped>>
        /\ pc' = [pc EXCEPT !["base"] = next] /\ call["base"] = Idle
    BY <1>9 DEF Go, scanVars
  <2>2. pc["base"] \notin Ended
    BY <1>9 DEF Ended
  <2>3. mails \subseteq mails'
    BY <1>9
  <2> QED BY <1>4, <2>1, <2>2, <2>3, BaseMoves
<1>10. CASE Notify("base", "base")
  BY <1>9, <1>10 DEF Notify
<1> QED BY <1>5, <1>6, <1>7, <1>8, <1>9, <1>10 DEF Base

LEMMA AskStays ==
  ASSUME IInv, NEW st \in States \ Attention, NEW again \in BOOLEAN, NEW next \in {"idle", "mail"},
         Ask("target", st, again, next)
  PROVE  IInv'
<1> DEFINE c == [step |-> "save", scan |-> "target", copy |-> state["target"], state |-> st,
                 again |-> again, next |-> next, except |-> "idle"]
<1>1. /\ call["user"] = Idle /\ call' = [call EXCEPT !["user"] = c]
      /\ UNCHANGED <<owner, watch, state, mapped, pc, fate>> /\ mails \subseteq mails'
  BY DEF Ask, Request, scanVars
<1>2. "user" \in Processes /\ "target" \in Scans /\ {"idle", "mail"} \subseteq Places
  BY DEF Processes, Scans, Places
<1>3. c \in Calls /\ c.step = "save" /\ c.copy = state[c.scan] /\ c.state = st
  BY <1>2 DEF IInv, Typed, Calls
<1> HIDE DEF c
<1>4. CallFits("user", c)
  BY <1>3 DEF CallFits
<1> QED BY <1>1, <1>2, <1>3, <1>4, CallStarts

LEMMA UserStays == ASSUME IInv, User PROVE IInv'
<1>1. {"CANCELED", "WAIVED", "BUG_CONFIRMED", "DISPUTED"} \subseteq States \ Attention
  BY DEF States, Attention
<1>2. CASE Cancel
  BY <1>1, <1>2, AskStays DEF Cancel
<1>3. CASE Waive
  BY <1>1, <1>3, AskStays DEF Waive
<1>4. CASE Dispute
  BY <1>1, <1>4, AskStays DEF Dispute
<1>5. ASSUME UNCHANGED <<owner, watch, state, call, fate, mapped>>, mails \subseteq mails',
             pc' = pc \/ pc' = [pc EXCEPT !["user"] = "idle"]
      PROVE  IInv'
  <2>1. /\ pc' \in [Processes -> Places]
        /\ pc'["worker"] = pc["worker"] /\ pc'["base"] = pc["base"]
    BY <1>5 DEF IInv, Typed, Processes, Places
  <2>2. /\ fate' \in [Buses \X Prefixes -> {"none", "sending", "lost", Topic(watch)}]
        /\ Told => Told'
    BY <1>5 DEF IInv, Typed, Told
  <2>3. UNCHANGED <<owner, watch, state, call>> /\ mapped' \in BOOLEAN
    BY <1>5 DEF IInv, Typed
  <2> QED BY <1>5, <2>1, <2>2, <2>3, PlacesStay
<1>6. CASE MailDispute
  BY <1>5, <1>6 DEF MailDispute, Go, scanVars
<1>7. CASE Comment
  BY <1>5, <1>7 DEF Comment, Request, scanVars
<1>8. CASE AdminNotify
  BY <1>5, <1>8 DEF AdminNotify, Request, scanVars
<1>9. ASSUME NEW task, TaskEnds(task) PROVE IInv'
  BY <1>5, <1>9 DEF TaskEnds, Request, scanVars
<1> QED BY <1>2, <1>3, <1>4, <1>6, <1>7, <1>8, <1>9 DEF User

LEMMA NextStays == ASSUME IInv, [Next]_vars PROVE IInv'
<1>1. CASE UNCHANGED vars
  <2>1. UNCHANGED <<owner, watch, state, call, mapped, pc, fate, mails>>
    BY <1>1 DEF vars, scanVars
  <2>2. /\ pc' \in [Processes -> Places] /\ mapped' \in BOOLEAN
        /\ fate' \in [Buses \X Prefixes -> {"none", "sending", "lost", Topic(watch)}]
        /\ Told => Told'
    BY <2>1 DEF IInv, Typed, Told
  <2> QED BY <2>1, <2>2, PlacesStay
<1>2. ASSUME NEW p \in Processes, Serve(p) PROVE IInv'
  BY <1>2, SaveStays, TellStays, SaveAgainStays DEF Serve
<1>3. CASE Kill("worker", "interrupted") \/ Kill("worker", "killed") \/ Kill("base", "killed")
  BY <1>3, KillStays
<1> QED BY <1>1, <1>2, <1>3, SubmissionStays, WorkerStays, BaseStays, UserStays, DeliverStays
        DEF Next

-----------------------------------------------------------------------------
(* The inductive invariant holds: what is said above of rows, copies and   *)
(* calls (scan/models.py set_state, its callers and their threads).        *)
THEOREM Inductive == Spec => []IInv
  BY InitIInv, NextStays, PTL DEF Spec

(* Every state that a target is left in was told, or is being told, on     *)
(* every bus and on the right topic, or was lost to a bus or an early      *)
(* submission, whatever stale copies were saved over it (set_state and     *)
(* scan_state_notice).                                                     *)
THEOREM StatesAlwaysTold == Spec => []StatesAreTold
<1>1. IInv => StatesAreTold
  <2> SUFFICES ASSUME IInv, Quiet, state["target"] = watch, NEW m \in Buses \X Prefixes
               PROVE  fate[m] \in {"sending", "lost", Topic(watch)}
    BY DEF StatesAreTold, Topic
  <2>1. \A p \in Processes : ~Telling(call[p])
    BY DEF Quiet, Telling
  <2>2. Told
    BY <2>1 DEF IInv, ToldInv
  <2> QED BY <2>2 DEF IInv, Typed, Told
<1> QED BY <1>1, Inductive, PTL

(* Once the task of a target has ended with nobody killed, the owner of a  *)
(* scan that needs attention has a mail with its very state: after the     *)
(* worker's mail only calls of users are left, and those write no such     *)
(* state (scan_notification_email, called last by the worker's processes). *)
THEOREM OwnerAlwaysTold == Spec => []OwnerIsTold
<1>1. IInv => OwnerIsTold
  BY DEF IInv, MailInv, Mailed, Attention, OwnerIsTold
<1> QED BY <1>1, Inductive, PTL

=============================================================================
