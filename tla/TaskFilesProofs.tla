---------------------------- MODULE TaskFilesProofs ----------------------------
(***************************************************************************)
(* Proofs about the files of tasks: the uploads that a client's tasks work *)
(* on, from the request to the end of the task (ClientSubmission), for any *)
(* requests with any options; and the files that the results of a scan are *)
(* loaded from (ResultFiles), for any number of runs by any number of      *)
(* processes, whatever goes wrong.                                         *)
(***************************************************************************)
EXTENDS ResultFiles, ClientSubmission, SequenceTheorems, TLAPS

-----------------------------------------------------------------------------
(* ClientSubmission: the invariant.  What a process still has to do is the *)
(* rest of a sequence; the invariant names the point of the program where  *)
(* it is, by which the rest of the sequence and the places of the files    *)
(* are known.                                                              *)

OpNames ==
  {"create", "move", "delete", "put configs", "free", "spawn base", "wait",
   "generate configs", "fetch config", "find", "fetch", "analyze"}

Steps == [op : OpNames, file : Files \cup {NoFile}]

ClientTypeOK ==
  /\ record \subseteq Files
  /\ place \in [Files -> Jobs \cup {UploadDir}]
  /\ asked \in [Requests -> Choices \cup {Unasked, Refused}]
  /\ task \in [Jobs -> {"none", "created", "free", "open", "closed", "failed"}]
  /\ todo \in [Processes -> Seq(Steps)]
  /\ configs \subseteq Jobs
  /\ died \subseteq Requests
  /\ lost \subseteq Jobs

-----------------------------------------------------------------------------
(* The hub: what is left of SpawnSteps, by the point where it is.          *)

Then(op, f, steps) == With(op, f) \o steps

ThenMove(f, known, steps) ==
  Then("move", IF known THEN f ELSE NoFile, Then("delete", f, steps))

AfterModel(o) ==
  IF MockAuto(o) THEN Then("put configs", NoFile, Do("free")) ELSE Do("free")

AfterSource(o) ==
  IF Given(o.upload_model_id)
    THEN ThenMove(o.upload_model_id, TRUE, AfterModel(o))
    ELSE AfterModel(o)

AfterCreate(o) ==
  IF Given(o.upload_id)
    THEN ThenMove(o.upload_id, o.brew_build = "none", AfterSource(o))
    ELSE AfterSource(o)

HubPoints == {"create", "move source", "delete source", "move model", "delete model",
              "put configs", "free", "done"}

HubAt(o, q, steps) ==
  \/ q = "create" /\ steps = Then("create", NoFile, AfterCreate(o))
  \/ /\ q = "move source" /\ Given(o.upload_id)
     /\ steps = ThenMove(o.upload_id, o.brew_build = "none", AfterSource(o))
  \/ /\ q = "delete source" /\ Given(o.upload_id)
     /\ steps = Then("delete", o.upload_id, AfterSource(o))
  \/ /\ q = "move model" /\ Given(o.upload_model_id)
     /\ steps = ThenMove(o.upload_model_id, TRUE, AfterModel(o))
  \/ /\ q = "delete model" /\ Given(o.upload_model_id)
     /\ steps = Then("delete", o.upload_model_id, AfterModel(o))
  \/ q = "put configs" /\ MockAuto(o) /\ steps = Then("put configs", NoFile, Do("free"))
  \/ q = "free" /\ steps = Do("free")
  \/ q = "done" /\ steps = <<>>

(* The head of what is left, and the point that comes next.                *)
HubOp(q) ==
  CASE q \in {"move source", "move model"} -> "move"
    [] q \in {"delete source", "delete model"} -> "delete"
    [] OTHER -> q

HubFile(o, q) ==
  CASE q = "move source" -> IF o.brew_build = "none" THEN o.upload_id ELSE NoFile
    [] q = "delete source" -> o.upload_id
    [] q \in {"move model", "delete model"} -> o.upload_model_id
    [] OTHER -> NoFile

PointAfterModel(o) == IF MockAuto(o) THEN "put configs" ELSE "free"
PointAfterSource(o) == IF Given(o.upload_model_id) THEN "move model" ELSE PointAfterModel(o)
PointAfterCreate(o) == IF Given(o.upload_id) THEN "move source" ELSE PointAfterSource(o)

HubNext(o, q) ==
  CASE q = "create" -> PointAfterCreate(o)
    [] q = "move source" -> "delete source"
    [] q = "delete source" -> PointAfterSource(o)
    [] q = "move model" -> "delete model"
    [] q = "delete model" -> PointAfterModel(o)
    [] q = "put configs" -> "free"
    [] q = "free" -> "done"

-----------------------------------------------------------------------------
(* The worker of a base: what is left of its RunSteps.                     *)

Named(o) == o.base_brew_build = "none" /\ Given(o.base_upload_id)

AfterBaseModel(o) ==
  IF Named(o) THEN Then("fetch", o.base_upload_id, Do("analyze")) ELSE Do("analyze")

AfterMove(o) ==
  IF Given(o.upload_model_id)
    THEN Then("fetch", o.upload_model_id, AfterBaseModel(o))
    ELSE AfterBaseModel(o)

AfterConfig(o) ==
  IF Named(o)
    THEN Then("find", o.base_upload_id, ThenMove(o.base_upload_id, TRUE, AfterMove(o)))
    ELSE AfterMove(o)

BasePoints == {"waiting", "generate configs", "fetch config", "find", "move", "delete",
               "fetch model", "fetch", "analyze", "ended"}

BaseAt(o, q, steps) ==
  \/ q \in {"waiting", "ended"} /\ steps = <<>>
  \/ /\ q = "generate configs" /\ BaseAuto(o)
     /\ steps = Then("generate configs", NoFile, Then("fetch config", NoFile, AfterConfig(o)))
  \/ /\ q = "fetch config" /\ BaseAuto(o)
     /\ steps = Then("fetch config", NoFile, AfterConfig(o))
  \/ /\ q = "find" /\ Named(o)
     /\ steps = Then("find", o.base_upload_id, ThenMove(o.base_upload_id, TRUE, AfterMove(o)))
  \/ q = "move" /\ Named(o) /\ steps = ThenMove(o.base_upload_id, TRUE, AfterMove(o))
  \/ q = "delete" /\ Named(o) /\ steps = Then("delete", o.base_upload_id, AfterMove(o))
  \/ /\ q = "fetch model" /\ Given(o.upload_model_id)
     /\ steps = Then("fetch", o.upload_model_id, AfterBaseModel(o))
  \/ q = "fetch" /\ Named(o) /\ steps = Then("fetch", o.base_upload_id, Do("analyze"))
  \/ q = "analyze" /\ steps = Do("analyze")

BaseOp(q) == IF q = "fetch model" THEN "fetch" ELSE q

BaseFile(o, q) ==
  CASE q \in {"find", "move", "delete", "fetch"} -> o.base_upload_id
    [] q = "fetch model" -> o.upload_model_id
    [] OTHER -> NoFile

PointAfterBaseModel(o) == IF Named(o) THEN "fetch" ELSE "analyze"
PointAfterMove(o) == IF Given(o.upload_model_id) THEN "fetch model" ELSE PointAfterBaseModel(o)
PointAfterConfig(o) == IF Named(o) THEN "find" ELSE PointAfterMove(o)
FirstPoint(o) == IF BaseAuto(o) THEN "generate configs" ELSE PointAfterConfig(o)

BaseNext(o, q) ==
  CASE q = "generate configs" -> "fetch config"
    [] q = "fetch config" -> PointAfterConfig(o)
    [] q = "find" -> "move"
    [] q = "move" -> "delete"
    [] q = "delete" -> PointAfterMove(o)
    [] q = "fetch model" -> PointAfterBaseModel(o)
    [] q = "fetch" -> "analyze"
    [] q = "analyze" -> "ended"

-----------------------------------------------------------------------------
(* What holds at the points.                                               *)

(* Only a file that a request names was touched.                           *)
FilesInv ==
  \A f \in Files :
    f \notin record \/ place[f] # UploadDir =>
      \E r \in Requests : \E n \in Uses(r) : asked[r][n] = f

(* The hub is done with a task that it freed.                              *)
Started(r) == task[Main(r)] \notin {"none", "created"}

(* The upload of a target has a path.                                      *)
HasPath(r) == Given(asked[r].upload_id) => asked[r].brew_build = "none"

TaskInv(r) ==
  /\ ~Accepted(r) => task[Main(r)] = "none" /\ todo[Hub(r)] = <<>> /\ r \notin died
  /\ r \in died => todo[Hub(r)] = <<>>
  /\ task[Main(r)] \in {"none", "created", "free"} =>
       todo[Main(r)] = <<>> /\ task[Base(r)] = "none"
  /\ Started(r) => todo[Hub(r)] = <<>> /\ r \notin died /\ HasPath(r)
  /\ task[Base(r)] = "none" => todo[Base(r)] = <<>>
  /\ task[Base(r)] # "none" => asked[r].version_diff
  /\ task[Base(r)] # "created"

(* Where the uploads of a target are when the hub is at a point.           *)
HubFacts(r, q) ==
  LET o == asked[r]
  IN  /\ Given(o.upload_id) =>
           /\ place[o.upload_id] =
                IF q \in {"create", "move source"} THEN UploadDir ELSE Main(r)
           /\ q \in {"create", "move source", "delete source"} => o.upload_id \in record
      /\ Given(o.upload_model_id) =>
           /\ place[o.upload_model_id] =
                IF q \in {"create", "move source", "delete source", "move model"}
                  THEN UploadDir ELSE Main(r)
           /\ q \in {"create", "move source", "delete source", "move model", "delete model"} =>
                o.upload_model_id \in record
      /\ MockAuto(o) /\ q \in {"free", "done"} => Main(r) \in configs

(* The hub is at the point q, and while no other use of them interferes    *)
(* the files are where they are at that point.                             *)
HubIs(r, q) ==
  /\ HubAt(asked[r], q, todo[Hub(r)])
  /\ q = "create" => task[Main(r)] = "none"
  /\ q \notin {"create", "done"} => task[Main(r)] = "created"
  /\ q \notin {"create", "move source", "done"} => HasPath(r)
  /\ ~Shares(r) /\ HasPath(r) /\ r \notin died =>
       HubFacts(r, q) /\ (q = "done" => Started(r))

HubInv(r) == Accepted(r) => \E q \in HubPoints : HubIs(r, q)

(* What the worker of a target does, but to spawn its base first.          *)
MainSteps(o) ==
  {s \in Steps :
     /\ s.op \in {"wait", "fetch config", "fetch", "analyze"}
     /\ s.op = "fetch config" => MockAuto(o)
     /\ s.op = "fetch" => Given(s.file) /\ s.file \in {o.upload_id, o.upload_model_id}}

(* The base is spawned once, by the first step of the target's worker.     *)
MainInv(r) ==
  \/ todo[Main(r)] \in Seq(MainSteps(asked[r]))
  \/ /\ AtStep(Main(r), "spawn base")
     /\ Tail(todo[Main(r)]) \in Seq(MainSteps(asked[r]))
     /\ task[Base(r)] = "none" /\ asked[r].version_diff

(* Where the upload of a base is when its worker is at a point.            *)
BaseFacts(r, q) ==
  LET o == asked[r]
      f == o.base_upload_id
      before == {"waiting", "generate configs", "fetch config", "find", "move"}
  IN  /\ Named(o) =>
           /\ q # "ended" => place[f] = IF q \in before THEN UploadDir ELSE Base(r)
           /\ q \in before \cup {"delete"} => f \in record
      /\ q = "fetch config" => Base(r) \in configs

(* The worker of a base is at the point q.                                 *)
BaseIs(r, q) ==
  /\ BaseAt(asked[r], q, todo[Base(r)])
  /\ q = "waiting" <=> task[Base(r)] \in {"none", "free"}
  /\ ~Shares(r) /\ ~Given(asked[r].upload_model_id) => BaseFacts(r, q)

BaseInv(r) ==
  Accepted(r) /\ asked[r].version_diff => \E q \in BasePoints : BaseIs(r, q)

RequestInv(r) == TaskInv(r) /\ HubInv(r) /\ MainInv(r) /\ BaseInv(r)

(* And whatever was lost has an explanation.                               *)
ClientInv ==
  /\ ClientTypeOK
  /\ FilesInv
  /\ \A r \in Requests : RequestInv(r)
  /\ \A j \in lost : Explained(j)

-----------------------------------------------------------------------------
(* Sequences of steps.                                                     *)

USE NoFileAssumption, OptionsAssumption

Cat(s, t) == s \o t

LEMMA CatProperties ==
  ASSUME NEW S, NEW a \in Seq(S), NEW b \in Seq(S)
  PROVE  Cat(a, b) \in Seq(S) /\ Cat(a, <<>>) = a /\ Cat(<<>>, a) = a
  BY ConcatProperties, ConcatEmptySeq DEF Cat

LEMMA CatAssociative ==
  ASSUME NEW S, NEW a \in Seq(S), NEW b \in Seq(S), NEW c \in Seq(S)
  PROVE  Cat(Cat(a, b), c) = Cat(a, Cat(b, c))
  BY ConcatAssociative DEF Cat

LEMMA CatFive ==
  ASSUME NEW S, NEW a \in Seq(S), NEW b \in Seq(S), NEW c \in Seq(S), NEW d \in Seq(S),
         NEW e \in Seq(S)
  PROVE  Cat(Cat(Cat(Cat(a, b), c), d), e) = Cat(a, Cat(b, Cat(c, Cat(d, e))))
<1> DEFINE X == Cat(Cat(a, b), c)
           Y == Cat(a, b)
           Z == Cat(d, e)
           W == Cat(c, Z)
<1>1. Y \in Seq(S) /\ X \in Seq(S) /\ Z \in Seq(S) /\ W \in Seq(S)
  BY CatProperties
<1>2. X = Cat(Y, c)
  OBVIOUS
<1> HIDE DEF X, Y, Z, W
<1>3. Cat(Cat(X, d), e) = Cat(X, Cat(d, e))
  BY <1>1, CatAssociative
<1>4. Cat(Cat(Y, c), Z) = Cat(Y, Cat(c, Z))
  BY <1>1, CatAssociative
<1>5. Cat(Cat(a, b), W) = Cat(a, Cat(b, W))
  BY <1>1, CatAssociative
<1> QED BY <1>2, <1>3, <1>4, <1>5 DEF X, Y, Z, W

LEMMA ConsProperties ==
  ASSUME NEW S, NEW x \in S, NEW s \in Seq(S)
  PROVE  /\ <<x>> \o s \in Seq(S) /\ <<x>> \o s # <<>>
         /\ Head(<<x>> \o s) = x /\ Tail(<<x>> \o s) = s
<1> DEFINE t == <<x>> \o s
<1>1. <<x>> \in Seq(S) /\ Len(<<x>>) = 1 /\ <<x>>[1] = x
  OBVIOUS
<1>2. /\ t \in Seq(S) /\ Len(t) = 1 + Len(s)
      /\ \A i \in 1 .. 1 + Len(s) : t[i] = IF i <= 1 THEN <<x>>[i] ELSE s[i - 1]
  BY <1>1, ConcatProperties
<1>3. Len(s) \in Nat
  BY LenProperties
<1> HIDE DEF t
<1>4. t # <<>> /\ t[1] = x
  BY <1>1, <1>2, <1>3
<1>5. /\ Head(t) = t[1] /\ Tail(t) \in Seq(S) /\ Len(Tail(t)) = Len(t) - 1
      /\ \A i \in 1 .. Len(Tail(t)) : Tail(t)[i] = t[i + 1]
  BY <1>2, <1>4, HeadTailProperties
<1>6. Tail(t) = s
  <2>1. Len(Tail(t)) = Len(s)
    BY <1>2, <1>3, <1>5
  <2>2. \A i \in 1 .. Len(s) : Tail(t)[i] = s[i]
    BY <1>1, <1>2, <1>3, <1>5, <2>1
  <2> QED BY <1>5, <2>1, <2>2, SeqEqual
<1> QED BY <1>2, <1>4, <1>5, <1>6 DEF t

Uploads == Files \cup {NoFile}

LEMMA WithIsSeq ==
  ASSUME NEW op \in OpNames, NEW f \in Uploads
  PROVE  With(op, f) \in Seq(Steps)
  BY DEF With, Steps, Uploads

LEMMA ThenProperties ==
  ASSUME NEW op \in OpNames, NEW f \in Uploads, NEW s \in Seq(Steps)
  PROVE  /\ Then(op, f, s) \in Seq(Steps) /\ Then(op, f, s) # <<>>
         /\ Head(Then(op, f, s)).op = op /\ Head(Then(op, f, s)).file = f
         /\ Tail(Then(op, f, s)) = s
<1> DEFINE x == [op |-> op, file |-> f]
<1>1. x \in Steps /\ x.op = op /\ x.file = f
  BY DEF Steps, Uploads
<1> HIDE DEF x
<1>2. Then(op, f, s) = <<x>> \o s
  BY DEF Then, With, x
<1>3. /\ Then(op, f, s) \in Seq(Steps) /\ Then(op, f, s) # <<>>
      /\ Head(Then(op, f, s)) = x /\ Tail(Then(op, f, s)) = s
  BY <1>1, <1>2, ConsProperties
<1> QED BY <1>1, <1>3

LEMMA DoIsThen ==
  ASSUME NEW op \in OpNames
  PROVE  /\ Do(op) \in Seq(Steps) /\ Do(op) = Then(op, NoFile, <<>>)
         /\ <<>> \in Seq(Steps) /\ NoFile \in Uploads
<1>1. Do(op) \in Seq(Steps) /\ NoFile \in Uploads /\ <<>> \in Seq(Steps)
  BY WithIsSeq, EmptySeq DEF Do, Uploads
<1>2. Do(op) \o <<>> = Do(op)
  BY <1>1, ConcatEmptySeq
<1> QED BY <1>1, <1>2 DEF Do, Then

LEMMA MovesAreThen ==
  ASSUME NEW f \in Uploads, NEW known \in BOOLEAN, NEW s \in Seq(Steps)
  PROVE  /\ MoveSteps(f, known) \in Seq(Steps)
         /\ Cat(MoveSteps(f, known), s) = ThenMove(f, known, s)
         /\ ThenMove(f, known, s) \in Seq(Steps)
<1> DEFINE g == IF known THEN f ELSE NoFile
           M == With("move", g)
           D == With("delete", f)
<1>1. "move" \in OpNames /\ "delete" \in OpNames /\ g \in Uploads
  BY DEF OpNames, Uploads
<1>2. M \in Seq(Steps) /\ D \in Seq(Steps)
  BY <1>1, WithIsSeq
<1>3. MoveSteps(f, known) = Cat(M, D)
  BY DEF MoveSteps, Cat
<1>4. ThenMove(f, known, s) = Cat(M, Cat(D, s))
  BY DEF ThenMove, Then, Cat
<1> HIDE DEF M, D
<1> QED BY <1>2, <1>3, <1>4, CatProperties, CatAssociative

LEMMA ChoicesAre ==
  ASSUME NEW o \in Choices
  PROVE  /\ o.upload_id \in Uploads /\ o.upload_model_id \in Uploads
         /\ o.base_upload_id \in Uploads
         /\ o.version_diff \in BOOLEAN /\ o.brew_build \in Builds
         /\ o.base_brew_build \in Builds
  BY DEF Choices, Uploads

LEMMA AfterAreSeqs ==
  ASSUME NEW o \in Choices
  PROVE  /\ AfterModel(o) \in Seq(Steps) /\ AfterSource(o) \in Seq(Steps)
         /\ AfterCreate(o) \in Seq(Steps)
         /\ AfterBaseModel(o) \in Seq(Steps) /\ AfterMove(o) \in Seq(Steps)
         /\ AfterConfig(o) \in Seq(Steps)
<1>1. /\ {"put configs", "free", "analyze", "fetch", "find"} \subseteq OpNames
      /\ NoFile \in Uploads
  BY DEF OpNames, Uploads
<1>2. Do("free") \in Seq(Steps) /\ Do("analyze") \in Seq(Steps)
  BY <1>1, DoIsThen
<1>3. /\ o.upload_id \in Uploads /\ o.upload_model_id \in Uploads
      /\ o.base_upload_id \in Uploads
      /\ (o.brew_build = "none") \in BOOLEAN
  BY ChoicesAre
<1>4. AfterModel(o) \in Seq(Steps)
  BY <1>1, <1>2, ThenProperties DEF AfterModel
<1>5. AfterSource(o) \in Seq(Steps)
  BY <1>3, <1>4, MovesAreThen DEF AfterSource
<1>6. AfterCreate(o) \in Seq(Steps)
  BY <1>3, <1>5, MovesAreThen DEF AfterCreate
<1>7. AfterBaseModel(o) \in Seq(Steps)
  BY <1>1, <1>2, <1>3, ThenProperties DEF AfterBaseModel
<1>8. AfterMove(o) \in Seq(Steps)
  BY <1>1, <1>3, <1>7, ThenProperties DEF AfterMove
<1>9. ThenMove(o.base_upload_id, TRUE, AfterMove(o)) \in Seq(Steps)
  BY <1>3, <1>8, MovesAreThen
<1>10. AfterConfig(o) \in Seq(Steps)
  BY <1>1, <1>3, <1>8, <1>9, ThenProperties DEF AfterConfig
<1> QED BY <1>4, <1>5, <1>6, <1>7, <1>8, <1>10

(* The programs are what their first points say.                           *)
LEMMA SpawnStepsAre ==
  ASSUME NEW o \in Choices
  PROVE  SpawnSteps(o) = Then("create", NoFile, AfterCreate(o))
<1> DEFINE u == o.upload_id
           m == o.upload_model_id
           k == o.brew_build = "none"
           A == If(Given(u), MoveSteps(u, k))
           B == If(Given(m), MoveSteps(m, TRUE))
           C == If(MockAuto(o), Do("put configs"))
<1>1. u \in Uploads /\ m \in Uploads /\ k \in BOOLEAN
  BY ChoicesAre
<1>2. {"create", "put configs", "free"} \subseteq OpNames
  BY DEF OpNames
<1>3. /\ <<>> \in Seq(Steps)
      /\ Do("create") \in Seq(Steps) /\ Do("put configs") \in Seq(Steps)
      /\ Do("free") \in Seq(Steps)
  BY <1>2, DoIsThen
<1>4. A \in Seq(Steps) /\ B \in Seq(Steps) /\ C \in Seq(Steps)
  BY <1>1, <1>3, MovesAreThen DEF If
<1>5. SpawnSteps(o) = Cat(Cat(Cat(Cat(Do("create"), A), B), C), Do("free"))
  BY DEF SpawnSteps, Cat
<1>6. Cat(C, Do("free")) = AfterModel(o)
  <2>1. Cat(<<>>, Do("free")) = Do("free")
    BY <1>3, CatProperties
  <2>2. Cat(Do("put configs"), Do("free")) = Then("put configs", NoFile, Do("free"))
    BY DEF Cat, Then, Do
  <2> QED BY <2>1, <2>2 DEF AfterModel, If
<1>7. Cat(B, AfterModel(o)) = AfterSource(o)
  <2>1. Cat(<<>>, AfterModel(o)) = AfterModel(o)
    BY <1>3, AfterAreSeqs, CatProperties
  <2>2. Cat(MoveSteps(m, TRUE), AfterModel(o)) = ThenMove(m, TRUE, AfterModel(o))
    BY <1>1, AfterAreSeqs, MovesAreThen
  <2> QED BY <2>1, <2>2 DEF AfterSource, If
<1>8. Cat(A, AfterSource(o)) = AfterCreate(o)
  <2>1. Cat(<<>>, AfterSource(o)) = AfterSource(o)
    BY <1>3, AfterAreSeqs, CatProperties
  <2>2. Cat(MoveSteps(u, k), AfterSource(o)) = ThenMove(u, k, AfterSource(o))
    BY <1>1, AfterAreSeqs, MovesAreThen
  <2> QED BY <2>1, <2>2 DEF AfterCreate, If
<1>9. Cat(Do("create"), AfterCreate(o)) = Then("create", NoFile, AfterCreate(o))
  BY DEF Cat, Then, Do
<1> DEFINE D == Do("create")
           F == Do("free")
<1>10. /\ D \in Seq(Steps) /\ F \in Seq(Steps)
       /\ SpawnSteps(o) = Cat(Cat(Cat(Cat(D, A), B), C), F)
  BY <1>3, <1>5
<1>11. Cat(D, Cat(A, Cat(B, Cat(C, F)))) = Then("create", NoFile, AfterCreate(o))
  BY <1>6, <1>7, <1>8, <1>9
<1> HIDE DEF A, B, C, D, F
<1>12. Cat(Cat(Cat(Cat(D, A), B), C), F) = Cat(D, Cat(A, Cat(B, Cat(C, F))))
  BY <1>4, <1>10, CatFive
<1> QED BY <1>10, <1>11, <1>12

LEMMA HubGoesOn ==
  ASSUME NEW o \in Choices, NEW q, NEW s, HubAt(o, q, s), q # "done"
  PROVE  /\ s \in Seq(Steps) /\ s # <<>>
         /\ Head(s).op = HubOp(q) /\ Head(s).file = HubFile(o, q)
         /\ HubAt(o, HubNext(o, q), Tail(s))
<1> DEFINE u == o.upload_id
           m == o.upload_model_id
           k == o.brew_build = "none"
<1>1. /\ u \in Uploads /\ m \in Uploads /\ NoFile \in Uploads
      /\ (IF k THEN u ELSE NoFile) \in Uploads
  BY ChoicesAre DEF Uploads
<1>2. {"create", "move", "delete", "put configs", "free"} \subseteq OpNames
  BY DEF OpNames
<1>3. /\ AfterModel(o) \in Seq(Steps) /\ AfterSource(o) \in Seq(Steps)
      /\ AfterCreate(o) \in Seq(Steps) /\ <<>> \in Seq(Steps) /\ Do("free") \in Seq(Steps)
  BY <1>2, AfterAreSeqs, DoIsThen
<1>4. HubAt(o, PointAfterModel(o), AfterModel(o))
  BY DEF HubAt, PointAfterModel, AfterModel
<1>5. HubAt(o, PointAfterSource(o), AfterSource(o))
  BY <1>4 DEF HubAt, PointAfterSource, AfterSource
<1>6. HubAt(o, PointAfterCreate(o), AfterCreate(o))
  BY <1>5 DEF HubAt, PointAfterCreate, AfterCreate
<1>7. ASSUME NEW op \in OpNames, NEW f \in Uploads, NEW t \in Seq(Steps), s = Then(op, f, t),
             op = HubOp(q), f = HubFile(o, q), HubAt(o, HubNext(o, q), t)
      PROVE  /\ s \in Seq(Steps) /\ s # <<>>
             /\ Head(s).op = HubOp(q) /\ Head(s).file = HubFile(o, q)
             /\ HubAt(o, HubNext(o, q), Tail(s))
  <2>1. /\ Then(op, f, t) \in Seq(Steps) /\ Then(op, f, t) # <<>>
        /\ Head(Then(op, f, t)).op = op /\ Head(Then(op, f, t)).file = f
        /\ Tail(Then(op, f, t)) = t
    BY ThenProperties
  <2> QED BY <1>7, <2>1, Zenon
<1>8. CASE q = "create"
  <2>1. s = Then("create", NoFile, AfterCreate(o))
    BY <1>8 DEF HubAt
  <2>2. "create" = HubOp(q) /\ NoFile = HubFile(o, q) /\ HubNext(o, q) = PointAfterCreate(o)
    BY <1>8 DEF HubOp, HubFile, HubNext
  <2> QED BY <1>1, <1>2, <1>3, <1>6, <1>7, <2>1, <2>2
<1>9. CASE q = "move source"
  <2> DEFINE t == Then("delete", u, AfterSource(o))
  <2>1. s = Then("move", IF k THEN u ELSE NoFile, t) /\ HubAt(o, "delete source", t)
    BY <1>9 DEF HubAt, ThenMove
  <2>2. t \in Seq(Steps)
    BY <1>1, <1>2, <1>3, ThenProperties
  <2>3. /\ "move" = HubOp(q) /\ (IF k THEN u ELSE NoFile) = HubFile(o, q)
        /\ HubNext(o, q) = "delete source"
    BY <1>9 DEF HubOp, HubFile, HubNext
  <2> HIDE DEF t
  <2> QED BY <1>1, <1>2, <1>7, <2>1, <2>2, <2>3
<1>10. CASE q = "delete source"
  <2>1. s = Then("delete", u, AfterSource(o))
    BY <1>10 DEF HubAt
  <2>2. "delete" = HubOp(q) /\ u = HubFile(o, q) /\ HubNext(o, q) = PointAfterSource(o)
    BY <1>10 DEF HubOp, HubFile, HubNext
  <2> QED BY <1>1, <1>2, <1>3, <1>5, <1>7, <2>1, <2>2
<1>11. CASE q = "move model"
  <2> DEFINE t == Then("delete", m, AfterModel(o))
  <2>1. s = Then("move", m, t) /\ HubAt(o, "delete model", t)
    BY <1>11 DEF HubAt, ThenMove
  <2>2. t \in Seq(Steps)
    BY <1>1, <1>2, <1>3, ThenProperties
  <2>3. "move" = HubOp(q) /\ m = HubFile(o, q) /\ HubNext(o, q) = "delete model"
    BY <1>11 DEF HubOp, HubFile, HubNext
  <2> HIDE DEF t
  <2> QED BY <1>1, <1>2, <1>7, <2>1, <2>2, <2>3
<1>12. CASE q = "delete model"
  <2>1. s = Then("delete", m, AfterModel(o))
    BY <1>12 DEF HubAt
  <2>2. "delete" = HubOp(q) /\ m = HubFile(o, q) /\ HubNext(o, q) = PointAfterModel(o)
    BY <1>12 DEF HubOp, HubFile, HubNext
  <2> QED BY <1>1, <1>2, <1>3, <1>4, <1>7, <2>1, <2>2
<1>13. CASE q = "put configs"
  <2>1. s = Then("put configs", NoFile, Do("free")) /\ HubAt(o, "free", Do("free"))
    BY <1>13 DEF HubAt
  <2>2. "put configs" = HubOp(q) /\ NoFile = HubFile(o, q) /\ HubNext(o, q) = "free"
    BY <1>13 DEF HubOp, HubFile, HubNext
  <2> QED BY <1>1, <1>2, <1>3, <1>7, <2>1, <2>2
<1>14. CASE q = "free"
  <2>1. s = Then("free", NoFile, <<>>) /\ HubAt(o, "done", <<>>)
    BY <1>2, <1>14, DoIsThen DEF HubAt
  <2>2. "free" = HubOp(q) /\ NoFile = HubFile(o, q) /\ HubNext(o, q) = "done"
    BY <1>14 DEF HubOp, HubFile, HubNext
  <2> QED BY <1>1, <1>2, <1>3, <1>7, <2>1, <2>2
<1> QED BY <1>8, <1>9, <1>10, <1>11, <1>12, <1>13, <1>14 DEF HubAt

LEMMA BaseRunIs ==
  ASSUME NEW o \in Choices
  PROVE  BaseAt(o, FirstPoint(o), RunSteps(o, "base")) /\ RunSteps(o, "base") \in Seq(Steps)
<1> DEFINE f == o.base_upload_id
           m == o.upload_model_id
           G == Do("generate configs")
           H == Do("fetch config")
           A == IF BaseAuto(o) THEN Cat(G, H) ELSE <<>>
           B == IF Named(o) THEN Cat(With("find", f), MoveSteps(f, TRUE)) ELSE <<>>
           C == IF Given(m) THEN With("fetch", m) ELSE <<>>
           D == IF Named(o) THEN With("fetch", f) ELSE <<>>
           E == Do("analyze")
<1>1. f \in Uploads /\ m \in Uploads
  BY ChoicesAre
<1>2. {"generate configs", "fetch config", "find", "fetch", "analyze"} \subseteq OpNames
  BY DEF OpNames
<1>3. /\ <<>> \in Seq(Steps) /\ E \in Seq(Steps) /\ G \in Seq(Steps) /\ H \in Seq(Steps)
      /\ With("find", f) \in Seq(Steps) /\ With("fetch", m) \in Seq(Steps)
      /\ With("fetch", f) \in Seq(Steps) /\ MoveSteps(f, TRUE) \in Seq(Steps)
  BY <1>1, <1>2, DoIsThen, WithIsSeq, MovesAreThen
<1>4. A \in Seq(Steps) /\ B \in Seq(Steps) /\ C \in Seq(Steps) /\ D \in Seq(Steps)
  <2> HIDE DEF G, H
  <2> QED BY <1>3, CatProperties
<1>5. RunSteps(o, "base") = Cat(Cat(Cat(Cat(Cat(<<>>, A), B), C), D), E)
  BY DEF RunSteps, Cat, If, Named
<1>6. Cat(D, E) = AfterBaseModel(o)
  <2>1. Cat(<<>>, E) = E
    <3> HIDE DEF E
    <3> QED BY <1>3, CatProperties
  <2>2. Cat(With("fetch", f), E) = Then("fetch", f, E)
    BY DEF Cat, Then
  <2> QED BY <2>1, <2>2 DEF AfterBaseModel
<1>7. Cat(C, AfterBaseModel(o)) = AfterMove(o)
  <2>1. Cat(<<>>, AfterBaseModel(o)) = AfterBaseModel(o)
    BY <1>3, AfterAreSeqs, CatProperties
  <2>2. Cat(With("fetch", m), AfterBaseModel(o)) = Then("fetch", m, AfterBaseModel(o))
    BY DEF Cat, Then
  <2> QED BY <2>1, <2>2 DEF AfterMove
<1>8. Cat(B, AfterMove(o)) = AfterConfig(o)
  <2>1. Cat(<<>>, AfterMove(o)) = AfterMove(o)
    BY <1>3, AfterAreSeqs, CatProperties
  <2>2. Cat(MoveSteps(f, TRUE), AfterMove(o)) = ThenMove(f, TRUE, AfterMove(o))
    BY <1>1, AfterAreSeqs, MovesAreThen
  <2>3. Cat(Cat(With("find", f), MoveSteps(f, TRUE)), AfterMove(o))
          = Cat(With("find", f), Cat(MoveSteps(f, TRUE), AfterMove(o)))
    <3> DEFINE X == With("find", f)
               Y == MoveSteps(f, TRUE)
               Z == AfterMove(o)
    <3>1. X \in Seq(Steps) /\ Y \in Seq(Steps) /\ Z \in Seq(Steps)
      BY <1>3, AfterAreSeqs
    <3> HIDE DEF X, Y, Z
    <3>2. Cat(Cat(X, Y), Z) = Cat(X, Cat(Y, Z))
      BY <3>1, CatAssociative
    <3> QED BY <3>2 DEF X, Y, Z
  <2>4. Cat(With("find", f), ThenMove(f, TRUE, AfterMove(o)))
          = Then("find", f, ThenMove(f, TRUE, AfterMove(o)))
    BY DEF Cat, Then
  <2> QED BY <2>1, <2>2, <2>3, <2>4 DEF AfterConfig
<1>9. Cat(A, AfterConfig(o))
        = IF BaseAuto(o)
            THEN Then("generate configs", NoFile, Then("fetch config", NoFile, AfterConfig(o)))
            ELSE AfterConfig(o)
  <2>1. Cat(<<>>, AfterConfig(o)) = AfterConfig(o)
    BY <1>3, AfterAreSeqs, CatProperties
  <2>2. Cat(Cat(G, H), AfterConfig(o)) = Cat(G, Cat(H, AfterConfig(o)))
    <3> HIDE DEF G, H
    <3> QED BY <1>3, AfterAreSeqs, CatAssociative
  <2>3. Cat(G, Cat(H, AfterConfig(o)))
          = Then("generate configs", NoFile, Then("fetch config", NoFile, AfterConfig(o)))
    BY DEF Cat, Then, Do
  <2> QED BY <2>1, <2>2, <2>3
<1>10. Cat(A, AfterConfig(o)) \in Seq(Steps)
  <2> HIDE DEF A
  <2> QED BY <1>4, AfterAreSeqs, CatProperties
<1>11. RunSteps(o, "base") = Cat(A, AfterConfig(o))
  <2>0. E \in Seq(Steps)
    BY <1>3
  <2> HIDE DEF A, B, C, D, E
  <2>1. Cat(<<>>, A) = A
    BY <1>4, CatProperties
  <2>2. Cat(Cat(Cat(Cat(A, B), C), D), E) = Cat(A, Cat(B, Cat(C, Cat(D, E))))
    BY <1>4, <2>0, CatFive
  <2> QED BY <1>5, <1>6, <1>7, <1>8, <2>1, <2>2
<1>12. BaseAt(o, PointAfterBaseModel(o), AfterBaseModel(o))
  BY DEF BaseAt, PointAfterBaseModel, AfterBaseModel
<1>13. BaseAt(o, PointAfterMove(o), AfterMove(o))
  BY <1>12 DEF BaseAt, PointAfterMove, AfterMove
<1>14. BaseAt(o, PointAfterConfig(o), AfterConfig(o))
  BY <1>13 DEF BaseAt, PointAfterConfig, AfterConfig
<1>15. BaseAt(o, FirstPoint(o), RunSteps(o, "base"))
  <2> HIDE DEF A
  <2> QED BY <1>9, <1>11, <1>14 DEF BaseAt, FirstPoint
<1> HIDE DEF A
<1> QED BY <1>10, <1>11, <1>15

LEMMA BaseGoesOn ==
  ASSUME NEW o \in Choices, NEW q, NEW s, BaseAt(o, q, s), q \notin {"waiting", "ended"}
  PROVE  /\ s \in Seq(Steps) /\ s # <<>>
         /\ Head(s).op = BaseOp(q) /\ Head(s).file = BaseFile(o, q)
         /\ BaseAt(o, BaseNext(o, q), Tail(s))
<1> DEFINE f == o.base_upload_id
           m == o.upload_model_id
<1>1. f \in Uploads /\ m \in Uploads /\ NoFile \in Uploads
  BY ChoicesAre DEF Uploads
<1>2. {"generate configs", "fetch config", "find", "move", "delete", "fetch", "analyze"}
        \subseteq OpNames
  BY DEF OpNames
<1>3. /\ AfterBaseModel(o) \in Seq(Steps) /\ AfterMove(o) \in Seq(Steps)
      /\ AfterConfig(o) \in Seq(Steps) /\ <<>> \in Seq(Steps) /\ Do("analyze") \in Seq(Steps)
  BY <1>2, AfterAreSeqs, DoIsThen
<1>4. BaseAt(o, PointAfterBaseModel(o), AfterBaseModel(o))
  BY DEF BaseAt, PointAfterBaseModel, AfterBaseModel
<1>5. BaseAt(o, PointAfterMove(o), AfterMove(o))
  BY <1>4 DEF BaseAt, PointAfterMove, AfterMove
<1>6. BaseAt(o, PointAfterConfig(o), AfterConfig(o))
  BY <1>5 DEF BaseAt, PointAfterConfig, AfterConfig
<1>7. ASSUME NEW op \in OpNames, NEW g \in Uploads, NEW t \in Seq(Steps), s = Then(op, g, t),
             op = BaseOp(q), g = BaseFile(o, q), BaseAt(o, BaseNext(o, q), t)
      PROVE  /\ s \in Seq(Steps) /\ s # <<>>
             /\ Head(s).op = BaseOp(q) /\ Head(s).file = BaseFile(o, q)
             /\ BaseAt(o, BaseNext(o, q), Tail(s))
  <2>1. /\ Then(op, g, t) \in Seq(Steps) /\ Then(op, g, t) # <<>>
        /\ Head(Then(op, g, t)).op = op /\ Head(Then(op, g, t)).file = g
        /\ Tail(Then(op, g, t)) = t
    BY ThenProperties
  <2> QED BY <1>7, <2>1, Zenon
<1>8. CASE q = "generate configs"
  <2> DEFINE t == Then("fetch config", NoFile, AfterConfig(o))
  <2>1. s = Then("generate configs", NoFile, t) /\ BaseAt(o, "fetch config", t)
    BY <1>8 DEF BaseAt
  <2>2. t \in Seq(Steps)
    BY <1>1, <1>2, <1>3, ThenProperties
  <2>3. /\ "generate configs" = BaseOp(q) /\ NoFile = BaseFile(o, q)
        /\ BaseNext(o, q) = "fetch config"
    BY <1>8 DEF BaseOp, BaseFile, BaseNext
  <2> HIDE DEF t
  <2> QED BY <1>1, <1>2, <1>7, <2>1, <2>2, <2>3
<1>9. CASE q = "fetch config"
  <2>1. s = Then("fetch config", NoFile, AfterConfig(o))
    BY <1>9 DEF BaseAt
  <2>2. /\ "fetch config" = BaseOp(q) /\ NoFile = BaseFile(o, q)
        /\ BaseNext(o, q) = PointAfterConfig(o)
    BY <1>9 DEF BaseOp, BaseFile, BaseNext
  <2> QED BY <1>1, <1>2, <1>3, <1>6, <1>7, <2>1, <2>2
<1>10. CASE q = "find"
  <2> DEFINE t == ThenMove(f, TRUE, AfterMove(o))
  <2>1. s = Then("find", f, t) /\ BaseAt(o, "move", t)
    BY <1>10 DEF BaseAt
  <2>2. t \in Seq(Steps)
    BY <1>1, <1>3, MovesAreThen
  <2>3. "find" = BaseOp(q) /\ f = BaseFile(o, q) /\ BaseNext(o, q) = "move"
    BY <1>10 DEF BaseOp, BaseFile, BaseNext
  <2> HIDE DEF t
  <2> QED BY <1>1, <1>2, <1>7, <2>1, <2>2, <2>3
<1>11. CASE q = "move"
  <2> DEFINE t == Then("delete", f, AfterMove(o))
  <2>1. s = Then("move", f, t) /\ BaseAt(o, "delete", t)
    BY <1>11 DEF BaseAt, ThenMove
  <2>2. t \in Seq(Steps)
    BY <1>1, <1>2, <1>3, ThenProperties
  <2>3. "move" = BaseOp(q) /\ f = BaseFile(o, q) /\ BaseNext(o, q) = "delete"
    BY <1>11 DEF BaseOp, BaseFile, BaseNext
  <2> HIDE DEF t
  <2> QED BY <1>1, <1>2, <1>7, <2>1, <2>2, <2>3
<1>12. CASE q = "delete"
  <2>1. s = Then("delete", f, AfterMove(o))
    BY <1>12 DEF BaseAt
  <2>2. "delete" = BaseOp(q) /\ f = BaseFile(o, q) /\ BaseNext(o, q) = PointAfterMove(o)
    BY <1>12 DEF BaseOp, BaseFile, BaseNext
  <2> QED BY <1>1, <1>2, <1>3, <1>5, <1>7, <2>1, <2>2
<1>13. CASE q = "fetch model"
  <2>1. s = Then("fetch", m, AfterBaseModel(o))
    BY <1>13 DEF BaseAt
  <2>2. "fetch" = BaseOp(q) /\ m = BaseFile(o, q) /\ BaseNext(o, q) = PointAfterBaseModel(o)
    BY <1>13 DEF BaseOp, BaseFile, BaseNext
  <2> QED BY <1>1, <1>2, <1>3, <1>4, <1>7, <2>1, <2>2
<1>14. CASE q = "fetch"
  <2>1. s = Then("fetch", f, Do("analyze")) /\ BaseAt(o, "analyze", Do("analyze"))
    BY <1>14 DEF BaseAt
  <2>2. "fetch" = BaseOp(q) /\ f = BaseFile(o, q) /\ BaseNext(o, q) = "analyze"
    BY <1>14 DEF BaseOp, BaseFile, BaseNext
  <2> QED BY <1>1, <1>2, <1>3, <1>7, <2>1, <2>2
<1>15. CASE q = "analyze"
  <2>1. s = Then("analyze", NoFile, <<>>) /\ BaseAt(o, "ended", <<>>)
    BY <1>2, <1>15, DoIsThen DEF BaseAt
  <2>2. "analyze" = BaseOp(q) /\ NoFile = BaseFile(o, q) /\ BaseNext(o, q) = "ended"
    BY <1>15 DEF BaseOp, BaseFile, BaseNext
  <2> QED BY <1>1, <1>2, <1>3, <1>7, <2>1, <2>2
<1> QED BY <1>8, <1>9, <1>10, <1>11, <1>12, <1>13, <1>14, <1>15 DEF BaseAt

(* The program of a target: its base, if it has one, goes first.           *)
LEMMA MainRunIs ==
  ASSUME NEW o \in Choices, Given(o.upload_id) => o.brew_build = "none"
  PROVE  /\ RunSteps(o, "main") \in Seq(Steps)
         /\ ~o.version_diff => RunSteps(o, "main") \in Seq(MainSteps(o))
         /\ o.version_diff =>
              /\ RunSteps(o, "main") # <<>> /\ Head(RunSteps(o, "main")).op = "spawn base"
              /\ Tail(RunSteps(o, "main")) \in Seq(MainSteps(o))
<1> DEFINE u == o.upload_id
           m == o.upload_model_id
           named == o.brew_build = "none" /\ Given(u)
           S == Cat(Do("spawn base"), Do("wait"))
           P == IF o.version_diff THEN S ELSE <<>>
           A == IF MockAuto(o) THEN Cat(<<>>, Do("fetch config")) ELSE <<>>
           C == IF Given(m) THEN With("fetch", m) ELSE <<>>
           D == IF named THEN With("fetch", u) ELSE <<>>
           E == Do("analyze")
           M == MainSteps(o)
           R == Cat(A, Cat(C, Cat(D, E)))
<1>1. u \in Uploads /\ m \in Uploads /\ NoFile \in Uploads
  BY ChoicesAre DEF Uploads
<1>2. {"spawn base", "wait", "fetch config", "fetch", "analyze"} \subseteq OpNames
  BY DEF OpNames
<1>3. <<>> \in Seq(M) /\ <<>> \in Seq(Steps) /\ M \subseteq Steps
  BY EmptySeq DEF MainSteps
<1>4. ASSUME NEW x \in M
      PROVE  <<x>> \in Seq(M)
  OBVIOUS
<1>5. /\ [op |-> "wait", file |-> NoFile] \in M /\ [op |-> "analyze", file |-> NoFile] \in M
      /\ MockAuto(o) => [op |-> "fetch config", file |-> NoFile] \in M
      /\ Given(m) => [op |-> "fetch", file |-> m] \in M
      /\ Given(u) => [op |-> "fetch", file |-> u] \in M
  BY <1>1, <1>2 DEF MainSteps, Steps, Uploads
<1>6. Do("wait") \in Seq(M) /\ A \in Seq(M) /\ C \in Seq(M) /\ D \in Seq(M) /\ E \in Seq(M)
  <2>1. MockAuto(o) => Do("fetch config") \in Seq(M)
    BY <1>4, <1>5 DEF Do, With
  <2>2. A \in Seq(M)
    <3> HIDE DEF M
    <3> QED BY <1>3, <2>1, CatProperties
  <2> QED BY <1>3, <1>4, <1>5, <2>2 DEF Do, With
<1>7. R \in Seq(M)
  <2> HIDE DEF A, C, D, E, M
  <2>1. Cat(D, E) \in Seq(M)
    BY <1>6, CatProperties
  <2>2. Cat(C, Cat(D, E)) \in Seq(M)
    BY <1>6, <2>1, CatProperties
  <2> QED BY <1>6, <2>2, CatProperties
<1>8. \A s \in Seq(M) : s \in Seq(Steps)
  <2> HIDE DEF M
  <2> QED BY <1>3, SeqMonotonic
<1>9. Do("spawn base") \in Seq(Steps) /\ Do("wait") \in Seq(Steps)
  BY <1>2, DoIsThen
<1>10. P \in Seq(Steps)
  BY <1>3, <1>9, CatProperties
<1>11. RunSteps(o, "main") = Cat(Cat(Cat(Cat(Cat(P, A), <<>>), C), D), E)
  BY DEF RunSteps, Cat, If
<1>12. RunSteps(o, "main") = Cat(P, R)
  <2>1. A \in Seq(Steps) /\ C \in Seq(Steps) /\ D \in Seq(Steps) /\ E \in Seq(Steps)
    BY <1>6, <1>8
  <2>2. P \in Seq(Steps)
    BY <1>10
  <2> HIDE DEF P, A, C, D, E
  <2>3. Cat(Cat(P, A), <<>>) = Cat(P, A)
    BY <2>1, <2>2, CatProperties
  <2>4. Cat(Cat(Cat(Cat(P, A), C), D), E) = Cat(P, Cat(A, Cat(C, Cat(D, E))))
    BY <2>1, <2>2, CatFive
  <2> QED BY <1>11, <2>3, <2>4
<1>13. R \in Seq(Steps) /\ Do("wait") \in Seq(M)
  BY <1>6, <1>7, <1>8
<1> DEFINE W == Do("wait")
           B == Do("spawn base")
<1>14. W \in Seq(M) /\ W \in Seq(Steps) /\ B \in Seq(Steps)
  BY <1>9, <1>13
<1>15. P = IF o.version_diff THEN Cat(B, W) ELSE <<>>
  OBVIOUS
<1> HIDE DEF P, R, M, W
<1>16. ~o.version_diff => RunSteps(o, "main") = R
  BY <1>12, <1>13, <1>15, CatProperties
<1>17. Cat(W, R) \in Seq(M) /\ Cat(W, R) \in Seq(Steps)
  BY <1>7, <1>13, <1>14, CatProperties
<1>18. o.version_diff => RunSteps(o, "main") = Then("spawn base", NoFile, Cat(W, R))
  <2>1. Then("spawn base", NoFile, Cat(W, R)) = Cat(B, Cat(W, R))
    BY DEF Then, Cat, Do
  <2> HIDE DEF B
  <2>2. Cat(Cat(B, W), R) = Cat(B, Cat(W, R))
    BY <1>13, <1>14, CatAssociative
  <2> QED BY <1>12, <1>15, <2>1, <2>2
<1>19. /\ Then("spawn base", NoFile, Cat(W, R)) \in Seq(Steps)
       /\ Then("spawn base", NoFile, Cat(W, R)) # <<>>
       /\ Head(Then("spawn base", NoFile, Cat(W, R))).op = "spawn base"
       /\ Tail(Then("spawn base", NoFile, Cat(W, R))) = Cat(W, R)
  <2> DEFINE X == Cat(W, R)
             op == "spawn base"
  <2>1. op \in OpNames /\ X \in Seq(Steps) /\ NoFile \in Uploads
    BY <1>1, <1>2, <1>17
  <2> HIDE DEF X, op
  <2>2. /\ Then(op, NoFile, X) \in Seq(Steps) /\ Then(op, NoFile, X) # <<>>
        /\ Head(Then(op, NoFile, X)).op = op /\ Tail(Then(op, NoFile, X)) = X
    BY <2>1, ThenProperties
  <2> QED BY <2>2 DEF X, op
<1>20. o.version_diff \in BOOLEAN
  BY ChoicesAre
<1> QED BY <1>7, <1>13, <1>16, <1>17, <1>18, <1>19, <1>20 DEF M

-----------------------------------------------------------------------------
(* What stays when another process goes on.                                *)

LEMMA ProcessesDiffer ==
  ASSUME NEW r \in Requests
  PROVE  /\ Main(r) \in Jobs /\ Base(r) \in Jobs /\ Main(r) # Base(r)
         /\ Main(r) \in Processes /\ Base(r) \in Processes /\ Hub(r) \in Processes
         /\ Hub(r) # Main(r) /\ Hub(r) # Base(r) /\ Hub(r) \notin Jobs
         /\ JobOf(Hub(r)) = Main(r) /\ JobOf(Main(r)) = Main(r) /\ JobOf(Base(r)) = Base(r)
         /\ UploadDir \notin Jobs
         /\ \A s \in Requests : s # r =>
              /\ Hub(s) \notin {Hub(r), Main(r), Base(r)}
              /\ Main(s) \notin {Hub(r), Main(r), Base(r)}
              /\ Base(s) \notin {Hub(r), Main(r), Base(r)}
  BY DEF Main, Base, Hub, Jobs, Processes, JobOf, UploadDir

LEMMA ProcessIs ==
  ASSUME NEW p \in Processes
  PROVE  \E r \in Requests : p = Main(r) \/ p = Base(r) \/ p = Hub(r)
  BY DEF Main, Base, Hub, Jobs, Processes

LEMMA JobIs ==
  ASSUME NEW j \in Jobs
  PROVE  \E r \in Requests : j = Main(r) \/ j = Base(r)
  BY DEF Main, Base, Jobs

LEMMA AcceptedHas ==
  ASSUME ClientTypeOK, NEW r \in Requests, Accepted(r)
  PROVE  asked[r] \in Choices
  BY DEF ClientTypeOK, Accepted

LEMMA NamesAre ==
  ASSUME NEW r, Accepted(r)
  PROVE  /\ "upload_id" \in Uses(r) /\ "upload_model_id" \in Uses(r)
         /\ asked[r].version_diff /\ asked[r].base_brew_build = "none" =>
              "base_upload_id" \in Uses(r)
         /\ Uses(r) \subseteq {"upload_id", "upload_model_id", "base_upload_id"}
  BY DEF Uses

AskedGrows ==
  \A s \in Requests : Accepted(s) => Accepted(s)' /\ asked'[s] = asked[s]

LEMMA SharesStays ==
  ASSUME AskedGrows, NEW r \in Requests, Shares(r)
  PROVE  Shares(r)'
<1>1. PICK n \in Uses(r), s \in Requests : \E m \in Uses(s) :
        <<r, n>> # <<s, m>> /\ Given(asked[r][n]) /\ asked[r][n] = asked[s][m]
  BY DEF Shares
<1>2. PICK m \in Uses(s) :
        <<r, n>> # <<s, m>> /\ Given(asked[r][n]) /\ asked[r][n] = asked[s][m]
  BY <1>1
<1>3. Accepted(r) /\ Accepted(s)
  BY <1>1, <1>2 DEF Uses
<1>4. asked'[r] = asked[r] /\ asked'[s] = asked[s] /\ Accepted(r)' /\ Accepted(s)'
  BY <1>3 DEF AskedGrows
<1>5. n \in Uses(r)' /\ m \in Uses(s)'
  BY <1>1, <1>2, <1>3, <1>4 DEF Uses
<1> QED BY <1>1, <1>2, <1>4, <1>5 DEF Shares, Given

LEMMA ExplainedStays ==
  ASSUME AskedGrows, died \subseteq died', NEW j \in Jobs, Explained(j)
  PROVE  Explained(j)'
<1>1. PICK r \in Requests : j[1] = r
  BY DEF Jobs
<1>2. Accepted(r) /\ Accepted(r)' /\ asked'[r] = asked[r]
  BY <1>1 DEF Explained, AskedGrows
<1>3. Shares(r) => Shares(r)'
  BY SharesStays
<1> QED BY <1>1, <1>2, <1>3 DEF Explained, Given

(* Of the files only those change that a request names as N says.          *)
TouchesOnly(r, N) ==
  \A f \in Files :
    \/ place'[f] = place[f] /\ (f \in record => f \in record')
    \/ \E n \in N : n \in Uses(r) /\ asked[r][n] = f

(* The files that a request has for itself and names otherwise stay.       *)
LEMMA FileStays ==
  ASSUME ClientTypeOK, NEW r \in Requests, NEW N, TouchesOnly(r, N),
         NEW s \in Requests, ~Shares(s),
         NEW m \in Uses(s), s # r \/ m \notin N, asked[s][m] \in Uploads, Given(asked[s][m])
  PROVE  /\ place'[asked[s][m]] = place[asked[s][m]]
         /\ asked[s][m] \in record => asked[s][m] \in record'
<1> DEFINE f == asked[s][m]
<1>1. f \in Files
  BY DEF Given, Uploads
<1>2. ASSUME NEW n \in N, n \in Uses(r), asked[r][n] = f
      PROVE  FALSE
  <2>1. <<s, m>> # <<r, n>>
    BY <1>2
  <2> QED BY <1>2, <2>1 DEF Shares
<1> HIDE DEF f
<1>3. place'[f] = place[f] /\ (f \in record => f \in record')
  BY <1>1, <1>2 DEF TouchesOnly
<1> QED BY <1>3 DEF f

(* The files of a target, of a base.                                       *)
SourcesStay(r) ==
  ~Shares(r) => \A f \in {asked[r].upload_id, asked[r].upload_model_id} :
    Given(f) => place'[f] = place[f] /\ (f \in record => f \in record')

BaseSourceStays(r) ==
  ~Shares(r) =>
    LET f == asked[r].base_upload_id
    IN  Named(asked[r]) => place'[f] = place[f] /\ (f \in record => f \in record')

LEMMA SourcesStayUntouched ==
  ASSUME ClientTypeOK, NEW r \in Requests, NEW N, TouchesOnly(r, N),
         NEW s \in Requests, Accepted(s)
  PROVE  /\ s # r \/ {"upload_id", "upload_model_id"} \cap N = {} => SourcesStay(s)
         /\ (s # r \/ "base_upload_id" \notin N) /\ asked[s].version_diff => BaseSourceStays(s)
<1>1. asked[s].upload_id \in Uploads /\ asked[s].upload_model_id \in Uploads
      /\ asked[s].base_upload_id \in Uploads
  BY AcceptedHas, ChoicesAre
<1>2. asked[s].upload_id = asked[s]["upload_id"]
      /\ asked[s].upload_model_id = asked[s]["upload_model_id"]
      /\ asked[s].base_upload_id = asked[s]["base_upload_id"]
  OBVIOUS
<1>3. ASSUME s # r \/ {"upload_id", "upload_model_id"} \cap N = {}
      PROVE  SourcesStay(s)
  <2> SUFFICES ASSUME ~Shares(s), NEW m \in {"upload_id", "upload_model_id"}, Given(asked[s][m])
               PROVE  /\ place'[asked[s][m]] = place[asked[s][m]]
                      /\ asked[s][m] \in record => asked[s][m] \in record'
    BY <1>2 DEF SourcesStay
  <2>1. m \in Uses(s) /\ (s # r \/ m \notin N) /\ asked[s][m] \in Uploads
    BY <1>1, <1>3, NamesAre
  <2> QED BY <2>1, FileStays
<1>4. ASSUME s # r \/ "base_upload_id" \notin N, asked[s].version_diff
      PROVE  BaseSourceStays(s)
  <2> SUFFICES ASSUME ~Shares(s), Named(asked[s])
               PROVE  /\ place'[asked[s]["base_upload_id"]] = place[asked[s]["base_upload_id"]]
                      /\ asked[s]["base_upload_id"] \in record =>
                           asked[s]["base_upload_id"] \in record'
    BY <1>2 DEF BaseSourceStays
  <2>1. "base_upload_id" \in Uses(s) /\ Given(asked[s]["base_upload_id"])
    BY <1>4, NamesAre DEF Named
  <2> QED BY <1>1, <1>4, <2>1, FileStays
<1> QED BY <1>3, <1>4

LEMMA HubStays ==
  ASSUME ClientTypeOK, NEW r \in Requests, TaskInv(r), HubInv(r), AskedGrows, Accepted(r),
         todo'[Hub(r)] = todo[Hub(r)],
         task'[Main(r)] = task[Main(r)] \/ (Started(r) /\ Started(r)'),
         r \in died' <=> r \in died, configs \subseteq configs', SourcesStay(r)
  PROVE  HubInv(r)'
<1>1. asked'[r] = asked[r] /\ (Shares(r) => Shares(r)') /\ asked[r] \in Choices
  BY SharesStays, AcceptedHas DEF AskedGrows
<1>2. PICK q \in HubPoints : HubIs(r, q)
  BY Zenon DEF HubInv
<1>3. HubAt(asked'[r], q, todo'[Hub(r)])
  BY <1>1, <1>2 DEF HubIs
<1>4. /\ q = "create" => task'[Main(r)] = "none"
      /\ q \notin {"create", "done"} => task'[Main(r)] = "created"
  BY <1>2 DEF HubIs, Started
<1>5. HasPath(r)' <=> HasPath(r)
  BY <1>1 DEF HasPath, Given
<1>6. ASSUME ~Shares(r)', HasPath(r)', r \notin died'
      PROVE  HubFacts(r, q)' /\ (q = "done" => Started(r)')
  <2>1. ~Shares(r) /\ HubFacts(r, q) /\ (q = "done" => Started(r))
    BY <1>1, <1>2, <1>5, <1>6 DEF HubIs
  <2>2. HubFacts(r, q)'
    BY <1>1, <2>1 DEF HubFacts, SourcesStay, Given, MockAuto
  <2> QED BY <2>1, <2>2 DEF Started
<1>7. HubIs(r, q)'
  BY <1>2, <1>3, <1>4, <1>5, <1>6 DEF HubIs
<1> QED BY <1>2, <1>7, Zenon DEF HubInv

LEMMA BaseStays ==
  ASSUME ClientTypeOK, NEW r \in Requests, BaseInv(r), AskedGrows, Accepted(r),
         todo'[Base(r)] = todo[Base(r)], task'[Base(r)] = task[Base(r)],
         configs \subseteq configs', asked[r].version_diff => BaseSourceStays(r)
  PROVE  BaseInv(r)'
<1>1. asked'[r] = asked[r] /\ (Shares(r) => Shares(r)')
  BY SharesStays DEF AskedGrows
<1> SUFFICES ASSUME asked[r].version_diff
             PROVE  \E q \in BasePoints : BaseIs(r, q)'
  BY <1>1, Zenon DEF BaseInv
<1>2. PICK q \in BasePoints : BaseIs(r, q)
  BY Zenon DEF BaseInv
<1>3. BaseFacts(r, q) /\ ~Shares(r) => BaseFacts(r, q)'
  BY <1>1 DEF BaseFacts, BaseSourceStays
<1>4. BaseIs(r, q)'
  BY <1>1, <1>2, <1>3 DEF BaseIs
<1> QED BY <1>2, <1>4, Zenon

LEMMA MainStays ==
  ASSUME NEW r \in Requests, MainInv(r), asked'[r] = asked[r],
         todo'[Main(r)] = todo[Main(r)], task'[Base(r)] = task[Base(r)]
  PROVE  MainInv(r)'
  BY DEF MainInv, AtStep, MainSteps

(* Only the processes of r go on, and touch only files that r names.       *)
OnlyActs(r, N) ==
  /\ asked' = asked /\ TouchesOnly(r, N) /\ configs \subseteq configs'
  /\ \A s \in Requests : s # r =>
       /\ todo'[Hub(s)] = todo[Hub(s)] /\ todo'[Main(s)] = todo[Main(s)]
       /\ todo'[Base(s)] = todo[Base(s)]
       /\ task'[Main(s)] = task[Main(s)] /\ task'[Base(s)] = task[Base(s)]
       /\ s \in died' <=> s \in died

LEMMA OthersStay ==
  ASSUME ClientInv, NEW r \in Requests, NEW N, OnlyActs(r, N), NEW s \in Requests, s # r
  PROVE  RequestInv(s)'
<1>1. asked'[s] = asked[s] /\ (Accepted(s)' <=> Accepted(s)) /\ AskedGrows
  BY DEF OnlyActs, Accepted, AskedGrows
<1>2. TaskInv(s) /\ HubInv(s) /\ MainInv(s) /\ BaseInv(s) /\ ClientTypeOK
  BY DEF ClientInv, RequestInv
<1>3. TaskInv(s)'
  BY <1>1, <1>2 DEF TaskInv, OnlyActs, Started, HasPath, Given
<1>4. MainInv(s)'
  BY <1>1, <1>2, MainStays DEF OnlyActs
<1>5. Accepted(s) => SourcesStay(s) /\ (asked[s].version_diff => BaseSourceStays(s))
  BY <1>2, SourcesStayUntouched DEF OnlyActs
<1>6. HubInv(s)'
  <2>1. CASE Accepted(s)
    BY <1>1, <1>2, <1>5, <2>1, HubStays DEF OnlyActs
  <2> QED BY <1>1, <2>1 DEF HubInv
<1>7. BaseInv(s)'
  <2>1. CASE Accepted(s)
    BY <1>1, <1>2, <1>5, <2>1, BaseStays DEF OnlyActs
  <2> QED BY <1>1, <2>1 DEF BaseInv
<1> QED BY <1>3, <1>4, <1>6, <1>7 DEF RequestInv

LEMMA FilesStay ==
  ASSUME ClientInv, NEW r \in Requests, NEW N, OnlyActs(r, N)
  PROVE  FilesInv'
<1> SUFFICES ASSUME NEW f \in Files, f \notin record' \/ place'[f] # UploadDir
             PROVE  \E s \in Requests : \E n \in Uses(s)' : asked'[s][n] = f
  BY DEF FilesInv
<1>1. \A s : Uses(s)' = Uses(s)
  BY DEF OnlyActs, Uses, Accepted
<1>2. CASE place'[f] = place[f] /\ (f \in record => f \in record')
  BY <1>1, <1>2 DEF ClientInv, FilesInv, OnlyActs
<1>3. CASE \E n \in N : n \in Uses(r) /\ asked[r][n] = f
  BY <1>1, <1>3 DEF OnlyActs
<1> QED BY <1>2, <1>3 DEF OnlyActs, TouchesOnly

(* It is enough to look at the request that acts.                          *)
LEMMA Enough ==
  ASSUME ClientInv, ClientTypeOK', NEW r \in Requests, NEW N, OnlyActs(r, N),
         RequestInv(r)', died \subseteq died', \A j \in lost' \ lost : Explained(j)'
  PROVE  ClientInv'
<1>1. \A s \in Requests : RequestInv(s)'
  BY OthersStay
<1>2. AskedGrows
  BY DEF OnlyActs, AskedGrows, Accepted
<1>3. ASSUME NEW j \in lost'
      PROVE  Explained(j)'
  <2>1. j \in lost => j \in Jobs /\ Explained(j)
    BY DEF ClientInv, ClientTypeOK
  <2> QED BY <1>2, <2>1, ExplainedStays
<1> QED BY <1>1, <1>3, FilesStay DEF ClientInv

-----------------------------------------------------------------------------
(* The initial states, and the types.                                      *)

LEMMA ClientInitInv == ClientInit => ClientInv
<1> SUFFICES ASSUME ClientInit
             PROVE  ClientInv
  OBVIOUS
<1>1. \A r \in Requests : ~Accepted(r) /\ \A p \in {Hub(r), Main(r), Base(r)} : todo[p] = <<>>
  BY ProcessesDiffer DEF ClientInit, Accepted
<1>2. \A r \in Requests : task[Main(r)] = "none" /\ task[Base(r)] = "none" /\ r \notin died
  BY ProcessesDiffer DEF ClientInit
<1>3. ClientTypeOK
  BY DEF ClientInit, ClientTypeOK
<1>4. FilesInv
  BY DEF ClientInit, FilesInv
<1>5. \A r \in Requests : MainInv(r)
  <2>1. \A S : <<>> \in Seq(S)
    OBVIOUS
  <2> QED BY <1>1, <2>1 DEF MainInv
<1>6. \A r \in Requests : TaskInv(r) /\ HubInv(r) /\ BaseInv(r)
  BY <1>1, <1>2 DEF TaskInv, HubInv, BaseInv, Started
<1> QED BY <1>3, <1>4, <1>5, <1>6 DEF ClientInv, RequestInv, ClientInit

LEMMA AheadProperties ==
  ASSUME ClientTypeOK, NEW p \in Processes, todo[p] # <<>>
  PROVE  /\ todo[p] \in Seq(Steps)
         /\ Head(todo[p]) \in Steps /\ Tail(todo[p]) \in Seq(Steps)
         /\ File(p) \in Uploads
<1>1. todo[p] \in Seq(Steps)
  BY DEF ClientTypeOK
<1>2. Head(todo[p]) \in Steps /\ Tail(todo[p]) \in Seq(Steps)
  BY <1>1
<1> QED BY <1>1, <1>2 DEF Steps, File, Uploads

LEMMA GoOnType ==
  ASSUME ClientTypeOK, NEW p \in Processes, todo[p] # <<>>, GoOn(p)
  PROVE  todo' \in [Processes -> Seq(Steps)]
  BY AheadProperties DEF ClientTypeOK, GoOn

LEMMA JobsAre ==
  ASSUME NEW p \in Processes
  PROVE  JobOf(p) \in Jobs
  BY DEF Processes, Jobs, JobOf, Hub, Main

TaskStates == {"none", "created", "free", "open", "closed", "failed"}

LEMMA MovesType ==
  ASSUME ClientTypeOK, NEW p \in Processes, NEW s \in TaskStates, Moves(p, s)
  PROVE  task' \in [Jobs -> TaskStates]
  BY JobsAre DEF ClientTypeOK, Moves, TaskStates

LEMMA RaisesType ==
  ASSUME ClientTypeOK, NEW p \in Processes, Raises(p)
  PROVE  /\ todo' \in [Processes -> Seq(Steps)]
         /\ task' \in [Jobs -> TaskStates]
<1>1. <<>> \in Seq(Steps)
  OBVIOUS
<1>2. task' \in [Jobs -> TaskStates]
  <2>1. CASE p \in Jobs
    BY <2>1, MovesType DEF Raises, TaskStates
  <2>2. CASE p \notin Jobs
    BY <2>2 DEF Raises, ClientTypeOK, TaskStates
  <2> QED BY <2>1, <2>2
<1> QED BY <1>1, <1>2 DEF Raises, ClientTypeOK

LEMMA LoseType ==
  ASSUME ClientTypeOK, NEW p \in Processes, Lose(p)
  PROVE  /\ todo' \in [Processes -> Seq(Steps)]
         /\ task' \in [Jobs -> TaskStates]
         /\ lost' \subseteq Jobs
  BY RaisesType, JobsAre DEF Lose, ClientTypeOK

LEMMA GoesType ==
  ASSUME ClientTypeOK, NEW p \in Processes, Goes(p)
  PROVE  ClientTypeOK'
<1>1. todo[p] # <<>> /\ File(p) \in Uploads
  BY AheadProperties DEF Goes, AtStep, Create, Move, Find, Delete, PutConfigs, Free, Fetch,
                         FetchConfig
<1>2. todo' \in [Processes -> Seq(Steps)]
  BY <1>1, GoOnType, LoseType
     DEF Goes, Create, Move, Find, Delete, PutConfigs, Free, Fetch, FetchConfig
<1>3. task' \in [Jobs -> TaskStates]
  <2>1. UNCHANGED task => task' \in [Jobs -> TaskStates]
    BY DEF ClientTypeOK, TaskStates
  <2>2. Create(p) \/ Free(p) => task' \in [Jobs -> TaskStates]
    BY MovesType DEF Create, Free, TaskStates
  <2>3. Lose(p) => task' \in [Jobs -> TaskStates]
    BY LoseType
  <2> QED BY <2>1, <2>2, <2>3 DEF Goes, Move, Find, Delete, PutConfigs, Fetch, FetchConfig
<1>4. lost' \subseteq Jobs
  <2>1. UNCHANGED lost => lost' \subseteq Jobs
    BY DEF ClientTypeOK
  <2>2. Lose(p) => lost' \subseteq Jobs
    BY LoseType
  <2> QED BY <2>1, <2>2
       DEF Goes, Create, Move, Find, Delete, PutConfigs, Free, Fetch, FetchConfig
<1>5. place' \in [Files -> Jobs \cup {UploadDir}]
  <2>1. CASE UNCHANGED place
    BY <2>1 DEF ClientTypeOK
  <2>2. CASE place' = [place EXCEPT ![File(p)] = JobOf(p)]
    BY <2>2, JobsAre DEF ClientTypeOK
  <2> QED BY <2>1, <2>2
       DEF Goes, Create, Move, Find, Delete, PutConfigs, Free, Fetch, FetchConfig
<1>6. record' \subseteq Files /\ configs' \subseteq Jobs /\ asked' = asked /\ died' = died
  BY JobsAre DEF ClientTypeOK, Goes, Create, Move, Find, Delete, PutConfigs, Free, Fetch,
                 FetchConfig
<1> QED BY <1>2, <1>3, <1>4, <1>5, <1>6 DEF ClientTypeOK, TaskStates

LEMMA FreeHas ==
  ASSUME ClientInv, NEW j \in Jobs, task[j] \notin {"none", "created"}
  PROVE  /\ Accepted(j[1]) /\ asked[j[1]] \in Choices
         /\ j[2] = "main" => HasPath(j[1])
         /\ j[2] = "base" => asked[j[1]].version_diff
<1>1. PICK r \in Requests : j = Main(r) \/ j = Base(r)
  BY JobIs
<1>2. j[1] = r /\ TaskInv(r) /\ ClientTypeOK
  BY <1>1 DEF Main, Base, ClientInv, RequestInv
<1>3. task[Main(r)] \notin {"none", "created"}
  BY <1>1, <1>2 DEF TaskInv
<1> QED BY <1>1, <1>2, <1>3, AcceptedHas DEF TaskInv, Started, Main, Base

LEMMA WorksType ==
  ASSUME ClientInv, NEW j \in Jobs, Works(j)
  PROVE  ClientTypeOK'
<1>1. ClientTypeOK /\ j \in Processes
  BY DEF ClientInv, Processes
<1>2. CASE Take(j)
  <2>1. RunSteps(asked[j[1]], j[2]) \in Seq(Steps)
    <3>1. CASE j[2] = "main"
      BY <1>2, <3>1, FreeHas, MainRunIs DEF Take, HasPath
    <3>2. CASE j[2] = "base"
      BY <1>2, <3>2, FreeHas, BaseRunIs DEF Take
    <3> QED BY <3>1, <3>2 DEF Jobs
  <2>2. task' \in [Jobs -> TaskStates]
    BY <1>1, <1>2, MovesType DEF Take, TaskStates
  <2> QED BY <1>1, <1>2, <2>1, <2>2 DEF Take, ClientTypeOK, TaskStates
<1>3. CASE GenerateConfigs(j)
  <2>1. todo' \in [Processes -> Seq(Steps)]
    BY <1>1, <1>3, GoOnType, RaisesType DEF GenerateConfigs, AtStep
  <2>2. task' \in [Jobs -> TaskStates]
    <3>1. UNCHANGED task => task' \in [Jobs -> TaskStates]
      BY <1>1 DEF ClientTypeOK, TaskStates
    <3> QED BY <1>1, <1>3, <3>1, RaisesType DEF GenerateConfigs
  <2> QED BY <1>1, <1>3, <2>1, <2>2 DEF GenerateConfigs, ClientTypeOK, TaskStates
<1>4. CASE Analyze(j)
  <2>1. todo' \in [Processes -> Seq(Steps)]
    BY <1>1, <1>4, GoOnType DEF Analyze, AtStep
  <2>2. task' \in [Jobs -> TaskStates]
    BY <1>1, <1>4, MovesType DEF Analyze, TaskStates
  <2> QED BY <1>1, <1>4, <2>1, <2>2 DEF Analyze, ClientTypeOK, TaskStates
<1> QED BY <1>2, <1>3, <1>4 DEF Works

LEMMA RequestType ==
  ASSUME ClientInv, NEW r \in Requests, Accept(r) \/ Refuse(r) \/ Die(r) \/ Spawns(r)
  PROVE  ClientTypeOK'
<1>1. ClientTypeOK /\ Main(r) \in Processes /\ Base(r) \in Processes /\ Hub(r) \in Processes
  BY ProcessesDiffer DEF ClientInv
<1>2. CASE Accept(r)
  <2>1. PICK o \in Options : /\ asked' = [asked EXCEPT ![r] = o]
                             /\ todo' = [todo EXCEPT ![Hub(r)] = SpawnSteps(o)]
    BY <1>2 DEF Accept
  <2>2. o \in Choices /\ SpawnSteps(o) \in Seq(Steps)
    <3>1. o \in Choices
      BY OptionsAssumption
    <3>2. "create" \in OpNames /\ AfterCreate(o) \in Seq(Steps) /\ NoFile \in Uploads
      BY <3>1, AfterAreSeqs, DoIsThen DEF OpNames
    <3> QED BY <3>1, <3>2, SpawnStepsAre, ThenProperties
  <2> QED BY <1>1, <1>2, <2>1, <2>2 DEF Accept, ClientTypeOK
<1>3. CASE Refuse(r)
  BY <1>1, <1>3 DEF Refuse, ClientTypeOK
<1>4. CASE Die(r)
  BY <1>1, <1>4, RaisesType DEF Die, ClientTypeOK, TaskStates
<1>5. CASE SpawnBase(r)
  <2>1. todo' \in [Processes -> Seq(Steps)]
    BY <1>1, <1>5, GoOnType DEF SpawnBase, AtStep
  <2>2. task' \in [Jobs -> TaskStates]
    BY <1>1, <1>5, MovesType DEF SpawnBase, TaskStates
  <2> QED BY <1>1, <1>5, <2>1, <2>2 DEF SpawnBase, ClientTypeOK, TaskStates
<1>6. CASE Wait(r)
  <2>1. todo' \in [Processes -> Seq(Steps)]
    BY <1>1, <1>6, GoOnType, RaisesType DEF Wait, AtStep
  <2>2. task' \in [Jobs -> TaskStates]
    <3>1. UNCHANGED task => task' \in [Jobs -> TaskStates]
      BY <1>1 DEF ClientTypeOK, TaskStates
    <3> QED BY <1>1, <1>6, <3>1, RaisesType DEF Wait
  <2> QED BY <1>1, <1>6, <2>1, <2>2 DEF Wait, ClientTypeOK, TaskStates
<1> QED BY <1>2, <1>3, <1>4, <1>5, <1>6 DEF Spawns

-----------------------------------------------------------------------------
(* The hub.                                                                *)

LEMMA EmptyIsSeq ==
  ASSUME NEW S
  PROVE  <<>> \in Seq(S)
  OBVIOUS

(* A request that shares nothing names different files.                    *)
LEMMA NamesDiffer ==
  ASSUME NEW r \in Requests, Accepted(r), ~Shares(r)
  PROVE  /\ Given(asked[r].upload_id) => asked[r].upload_id # asked[r].upload_model_id
         /\ asked[r].version_diff /\ Named(asked[r]) =>
              /\ asked[r].base_upload_id # asked[r].upload_id
              /\ asked[r].base_upload_id # asked[r].upload_model_id
<1>1. ASSUME NEW n \in Uses(r), NEW m \in Uses(r), n # m, Given(asked[r][n])
      PROVE  asked[r][n] # asked[r][m]
  BY <1>1 DEF Shares
<1>2. Given(asked[r]["upload_id"]) => asked[r]["upload_id"] # asked[r]["upload_model_id"]
  BY <1>1, NamesAre
<1>3. asked[r].version_diff /\ Named(asked[r]) =>
        /\ asked[r]["base_upload_id"] # asked[r]["upload_id"]
        /\ asked[r]["base_upload_id"] # asked[r]["upload_model_id"]
  BY <1>1, NamesAre DEF Named
<1> QED BY <1>2, <1>3

LEMMA OnlyOne ==
  ASSUME ClientTypeOK, NEW r \in Requests, NEW N, TouchesOnly(r, N),
         NEW p \in {Hub(r), Main(r), Base(r)}, NEW x, todo' = [todo EXCEPT ![p] = x],
         NEW j \in {Main(r), Base(r)}, NEW y, task' = task \/ task' = [task EXCEPT ![j] = y],
         asked' = asked, configs \subseteq configs', died' = died \/ died' = died \cup {r}
  PROVE  OnlyActs(r, N)
<1> SUFFICES ASSUME NEW s \in Requests, s # r
             PROVE  /\ todo'[Hub(s)] = todo[Hub(s)] /\ todo'[Main(s)] = todo[Main(s)]
                    /\ todo'[Base(s)] = todo[Base(s)]
                    /\ task'[Main(s)] = task[Main(s)] /\ task'[Base(s)] = task[Base(s)]
                    /\ s \in died' <=> s \in died
  BY DEF OnlyActs
<1>1. /\ Hub(s) \in Processes /\ Main(s) \in Processes /\ Base(s) \in Processes
      /\ Main(s) \in Jobs /\ Base(s) \in Jobs
      /\ p \notin {Hub(s), Main(s), Base(s)} /\ j \notin {Main(s), Base(s)}
  BY ProcessesDiffer
<1> QED BY <1>1 DEF ClientTypeOK

LEMMA UntouchedTouches ==
  ASSUME NEW r, place' = place, record' = record
  PROVE  TouchesOnly(r, {})
  BY DEF TouchesOnly

LEMMA HubReady ==
  ASSUME ClientInv, NEW r \in Requests, todo[Hub(r)] # <<>>
  PROVE  /\ Accepted(r) /\ asked[r] \in Choices /\ r \notin died /\ ~Started(r)
         /\ todo[Main(r)] = <<>> /\ todo[Base(r)] = <<>> /\ task[Base(r)] = "none"
         /\ task[Main(r)] \in {"none", "created"}
         /\ \E q \in HubPoints \ {"done"} :
              /\ HubIs(r, q)
              /\ Head(todo[Hub(r)]).op = HubOp(q)
              /\ File(Hub(r)) = HubFile(asked[r], q)
              /\ HubAt(asked[r], HubNext(asked[r], q), Tail(todo[Hub(r)]))
<1>1. TaskInv(r) /\ HubInv(r) /\ ClientTypeOK
  BY DEF ClientInv, RequestInv
<1>2. Accepted(r) /\ r \notin died /\ ~Started(r)
  BY <1>1 DEF TaskInv
<1>3. asked[r] \in Choices /\ task[Main(r)] \in {"none", "created"}
  BY <1>1, <1>2, AcceptedHas DEF Started
<1>4. PICK q \in HubPoints : HubIs(r, q)
  BY <1>1, <1>2, Zenon DEF HubInv
<1>5. q # "done"
  BY <1>4 DEF HubIs, HubAt
<1>6. HubAt(asked[r], q, todo[Hub(r)])
  BY <1>4 DEF HubIs
<1>7. /\ Head(todo[Hub(r)]).op = HubOp(q)
      /\ Head(todo[Hub(r)]).file = HubFile(asked[r], q)
      /\ HubAt(asked[r], HubNext(asked[r], q), Tail(todo[Hub(r)]))
  BY <1>3, <1>5, <1>6, HubGoesOn
<1>8. File(Hub(r)) = HubFile(asked[r], q)
  BY <1>7 DEF File
<1>9. todo[Main(r)] = <<>> /\ todo[Base(r)] = <<>> /\ task[Base(r)] = "none"
  BY <1>1, <1>3 DEF TaskInv
<1> QED BY <1>2, <1>3, <1>4, <1>5, <1>7, <1>8, <1>9

(* The handler of the hub ends where it is.                                *)
LEMMA HubEnds ==
  ASSUME ClientInv, ClientTypeOK', NEW r \in Requests, todo[Hub(r)] # <<>>, Raises(Hub(r)),
         asked' = asked, place' = place, record' = record, configs' = configs,
         died' = died \/ died' = died \cup {r},
         lost' \subseteq lost \cup {Main(r)},
         Shares(r) \/ ~HasPath(r) \/ r \in died'
  PROVE  ClientInv'
<1>1. /\ Hub(r) \in Processes /\ Main(r) \in Jobs /\ Hub(r) \notin Jobs
      /\ Main(r) # Hub(r) /\ Base(r) # Hub(r)
  BY ProcessesDiffer
<1>2. ClientTypeOK /\ TaskInv(r) /\ BaseInv(r)
  BY DEF ClientInv, RequestInv
<1>3. todo' = [todo EXCEPT ![Hub(r)] = <<>>] /\ task' = task
  BY <1>1 DEF Raises
<1>4. /\ todo'[Hub(r)] = <<>> /\ todo'[Main(r)] = todo[Main(r)]
      /\ todo'[Base(r)] = todo[Base(r)]
  BY <1>1, <1>2, <1>3, ProcessesDiffer DEF ClientTypeOK
<1>5. OnlyActs(r, {})
  BY <1>2, <1>3, OnlyOne, UntouchedTouches
<1>6. AskedGrows /\ Accepted(r)' /\ (Shares(r) => Shares(r)') /\ HasPath(r)' = HasPath(r)
  <2>1. AskedGrows
    BY DEF AskedGrows, Accepted
  <2>2. Accepted(r)'
    BY HubReady DEF Accepted
  <2> QED BY <2>1, <2>2, SharesStays DEF HasPath, Given
<1>7. TaskInv(r)'
  BY <1>3, <1>4, <1>6, HubReady DEF TaskInv, Started
<1>8. HubInv(r)'
  <2>1. HubIs(r, "done")'
    BY <1>4, <1>6 DEF HubIs, HubAt
  <2> QED BY <2>1, Zenon DEF HubInv, HubPoints
<1>9. MainInv(r)'
  <2>1. <<>> \in Seq(MainSteps(asked'[r]))
    BY EmptyIsSeq
  <2> QED BY <1>4, <2>1, HubReady DEF MainInv
<1>10. BaseInv(r)'
  <2>1. BaseSourceStays(r)
    BY DEF BaseSourceStays
  <2> QED BY <1>2, <1>3, <1>4, <1>6, <2>1, HubReady, BaseStays
<1>11. Explained(Main(r))'
  BY <1>6, HubReady DEF Explained, HasPath, Main, Given
<1>12. RequestInv(r)' /\ died \subseteq died'
  BY <1>7, <1>8, <1>9, <1>10 DEF RequestInv
<1> QED BY <1>5, <1>11, <1>12, Enough

(* The handler of the hub takes a step.                                    *)
LEMMA HubSteps ==
  ASSUME ClientInv, ClientTypeOK', NEW r \in Requests, todo[Hub(r)] # <<>>, GoOn(Hub(r)),
         NEW N, OnlyActs(r, N), "base_upload_id" \notin N,
         NEW q \in HubPoints \ {"done"}, HubIs(r, q),
         HubAt(asked[r], HubNext(asked[r], q), Tail(todo[Hub(r)])),
         UNCHANGED <<died, lost>>, task'[Base(r)] = task[Base(r)],
         task'[Main(r)] = IF q = "free" THEN "free" ELSE "created",
         ~Shares(r) /\ HasPath(r) => HubFacts(r, HubNext(asked[r], q))',
         q = "move source" => HasPath(r)
  PROVE  ClientInv'
<1> PICK n : n = HubNext(asked[r], q)
  OBVIOUS
<1>1. /\ Hub(r) \in Processes /\ Main(r) \in Processes /\ Base(r) \in Processes
      /\ Main(r) # Hub(r) /\ Base(r) # Hub(r)
  BY ProcessesDiffer
<1>2. ClientTypeOK /\ TaskInv(r) /\ BaseInv(r)
  BY DEF ClientInv, RequestInv
<1>3. /\ todo'[Hub(r)] = Tail(todo[Hub(r)])
      /\ todo'[Main(r)] = <<>> /\ todo'[Base(r)] = <<>>
  BY <1>1, <1>2, HubReady DEF GoOn, ClientTypeOK
<1>4. asked' = asked /\ AskedGrows /\ Accepted(r)' /\ HasPath(r)' = HasPath(r) /\ died' = died
  BY HubReady DEF OnlyActs, AskedGrows, Accepted, HasPath, Given
<1>5. n \in HubPoints \ {"create"} /\ (n = "done" <=> q = "free")
      /\ (n = "move source" => q = "create")
  BY DEF HubPoints, HubNext, PointAfterCreate, PointAfterSource, PointAfterModel
<1>6. n # "move source" /\ q = "create" => HasPath(r)
  BY DEF HubNext, PointAfterCreate, HasPath
<1>7. n \notin {"create", "move source"} => HasPath(r)
  BY <1>6 DEF HubIs, HubPoints
<1>8. (Shares(r) => Shares(r)') /\ r \notin died'
  BY <1>4, SharesStays, HubReady
<1>9. HubIs(r, n)'
  <2>1. HubAt(asked'[r], n, todo'[Hub(r)])
    BY <1>3, <1>4
  <2>2. ~Shares(r)' /\ HasPath(r)' => HubFacts(r, n)'
    BY <1>4, <1>8
  <2>3. n = "done" => Started(r)'
    BY <1>5 DEF Started
  <2>4. n # "done" => task'[Main(r)] = "created"
    BY <1>5
  <2> QED BY <1>4, <1>5, <1>7, <2>1, <2>2, <2>3, <2>4 DEF HubIs
<1>10. HubInv(r)'
  BY <1>5, <1>9, Zenon DEF HubInv
<1>11. TaskInv(r)'
  <2>1. Started(r)' => todo'[Hub(r)] = <<>> /\ HasPath(r)'
    <3>1. Started(r)' => q = "free"
      BY DEF Started
    <3>2. q = "free" => n = "done"
      BY <1>5
    <3>3. n = "done" => todo'[Hub(r)] = <<>> /\ HasPath(r)'
      BY <1>4, <1>5, <1>7, <1>9 DEF HubIs, HubAt
    <3> QED BY <3>1, <3>2, <3>3
  <2> QED BY <1>3, <1>4, <1>8, <2>1, HubReady DEF TaskInv
<1>12. MainInv(r)'
  <2>1. <<>> \in Seq(MainSteps(asked'[r]))
    BY EmptyIsSeq
  <2> QED BY <1>3, <2>1 DEF MainInv
<1>13. BaseInv(r)'
  <2>1. asked[r].version_diff => BaseSourceStays(r)
    BY <1>2, SourcesStayUntouched, HubReady DEF OnlyActs
  <2> QED BY <1>2, <1>3, <1>4, <2>1, HubReady, BaseStays DEF OnlyActs
<1>14. RequestInv(r)'
  BY <1>10, <1>11, <1>12, <1>13 DEF RequestInv
<1> QED BY <1>14, Enough

LEMMA HubCreates ==
  ASSUME ClientInv, ClientTypeOK', NEW r \in Requests, Create(Hub(r))
  PROVE  ClientInv'
<1>1. ClientTypeOK /\ todo[Hub(r)] # <<>> /\ Head(todo[Hub(r)]).op = "create"
  BY DEF ClientInv, Create, AtStep
<1>2. PICK q \in HubPoints \ {"done"} :
        /\ HubIs(r, q) /\ Head(todo[Hub(r)]).op = HubOp(q)
        /\ HubAt(asked[r], HubNext(asked[r], q), Tail(todo[Hub(r)]))
  BY <1>1, HubReady
<1>3. q = "create"
  BY <1>1, <1>2 DEF HubOp, HubPoints
<1>4. /\ JobOf(Hub(r)) = Main(r) /\ Main(r) \in Jobs /\ Base(r) \in Jobs
      /\ Main(r) # Base(r)
  BY ProcessesDiffer
<1>5. task'[Main(r)] = "created" /\ task'[Base(r)] = task[Base(r)]
  BY <1>1, <1>4 DEF Create, Moves, ClientTypeOK
<1>6. OnlyActs(r, {})
  BY <1>1, <1>4, OnlyOne, UntouchedTouches DEF Create, GoOn, Moves
<1>7. ~Shares(r) /\ HasPath(r) => HubFacts(r, HubNext(asked[r], q))'
  <2> PICK n : n = HubNext(asked[r], q)
    OBVIOUS
  <2>1. /\ n \in {"move source", "move model", "put configs", "free"}
        /\ n # "move source" => ~Given(asked[r].upload_id)
        /\ n \notin {"move source", "move model"} => ~Given(asked[r].upload_model_id)
        /\ n = "free" => ~MockAuto(asked[r])
    BY <1>3 DEF HubNext, PointAfterCreate, PointAfterSource, PointAfterModel
  <2>2. ~Shares(r) /\ HasPath(r) => HubFacts(r, "create")
    BY <1>1, <1>2, <1>3, HubReady DEF HubIs
  <2>3. HubFacts(r, "create") => HubFacts(r, n)'
    BY <2>1 DEF HubFacts, Create, Given, MockAuto
  <2>4. n' = HubNext(asked[r], q)'
    BY DEF Create
  <2> QED BY <2>2, <2>3, <2>4
<1> QED BY <1>1, <1>2, <1>3, <1>5, <1>6, <1>7, HubSteps DEF Create

(* A move takes the file to the directory of the task.                     *)
LEMMA HubMoves ==
  ASSUME ClientInv, ClientTypeOK', NEW r \in Requests, Move(Hub(r))
  PROVE  ClientInv'
<1> DEFINE o == asked[r]
           f == File(Hub(r))
<1>1. ClientTypeOK /\ todo[Hub(r)] # <<>> /\ Head(todo[Hub(r)]).op = "move"
  BY DEF ClientInv, Move, AtStep
<1>2. PICK q \in HubPoints \ {"done"} :
        /\ HubIs(r, q) /\ Head(todo[Hub(r)]).op = HubOp(q)
        /\ f = HubFile(o, q)
        /\ HubAt(o, HubNext(o, q), Tail(todo[Hub(r)]))
  BY <1>1, HubReady
<1>3. q \in {"move source", "move model"}
  BY <1>1, <1>2 DEF HubOp, HubPoints
<1>4. /\ JobOf(Hub(r)) = Main(r) /\ Main(r) \in Jobs /\ Base(r) \in Jobs
      /\ Main(r) # Base(r) /\ Main(r) # UploadDir /\ Hub(r) \notin Jobs
  BY ProcessesDiffer
<1>5. Accepted(r) /\ o \in Choices /\ r \notin died
  BY <1>1, HubReady
<1>6. /\ q = "move source" =>
           Given(o.upload_id) /\ f = IF HasPath(r) THEN o.upload_id ELSE NoFile
      /\ q = "move model" => Given(o.upload_model_id) /\ f = o.upload_model_id
  BY <1>2, <1>3 DEF HubIs, HubAt, HubFile, HasPath
<1>7. CASE Given(f) /\ place[f] = UploadDir
  <2>1. /\ place' = [place EXCEPT ![f] = Main(r)] /\ record' = record /\ GoOn(Hub(r))
        /\ UNCHANGED <<task, lost, asked, configs, died>>
    BY <1>4, <1>7 DEF Move
  <2>2. f \in Files
    BY <1>1, <1>7, AheadProperties, ProcessesDiffer DEF Given, Uploads
  <2>3. /\ q = "move source" => HasPath(r) /\ f = o.upload_id /\ HubNext(o, q) = "delete source"
        /\ q = "move model" => f = o.upload_model_id /\ HubNext(o, q) = "delete model"
    BY <1>6, <1>7 DEF Given, HubNext
  <2> DEFINE N == {IF q = "move source" THEN "upload_id" ELSE "upload_model_id"}
  <2>4. TouchesOnly(r, N)
    <3> SUFFICES ASSUME NEW g \in Files, place'[g] # place[g]
                 PROVE  \E n \in N : n \in Uses(r) /\ asked[r][n] = g
      BY <2>1 DEF TouchesOnly
    <3>1. g = f
      BY <1>1, <2>1 DEF ClientTypeOK
    <3>2. "upload_id" \in Uses(r) /\ "upload_model_id" \in Uses(r)
      BY <1>5, NamesAre
    <3>3. CASE q = "move source"
      BY <2>3, <3>1, <3>2, <3>3
    <3>4. CASE q = "move model"
      BY <2>3, <3>1, <3>2, <3>4
    <3> QED BY <1>3, <3>3, <3>4
  <2>5. OnlyActs(r, N) /\ "base_upload_id" \notin N
    <3> HIDE DEF N
    <3>1. OnlyActs(r, N)
      BY <1>1, <2>1, <2>4, OnlyOne DEF GoOn
    <3> QED BY <3>1 DEF N
  <2>6. ~Shares(r) /\ HasPath(r) => HubFacts(r, HubNext(o, q))'
    <3> SUFFICES ASSUME ~Shares(r), HasPath(r)
                 PROVE  HubFacts(r, HubNext(o, q))'
      OBVIOUS
    <3>1. HubFacts(r, q)
      BY <1>2, <1>5 DEF HubIs
    <3>2. Given(o.upload_id) => o.upload_id # o.upload_model_id
      BY <1>5, NamesDiffer
    <3>3. o.upload_id \in Uploads /\ o.upload_model_id \in Uploads
      BY <1>5, ChoicesAre
    <3>4. CASE q = "move source"
      <4>1. HubFacts(r, "delete source")'
        BY <1>1, <2>1, <2>2, <2>3, <3>1, <3>2, <3>3, <3>4
           DEF HubFacts, Given, Uploads, ClientTypeOK, MockAuto
      <4> QED BY <2>1, <2>3, <3>4, <4>1
    <3>5. CASE q = "move model"
      <4>1. HubFacts(r, "delete model")'
        BY <1>1, <2>1, <2>2, <2>3, <3>1, <3>2, <3>3, <3>5
           DEF HubFacts, Given, Uploads, ClientTypeOK, MockAuto
      <4> QED BY <2>1, <2>3, <3>5, <4>1
    <3> QED BY <1>3, <3>4, <3>5
  <2>7. /\ task'[Main(r)] = IF q = "free" THEN "free" ELSE "created"
        /\ task'[Base(r)] = task[Base(r)]
    BY <1>2, <1>3, <2>1 DEF HubIs
  <2> HIDE DEF N
  <2> QED BY <1>1, <1>2, <2>1, <2>3, <2>5, <2>6, <2>7, HubSteps
<1>8. CASE ~(Given(f) /\ place[f] = UploadDir)
  <2>1. Shares(r) \/ ~HasPath(r)
    <3> SUFFICES ASSUME ~Shares(r), HasPath(r)
                 PROVE  FALSE
      OBVIOUS
    <3>1. HubFacts(r, q)
      BY <1>2, <1>5 DEF HubIs
    <3> QED BY <1>3, <1>6, <1>8, <3>1 DEF HubFacts
  <2>2. /\ Raises(Hub(r)) /\ lost' = lost \cup {Main(r)} /\ place' = place
        /\ UNCHANGED <<record, asked, configs, died>>
    BY <1>4, <1>8 DEF Move, Lose
  <2> QED BY <1>1, <2>1, <2>2, HubEnds
<1> QED BY <1>7, <1>8

(* The row of the upload is deleted after its file moved.                  *)
LEMMA HubDeletes ==
  ASSUME ClientInv, ClientTypeOK', NEW r \in Requests, Delete(Hub(r))
  PROVE  ClientInv'
<1> DEFINE o == asked[r]
           f == File(Hub(r))
<1>1. ClientTypeOK /\ todo[Hub(r)] # <<>> /\ Head(todo[Hub(r)]).op = "delete"
  BY DEF ClientInv, Delete, AtStep
<1>2. PICK q \in HubPoints \ {"done"} :
        /\ HubIs(r, q) /\ Head(todo[Hub(r)]).op = HubOp(q)
        /\ f = HubFile(o, q)
        /\ HubAt(o, HubNext(o, q), Tail(todo[Hub(r)]))
  BY <1>1, HubReady
<1>3. q \in {"delete source", "delete model"} /\ HasPath(r)
  BY <1>1, <1>2 DEF HubOp, HubPoints, HubIs
<1>4. /\ JobOf(Hub(r)) = Main(r) /\ Main(r) \in Jobs /\ Base(r) \in Jobs
      /\ Main(r) # Base(r) /\ Hub(r) \notin Jobs
  BY ProcessesDiffer
<1>5. Accepted(r) /\ o \in Choices /\ r \notin died
  BY <1>1, HubReady
<1>6. /\ q = "delete source" => Given(o.upload_id) /\ f = o.upload_id
      /\ q = "delete model" => Given(o.upload_model_id) /\ f = o.upload_model_id
  BY <1>2, <1>3 DEF HubIs, HubAt, HubFile
<1>7. CASE f \in record
  <2>1. /\ place' = place /\ record' = record \ {f} /\ GoOn(Hub(r))
        /\ UNCHANGED <<task, lost, asked, configs, died>>
    BY <1>7 DEF Delete
  <2> DEFINE N == {IF q = "delete source" THEN "upload_id" ELSE "upload_model_id"}
  <2>2. TouchesOnly(r, N)
    <3> SUFFICES ASSUME NEW g \in Files, g \in record, g \notin record'
                 PROVE  \E n \in N : n \in Uses(r) /\ asked[r][n] = g
      BY <2>1 DEF TouchesOnly
    <3>1. g = f
      BY <2>1
    <3>2. "upload_id" \in Uses(r) /\ "upload_model_id" \in Uses(r)
      BY <1>5, NamesAre
    <3>3. CASE q = "delete source"
      BY <1>6, <3>1, <3>2, <3>3
    <3>4. CASE q = "delete model"
      BY <1>6, <3>1, <3>2, <3>4
    <3> QED BY <1>3, <3>3, <3>4
  <2>3. OnlyActs(r, N) /\ "base_upload_id" \notin N
    <3> HIDE DEF N
    <3>1. OnlyActs(r, N)
      BY <1>1, <2>1, <2>2, OnlyOne DEF GoOn
    <3> QED BY <3>1 DEF N
  <2>4. ~Shares(r) /\ HasPath(r) => HubFacts(r, HubNext(o, q))'
    <3> SUFFICES ASSUME ~Shares(r)
                 PROVE  HubFacts(r, HubNext(o, q))'
      OBVIOUS
    <3> PICK n : n = HubNext(o, q)
      OBVIOUS
    <3>1. HubFacts(r, q)
      BY <1>2, <1>3, <1>5 DEF HubIs
    <3>2. Given(o.upload_id) => o.upload_id # o.upload_model_id
      BY <1>5, NamesDiffer
    <3>3. /\ n \in {"move model", "put configs", "free"}
          /\ n = "move model" => q = "delete source"
          /\ q = "delete source" /\ n # "move model" => ~Given(o.upload_model_id)
          /\ n = "free" => ~MockAuto(o)
      BY <1>3 DEF HubNext, PointAfterSource, PointAfterModel
    <3>4. HubFacts(r, n)'
      BY <1>3, <1>6, <2>1, <3>1, <3>2, <3>3 DEF HubFacts, Given, MockAuto
    <3> QED BY <2>1, <3>4
  <2>5. /\ task'[Main(r)] = IF q = "free" THEN "free" ELSE "created"
        /\ task'[Base(r)] = task[Base(r)]
    BY <1>2, <1>3, <2>1 DEF HubIs
  <2> HIDE DEF N
  <2> QED BY <1>1, <1>2, <1>3, <2>1, <2>3, <2>4, <2>5, HubSteps
<1>8. CASE f \notin record
  <2>1. Shares(r) \/ ~HasPath(r)
    <3> SUFFICES ASSUME ~Shares(r)
                 PROVE  FALSE
      BY <1>3
    <3>1. HubFacts(r, q)
      BY <1>2, <1>3, <1>5 DEF HubIs
    <3> QED BY <1>3, <1>6, <1>8, <3>1 DEF HubFacts
  <2>2. /\ Raises(Hub(r)) /\ lost' = lost \cup {Main(r)} /\ place' = place /\ record' = record
        /\ UNCHANGED <<asked, configs, died>>
    BY <1>4, <1>8 DEF Delete, Lose
  <2> QED BY <1>1, <2>1, <2>2, HubEnds
<1> QED BY <1>7, <1>8

LEMMA HubPutsConfigs ==
  ASSUME ClientInv, ClientTypeOK', NEW r \in Requests, PutConfigs(Hub(r))
  PROVE  ClientInv'
<1>1. ClientTypeOK /\ todo[Hub(r)] # <<>> /\ Head(todo[Hub(r)]).op = "put configs"
  BY DEF ClientInv, PutConfigs, AtStep
<1>2. PICK q \in HubPoints \ {"done"} :
        /\ HubIs(r, q) /\ Head(todo[Hub(r)]).op = HubOp(q)
        /\ HubAt(asked[r], HubNext(asked[r], q), Tail(todo[Hub(r)]))
  BY <1>1, HubReady
<1>3. q = "put configs" /\ HubNext(asked[r], q) = "free"
  BY <1>1, <1>2 DEF HubOp, HubPoints, HubNext
<1>4. JobOf(Hub(r)) = Main(r)
  BY ProcessesDiffer
<1>5. task'[Main(r)] = "created" /\ task' = task
  BY <1>2, <1>3 DEF PutConfigs, HubIs
<1>6. OnlyActs(r, {})
  BY <1>1, OnlyOne, UntouchedTouches DEF PutConfigs, GoOn
<1>7. ~Shares(r) /\ HasPath(r) => HubFacts(r, "free")'
  <2>1. ~Shares(r) /\ HasPath(r) => HubFacts(r, "put configs")
    BY <1>1, <1>2, <1>3, HubReady DEF HubIs
  <2> QED BY <1>4, <2>1 DEF HubFacts, PutConfigs, Given, MockAuto
<1> QED BY <1>1, <1>2, <1>3, <1>5, <1>6, <1>7, HubSteps DEF PutConfigs

LEMMA HubFrees ==
  ASSUME ClientInv, ClientTypeOK', NEW r \in Requests, Free(Hub(r))
  PROVE  ClientInv'
<1>1. ClientTypeOK /\ todo[Hub(r)] # <<>> /\ Head(todo[Hub(r)]).op = "free"
  BY DEF ClientInv, Free, AtStep
<1>2. PICK q \in HubPoints \ {"done"} :
        /\ HubIs(r, q) /\ Head(todo[Hub(r)]).op = HubOp(q)
        /\ HubAt(asked[r], HubNext(asked[r], q), Tail(todo[Hub(r)]))
  BY <1>1, HubReady
<1>3. q = "free" /\ HubNext(asked[r], q) = "done"
  BY <1>1, <1>2 DEF HubOp, HubPoints, HubNext
<1>4. /\ JobOf(Hub(r)) = Main(r) /\ Main(r) \in Jobs /\ Base(r) \in Jobs
      /\ Main(r) # Base(r)
  BY ProcessesDiffer
<1>5. task'[Main(r)] = "free" /\ task'[Base(r)] = task[Base(r)]
  BY <1>1, <1>4 DEF Free, Moves, ClientTypeOK
<1>6. OnlyActs(r, {})
  BY <1>1, <1>4, OnlyOne, UntouchedTouches DEF Free, GoOn, Moves
<1>7. ~Shares(r) /\ HasPath(r) => HubFacts(r, "done")'
  <2>1. ~Shares(r) /\ HasPath(r) => HubFacts(r, "free")
    BY <1>1, <1>2, <1>3, HubReady DEF HubIs
  <2> QED BY <2>1 DEF HubFacts, Free, Given, MockAuto
<1> QED BY <1>1, <1>2, <1>3, <1>5, <1>6, <1>7, HubSteps DEF Free

LEMMA HubActs ==
  ASSUME ClientInv, ClientTypeOK', NEW r \in Requests, Goes(Hub(r))
  PROVE  ClientInv'
<1>1. ~Find(Hub(r)) /\ ~Fetch(Hub(r)) /\ ~FetchConfig(Hub(r))
  <2>1. todo[Hub(r)] # <<>> => Head(todo[Hub(r)]).op \notin {"find", "fetch", "fetch config"}
    BY HubReady DEF HubOp, HubPoints
  <2> QED BY <2>1 DEF Find, Fetch, FetchConfig, AtStep
<1> QED BY <1>1, HubCreates, HubMoves, HubDeletes, HubPutsConfigs, HubFrees DEF Goes

LEMMA HubDies ==
  ASSUME ClientInv, ClientTypeOK', NEW r \in Requests, Die(r)
  PROVE  ClientInv'
  BY HubEnds DEF Die

-----------------------------------------------------------------------------
(* A request comes.                                                        *)

LEMMA RequestComes ==
  ASSUME ClientInv, ClientTypeOK', NEW r \in Requests, ~Accepted(r),
         NEW o, asked' = [asked EXCEPT ![r] = o],
         NEW x, todo' = [todo EXCEPT ![Hub(r)] = x],
         UNCHANGED <<record, place, task, configs, died, lost>>, RequestInv(r)'
  PROVE  ClientInv'
<1>1. ClientTypeOK /\ AskedGrows
  BY DEF ClientInv, ClientTypeOK, AskedGrows, Accepted
<1>2. FilesInv'
  <2> SUFFICES ASSUME NEW f \in Files, f \notin record \/ place[f] # UploadDir
               PROVE  \E s \in Requests : \E n \in Uses(s)' : asked'[s][n] = f
    BY DEF FilesInv
  <2>1. PICK s \in Requests : \E n \in Uses(s) : asked[s][n] = f
    BY DEF ClientInv, FilesInv
  <2>2. Accepted(s) /\ Accepted(s)' /\ asked'[s] = asked[s]
    BY <1>1, <2>1 DEF Uses, AskedGrows
  <2>3. Uses(s)' = Uses(s)
    BY <2>2 DEF Uses
  <2> QED BY <2>1, <2>2, <2>3
<1>3. ASSUME NEW s \in Requests, s # r
      PROVE  RequestInv(s)'
  <2>1. /\ asked'[s] = asked[s] /\ Accepted(s)' = Accepted(s)
        /\ TaskInv(s) /\ HubInv(s) /\ MainInv(s) /\ BaseInv(s)
    BY <1>1, <1>3 DEF ClientInv, RequestInv, ClientTypeOK, Accepted
  <2>2. /\ todo'[Hub(s)] = todo[Hub(s)] /\ todo'[Main(s)] = todo[Main(s)]
        /\ todo'[Base(s)] = todo[Base(s)]
    BY <1>1, <1>3, ProcessesDiffer DEF ClientTypeOK
  <2>3. TaskInv(s)'
    BY <2>1, <2>2 DEF TaskInv, Started, HasPath, Given
  <2>4. HubInv(s)'
    <3>1. CASE Accepted(s)
      BY <1>1, <2>1, <2>2, <3>1, HubStays DEF SourcesStay
    <3> QED BY <2>1, <3>1 DEF HubInv
  <2>5. BaseInv(s)'
    <3>1. CASE Accepted(s)
      BY <1>1, <2>1, <2>2, <3>1, BaseStays DEF BaseSourceStays
    <3> QED BY <2>1, <3>1 DEF BaseInv
  <2>6. MainInv(s)'
    BY <2>1, <2>2, MainStays
  <2> QED BY <2>3, <2>4, <2>5, <2>6 DEF RequestInv
<1>4. \A j \in lost' : Explained(j)'
  <2>1. \A j \in lost : j \in Jobs /\ Explained(j)
    BY DEF ClientInv, ClientTypeOK
  <2> QED BY <1>1, <2>1, ExplainedStays
<1> QED BY <1>2, <1>3, <1>4 DEF ClientInv

LEMMA NotAccepted ==
  ASSUME ClientInv, NEW r \in Requests, ~Accepted(r)
  PROVE  /\ todo[Hub(r)] = <<>> /\ todo[Main(r)] = <<>> /\ todo[Base(r)] = <<>>
         /\ task[Main(r)] = "none" /\ task[Base(r)] = "none" /\ r \notin died
  BY DEF ClientInv, RequestInv, TaskInv

(* What a new request has for itself is where it was uploaded.             *)
LEMMA NewFiles ==
  ASSUME ClientInv, NEW r \in Requests, ~Accepted(r), AskedGrows,
         NEW n \in Uses(r)', ~Shares(r)', asked'[r][n] \in Uploads, Given(asked'[r][n])
  PROVE  asked'[r][n] \in record /\ place[asked'[r][n]] = UploadDir
<1>1. SUFFICES ASSUME asked'[r][n] \notin record \/ place[asked'[r][n]] # UploadDir
               PROVE  FALSE
  OBVIOUS
<1>2. asked'[r][n] \in Files
  BY DEF Uploads, Given
<1>3. PICK s \in Requests : \E m \in Uses(s) : asked[s][m] = asked'[r][n]
  BY <1>1, <1>2 DEF ClientInv, FilesInv
<1>4. PICK m \in Uses(s) : asked[s][m] = asked'[r][n]
  BY <1>3
<1>5. s # r /\ Accepted(s) /\ Accepted(s)' /\ asked'[s] = asked[s]
  BY <1>4 DEF Uses, AskedGrows
<1>6. m \in Uses(s)' /\ <<r, n>> # <<s, m>> /\ asked'[r][n] = asked'[s][m]
  BY <1>4, <1>5 DEF Uses
<1> QED BY <1>6 DEF Shares, Given

LEMMA RequestAccepted ==
  ASSUME ClientInv, ClientTypeOK', NEW r \in Requests, Accept(r)
  PROVE  ClientInv'
<1>1. PICK o \in Options : /\ asked' = [asked EXCEPT ![r] = o]
                           /\ todo' = [todo EXCEPT ![Hub(r)] = SpawnSteps(o)]
  BY DEF Accept
<1>2. ~Accepted(r) /\ o \in Choices /\ ClientTypeOK
  BY OptionsAssumption DEF Accept, Accepted, ClientInv
<1>3. asked'[r] = o /\ Accepted(r)' /\ AskedGrows
  BY <1>1, <1>2, OptionsAssumption DEF ClientTypeOK, Accepted, AskedGrows
<1>4. /\ todo'[Hub(r)] = SpawnSteps(o)
      /\ todo'[Main(r)] = <<>> /\ todo'[Base(r)] = <<>>
  BY <1>1, <1>2, ProcessesDiffer, NotAccepted DEF ClientTypeOK
<1>5. /\ o.upload_id \in Uploads /\ o.upload_model_id \in Uploads
      /\ o.base_upload_id \in Uploads
      /\ o.version_diff \in BOOLEAN
  BY <1>2, ChoicesAre
<1>6. ASSUME ~Shares(r)', NEW n \in Uses(r)', Given(o[n]),
             n \in {"upload_id", "upload_model_id", "base_upload_id"}
      PROVE  o[n] \in record /\ place[o[n]] = UploadDir
  <2>1. o[n] \in Uploads
    BY <1>5, <1>6
  <2> QED BY <1>2, <1>3, <1>6, <2>1, NewFiles
<1>7. HubInv(r)'
  <2>1. HubAt(asked'[r], "create", todo'[Hub(r)])
    BY <1>2, <1>3, <1>4, SpawnStepsAre DEF HubAt
  <2>2. ~Shares(r)' => HubFacts(r, "create")'
    <3> SUFFICES ASSUME ~Shares(r)'
                 PROVE  HubFacts(r, "create")'
      OBVIOUS
    <3>1. "upload_id" \in Uses(r)' /\ "upload_model_id" \in Uses(r)'
      BY <1>3 DEF Uses
    <3>2. Given(o["upload_id"]) =>
            o["upload_id"] \in record /\ place[o["upload_id"]] = UploadDir
      BY <1>6, <3>1
    <3>3. Given(o["upload_model_id"]) =>
            o["upload_model_id"] \in record /\ place[o["upload_model_id"]] = UploadDir
      BY <1>6, <3>1
    <3> QED BY <1>3, <3>2, <3>3 DEF HubFacts, Accept, Given
  <2>3. HubIs(r, "create")'
    BY <1>2, <2>1, <2>2, NotAccepted DEF HubIs, Accept
  <2> QED BY <2>3, Zenon DEF HubInv, HubPoints
<1>8. BaseInv(r)'
  <2> SUFFICES ASSUME o.version_diff
               PROVE  \E q \in BasePoints : BaseIs(r, q)'
    BY <1>3, Zenon DEF BaseInv
  <2>1. ~Shares(r)' => BaseFacts(r, "waiting")'
    <3> SUFFICES ASSUME ~Shares(r)', Named(o)
                 PROVE  o["base_upload_id"] \in record /\ place[o["base_upload_id"]] = UploadDir
      BY <1>3 DEF BaseFacts, Accept, Named, Given
    <3>1. "base_upload_id" \in Uses(r)' /\ Given(o["base_upload_id"])
      BY <1>3 DEF Uses, Named
    <3> QED BY <1>6, <3>1
  <2>2. BaseIs(r, "waiting")'
    BY <1>2, <1>4, <2>1, NotAccepted DEF BaseIs, BaseAt, Accept
  <2> QED BY <2>2, Zenon DEF BasePoints
<1>9. TaskInv(r)' /\ MainInv(r)'
  <2>1. <<>> \in Seq(MainSteps(asked'[r]))
    BY EmptyIsSeq
  <2>2. MainInv(r)'
    BY <1>4, <2>1 DEF MainInv
  <2> QED BY <1>2, <1>3, <1>4, <2>2, NotAccepted DEF TaskInv, Started, Accept
<1>10. RequestInv(r)'
  BY <1>7, <1>8, <1>9 DEF RequestInv
<1> QED BY <1>1, <1>2, <1>10, RequestComes DEF Accept

LEMMA RequestRefused ==
  ASSUME ClientInv, ClientTypeOK', NEW r \in Requests, Refuse(r)
  PROVE  ClientInv'
<1>1. ~Accepted(r) /\ ClientTypeOK /\ ~Accepted(r)'
  BY DEF Refuse, Accepted, ClientInv, ClientTypeOK
<1>2. todo' = [todo EXCEPT ![Hub(r)] = todo[Hub(r)]]
  BY <1>1, ProcessesDiffer DEF Refuse, ClientTypeOK
<1>3. MainInv(r)'
  <2>1. <<>> \in Seq(MainSteps(asked'[r]))
    BY EmptyIsSeq
  <2> QED BY <1>1, <2>1, NotAccepted DEF MainInv, Refuse
<1>4. RequestInv(r)'
  BY <1>1, <1>3, NotAccepted DEF RequestInv, TaskInv, HubInv, BaseInv, Started, Refuse
<1> QED BY <1>1, <1>2, <1>4, RequestComes DEF Refuse

-----------------------------------------------------------------------------
(* The worker of a target.                                                 *)

LEMMA MainReady ==
  ASSUME ClientInv, NEW r \in Requests, todo[Main(r)] # <<>> \/ task[Main(r)] = "free"
  PROVE  /\ Accepted(r) /\ asked[r] \in Choices /\ Started(r) /\ HasPath(r)
         /\ todo[Hub(r)] = <<>> /\ r \notin died
         /\ ~Shares(r) => HubFacts(r, "done")
<1>1. TaskInv(r) /\ HubInv(r) /\ ClientTypeOK
  BY DEF ClientInv, RequestInv
<1>2. Started(r)
  BY <1>1 DEF TaskInv, Started
<1>3. Accepted(r) /\ HasPath(r) /\ todo[Hub(r)] = <<>> /\ r \notin died
  BY <1>1, <1>2 DEF TaskInv, Started
<1>4. asked[r] \in Choices
  BY <1>1, <1>3, AcceptedHas
<1>5. PICK q \in HubPoints : HubIs(r, q)
  BY <1>1, <1>3, Zenon DEF HubInv
<1>6. HubAt(asked[r], q, todo[Hub(r)])
  BY <1>5 DEF HubIs
<1>7. q = "done"
  BY <1>3, <1>4, <1>6, HubGoesOn
<1> QED BY <1>2, <1>3, <1>4, <1>5, <1>7 DEF HubIs

LEMMA MainGoesOn ==
  ASSUME ClientInv, NEW r \in Requests, todo[Main(r)] # <<>>
  PROVE  /\ Head(todo[Main(r)]).op = "spawn base"
              \/ Head(todo[Main(r)]) \in MainSteps(asked[r])
         /\ Tail(todo[Main(r)]) \in Seq(MainSteps(asked[r]))
         /\ Head(todo[Main(r)]).op = "spawn base" =>
              task[Base(r)] = "none" /\ asked[r].version_diff
<1>1. MainInv(r)
  BY DEF ClientInv, RequestInv
<1>2. CASE todo[Main(r)] \in Seq(MainSteps(asked[r]))
  <2>1. Head(todo[Main(r)]) \in MainSteps(asked[r])
        /\ Tail(todo[Main(r)]) \in Seq(MainSteps(asked[r]))
    BY <1>2, HeadTailProperties
  <2>2. Head(todo[Main(r)]).op # "spawn base"
    BY <2>1 DEF MainSteps
  <2> QED BY <2>1, <2>2
<1> QED BY <1>1, <1>2 DEF MainInv, AtStep

(* A step of the worker, but not the one that spawns the base.             *)
LEMMA MainActs ==
  ASSUME ClientInv, ClientTypeOK', NEW r \in Requests, todo[Main(r)] # <<>>,
         NEW x \in Seq(MainSteps(asked[r])), todo' = [todo EXCEPT ![Main(r)] = x],
         NEW y \in {"closed", "failed"}, task' = task \/ task' = [task EXCEPT ![Main(r)] = y],
         UNCHANGED <<record, place, asked, configs, died>>,
         \A j \in lost' \ lost : Explained(j)
  PROVE  ClientInv'
<1>1. TaskInv(r) /\ HubInv(r) /\ BaseInv(r) /\ ClientTypeOK
  BY DEF ClientInv, RequestInv
<1>2. OnlyActs(r, {})
  BY <1>1, OnlyOne, UntouchedTouches
<1>3. /\ todo'[Main(r)] = x /\ todo'[Hub(r)] = todo[Hub(r)] /\ todo'[Base(r)] = todo[Base(r)]
      /\ task'[Base(r)] = task[Base(r)]
      /\ task'[Main(r)] = task[Main(r)] \/ task'[Main(r)] = y
  BY <1>1, ProcessesDiffer DEF ClientTypeOK
<1>4. AskedGrows /\ Accepted(r)' /\ HasPath(r)' /\ Started(r)'
  BY <1>3, MainReady DEF AskedGrows, Accepted, HasPath, Given, Started
<1>5. TaskInv(r)'
  BY <1>1, <1>3, <1>4, MainReady DEF TaskInv, Started
<1>6. HubInv(r)'
  BY <1>1, <1>3, <1>4, MainReady, HubStays DEF SourcesStay
<1>7. BaseInv(r)'
  BY <1>1, <1>3, <1>4, MainReady, BaseStays DEF BaseSourceStays
<1>8. MainInv(r)'
  BY <1>3 DEF MainInv
<1>9. RequestInv(r)'
  BY <1>5, <1>6, <1>7, <1>8 DEF RequestInv
<1>10. \A j \in lost' \ lost : Explained(j)'
  BY <1>1, <1>4, ExplainedStays DEF ClientTypeOK
<1> QED BY <1>2, <1>9, <1>10, Enough

LEMMA MainFetches ==
  ASSUME ClientInv, ClientTypeOK', NEW r \in Requests, Fetch(Main(r)) \/ FetchConfig(Main(r))
  PROVE  ClientInv'
<1>1. todo[Main(r)] # <<>> /\ Main(r) \in Jobs /\ JobOf(Main(r)) = Main(r)
  BY ProcessesDiffer DEF Fetch, FetchConfig, AtStep
<1>2. /\ Head(todo[Main(r)]) \in MainSteps(asked[r])
      /\ Tail(todo[Main(r)]) \in Seq(MainSteps(asked[r]))
  BY <1>1, MainGoesOn DEF Fetch, FetchConfig, AtStep
<1>3. UNCHANGED <<record, place, asked, configs, died>>
  BY DEF Fetch, FetchConfig
<1>4. CASE GoOn(Main(r)) /\ UNCHANGED <<task, lost>>
  BY <1>1, <1>2, <1>3, <1>4, MainActs DEF GoOn
<1>5. CASE Lose(Main(r))
  <2>1. ~Shares(r) => HubFacts(r, "done")
    BY <1>1, MainReady
  <2>2. Fetch(Main(r)) => Shares(r) \/ (GoOn(Main(r)) /\ UNCHANGED <<task, lost>>)
    <3>1. Fetch(Main(r)) => Given(File(Main(r)))
                            /\ File(Main(r)) \in {asked[r].upload_id, asked[r].upload_model_id}
      BY <1>2 DEF Fetch, AtStep, MainSteps, File
    <3>2. Fetch(Main(r)) /\ ~Shares(r) => place[File(Main(r))] = Main(r)
      BY <2>1, <3>1 DEF HubFacts
    <3> QED BY <3>2 DEF Fetch
  <2>3. FetchConfig(Main(r)) => Shares(r) \/ (GoOn(Main(r)) /\ UNCHANGED <<task, lost>>)
    <3>1. FetchConfig(Main(r)) => MockAuto(asked[r])
      BY <1>2 DEF FetchConfig, AtStep, MainSteps
    <3>2. FetchConfig(Main(r)) /\ ~Shares(r) => Main(r) \in configs
      BY <2>1, <3>1 DEF HubFacts
    <3> QED BY <3>2 DEF FetchConfig
  <2>4. CASE Shares(r)
    <3>1. Explained(Main(r))
      BY <1>1, <2>4, MainReady DEF Explained, Main
    <3>2. <<>> \in Seq(MainSteps(asked[r]))
      BY EmptyIsSeq
    <3>3. /\ todo' = [todo EXCEPT ![Main(r)] = <<>>]
          /\ task' = [task EXCEPT ![Main(r)] = "failed"]
          /\ lost' = lost \cup {Main(r)}
      BY <1>1, <1>5 DEF Lose, Raises, Moves
    <3> QED BY <1>1, <1>3, <3>1, <3>2, <3>3, MainActs
  <2> QED BY <1>4, <2>2, <2>3, <2>4
<1> QED BY <1>4, <1>5 DEF Fetch, FetchConfig

LEMMA MainWaits ==
  ASSUME ClientInv, ClientTypeOK', NEW r \in Requests, Wait(r)
  PROVE  ClientInv'
<1>1. todo[Main(r)] # <<>> /\ Main(r) \in Jobs /\ JobOf(Main(r)) = Main(r)
  BY ProcessesDiffer DEF Wait, AtStep
<1>2. Tail(todo[Main(r)]) \in Seq(MainSteps(asked[r])) /\ <<>> \in Seq(MainSteps(asked[r]))
  BY <1>1, MainGoesOn, EmptyIsSeq
<1>3. UNCHANGED <<record, place, asked, configs, died, lost>>
  BY DEF Wait
<1>4. CASE GoOn(Main(r)) /\ UNCHANGED task
  BY <1>1, <1>2, <1>3, <1>4, MainActs DEF GoOn
<1>5. CASE Raises(Main(r))
  <2>1. todo' = [todo EXCEPT ![Main(r)] = <<>>] /\ task' = [task EXCEPT ![Main(r)] = "failed"]
    BY <1>1, <1>5 DEF Raises, Moves
  <2> QED BY <1>1, <1>2, <1>3, <2>1, MainActs
<1> QED BY <1>4, <1>5 DEF Wait

LEMMA MainAnalyzes ==
  ASSUME ClientInv, ClientTypeOK', NEW r \in Requests, Analyze(Main(r))
  PROVE  ClientInv'
<1>1. todo[Main(r)] # <<>> /\ JobOf(Main(r)) = Main(r)
  BY ProcessesDiffer DEF Analyze, AtStep
<1>2. Tail(todo[Main(r)]) \in Seq(MainSteps(asked[r]))
  BY <1>1, MainGoesOn
<1>3. PICK y \in {"closed", "failed"} : task' = [task EXCEPT ![Main(r)] = y]
  BY <1>1 DEF Analyze, Moves
<1> QED BY <1>1, <1>2, <1>3, MainActs DEF Analyze, GoOn

LEMMA MainSpawns ==
  ASSUME ClientInv, ClientTypeOK', NEW r \in Requests, SpawnBase(r)
  PROVE  ClientInv'
<1>1. /\ todo[Main(r)] # <<>> /\ JobOf(Base(r)) = Base(r)
      /\ Head(todo[Main(r)]).op = "spawn base"
  BY ProcessesDiffer DEF SpawnBase, AtStep
<1>2. /\ Tail(todo[Main(r)]) \in Seq(MainSteps(asked[r]))
      /\ task[Base(r)] = "none" /\ asked[r].version_diff
  BY <1>1, MainGoesOn
<1>3. TaskInv(r) /\ HubInv(r) /\ BaseInv(r) /\ ClientTypeOK
  BY DEF ClientInv, RequestInv
<1>4. /\ todo' = [todo EXCEPT ![Main(r)] = Tail(todo[Main(r)])]
      /\ task' = [task EXCEPT ![Base(r)] = "free"]
      /\ UNCHANGED <<record, place, asked, configs, died, lost>>
  BY <1>1 DEF SpawnBase, GoOn, Moves
<1>5. OnlyActs(r, {})
  BY <1>3, <1>4, OnlyOne, UntouchedTouches
<1>6. /\ todo'[Main(r)] = Tail(todo[Main(r)])
      /\ todo'[Hub(r)] = todo[Hub(r)] /\ todo'[Base(r)] = todo[Base(r)]
      /\ task'[Base(r)] = "free" /\ task'[Main(r)] = task[Main(r)]
  BY <1>3, <1>4, ProcessesDiffer DEF ClientTypeOK
<1>7. AskedGrows /\ Accepted(r)' /\ HasPath(r)' /\ Started(r)' /\ (Shares(r) => Shares(r)')
  <2>1. AskedGrows
    BY <1>4 DEF AskedGrows, Accepted
  <2> QED BY <1>1, <1>4, <1>6, <2>1, MainReady, SharesStays
          DEF Accepted, HasPath, Given, Started
<1>8. TaskInv(r)'
  <2>1. task[Main(r)] \notin {"none", "created", "free"}
    BY <1>1, <1>3 DEF TaskInv
  <2> QED BY <1>1, <1>2, <1>3, <1>4, <1>6, <1>7, <2>1, MainReady DEF TaskInv, Started
<1>9. HubInv(r)'
  BY <1>1, <1>3, <1>4, <1>6, <1>7, MainReady, HubStays DEF SourcesStay
<1>10. MainInv(r)'
  BY <1>2, <1>4, <1>6 DEF MainInv
<1>11. BaseInv(r)'
  <2>1. PICK q \in BasePoints : BaseIs(r, q)
    BY <1>1, <1>2, <1>3, MainReady, Zenon DEF BaseInv
  <2>2. q = "waiting"
    BY <1>2, <2>1 DEF BaseIs
  <2>3. BaseFacts(r, q) => BaseFacts(r, q)'
    BY <1>4 DEF BaseFacts
  <2>4. BaseIs(r, q)'
    BY <1>4, <1>6, <1>7, <2>1, <2>2, <2>3 DEF BaseIs
  <2> QED BY <2>4, Zenon DEF BaseInv
<1>12. RequestInv(r)'
  BY <1>8, <1>9, <1>10, <1>11 DEF RequestInv
<1> QED BY <1>4, <1>5, <1>12, Enough

LEMMA MainTaken ==
  ASSUME ClientInv, ClientTypeOK', NEW r \in Requests, Take(Main(r))
  PROVE  ClientInv'
<1>1. /\ task[Main(r)] = "free" /\ JobOf(Main(r)) = Main(r)
      /\ Main(r)[1] = r /\ Main(r)[2] = "main"
  BY ProcessesDiffer DEF Take, Main
<1>2. TaskInv(r) /\ HubInv(r) /\ BaseInv(r) /\ ClientTypeOK
  BY DEF ClientInv, RequestInv
<1>3. /\ todo' = [todo EXCEPT ![Main(r)] = RunSteps(asked[r], "main")]
      /\ task' = [task EXCEPT ![Main(r)] = "open"]
      /\ UNCHANGED <<record, place, asked, configs, died, lost>>
  BY <1>1 DEF Take, Moves
<1>4. OnlyActs(r, {})
  BY <1>2, <1>3, OnlyOne, UntouchedTouches
<1>5. /\ todo'[Main(r)] = RunSteps(asked[r], "main")
      /\ todo'[Hub(r)] = todo[Hub(r)] /\ todo'[Base(r)] = todo[Base(r)]
      /\ task'[Base(r)] = task[Base(r)] /\ task'[Main(r)] = "open"
  BY <1>2, <1>3, ProcessesDiffer DEF ClientTypeOK
<1>6. AskedGrows /\ Accepted(r)' /\ HasPath(r)' /\ Started(r)'
  BY <1>1, <1>3, <1>5, MainReady DEF AskedGrows, Accepted, HasPath, Given, Started
<1>7. TaskInv(r)'
  BY <1>1, <1>2, <1>3, <1>5, <1>6, MainReady DEF TaskInv, Started
<1>8. HubInv(r)'
  BY <1>1, <1>2, <1>3, <1>5, <1>6, MainReady, HubStays DEF SourcesStay
<1>9. BaseInv(r)'
  BY <1>1, <1>2, <1>3, <1>5, <1>6, MainReady, BaseStays DEF BaseSourceStays
<1>10. MainInv(r)'
  <2>1. asked[r] \in Choices /\ (Given(asked[r].upload_id) => asked[r].brew_build = "none")
    BY <1>1, MainReady DEF HasPath
  <2>2. CASE ~asked[r].version_diff
    <3>1. RunSteps(asked[r], "main") \in Seq(MainSteps(asked[r]))
      BY <2>1, <2>2, MainRunIs
    <3> QED BY <1>3, <1>5, <3>1 DEF MainInv
  <2>3. CASE asked[r].version_diff
    <3>1. /\ RunSteps(asked[r], "main") # <<>>
          /\ Head(RunSteps(asked[r], "main")).op = "spawn base"
          /\ Tail(RunSteps(asked[r], "main")) \in Seq(MainSteps(asked[r]))
      BY <2>1, <2>3, MainRunIs
    <3>2. task[Base(r)] = "none"
      BY <1>1, <1>2 DEF TaskInv
    <3> QED BY <1>3, <1>5, <2>3, <3>1, <3>2 DEF MainInv, AtStep
  <2> QED BY <2>2, <2>3
<1>11. RequestInv(r)'
  BY <1>7, <1>8, <1>9, <1>10 DEF RequestInv
<1> QED BY <1>3, <1>4, <1>11, Enough

LEMMA MainDoes ==
  ASSUME ClientInv, ClientTypeOK', NEW r \in Requests,
         Goes(Main(r)) \/ Works(Main(r)) \/ Spawns(r)
  PROVE  ClientInv'
<1>1. todo[Main(r)] # <<>> =>
        Head(todo[Main(r)]).op \in {"spawn base", "wait", "fetch config", "fetch", "analyze"}
  BY MainGoesOn DEF MainSteps
<1>2. /\ ~Create(Main(r)) /\ ~Move(Main(r)) /\ ~Find(Main(r)) /\ ~Delete(Main(r))
      /\ ~PutConfigs(Main(r)) /\ ~Free(Main(r)) /\ ~GenerateConfigs(Main(r))
  BY <1>1 DEF Create, Move, Find, Delete, PutConfigs, Free, GenerateConfigs, AtStep
<1> QED BY <1>2, MainFetches, MainWaits, MainAnalyzes, MainSpawns, MainTaken
        DEF Goes, Works, Spawns

-----------------------------------------------------------------------------
(* The worker of a base.                                                   *)

LEMMA BaseReady ==
  ASSUME ClientInv, NEW r \in Requests, todo[Base(r)] # <<>> \/ task[Base(r)] = "free"
  PROVE  /\ Accepted(r) /\ asked[r] \in Choices /\ asked[r].version_diff /\ Started(r)
         /\ todo[Hub(r)] = <<>> /\ task[Base(r)] # "none"
         /\ todo[Main(r)] \in Seq(MainSteps(asked[r]))
         /\ \E q \in BasePoints : BaseIs(r, q)
<1>1. TaskInv(r) /\ BaseInv(r) /\ MainInv(r) /\ ClientTypeOK
  BY DEF ClientInv, RequestInv
<1>2. task[Base(r)] # "none"
  BY <1>1 DEF TaskInv
<1>3. Started(r) /\ asked[r].version_diff
  BY <1>1, <1>2 DEF TaskInv, Started
<1>4. Accepted(r) /\ todo[Hub(r)] = <<>>
  BY <1>1, <1>3 DEF TaskInv, Started
<1>5. asked[r] \in Choices
  BY <1>1, <1>4, AcceptedHas
<1>6. \E q \in BasePoints : BaseIs(r, q)
  BY <1>1, <1>3, <1>4, Zenon DEF BaseInv
<1>7. todo[Main(r)] \in Seq(MainSteps(asked[r]))
  BY <1>1, <1>2 DEF MainInv
<1> QED BY <1>2, <1>3, <1>4, <1>5, <1>6, <1>7

LEMMA BaseGoes ==
  ASSUME ClientInv, NEW r \in Requests, todo[Base(r)] # <<>>
  PROVE  /\ task[Base(r)] \notin {"none", "free"}
         /\ \E q \in BasePoints \ {"waiting", "ended"} :
              /\ BaseIs(r, q) /\ BaseAt(asked[r], q, todo[Base(r)])
              /\ Head(todo[Base(r)]).op = BaseOp(q)
              /\ File(Base(r)) = BaseFile(asked[r], q)
              /\ BaseAt(asked[r], BaseNext(asked[r], q), Tail(todo[Base(r)]))
<1>1. PICK q \in BasePoints : BaseIs(r, q)
  BY BaseReady
<1>2. BaseAt(asked[r], q, todo[Base(r)])
  BY <1>1 DEF BaseIs
<1>3. q \notin {"waiting", "ended"}
  BY <1>2 DEF BaseAt
<1>4. /\ Head(todo[Base(r)]).op = BaseOp(q)
      /\ Head(todo[Base(r)]).file = BaseFile(asked[r], q)
      /\ BaseAt(asked[r], BaseNext(asked[r], q), Tail(todo[Base(r)]))
  BY <1>2, <1>3, BaseReady, BaseGoesOn
<1>5. File(Base(r)) = BaseFile(asked[r], q)
  BY <1>4 DEF File
<1>6. task[Base(r)] \notin {"none", "free"}
  BY <1>1, <1>3 DEF BaseIs
<1> QED BY <1>1, <1>2, <1>3, <1>4, <1>5, <1>6

LEMMA BaseActs ==
  ASSUME ClientInv, ClientTypeOK', NEW r \in Requests,
         todo[Base(r)] # <<>> \/ task[Base(r)] = "free",
         NEW x, todo' = [todo EXCEPT ![Base(r)] = x],
         NEW y \in {"open", "closed", "failed"},
         task' = task \/ task' = [task EXCEPT ![Base(r)] = y],
         NEW N, TouchesOnly(r, N), N \subseteq {"base_upload_id"},
         asked' = asked, died' = died, configs \subseteq configs',
         \A j \in lost' \ lost : Explained(j),
         NEW q \in BasePoints, BaseIs(r, q)'
  PROVE  ClientInv'
<1>1. TaskInv(r) /\ HubInv(r) /\ ClientTypeOK
  BY DEF ClientInv, RequestInv
<1>2. OnlyActs(r, N)
  BY <1>1, OnlyOne
<1>3. /\ todo'[Hub(r)] = todo[Hub(r)] /\ todo'[Main(r)] = todo[Main(r)]
      /\ task'[Main(r)] = task[Main(r)]
      /\ task'[Base(r)] = task[Base(r)] \/ task'[Base(r)] = y
  BY <1>1, ProcessesDiffer DEF ClientTypeOK
<1>4. /\ AskedGrows /\ Accepted(r)' /\ HasPath(r)' = HasPath(r) /\ Started(r)'
      /\ task'[Base(r)] # "none"
  BY <1>3, BaseReady DEF AskedGrows, Accepted, HasPath, Given, Started
<1>5. TaskInv(r)'
  <2>1. task[Main(r)] \notin {"none", "created", "free"} /\ HasPath(r) /\ r \notin died
        /\ task[Base(r)] # "created" /\ asked[r].version_diff /\ todo[Hub(r)] = <<>>
    BY <1>1, BaseReady DEF TaskInv
  <2> QED BY <1>3, <1>4, <2>1 DEF TaskInv
<1>6. HubInv(r)'
  <2>1. SourcesStay(r)
    BY <1>1, SourcesStayUntouched, BaseReady
  <2> QED BY <1>1, <1>3, <1>4, <2>1, BaseReady, HubStays
<1>7. MainInv(r)'
  BY <1>3, BaseReady DEF MainInv
<1>8. BaseInv(r)'
  BY Zenon DEF BaseInv
<1>9. RequestInv(r)'
  BY <1>5, <1>6, <1>7, <1>8 DEF RequestInv
<1>10. \A j \in lost' \ lost : Explained(j)'
  BY <1>1, <1>4, ExplainedStays DEF ClientTypeOK
<1> QED BY <1>2, <1>9, <1>10, Enough

(* The worker of the base ends where it is.                                *)
LEMMA BaseFails ==
  ASSUME ClientInv, ClientTypeOK', NEW r \in Requests, todo[Base(r)] # <<>>,
         Raises(Base(r)), UNCHANGED <<record, place, asked, configs, died>>,
         lost' = lost
           \/ (lost' = lost \cup {Base(r)}
                 /\ (Shares(r) \/ Given(asked[r].upload_model_id)))
  PROVE  ClientInv'
<1>1. Base(r) \in Jobs /\ JobOf(Base(r)) = Base(r) /\ ClientTypeOK
  BY ProcessesDiffer DEF ClientInv
<1>2. /\ todo' = [todo EXCEPT ![Base(r)] = <<>>]
      /\ task' = [task EXCEPT ![Base(r)] = "failed"]
  BY <1>1 DEF Raises, Moves
<1>3. todo'[Base(r)] = <<>> /\ task'[Base(r)] = "failed"
  BY <1>1, <1>2, ProcessesDiffer DEF ClientTypeOK
<1>4. BaseFacts(r, "ended")'
  BY DEF BaseFacts
<1>5. BaseIs(r, "ended")' /\ "ended" \in BasePoints
  BY <1>3, <1>4 DEF BaseIs, BaseAt, BasePoints
<1>6. \A j \in lost' \ lost : Explained(j)
  BY BaseReady DEF Explained, Base
<1>7. TouchesOnly(r, {})
  BY UntouchedTouches
<1> QED BY <1>2, <1>5, <1>6, <1>7, BaseActs

(* The worker of the base takes a step.                                    *)
LEMMA BaseSteps ==
  ASSUME ClientInv, ClientTypeOK', NEW r \in Requests, todo[Base(r)] # <<>>, GoOn(Base(r)),
         NEW y \in {"closed", "failed"},
         NEW N, TouchesOnly(r, N), N \subseteq {"base_upload_id"},
         UNCHANGED <<asked, died, lost>>, configs \subseteq configs',
         NEW q \in BasePoints \ {"waiting", "ended"},
         IF q = "analyze" THEN task' = [task EXCEPT ![Base(r)] = y] ELSE task' = task,
         BaseAt(asked[r], BaseNext(asked[r], q), Tail(todo[Base(r)])),
         ~Shares(r) /\ ~Given(asked[r].upload_model_id) =>
           BaseFacts(r, BaseNext(asked[r], q))'
  PROVE  ClientInv'
<1> PICK n : n = BaseNext(asked[r], q)
  OBVIOUS
<1>1. ClientTypeOK /\ Base(r) \in Processes /\ Base(r) \in Jobs
  BY ProcessesDiffer DEF ClientInv
<1>2. n \in BasePoints \ {"waiting"}
  BY DEF BasePoints, BaseNext, PointAfterConfig, PointAfterMove, PointAfterBaseModel
<1>3. todo' = [todo EXCEPT ![Base(r)] = Tail(todo[Base(r)])]
  BY DEF GoOn
<1>4. todo'[Base(r)] = Tail(todo[Base(r)]) /\ task'[Base(r)] \notin {"none", "free"}
  BY <1>1, <1>3, BaseGoes DEF ClientTypeOK
<1>5. Shares(r) => Shares(r)'
  BY SharesStays DEF AskedGrows, Accepted
<1>6. BaseIs(r, n)'
  <2>1. BaseAt(asked'[r], n, todo'[Base(r)])
    BY <1>4
  <2>2. ~Shares(r)' /\ ~Given(asked'[r].upload_model_id) => BaseFacts(r, n)'
    BY <1>5
  <2> QED BY <1>2, <1>4, <2>1, <2>2 DEF BaseIs
<1> QED BY <1>2, <1>3, <1>6, BaseActs

LEMMA BaseTaken ==
  ASSUME ClientInv, ClientTypeOK', NEW r \in Requests, Take(Base(r))
  PROVE  ClientInv'
<1>1. /\ task[Base(r)] = "free" /\ JobOf(Base(r)) = Base(r)
      /\ Base(r)[1] = r /\ Base(r)[2] = "base" /\ Base(r) \in Processes /\ Base(r) \in Jobs
  BY ProcessesDiffer DEF Take, Base
<1>2. /\ todo' = [todo EXCEPT ![Base(r)] = RunSteps(asked[r], "base")]
      /\ task' = [task EXCEPT ![Base(r)] = "open"]
      /\ UNCHANGED <<record, place, asked, configs, died, lost>>
  BY <1>1 DEF Take, Moves
<1>3. ClientTypeOK
  BY DEF ClientInv
<1>4. todo'[Base(r)] = RunSteps(asked[r], "base") /\ task'[Base(r)] = "open"
  BY <1>1, <1>2, <1>3 DEF ClientTypeOK
<1>5. PICK q \in BasePoints : BaseIs(r, q)
  BY <1>1, BaseReady
<1>6. q = "waiting"
  BY <1>1, <1>5 DEF BaseIs
<1>7. PICK n : n = FirstPoint(asked[r])
  OBVIOUS
<1>8. /\ n \in BasePoints \ {"waiting", "ended", "fetch config", "move", "delete"}
      /\ Named(asked[r]) => n \in {"generate configs", "find"}
  BY <1>7 DEF FirstPoint, PointAfterConfig, PointAfterMove, PointAfterBaseModel, BasePoints
<1>9. BaseAt(asked'[r], n, todo'[Base(r)])
  BY <1>1, <1>2, <1>4, <1>7, BaseReady, BaseRunIs
<1>10. Shares(r) => Shares(r)'
  BY <1>2, SharesStays DEF AskedGrows, Accepted
<1>11. BaseFacts(r, q) => BaseFacts(r, n)'
  BY <1>2, <1>6, <1>8 DEF BaseFacts
<1>12. BaseIs(r, n)'
  BY <1>2, <1>4, <1>5, <1>8, <1>9, <1>10, <1>11 DEF BaseIs
<1>13. TouchesOnly(r, {})
  BY <1>2, UntouchedTouches
<1> QED BY <1>1, <1>2, <1>8, <1>12, <1>13, BaseActs

LEMMA BaseConfigures ==
  ASSUME ClientInv, ClientTypeOK', NEW r \in Requests,
         GenerateConfigs(Base(r)) \/ FetchConfig(Base(r))
  PROVE  ClientInv'
<1>1. todo[Base(r)] # <<>>
  BY DEF GenerateConfigs, FetchConfig, AtStep
<1>2. PICK q \in BasePoints \ {"waiting", "ended"} :
        /\ BaseIs(r, q) /\ Head(todo[Base(r)]).op = BaseOp(q)
        /\ BaseAt(asked[r], BaseNext(asked[r], q), Tail(todo[Base(r)]))
  BY <1>1, BaseGoes
<1>3. TouchesOnly(r, {})
  BY UntouchedTouches DEF GenerateConfigs, FetchConfig
<1>4. ~Shares(r) /\ ~Given(asked[r].upload_model_id) => BaseFacts(r, q)
  BY <1>2 DEF BaseIs
<1>5. CASE GenerateConfigs(Base(r))
  <2>1. q = "generate configs" /\ BaseNext(asked[r], q) = "fetch config"
    BY <1>2, <1>5 DEF GenerateConfigs, AtStep, BaseOp, BasePoints, BaseNext
  <2>2. CASE GoOn(Base(r)) /\ UNCHANGED task /\ configs' = configs \cup {Base(r)}
    <3>1. BaseFacts(r, "generate configs") => BaseFacts(r, "fetch config")'
      BY <1>5, <2>2 DEF GenerateConfigs, BaseFacts
    <3>2. UNCHANGED <<asked, died, lost>>
      BY <1>5 DEF GenerateConfigs
    <3> QED BY <1>1, <1>2, <1>3, <1>4, <2>1, <2>2, <3>1, <3>2, BaseSteps
  <2>3. CASE Raises(Base(r)) /\ UNCHANGED configs
    BY <1>1, <1>5, <2>3, BaseFails DEF GenerateConfigs
  <2> QED BY <1>5, <2>2, <2>3 DEF GenerateConfigs
<1>6. CASE FetchConfig(Base(r))
  <2>1. q = "fetch config" /\ BaseNext(asked[r], q) = PointAfterConfig(asked[r])
    BY <1>2, <1>6 DEF FetchConfig, AtStep, BaseOp, BasePoints, BaseNext
  <2>2. UNCHANGED <<record, place, asked, configs, died>>
    BY <1>6 DEF FetchConfig
  <2>3. CASE GoOn(Base(r)) /\ UNCHANGED <<task, lost>>
    <3> PICK n : n = BaseNext(asked[r], q)
      OBVIOUS
    <3>1. /\ n \in BasePoints \ {"fetch config", "move", "delete", "ended", "waiting"}
          /\ Named(asked[r]) => n = "find"
      BY <2>1 DEF PointAfterConfig, PointAfterMove, PointAfterBaseModel, BasePoints
    <3>2. BaseFacts(r, q) => BaseFacts(r, n)'
      BY <2>1, <2>2, <3>1 DEF BaseFacts
    <3>3. n' = BaseNext(asked[r], q)'
      BY <2>2
    <3> QED BY <1>1, <1>2, <1>3, <1>4, <2>1, <2>2, <2>3, <3>2, <3>3, BaseSteps
  <2>4. CASE Lose(Base(r)) /\ Base(r) \notin configs
    <3>1. Shares(r) \/ Given(asked[r].upload_model_id)
      BY <1>4, <2>1, <2>4 DEF BaseFacts
    <3>2. Raises(Base(r)) /\ lost' = lost \cup {Base(r)}
      BY <2>4, ProcessesDiffer DEF Lose
    <3> QED BY <1>1, <2>2, <3>1, <3>2, BaseFails
  <2> QED BY <1>6, <2>3, <2>4 DEF FetchConfig
<1> QED BY <1>5, <1>6

(* find, and fetch: the base looks for its upload and downloads it.        *)
LEMMA BaseFetches ==
  ASSUME ClientInv, ClientTypeOK', NEW r \in Requests, Find(Base(r)) \/ Fetch(Base(r))
  PROVE  ClientInv'
<1> DEFINE o == asked[r]
           f == File(Base(r))
<1>1. todo[Base(r)] # <<>> /\ Head(todo[Base(r)]).op \in {"find", "fetch"}
  BY DEF Find, Fetch, AtStep
<1>2. PICK q \in BasePoints \ {"waiting", "ended"} :
        /\ BaseIs(r, q) /\ BaseAt(o, q, todo[Base(r)])
        /\ Head(todo[Base(r)]).op = BaseOp(q) /\ f = BaseFile(o, q)
        /\ BaseAt(o, BaseNext(o, q), Tail(todo[Base(r)]))
  BY <1>1, BaseGoes
<1>3. UNCHANGED <<record, place, asked, configs, died>> /\ TouchesOnly(r, {})
  BY UntouchedTouches DEF Find, Fetch
<1>4. ~Shares(r) /\ ~Given(o.upload_model_id) => BaseFacts(r, q)
  BY <1>2 DEF BaseIs
<1>5. /\ q \in {"find", "fetch", "fetch model"}
      /\ q = "fetch model" => Given(o.upload_model_id)
      /\ q # "fetch model" => Named(o) /\ f = o.base_upload_id
      /\ Find(Base(r)) => q = "find"
      /\ Fetch(Base(r)) => q # "find"
  BY <1>1, <1>2 DEF BaseOp, BasePoints, BaseAt, BaseFile, Find, Fetch, AtStep
<1>6. CASE GoOn(Base(r)) /\ UNCHANGED <<task, lost>>
  <2> PICK n : n = BaseNext(o, q)
    OBVIOUS
  <2>1. /\ q = "find" => n = "move"
        /\ q = "fetch" => n = "analyze"
    BY <1>5 DEF BaseNext
  <2>2. BaseFacts(r, q) /\ ~Given(o.upload_model_id) => BaseFacts(r, n)'
    BY <1>3, <1>5, <2>1 DEF BaseFacts
  <2>3. n' = BaseNext(o, q)'
    BY <1>3
  <2> QED BY <1>1, <1>2, <1>3, <1>4, <1>5, <1>6, <2>2, <2>3, BaseSteps
<1>7. CASE Lose(Base(r)) /\ ~(GoOn(Base(r)) /\ UNCHANGED <<task, lost>>)
  <2>1. Find(Base(r)) => f \notin record
    BY <1>7 DEF Find
  <2>2. Fetch(Base(r)) => place[f] # Base(r)
    BY <1>7 DEF Fetch
  <2>3. Shares(r) \/ Given(o.upload_model_id)
    BY <1>4, <1>5, <2>1, <2>2 DEF BaseFacts
  <2>4. Raises(Base(r)) /\ lost' = lost \cup {Base(r)}
    BY <1>7, ProcessesDiffer DEF Lose
  <2> QED BY <1>1, <1>3, <2>3, <2>4, BaseFails
<1> QED BY <1>6, <1>7 DEF Find, Fetch

(* move_upload: the upload of the base moves to its directory.             *)
LEMMA BaseMoves ==
  ASSUME ClientInv, ClientTypeOK', NEW r \in Requests, Move(Base(r)) \/ Delete(Base(r))
  PROVE  ClientInv'
<1> DEFINE o == asked[r]
           f == File(Base(r))
<1>1. /\ todo[Base(r)] # <<>> /\ Head(todo[Base(r)]).op \in {"move", "delete"}
      /\ JobOf(Base(r)) = Base(r) /\ ClientTypeOK /\ Base(r) # UploadDir
      /\ Base(r) \in Jobs /\ Base(r) \in Processes
  BY ProcessesDiffer DEF Move, Delete, AtStep, ClientInv
<1>2. PICK q \in BasePoints \ {"waiting", "ended"} :
        /\ BaseIs(r, q) /\ BaseAt(o, q, todo[Base(r)])
        /\ Head(todo[Base(r)]).op = BaseOp(q) /\ f = BaseFile(o, q)
        /\ BaseAt(o, BaseNext(o, q), Tail(todo[Base(r)]))
  BY <1>1, BaseGoes
<1>3. UNCHANGED <<asked, configs, died>>
  BY DEF Move, Delete
<1>4. ~Shares(r) /\ ~Given(o.upload_model_id) => BaseFacts(r, q)
  BY <1>2 DEF BaseIs
<1>5. /\ q \in {"move", "delete"} /\ Named(o) /\ f = o.base_upload_id
      /\ Move(Base(r)) => q = "move"
      /\ Delete(Base(r)) => q = "delete"
  BY <1>1, <1>2 DEF BaseOp, BasePoints, BaseAt, BaseFile, Move, Delete, AtStep
<1>6. /\ Accepted(r) /\ o.version_diff /\ f \in Files
      /\ "base_upload_id" \in Uses(r) /\ asked[r]["base_upload_id"] = f
  <2>1. Accepted(r) /\ o.version_diff /\ o.base_upload_id \in Uploads
    BY <1>1, BaseReady, ChoicesAre
  <2> QED BY <1>5, <2>1, NamesAre DEF Uploads, Named, Given
<1>7. CASE IF Move(Base(r)) THEN Given(f) /\ place[f] = UploadDir ELSE f \in record
  <2>1. /\ GoOn(Base(r)) /\ UNCHANGED <<task, lost>>
        /\ Move(Base(r)) => place' = [place EXCEPT ![f] = Base(r)] /\ record' = record
        /\ Delete(Base(r)) => place' = place /\ record' = record \ {f}
    <3>1. CASE Move(Base(r))
      BY <1>1, <1>5, <1>7, <3>1 DEF Move
    <3>2. CASE Delete(Base(r))
      BY <1>5, <1>7, <3>2 DEF Delete
    <3> QED BY <3>1, <3>2
  <2>2. TouchesOnly(r, {"base_upload_id"})
    <3> SUFFICES ASSUME NEW g \in Files, g # f
                 PROVE  place'[g] = place[g] /\ (g \in record => g \in record')
      BY <1>6 DEF TouchesOnly
    <3> QED BY <1>1, <2>1 DEF ClientTypeOK
  <2> PICK n : n = BaseNext(o, q)
    OBVIOUS
  <2>3. /\ q = "move" => n = "delete"
        /\ q = "delete" => n \in {"fetch model", "fetch"}
        /\ n = "fetch model" => Given(o.upload_model_id)
    BY <1>5 DEF BaseNext, PointAfterMove, PointAfterBaseModel
  <2>4. BaseFacts(r, q) => BaseFacts(r, n)'
    <3>1. CASE Move(Base(r))
      BY <1>1, <1>3, <1>5, <1>6, <2>1, <2>3, <3>1 DEF BaseFacts, ClientTypeOK
    <3>2. CASE Delete(Base(r))
      BY <1>1, <1>3, <1>5, <1>6, <2>1, <2>3, <3>2 DEF BaseFacts
    <3> QED BY <3>1, <3>2
  <2>5. n' = BaseNext(o, q)'
    BY <1>3
  <2> QED BY <1>1, <1>2, <1>3, <1>4, <1>5, <2>1, <2>2, <2>4, <2>5, BaseSteps
<1>8. CASE ~(IF Move(Base(r)) THEN Given(f) /\ place[f] = UploadDir ELSE f \in record)
  <2>1. Shares(r) \/ Given(o.upload_model_id)
    BY <1>4, <1>5, <1>8 DEF BaseFacts, Named
  <2>2. Lose(Base(r)) /\ UNCHANGED <<place, record>>
    <3>1. CASE Move(Base(r))
      BY <1>8, <3>1 DEF Move
    <3>2. CASE Delete(Base(r))
      BY <1>5, <1>8, <3>2 DEF Delete
    <3> QED BY <3>1, <3>2
  <2>3. Raises(Base(r)) /\ lost' = lost \cup {Base(r)}
    BY <1>1, <2>2 DEF Lose
  <2> QED BY <1>1, <1>3, <2>1, <2>2, <2>3, BaseFails
<1> QED BY <1>7, <1>8

LEMMA BaseAnalyzes ==
  ASSUME ClientInv, ClientTypeOK', NEW r \in Requests, Analyze(Base(r))
  PROVE  ClientInv'
<1>1. todo[Base(r)] # <<>> /\ JobOf(Base(r)) = Base(r)
  BY ProcessesDiffer DEF Analyze, AtStep
<1>2. PICK q \in BasePoints \ {"waiting", "ended"} :
        /\ BaseIs(r, q) /\ Head(todo[Base(r)]).op = BaseOp(q)
        /\ BaseAt(asked[r], BaseNext(asked[r], q), Tail(todo[Base(r)]))
  BY <1>1, BaseGoes
<1>3. q = "analyze" /\ BaseNext(asked[r], q) = "ended"
  BY <1>2 DEF Analyze, AtStep, BaseOp, BasePoints, BaseNext
<1>4. TouchesOnly(r, {})
  BY UntouchedTouches DEF Analyze
<1>5. BaseFacts(r, "ended")'
  BY DEF BaseFacts
<1>6. PICK y \in {"closed", "failed"} : task' = [task EXCEPT ![Base(r)] = y]
  BY <1>1 DEF Analyze, Moves
<1> QED BY <1>1, <1>2, <1>3, <1>4, <1>5, <1>6, BaseSteps DEF Analyze

LEMMA BaseDoes ==
  ASSUME ClientInv, ClientTypeOK', NEW r \in Requests, Goes(Base(r)) \/ Works(Base(r))
  PROVE  ClientInv'
<1>1. ~Create(Base(r)) /\ ~PutConfigs(Base(r)) /\ ~Free(Base(r))
  <2>1. todo[Base(r)] # <<>> => Head(todo[Base(r)]).op \notin {"create", "put configs", "free"}
    BY BaseGoes DEF BaseOp, BasePoints
  <2> QED BY <2>1 DEF Create, PutConfigs, Free, AtStep
<1> QED BY <1>1, BaseTaken, BaseConfigures, BaseFetches, BaseMoves, BaseAnalyzes
        DEF Goes, Works

-----------------------------------------------------------------------------
(* All together.                                                           *)

LEMMA ClientNextInv ==
  ASSUME ClientInv, [ClientNext]_clientVars
  PROVE  ClientInv'
<1>1. CASE UNCHANGED clientVars
  <2>1. \A r : Accepted(r)' = Accepted(r) /\ Uses(r)' = Uses(r) /\ HasPath(r)' = HasPath(r)
    BY <1>1 DEF clientVars, Accepted, Uses, HasPath
  <2>2. \A r : Shares(r)' = Shares(r)
    BY <1>1, <2>1 DEF clientVars, Shares
  <2>3. ClientTypeOK' /\ FilesInv' /\ \A j \in lost : Explained(j)'
    BY <1>1, <2>1, <2>2 DEF clientVars, ClientInv, ClientTypeOK, FilesInv, Explained
  <2>4. ASSUME NEW r \in Requests
        PROVE  RequestInv(r)'
    <3>1. TaskInv(r)' /\ MainInv(r)'
      BY <1>1, <2>1 DEF clientVars, ClientInv, RequestInv, TaskInv, MainInv, Started, AtStep
    <3>2. \A q : HubFacts(r, q) => HubFacts(r, q)'
      BY <1>1 DEF clientVars, HubFacts
    <3>3. \A q : HubIs(r, q) => HubIs(r, q)'
      BY <1>1, <2>1, <2>2, <3>2 DEF clientVars, HubIs, Started
    <3>4. \A q : BaseFacts(r, q) => BaseFacts(r, q)'
      BY <1>1 DEF clientVars, BaseFacts
    <3>5. \A q : BaseIs(r, q) => BaseIs(r, q)'
      BY <1>1, <2>1, <2>2, <3>4 DEF clientVars, BaseIs
    <3>6. HubInv(r)' /\ BaseInv(r)'
      BY <1>1, <2>1, <3>3, <3>5 DEF clientVars, ClientInv, RequestInv, HubInv, BaseInv
    <3> QED BY <3>1, <3>6 DEF RequestInv
  <2> QED BY <1>1, <2>3, <2>4 DEF clientVars, ClientInv
<1>2. ASSUME NEW r \in Requests, Accept(r) \/ Refuse(r) \/ Die(r) \/ Spawns(r)
      PROVE  ClientInv'
  BY <1>2, RequestType, RequestAccepted, RequestRefused, HubDies, MainDoes
<1>3. ASSUME NEW p \in Processes, Goes(p)
      PROVE  ClientInv'
  <2>1. ClientTypeOK'
    BY <1>3, GoesType DEF ClientInv
  <2>2. PICK r \in Requests : p = Main(r) \/ p = Base(r) \/ p = Hub(r)
    BY ProcessIs
  <2> QED BY <1>3, <2>1, <2>2, HubActs, MainDoes, BaseDoes
<1>4. ASSUME NEW j \in Jobs, Works(j)
      PROVE  ClientInv'
  <2>1. ClientTypeOK'
    BY <1>4, WorksType
  <2>2. PICK r \in Requests : j = Main(r) \/ j = Base(r)
    BY JobIs
  <2> QED BY <1>4, <2>1, <2>2, MainDoes, BaseDoes
<1> QED BY <1>1, <1>2, <1>3, <1>4 DEF ClientNext

LEMMA ClientInvExplains ==
  ASSUME ClientInv
  PROVE  LostIsExplained
<1> SUFFICES ASSUME NEW j \in Jobs, Abandoned(j), j \notin lost
             PROVE  Explained(j)
  BY DEF LostIsExplained, ClientInv
<1>1. PICK r \in Requests : j = Main(r) \/ j = Base(r)
  BY JobIs
<1>2. TaskInv(r) /\ HubInv(r) /\ ClientTypeOK
  BY DEF ClientInv, RequestInv
<1>3. j = Main(r) /\ task[Main(r)] = "created" /\ todo[Hub(r)] = <<>>
  BY <1>1, <1>2 DEF Abandoned, TaskInv, Main, Base
<1>4. Accepted(r) /\ ~Started(r)
  BY <1>2, <1>3 DEF TaskInv, Started
<1>5. asked[r] \in Choices
  BY <1>2, <1>4, AcceptedHas
<1>6. PICK q \in HubPoints : HubIs(r, q)
  BY <1>2, <1>4, Zenon DEF HubInv
<1>7. HubAt(asked[r], q, todo[Hub(r)])
  BY <1>6 DEF HubIs
<1>8. q = "done"
  BY <1>3, <1>5, <1>7, HubGoesOn
<1>9. Shares(r) \/ ~HasPath(r) \/ r \in died
  BY <1>4, <1>6, <1>8 DEF HubIs
<1> QED BY <1>3, <1>4, <1>9 DEF Explained, Main, HasPath

(* Whatever the requests and their options: the hub and the workers are at *)
(* a point of their programs, and the files of a request that shares none  *)
(* are where that point wants them.                                        *)
THEOREM ClientInductive == ClientSpec => []ClientInv
<1>1. ClientInit => ClientInv
  BY ClientInitInv
<1>2. ClientInv /\ [ClientNext]_clientVars => ClientInv'
  BY ClientNextInv
<1> QED BY <1>1, <1>2, PTL DEF ClientSpec

(* LostIsExplained, for any requests and any options: no task stays in     *)
(* CREATED after its handler ended and no job fails for want of a file,    *)
(* except when a file is named twice, an upload comes with a build, the    *)
(* handler was killed, or a base comes with a custom model.                *)
THEOREM LossesAreExplained == ClientSpec => []LostIsExplained
<1>1. ClientInv => LostIsExplained
  BY ClientInvExplains
<1> QED BY <1>1, ClientInductive, PTL

-----------------------------------------------------------------------------
(* ResultFiles.                                                            *)

Holds(added, fixed) == diff["added"] = added /\ diff["fixed"] = fixed

Alone == "overlap" \notin faults

(* Without overlap one process works at a time.                            *)
SingleInv ==
  Alone => \A p, q \in Runs : run[p] # Idle /\ run[q] # Idle => p = q

(* What retention removes, it removes as a whole.                          *)
RemovedInv ==
  /\ ~dir => tarball = "none" /\ results = "none" /\ Holds("none", "none")
  /\ "removed" \notin faults => dir
  /\ "base_removed" \notin faults => base = "whole"

(* How far the diffs are when a process is at an operation.                *)
DiffInv ==
  Alone => \A p \in Runs :
    /\ At(p, "open", "added") => Holds("none", "none")
    /\ At(p, "load", "added") /\ diff["added"] = "whole" => diff["fixed"] = "whole"
    /\ dir =>
         /\ At(p, "write", "added")   => Holds("part", "none")
         /\ At(p, "open", "fixed")    => Holds("whole", "none")
         /\ At(p, "write", "fixed")   => Holds("whole", "part")
         /\ At(p, "title", "added")   => Holds("whole", "whole")
         /\ At(p, "entitle", "added") => Holds("part", "whole")
         /\ At(p, "title", "fixed")   => Holds("whole", "whole")
         /\ At(p, "entitle", "fixed") => Holds("whole", "part")

Calm == \A f \in {"overlap", "disk", "csdiff", "killed", "base_removed"} : f \notin faults

(* No file is incomplete but the one that is being written, if nothing     *)
(* worse happened than an incomplete upload and a removed directory.       *)
CleanInv ==
  Calm =>
    /\ (\A p \in Runs : run[p] = Idle) => Retryable
    /\ \A p \in Runs :
         /\ run[p].op \in {"unpack", "extract", "is_diffed", "load"} => Retryable
         /\ run[p].op = "extracted" =>
              diff["added"] = diff["fixed"] /\ diff["added"] # "part"
         /\ run[p].op \in {"open", "write", "title", "entitle"} => results = "whole" \/ ~dir

(* A task of a client is worked on once, and cannot be removed meanwhile.  *)
VersionInv ==
  ~IsErrata =>
    /\ Alone
    /\ runs \in {0, 1}
    /\ runs = 0 => outcome = "open" /\ \A p \in Runs : run[p] = Idle
    /\ runs = 0 => results = "none" /\ Holds("none", "none")
    /\ outcome = "open" => dir
    /\ \A p \in Runs :
         /\ run[p] # Idle => outcome = "open"
         /\ run[p].op \in {"unpack", "extract"} => results = "none"
         /\ run[p].op = "is_diffed" => results # "part"
         /\ run[p].op \in {"unpack", "extract", "extracted", "is_diffed"} =>
              Holds("none", "none")
         /\ run[p].op \in {"open", "write"} => results = "whole"
         /\ run[p].op # "load"

(* A verdict keeps the files it rests on.                                  *)
DoneInv ==
  Alone /\ "removed" \notin faults /\ IsErrata =>
    /\ \A p \in Runs :
         /\ run[p].op \notin {"none", "unpack"} => tarball # "none"
         /\ At(p, "load", "added") => results = "whole"
    /\ outcome = "done" =>
         /\ tarball # "none" /\ results = "whole" /\ Holds("whole", "whole")
         /\ \A p \in Runs : run[p].op \in {"none", "unpack", "is_diffed", "load"}

IInv ==
  TypeOK /\ SingleInv /\ RemovedInv /\ DiffInv /\ CleanInv /\ VersionInv /\ DoneInv

USE BoundsAssumption, MethodsAssumption, FaultsAssumption
USE DEF IsErrata, At, Step, Idle, Holds, Alone, Retryable

-----------------------------------------------------------------------------
LEMMA StartIInv ==
  ASSUME IInv, NEW p \in Runs, Start(p)
  PROVE  IInv'
<1> USE DEF IInv, TypeOK, SingleInv, RemovedInv, Start, Active, Fault
<1>1. TypeOK'
  <2>1. faults' \subseteq Faults
    OBVIOUS
  <2>2. runs' \in 0 .. MaxRuns
    OBVIOUS
  <2> QED BY <2>1, <2>2 DEF Contents, Diffs, Ops
<1>2. SingleInv' /\ RemovedInv'
  OBVIOUS
<1>3. DiffInv'
  BY DEF Contents, Diffs, Ops, DiffInv
<1>4. CleanInv'
  BY DEF Contents, Diffs, Ops, DiffInv, CleanInv, Calm, VersionInv
<1>5. VersionInv'
  BY DEF Contents, Diffs, Ops, DiffInv, VersionInv
<1>6. DoneInv'
  BY DEF Contents, Diffs, Ops, DiffInv, VersionInv, DoneInv
<1> QED BY <1>1, <1>2, <1>3, <1>4, <1>5, <1>6

LEMMA UnpackIInv ==
  ASSUME IInv, NEW p \in Runs, Unpack(p)
  PROVE  IInv'
<1> USE DEF IInv, TypeOK, Contents, Diffs, Ops, SingleInv, RemovedInv, Unpack,
            Goto, Go, Raise, End, Stop, Fault, files
<1>1. TypeOK' /\ SingleInv' /\ RemovedInv'
  OBVIOUS
<1>2. DiffInv'
  BY DEF DiffInv
<1>3. CleanInv'
  BY DEF DiffInv, CleanInv, Calm, VersionInv
<1>4. VersionInv'
  BY DEF DiffInv, VersionInv
<1>5. DoneInv'
  BY DEF DiffInv, VersionInv, DoneInv
<1> QED BY <1>1, <1>2, <1>3, <1>4, <1>5

LEMMA ExtractIInv ==
  ASSUME IInv, NEW p \in Runs, Extract(p)
  PROVE  IInv'
<1> USE DEF IInv, TypeOK, Contents, Diffs, Ops, SingleInv, RemovedInv, Extract,
            Goto, Go, Raise, End, Stop, Fault, files
<1>1. TypeOK' /\ SingleInv' /\ RemovedInv'
  OBVIOUS
<1>2. DiffInv'
  BY DEF DiffInv
<1>3. CleanInv'
  BY DEF DiffInv, CleanInv, Calm, VersionInv
<1>4. VersionInv'
  BY DEF DiffInv, VersionInv
<1>5. DoneInv'
  BY DEF DiffInv, VersionInv, DoneInv
<1> QED BY <1>1, <1>2, <1>3, <1>4, <1>5

LEMMA ExtractedIInv ==
  ASSUME IInv, NEW p \in Runs, Extracted(p)
  PROVE  IInv'
<1> USE DEF IInv, TypeOK, Contents, Diffs, Ops, SingleInv, RemovedInv, Extracted,
            Goto, Go, Raise, End, Stop, Fault, files
<1>1. TypeOK' /\ SingleInv' /\ RemovedInv'
  OBVIOUS
<1>2. DiffInv'
  BY DEF DiffInv
<1>3. CleanInv'
  BY DEF DiffInv, CleanInv, Calm, VersionInv
<1>4. VersionInv'
  BY DEF DiffInv, VersionInv
<1>5. DoneInv'
  BY DEF DiffInv, VersionInv, DoneInv
<1> QED BY <1>1, <1>2, <1>3, <1>4, <1>5

LEMMA IsDiffedIInv ==
  ASSUME IInv, NEW p \in Runs, IsDiffed(p)
  PROVE  IInv'
<1> USE DEF IInv, TypeOK, Contents, Diffs, Ops, SingleInv, RemovedInv, IsDiffed,
            Diffed, Goto, Go, Raise, End, Stop, Fault, files
<1>1. TypeOK' /\ SingleInv' /\ RemovedInv'
  OBVIOUS
<1>2. DiffInv'
  BY DEF DiffInv
<1>3. CleanInv'
  BY DEF DiffInv, CleanInv, Calm, VersionInv
<1>4. VersionInv'
  BY DEF DiffInv, VersionInv
<1>5. DoneInv'
  BY DEF DiffInv, VersionInv, DoneInv
<1> QED BY <1>1, <1>2, <1>3, <1>4, <1>5

LEMMA OpenIInv ==
  ASSUME IInv, NEW p \in Runs, NEW d \in Diffs, Open(p, d)
  PROVE  IInv'
<1> USE DEF IInv, TypeOK, Contents, Diffs, Ops, SingleInv, RemovedInv, Open,
            Diffed, Set, Goto, Go, Raise, End, Stop, Fault, files
<1>1. TypeOK' /\ SingleInv' /\ RemovedInv'
  OBVIOUS
<1>2. DiffInv'
  BY DEF DiffInv
<1>3. CleanInv'
  BY DEF DiffInv, CleanInv, Calm, VersionInv
<1>4. VersionInv'
  BY DEF DiffInv, VersionInv
<1>5. DoneInv'
  BY DEF DiffInv, VersionInv, DoneInv
<1> QED BY <1>1, <1>2, <1>3, <1>4, <1>5

LEMMA WriteIInv ==
  ASSUME IInv, NEW p \in Runs, NEW d \in Diffs, Write(p, d)
  PROVE  IInv'
<1> USE DEF IInv, TypeOK, Contents, Diffs, Ops, SingleInv, RemovedInv, Write,
            Diffed, Set, Goto, Go, Raise, End, Stop, Fault, files
<1>1. TypeOK' /\ SingleInv' /\ RemovedInv'
  OBVIOUS
<1>2. DiffInv'
  BY DEF DiffInv
<1>3. CleanInv'
  BY DEF DiffInv, CleanInv, Calm, VersionInv
<1>4. VersionInv'
  BY DEF DiffInv, VersionInv
<1>5. DoneInv'
  BY DEF DiffInv, VersionInv, DoneInv
<1> QED BY <1>1, <1>2, <1>3, <1>4, <1>5

LEMMA TitleIInv ==
  ASSUME IInv, NEW p \in Runs, NEW d \in Diffs, Title(p, d)
  PROVE  IInv'
<1> USE DEF IInv, TypeOK, Contents, Diffs, Ops, SingleInv, RemovedInv, Title,
            Diffed, Set, Goto, Go, Raise, End, Stop, Fault, files
<1>1. TypeOK' /\ SingleInv' /\ RemovedInv'
  OBVIOUS
<1>2. DiffInv'
  BY DEF DiffInv
<1>3. CleanInv'
  BY DEF DiffInv, CleanInv, Calm, VersionInv
<1>4. VersionInv'
  BY DEF DiffInv, VersionInv
<1>5. DoneInv'
  BY DEF DiffInv, VersionInv, DoneInv
<1> QED BY <1>1, <1>2, <1>3, <1>4, <1>5

LEMMA EntitleIInv ==
  ASSUME IInv, NEW p \in Runs, NEW d \in Diffs, Entitle(p, d)
  PROVE  IInv'
<1> USE DEF IInv, TypeOK, Contents, Diffs, Ops, SingleInv, RemovedInv, Entitle,
            Diffed, Set, Goto, Go, Raise, End, Stop, Fault, files
<1>1. TypeOK' /\ SingleInv' /\ RemovedInv'
  OBVIOUS
<1>2. DiffInv'
  BY DEF DiffInv
<1>3. CleanInv'
  BY DEF DiffInv, CleanInv, Calm, VersionInv
<1>4. VersionInv'
  BY DEF DiffInv, VersionInv
<1>5. DoneInv'
  BY DEF DiffInv, VersionInv, DoneInv
<1> QED BY <1>1, <1>2, <1>3, <1>4, <1>5

LEMMA LoadIInv ==
  ASSUME IInv, NEW p \in Runs, Load(p)
  PROVE  IInv'
<1> USE DEF IInv, TypeOK, Contents, Diffs, Ops, SingleInv, RemovedInv, Load, Goto,
            Go, Raise, End, Stop, Fault, files
<1>1. TypeOK' /\ SingleInv' /\ RemovedInv'
  OBVIOUS
<1>2. DiffInv'
  BY DEF DiffInv
<1>3. CleanInv'
  BY DEF DiffInv, CleanInv, Calm, VersionInv
<1>4. VersionInv'
  BY DEF DiffInv, VersionInv
<1>5. DoneInv'
  BY DEF DiffInv, VersionInv, DoneInv
<1> QED BY <1>1, <1>2, <1>3, <1>4, <1>5

LEMMA LoadAddedIInv ==
  ASSUME IInv, NEW p \in Runs, LoadAdded(p)
  PROVE  IInv'
<1> USE DEF IInv, TypeOK, Contents, Diffs, Ops, SingleInv, RemovedInv, LoadAdded,
            Goto, Go, Raise, End, Stop, Fault, files
<1>1. TypeOK' /\ SingleInv' /\ RemovedInv'
  OBVIOUS
<1>2. DiffInv'
  BY DEF DiffInv
<1>3. CleanInv'
  BY DEF DiffInv, CleanInv, Calm, VersionInv
<1>4. VersionInv'
  BY DEF DiffInv, VersionInv
<1>5. DoneInv'
  BY DEF DiffInv, VersionInv, DoneInv
<1> QED BY <1>1, <1>2, <1>3, <1>4, <1>5

LEMMA KilledIInv ==
  ASSUME IInv, NEW p \in Runs, Killed(p)
  PROVE  IInv'
<1> USE DEF IInv, TypeOK, Contents, Diffs, Ops, SingleInv, RemovedInv, Killed,
            Goto, Go, Raise, End, Stop, Fault, files
<1>1. TypeOK' /\ SingleInv' /\ RemovedInv'
  OBVIOUS
<1>2. DiffInv'
  BY DEF DiffInv
<1>3. CleanInv'
  BY DEF DiffInv, CleanInv, Calm, VersionInv
<1>4. VersionInv'
  BY DEF DiffInv, VersionInv
<1>5. DoneInv'
  BY DEF DiffInv, VersionInv, DoneInv
<1> QED BY <1>1, <1>2, <1>3, <1>4, <1>5

LEMMA RemoveBaseIInv ==
  ASSUME IInv, RemoveBase
  PROVE  IInv'
<1> USE DEF IInv, TypeOK, Contents, Diffs, Ops, SingleInv, RemovedInv, RemoveBase,
            Fault
<1>1. TypeOK' /\ SingleInv' /\ RemovedInv'
  OBVIOUS
<1>2. DiffInv'
  BY DEF DiffInv
<1>3. CleanInv'
  BY DEF DiffInv, CleanInv, Calm, VersionInv
<1>4. VersionInv'
  BY DEF DiffInv, VersionInv
<1>5. DoneInv'
  BY DEF DiffInv, VersionInv, DoneInv
<1> QED BY <1>1, <1>2, <1>3, <1>4, <1>5

LEMMA RemoveTaskIInv ==
  ASSUME IInv, RemoveTask
  PROVE  IInv'
<1> USE DEF IInv, TypeOK, Contents, Diffs, Ops, SingleInv, RemovedInv, RemoveTask,
            Fault
<1>1. TypeOK' /\ SingleInv' /\ RemovedInv'
  OBVIOUS
<1>2. DiffInv'
  BY DEF DiffInv
<1>3. CleanInv'
  BY DEF DiffInv, CleanInv, Calm, VersionInv
<1>4. VersionInv'
  BY DEF DiffInv, VersionInv
<1>5. DoneInv'
  BY DEF DiffInv, VersionInv, DoneInv
<1> QED BY <1>1, <1>2, <1>3, <1>4, <1>5

-----------------------------------------------------------------------------
LEMMA InitIInv == Init => IInv
  BY DEF Init, IInv, TypeOK, Contents, Diffs, Ops, SingleInv, RemovedInv, DiffInv, CleanInv,
         Calm, VersionInv, DoneInv

LEMMA NextIInv == IInv /\ [Next]_vars => IInv'
<1> SUFFICES ASSUME IInv, [Next]_vars PROVE IInv'
  OBVIOUS
<1>1. ASSUME NEW p \in Runs, Start(p) PROVE IInv'
  BY <1>1, StartIInv
<1>2. ASSUME NEW p \in Runs, Process(p) PROVE IInv'
  BY <1>2, UnpackIInv, ExtractIInv, ExtractedIInv, IsDiffedIInv, OpenIInv, WriteIInv,
     TitleIInv, EntitleIInv, LoadIInv, LoadAddedIInv DEF Process
<1>3. ASSUME NEW p \in Runs, Killed(p) PROVE IInv'
  BY <1>3, KilledIInv
<1>4. CASE RemoveBase
  BY <1>4, RemoveBaseIInv
<1>5. CASE RemoveTask
  BY <1>5, RemoveTaskIInv
<1>6. CASE UNCHANGED vars
  BY <1>6 DEF vars, files, IInv, TypeOK, SingleInv, RemovedInv, DiffInv, CleanInv, Calm,
              VersionInv, DoneInv
<1> QED BY <1>1, <1>2, <1>3, <1>4, <1>5, <1>6 DEF Next

(* What the files of a task hold follows from the runs that wrote them.    *)
THEOREM Inductive == Spec => []IInv
  BY InitIInv, NextIInv, PTL DEF Spec

(* The files of a task have contents, and a process an operation.          *)
THEOREM TypeCorrect == Spec => []TypeOK
<1>1. IInv => TypeOK
  BY DEF IInv
<1> QED BY <1>1, Inductive, PTL

(* TaskResultsProcessor leaves nothing behind that makes later runs fail,  *)
(* after any number of runs on an incomplete upload or a removed directory. *)
THEOREM AlwaysRetryable == Spec => []RetryWorks
<1>1. IInv => RetryWorks
  <2> SUFFICES ASSUME IInv, Active = {}, faults \subseteq {"upload", "removed"}
               PROVE  Retryable
    BY DEF RetryWorks
  <2>1. Calm
    BY DEF Calm
  <2> QED BY <2>1 DEF IInv, CleanInv, Active
<1> QED BY <1>1, Inductive, PTL

-----------------------------------------------------------------------------
(* The diffs are there when the outcome becomes "done".                     *)
LEMMA StepDone ==
  ASSUME IInv, Next, outcome # "done", outcome' = "done", Alone
  PROVE  \/ \A d \in Diffs : diff'[d] = "whole"
         \/ ~IsErrata /\ faults' \cap {"csdiff", "base_removed"} # {}
<1> USE DEF IInv, TypeOK, Contents, Diffs, Ops, SingleInv, RemovedInv, DiffInv, VersionInv,
            Goto, Go, Raise, End, Stop, Fault, files
<1>1. PICK p \in Runs : Process(p)
  BY DEF Next, Start, Killed, RemoveBase, RemoveTask
<1>2. CASE IsDiffed(p)
  BY <1>2 DEF IsDiffed, Diffed
<1>3. ASSUME NEW d \in Diffs, Open(p, d) PROVE FALSE
  BY <1>3 DEF Open, Diffed, Set
<1>4. ASSUME NEW d \in Diffs, Write(p, d)
      PROVE  ~IsErrata /\ faults' \cap {"csdiff", "base_removed"} # {}
  BY <1>4 DEF Write, Diffed, Set
<1>5. ASSUME NEW d \in Diffs, Title(p, d) PROVE FALSE
  BY <1>5 DEF Title, Set
<1>6. CASE \E d \in Diffs : Entitle(p, d)
  BY <1>6 DEF Entitle, Diffed, Set
<1>7. CASE LoadAdded(p)
  BY <1>7 DEF LoadAdded
<1>8. CASE Unpack(p) \/ Extract(p) \/ Extracted(p) \/ Load(p)
  BY <1>8 DEF Unpack, Extract, Extracted, Load
<1> QED BY <1>1, <1>2, <1>3, <1>4, <1>5, <1>6, <1>7, <1>8 DEF Process

(* A verdict, and the end of a client's task, rest on whole diffs.         *)
THEOREM DoneAlwaysHasDiffs == Spec => DoneHasDiffs
<1>1. ASSUME IInv, [Next]_vars
      PROVE  [outcome # "done" /\ outcome' = "done" /\ "overlap" \notin faults =>
                \/ \A d \in Diffs : diff'[d] = "whole"
                \/ ~IsErrata /\ faults' \cap {"csdiff", "base_removed"} # {}]_vars
  BY <1>1, StepDone DEF vars
<1> QED BY <1>1, Inductive, PTL DEF Spec, DoneHasDiffs

(* A run that overlaps with none and loses no file does not fail when there *)
(* is a verdict already.                                                   *)
LEMMA StepStands ==
  ASSUME IInv, Next, outcome = "done", outcome' # "done"
  PROVE  faults' \cap {"overlap", "removed"} # {}
<1> SUFFICES ASSUME "overlap" \notin faults', "removed" \notin faults'
             PROVE  FALSE
  OBVIOUS
<1> USE DEF IInv, TypeOK, Contents, Diffs, Ops, SingleInv, RemovedInv, DiffInv, VersionInv,
            DoneInv, Goto, Go, Raise, End, Stop, Fault, files
<1>1. PICK p \in Runs : Process(p) \/ Killed(p)
  BY DEF Next, Start, RemoveBase, RemoveTask
<1>2. CASE Unpack(p) \/ Extract(p) \/ Extracted(p) \/ Load(p) \/ LoadAdded(p)
  BY <1>2 DEF Unpack, Extract, Extracted, Load, LoadAdded
<1>3. CASE IsDiffed(p)
  BY <1>3 DEF IsDiffed, Diffed
<1>4. CASE \E d \in Diffs : Open(p, d) \/ Write(p, d) \/ Title(p, d) \/ Entitle(p, d)
  BY <1>4 DEF Open, Write, Title, Entitle, Diffed, Set
<1>5. CASE Killed(p)
  BY <1>5 DEF Killed
<1> QED BY <1>1, <1>2, <1>3, <1>4, <1>5 DEF Process

(* A scan that has a verdict keeps it when it is finished once more.       *)
THEOREM VerdictAlwaysStands == Spec => VerdictStands
<1>1. ASSUME IInv, [Next]_vars
      PROVE  [outcome = "done" /\ outcome' # "done" =>
                faults' \cap {"overlap", "removed"} # {}]_vars
  BY <1>1, StepStands DEF vars
<1> QED BY <1>1, Inductive, PTL DEF Spec, VerdictStands
================================================================================
