-------------------------- MODULE VersionLifecycle --------------------------
(***************************************************************************)
(* The life of the version rows of one model, in apps/api/src:              *)
(* routes/models.ts (createVersion, processVersion, reconvert, delete) and  *)
(* server.ts (restart recovery).                                            *)
(*                                                                          *)
(* The API is one Node process: a handler runs without interruption between *)
(* two awaits, so every awaited database or file call is a step of its own. *)
(* A task is one such flow of control: the flow that a client's request     *)
(* starts, which ends by becoming the conversion it kicks off, or the       *)
(* conversion that the start-up sequence runs for a version.                *)
(***************************************************************************)
EXTENDS Integers, FiniteSets

CONSTANTS
    Clients,        \* request slots: at most one flow each
    Versions,       \* version ids; an id is never used twice
    NoVersion,      \* "no version wrote this directory"
    Batches,        \* element batches of a meta.json, numbered 1..Batches
    MaxNumber,      \* bound on versionNumber
    MaxCrashes,     \* bound on process crashes
    Outcomes,       \* what the conversion service may answer: {"ok", "fail"}
    Overlap         \* may requests and conversions of one version overlap?

ASSUME ConstantsOK ==
    /\ Clients \cap Versions = {}
    /\ NoVersion \notin Versions
    /\ Batches \in Nat
    /\ MaxNumber \in Nat
    /\ MaxCrashes \in Nat
    /\ Outcomes \subseteq {"ok", "fail"}
    /\ Overlap \in BOOLEAN

Tasks   == Clients \cup Versions   \* Versions: the start-up's conversions
Numbers == 1..MaxNumber

Settled  == {"READY", "FAILED"}
InFlight == {"PENDING", "PROCESSING"}
Live     == Settled \cup InFlight
Statuses == Live \cup {"none", "deleted"}

\* A request handler that has not answered yet; a processVersion that has
\* not returned yet, before and after it marked the row PROCESSING.
Handlers   == {"create", "clear", "reset", "del_elements", "del_row", "del_files"}
Starting   == {"start", "claim"}
Converting == {"convert", "meta", "import", "fail", "abort"}
PCs == {"idle"} \cup Handlers \cup Starting \cup Converting

VARIABLES
    status,     \* Version.status; "none" before the row, "deleted" after it
    number,     \* Version.versionNumber, which also names the row's directory
    progress,   \* Version.progress
    elements,   \* batches of Element rows stored for the version
    artifacts,  \* the version whose conversion wrote directory v<number>
    writes,     \* progress writes in flight, as version ids
    task,       \* the flows of control
    phase,      \* of the process: down, listening (before findMany), serving
    crashes

vars == <<status, number, progress, elements, artifacts, writes, task, phase,
          crashes>>

\* A flow's locals: the version it is about, the storage key it read (the
\* directory's number), and a counter or a number read earlier.
Flow(pc, v, dir, k) == [pc |-> pc, v |-> v, dir |-> dir, k |-> k]
Idle == Flow("idle", NoVersion, 0, 0)

FlowType == [pc : PCs, v : Versions \cup {NoVersion}, dir : 0..MaxNumber, k : Nat]

TypeOK ==
    /\ status \in [Versions -> Statuses]
    /\ number \in [Versions -> 0..MaxNumber]
    /\ progress \in [Versions -> {0, 1, 50, 100}]
    /\ elements \in [Versions -> SUBSET (1..Batches)]
    /\ artifacts \in [Numbers -> Versions \cup {NoVersion}]
    /\ writes \subseteq Versions
    /\ task \in [Tasks -> FlowType]
    /\ phase \in {"down", "listening", "serving"}
    /\ crashes \in 0..MaxCrashes

Init ==
    /\ status = [v \in Versions |-> "none"]
    /\ number = [v \in Versions |-> 0]
    /\ progress = [v \in Versions |-> 0]
    /\ elements = [v \in Versions |-> {}]
    /\ artifacts = [n \in Numbers |-> NoVersion]
    /\ writes = {}
    /\ task = [t \in Tasks |-> Idle]
    /\ phase = "down"
    /\ crashes = 0

Row(v) == status[v] \in Live
At(t, pc) == task[t].pc = pc
Goto(t, pc) ==
    task' = [task EXCEPT ![t] = Flow(pc, task[t].v, task[t].dir, task[t].k)]
Stop(t) == task' = [task EXCEPT ![t] = Idle]
Works(t, v) == task[t].pc # "idle" /\ task[t].v = v

-----------------------------------------------------------------------------
(* Environment.  With Overlap = FALSE the users are considerate: they wait   *)
(* for start-up to finish, send one request at a time but uploads together,  *)
(* and leave a version alone while it converts.  The code enforces none of   *)
(* that.                                                                     *)

Undisturbed(v) == Overlap \/ \A t \in Tasks : ~ Works(t, v)
MayRequest(c, beside) ==
    /\ phase # "down"
    /\ At(c, "idle")
    /\ \/ Overlap
       \/ phase = "serving" /\ \A t \in Tasks : task[t].pc \notin Handlers \ beside

-----------------------------------------------------------------------------
(* createVersion: read the newest number, insert one above it; a number that *)
(* another request took meanwhile violates @@unique and is retried.          *)

\* findFirst ... orderBy versionNumber desc, 0 without a row.
Newest(n) ==
    /\ \A v \in Versions : Row(v) => number[v] <= n
    /\ n = 0 \/ \E v \in Versions : Row(v) /\ number[v] = n

UploadReadNewest(c) ==
    /\ MayRequest(c, {"create"})
    /\ \E n \in 0..MaxNumber :
          /\ Newest(n)
          /\ task' = [task EXCEPT ![c] = Flow("create", NoVersion, 0, n)]
    /\ UNCHANGED <<status, number, progress, elements, artifacts, writes,
                   phase, crashes>>

\* Mutant: the table without @@unique([modelId, versionNumber]).
NumberTakenNoIndex(n) == FALSE

NumberTaken(n) == \E v \in Versions : Row(v) /\ number[v] = n

UploadCreate(c) ==
    LET n == task[c].k + 1 IN
    /\ At(c, "create")
    /\ n \in Numbers
    /\ ~ NumberTaken(n)
    /\ \E v \in Versions :
          /\ status[v] = "none"
          /\ status' = [status EXCEPT ![v] = "PENDING"]
          /\ number' = [number EXCEPT ![v] = n]
          /\ task' = [task EXCEPT ![c] = Flow("start", v, 0, 0)]
    /\ UNCHANGED <<progress, elements, artifacts, writes, phase, crashes>>

\* The collision: read again, or give up with 409 after the fifth attempt.
UploadCollide(c) ==
    /\ At(c, "create")
    /\ NumberTaken(task[c].k + 1)
    /\ \/ \E n \in 0..MaxNumber : Newest(n) /\ task' = [task EXCEPT ![c] = Flow("create", NoVersion, 0, n)]
       \/ Stop(c)
    /\ UNCHANGED <<status, number, progress, elements, artifacts, writes,
                   phase, crashes>>

-----------------------------------------------------------------------------
(* POST /versions/:versionId/reconvert                                       *)

ReconvertRead(c, v) ==
    /\ MayRequest(c, {})
    /\ Undisturbed(v)
    /\ status[v] \in Settled            \* 404 without a row, 409 in flight
    /\ task' = [task EXCEPT ![c] = Flow("clear", v, 0, 0)]
    /\ UNCHANGED <<status, number, progress, elements, artifacts, writes,
                   phase, crashes>>

\* Mutant: reconvert keeps the old Element rows.
ReconvertClearKeeps(c) ==
    /\ At(c, "clear")
    /\ Goto(c, "reset")
    /\ UNCHANGED <<status, number, progress, elements, artifacts, writes, phase,
                   crashes>>

ReconvertClear(c) ==
    /\ At(c, "clear")
    /\ elements' = [elements EXCEPT ![task[c].v] = {}]
    /\ Goto(c, "reset")
    /\ UNCHANGED <<status, number, progress, artifacts, writes, phase,
                   crashes>>

ReconvertReset(c) ==
    LET v == task[c].v IN
    /\ At(c, "reset")
    /\ IF Row(v) THEN /\ status' = [status EXCEPT ![v] = "PENDING"]
                      /\ Goto(c, "start")
                 ELSE Stop(c) /\ UNCHANGED status
    /\ UNCHANGED <<number, progress, elements, artifacts, writes, phase,
                   crashes>>

-----------------------------------------------------------------------------
(* DELETE /versions/:versionId: Element rows, the row, then its files.       *)

DeleteRead(c, v) ==
    /\ MayRequest(c, {})
    /\ Undisturbed(v)
    /\ Row(v)
    /\ task' = [task EXCEPT ![c] = Flow("del_elements", v, number[v], 0)]
    /\ UNCHANGED <<status, number, progress, elements, artifacts, writes,
                   phase, crashes>>

\* Mutant: the files go before the row.
DeleteElementsAndFiles(c) ==
    /\ At(c, "del_elements")
    /\ elements' = [elements EXCEPT ![task[c].v] = {}]
    /\ artifacts' = [artifacts EXCEPT ![task[c].dir] = NoVersion]
    /\ Goto(c, "del_row")
    /\ UNCHANGED <<status, number, progress, writes, phase, crashes>>

DeleteElements(c) ==
    /\ At(c, "del_elements")
    /\ elements' = [elements EXCEPT ![task[c].v] = {}]
    /\ Goto(c, "del_row")
    /\ UNCHANGED <<status, number, progress, artifacts, writes, phase,
                   crashes>>

\* The row's deletion cascades to its Element rows; a missing row is an error.
DeleteRow(c) ==
    LET v == task[c].v IN
    /\ At(c, "del_row")
    /\ IF Row(v) THEN /\ status' = [status EXCEPT ![v] = "deleted"]
                      /\ number' = [number EXCEPT ![v] = 0]
                      /\ progress' = [progress EXCEPT ![v] = 0]
                      /\ elements' = [elements EXCEPT ![v] = {}]
                      /\ Goto(c, "del_files")
                 ELSE Stop(c) /\ UNCHANGED <<status, number, progress, elements>>
    /\ UNCHANGED <<artifacts, writes, phase, crashes>>

DeleteFiles(c) ==
    /\ At(c, "del_files")
    /\ artifacts' = [artifacts EXCEPT ![task[c].dir] = NoVersion]
    /\ Stop(c)
    /\ UNCHANGED <<status, number, progress, elements, writes, phase,
                   crashes>>

-----------------------------------------------------------------------------
(* processVersion                                                            *)

\* findUnique: only a PENDING row is converted.
Start(t) ==
    /\ At(t, "start")
    /\ IF status[task[t].v] = "PENDING"
       THEN task' = [task EXCEPT ![t] =
                       Flow("claim", task[t].v, number[task[t].v], 0)]
       ELSE Stop(t)
    /\ UNCHANGED <<status, number, progress, elements, artifacts, writes,
                   phase, crashes>>

\* The update is by id alone; without a row it throws and the flow ends.
Claim(t) ==
    LET v == task[t].v IN
    /\ At(t, "claim")
    /\ IF Row(v) THEN /\ status' = [status EXCEPT ![v] = "PROCESSING"]
                      /\ progress' = [progress EXCEPT ![v] = 1]
                      /\ Goto(t, "convert")
                 ELSE Stop(t) /\ UNCHANGED <<status, progress>>
    /\ UNCHANGED <<number, elements, artifacts, writes, phase, crashes>>

\* storeProgress: the write is not awaited (the event it emits is not state).
StoreProgress(t) ==
    /\ At(t, "convert")
    /\ writes' = writes \cup {task[t].v}
    /\ UNCHANGED <<status, number, progress, elements, artifacts, task, phase,
                   crashes>>

\* Mutant: update by id, without the status guard.
ProgressLandsUnguarded(v) ==
    /\ v \in writes
    /\ writes' = writes \ {v}
    /\ progress' = [progress EXCEPT ![v] = 50]
    /\ UNCHANGED <<status, number, elements, artifacts, task, phase, crashes>>

\* updateMany where status = PROCESSING, whenever the write lands.
ProgressLands(v) ==
    /\ v \in writes
    /\ writes' = writes \ {v}
    /\ progress' = IF status[v] = "PROCESSING"
                   THEN [progress EXCEPT ![v] = 50] ELSE progress
    /\ UNCHANGED <<status, number, elements, artifacts, task, phase,
                   crashes>>

ConvertOk(t) ==
    /\ At(t, "convert")
    /\ "ok" \in Outcomes
    /\ artifacts' = [artifacts EXCEPT ![task[t].dir] = task[t].v]
    /\ Goto(t, "meta")
    /\ UNCHANGED <<status, number, progress, elements, writes, phase,
                   crashes>>

ConvertFail(t) ==
    /\ At(t, "convert")
    /\ "fail" \in Outcomes
    /\ Goto(t, "fail")
    /\ UNCHANGED <<status, number, progress, elements, artifacts, writes,
                   phase, crashes>>

MarkFailed(t) ==
    LET v == task[t].v IN
    /\ At(t, "fail")
    /\ IF Row(v) THEN /\ status' = [status EXCEPT ![v] = "FAILED"]
                 ELSE UNCHANGED <<status>>
    /\ Stop(t)
    /\ UNCHANGED <<number, progress, elements, artifacts, writes, phase, crashes>>

ReadMeta(t) ==
    /\ At(t, "meta")
    /\ IF artifacts[task[t].dir] = NoVersion
       THEN Goto(t, "abort")
       ELSE task' = [task EXCEPT ![t] = Flow("import", task[t].v, task[t].dir, 1)]
    /\ UNCHANGED <<status, number, progress, elements, artifacts, writes,
                   phase, crashes>>

\* createMany of one batch: fails on a batch already stored
\* (@@unique([versionId, expressID])) and on a row that is gone.
ImportBatch(t) ==
    LET v == task[t].v
        k == task[t].k
    IN
    /\ At(t, "import")
    /\ k <= Batches
    /\ IF Row(v) /\ k \notin elements[v]
       THEN /\ elements' = [elements EXCEPT ![v] = @ \cup {k}]
            /\ task' = [task EXCEPT ![t] = Flow("import", v, task[t].dir, k + 1)]
       ELSE Goto(t, "abort") /\ UNCHANGED elements
    /\ UNCHANGED <<status, number, progress, artifacts, writes, phase,
                   crashes>>

MarkReady(t) ==
    LET v == task[t].v IN
    /\ At(t, "import")
    /\ task[t].k > Batches
    /\ IF Row(v) THEN /\ status' = [status EXCEPT ![v] = "READY"]
                      /\ progress' = [progress EXCEPT ![v] = 100]
                 ELSE UNCHANGED <<status, progress>>
    /\ Stop(t)
    /\ UNCHANGED <<number, elements, artifacts, writes, phase, crashes>>

\* Mutant: the catch block only logs.
AbortLogsOnly(t) ==
    /\ At(t, "abort")
    /\ Stop(t)
    /\ UNCHANGED <<status, number, progress, elements, artifacts, writes, phase,
                   crashes>>

\* The catch block: FAILED; a second error is swallowed.
Abort(t) ==
    LET v == task[t].v IN
    /\ At(t, "abort")
    /\ status' = IF Row(v) THEN [status EXCEPT ![v] = "FAILED"] ELSE status
    /\ Stop(t)
    /\ UNCHANGED <<number, progress, elements, artifacts, writes, phase,
                   crashes>>

-----------------------------------------------------------------------------
(* server.ts: recover, listen, then re-run what is pending.                  *)

\* Mutants: recovery of PENDING rows only; recovery of every row.
RecoverPendingOnly ==
    /\ phase = "down"
    /\ phase' = "listening"
    /\ UNCHANGED <<status, number, progress, elements, artifacts, writes, task,
                   crashes>>

RecoverEveryRow ==
    /\ phase = "down"
    /\ phase' = "listening"
    /\ status' = [v \in Versions |-> IF Row(v) THEN "PENDING" ELSE status[v]]
    /\ UNCHANGED <<number, progress, elements, artifacts, writes, task, crashes>>

Recover ==
    /\ phase = "down"
    /\ phase' = "listening"
    /\ status' = [v \in Versions |->
                    IF status[v] \in InFlight THEN "PENDING" ELSE status[v]]
    /\ UNCHANGED <<number, progress, elements, artifacts, writes, task,
                   crashes>>

RequeuePending ==
    /\ phase = "listening"
    /\ phase' = "serving"
    /\ task' = [t \in Tasks |->
                  IF t \in Versions /\ status[t] = "PENDING"
                  THEN Flow("start", t, 0, 0) ELSE task[t]]
    /\ UNCHANGED <<status, number, progress, elements, artifacts, writes,
                   crashes>>

Crash ==
    /\ phase # "down"
    /\ crashes < MaxCrashes
    /\ crashes' = crashes + 1
    /\ phase' = "down"
    /\ task' = [t \in Tasks |-> Idle]
    /\ writes' = {}
    /\ UNCHANGED <<status, number, progress, elements, artifacts>>

-----------------------------------------------------------------------------
Process(t) ==
    \/ Start(t) \/ Claim(t) \/ StoreProgress(t)
    \/ ConvertOk(t) \/ ConvertFail(t) \/ MarkFailed(t)
    \/ ReadMeta(t) \/ ImportBatch(t) \/ MarkReady(t) \/ Abort(t)

Handle(c) ==
    \/ UploadCreate(c) \/ UploadCollide(c)
    \/ ReconvertClear(c) \/ ReconvertReset(c)
    \/ DeleteElements(c) \/ DeleteRow(c) \/ DeleteFiles(c)

Request(c) ==
    \/ UploadReadNewest(c)
    \/ \E v \in Versions : ReconvertRead(c, v) \/ DeleteRead(c, v)

Next ==
    \/ \E c \in Clients : Request(c) \/ Handle(c)
    \/ \E t \in Tasks : Process(t)
    \/ \E v \in Versions : ProgressLands(v)
    \/ Recover \/ RequeuePending \/ Crash

Spec == Init /\ [][Next]_vars

\* A started process keeps running its event loop, and every database and file
\* call returns.  Nothing makes a user send a request or the process crash,
\* and nothing makes the conversion service answer: a submit to a slot of the
\* pool whose thread has died is never answered (ConversionPool).
Advance(t) == Process(t) /\ task' # task /\ ~ At(t, "convert")
Fairness ==
    /\ WF_vars(Recover)
    /\ WF_vars(RequeuePending)
    /\ \A c \in Clients : WF_vars(Handle(c))
    /\ \A t \in Tasks : WF_vars(Advance(t))
    /\ \A v \in Versions : WF_vars(ProgressLands(v))

FairSpec == Spec /\ Fairness

-----------------------------------------------------------------------------
(* Properties                                                                *)

Owned(v, pcs) == \E t \in Tasks : task[t].v = v /\ task[t].pc \in pcs

\* No conversion is abandoned: while the server serves, every PENDING row has a
\* processVersion that has yet to mark it and every PROCESSING row has one
\* that will settle it, whatever requests, duplicate runs and crashes
\* interleave.  (Anything else could not even be reconverted: 409.)
NoAbandonedVersion ==
    \A v \in Versions :
       /\ status[v] = "PENDING" /\ phase = "serving" => Owned(v, Starting)
       /\ status[v] = "PROCESSING" /\ phase # "down" => Owned(v, Converting)

\* A late progress write never clobbers the final progress of a READY row
\* (the comment at models.ts:163-165).
LateProgressHarmless ==
    \A v \in Versions : status[v] = "READY" => progress[v] = 100

\* A READY version that no request is working on has all its elements.
ReadyHasAllElements ==
    \A v \in Versions :
       status[v] = "READY" /\ (\A t \in Tasks : ~ Works(t, v))
          => elements[v] = 1..Batches

\* No conversion dies in processVersion's catch block: with the service
\* answering, the element import and the final update always go through.
ImportNeverAborts == \A t \in Tasks : ~ At(t, "abort")

\* Without a crash both hold, whatever was converted and reconverted before:
\* an import never meets the rows of an earlier one.
ImportsAreWhole == crashes = 0 => ReadyHasAllElements /\ ImportNeverAborts

\* Two versions of the model never share a number, hence a directory.
NumbersUnique ==
    \A v, w \in Versions :
       Row(v) /\ Row(w) /\ number[v] = number[w] => v = w

\* The files of a READY version do not change while it stays READY.
ReadyArtifactsImmutable ==
    [][\A v \in Versions :
          status[v] = "READY" /\ status'[v] = "READY"
             => artifacts'[number[v]] = artifacts[number[v]]]_vars

\* A version that is PENDING or PROCESSING is settled (or deleted) later, unless
\* one flow waits for ever for the answer to a submit of it.
Unanswered(t, v) == At(t, "convert") /\ task[t].v = v
EverySubmissionSettles ==
    \A v \in Versions :
       (status[v] \in InFlight)
          ~> (status[v] \notin InFlight \/ \E t \in Tasks : []Unanswered(t, v))

\* The rows go through the documented states only (docs/architecture.md, 2.2).
Documented == INSTANCE VersionStatus WITH Versions <- Versions, status <- status
FollowsStatusMachine == Documented!Spec
=============================================================================
