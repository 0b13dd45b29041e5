---------------------------- MODULE NativeWorker ----------------------------
(***************************************************************************)
(* The native conversion engine: the API's client                           *)
(* (apps/api/src/conversion/nativeClient.ts) and the container's job server *)
(* (docker/ifcopenshell-worker/worker.py), which runs one subprocess per    *)
(* accepted job under one JobManager thread each.                           *)
(*                                                                          *)
(* The server handles requests in threads of their own; a section under     *)
(* _lock is one step.  A call of the client is the request, which the       *)
(* server handles, and the reply; either may be lost.  Percentages and the  *)
(* request checks that answer 4xx are left out (a refusal is one step).     *)
(***************************************************************************)
EXTENDS Naturals, FiniteSets

CONSTANTS
    Jobs,           \* job ids (a version's id: a reconversion reuses it)
    NoJob,
    Managers,       \* JobManager threads, used once each
    MaxConcurrent,  \* MAX_CONCURRENT_JOBS
    MaxStops        \* bound on stops of the container

ASSUME WorkerAssumption ==
    /\ NoJob \notin Jobs
    /\ IsFiniteSet(Managers)
    /\ MaxConcurrent \in Nat \ {0}
    /\ MaxStops \in Nat

\* A job's status in _jobs; "crash" is "failed" with the code NATIVE_CRASH.
Settled == {"done", "failed", "crash"}
Open    == {"queued", "running"}
JobStatus == Settled \cup Open \cup {"absent"}

\* A manager has a slot from "spawn" to "tail".
Slotted    == {"spawn", "watch", "tail"}
ManagerPCs == {"new", "wait", "slot", "over"} \cup Slotted

\* A client run: about to POST, awaiting the reply, sleeping between polls,
\* awaiting a poll's reply.
ClientPCs == {"idle", "post", "sent", "poll", "asked"}
Results   == {"none", "ok", "failed", "crash", "lost", "unavailable", "timeout",
             "thrown"}

VARIABLES
    table,      \* _jobs
    manager,    \* thread id -> where it is, and the job it watches
    running,    \* _running["count"]
    up,         \* is the container up?
    stops,
    client,     \* the job's run: where it is, its consecutiveErrors, the reply
    result,     \* of the job's latest run
    evidence    \* what the job's subprocesses did since its latest POST

vars    == <<table, manager, running, up, stops, client, result, evidence>>
server  == <<table, manager, running, up, stops>>

TypeOK ==
    /\ table \in [Jobs -> JobStatus]
    /\ manager \in [Managers -> [pc : ManagerPCs, job : Jobs \cup {NoJob}]]
    /\ running \in 0..Cardinality(Managers)
    /\ up \in BOOLEAN
    /\ stops \in 0..MaxStops
    /\ client \in [Jobs -> [pc : ClientPCs, errors : 0..2, reply : JobStatus]]
    /\ result \in [Jobs -> Results]
    /\ evidence \in [Jobs -> SUBSET {"ok", "failed", "crash"}]

Run(pc, errors, reply) == [pc |-> pc, errors |-> errors, reply |-> reply]

Init ==
    /\ table = [j \in Jobs |-> "absent"]
    /\ manager = [m \in Managers |-> [pc |-> "new", job |-> NoJob]]
    /\ running = 0
    /\ up = TRUE
    /\ stops = 0
    /\ client = [j \in Jobs |-> Run("idle", 0, "absent")]
    /\ result = [j \in Jobs |-> "none"]
    /\ evidence = [j \in Jobs |-> {}]

-----------------------------------------------------------------------------
(* NativeConversionClient.run                                                *)

Continue(j, pc, errors, reply) ==
    /\ client' = [client EXCEPT ![j] = Run(pc, errors, reply)]
    /\ UNCHANGED result

Return(j, r) ==
    /\ client' = [client EXCEPT ![j] = Run("idle", 0, "absent")]
    /\ result' = [result EXCEPT ![j] = r]

Submit(j) ==
    /\ client[j].pc = "idle"
    /\ client' = [client EXCEPT ![j] = Run("post", 0, "absent")]
    /\ result' = [result EXCEPT ![j] = "none"]
    /\ UNCHANGED <<server, evidence>>

\* Unreachable, refused (400, 401), or the reply is lost.
PostFails(j) ==
    /\ client[j].pc \in {"post", "sent"}
    /\ Return(j, "unavailable")
    /\ UNCHANGED <<server, evidence>>

PostAnswered(j) ==
    /\ client[j].pc = "sent"
    /\ Continue(j, "poll", 0, "absent")
    /\ UNCHANGED <<server, evidence>>

TimeOut(j) ==
    /\ client[j].pc = "poll"
    /\ Return(j, "timeout")
    /\ UNCHANGED <<server, evidence>>

\* Mutant: the errors are not counted.
PollFailsForever(j) ==
    /\ client[j].pc \in {"poll", "asked"}
    /\ Continue(j, "poll", client[j].errors, "absent")
    /\ UNCHANGED <<server, evidence>>

\* The call fails or answers an error: the third in a row gives the job up.
PollFails(j) ==
    /\ client[j].pc \in {"poll", "asked"}
    /\ IF client[j].errors = 2 THEN Return(j, "unavailable")
       ELSE Continue(j, "poll", client[j].errors + 1, "absent")
    /\ UNCHANGED <<server, evidence>>

\* Mutant: every reply but an explicit failure is good.
ReceiveOptimist(j) ==
    LET reply == client[j].reply IN
    /\ client[j].pc = "asked"
    /\ CASE reply = "running" -> Continue(j, "poll", 0, "absent")
         [] reply = "absent"  -> Return(j, "lost")
         [] reply \in {"done", "queued"} -> Return(j, "ok")
         [] reply \in {"failed", "crash"} -> Return(j, reply)
    /\ UNCHANGED <<server, evidence>>

\* 404; running; done; anything else is a failure, with the code it carries.
Receive(j) ==
    LET reply == client[j].reply IN
    /\ client[j].pc = "asked"
    /\ CASE reply = "running" -> Continue(j, "poll", 0, "absent")
         [] reply = "absent"  -> Return(j, "lost")
         [] reply = "done"    -> Return(j, "ok")
         [] reply \in {"queued", "failed"} -> Return(j, "failed")
         [] reply = "crash"   -> Return(j, "crash")
    /\ UNCHANGED <<server, evidence>>

\* A good answer whose body breaks off: res.json() throws, out of run().
BodyBreaks(j) ==
    /\ client[j].pc = "asked" /\ client[j].reply # "absent"
    /\ Return(j, "thrown")
    /\ UNCHANGED <<server, evidence>>

-----------------------------------------------------------------------------
(* The request handlers.                                                     *)

\* POST /convert: an open job is left as it is; else a new manager starts.
HandlePost(j) ==
    /\ up
    /\ client[j].pc = "post"
    /\ IF table[j] \in Open THEN UNCHANGED <<table, manager>>
       ELSE \E m \in Managers :
               /\ manager[m].pc = "new"
               /\ table' = [table EXCEPT ![j] = "queued"]
               /\ manager' = [manager EXCEPT ![m] = [pc |-> "wait", job |-> j]]
    /\ evidence' = [evidence EXCEPT ![j] = {}]
    /\ Continue(j, "sent", 0, "absent")
    /\ UNCHANGED <<running, up, stops>>

\* GET /jobs/{id}
HandleGet(j) ==
    /\ up
    /\ client[j].pc = "poll"
    /\ Continue(j, "asked", client[j].errors, table[j])
    /\ UNCHANGED <<server, evidence>>

-----------------------------------------------------------------------------
(* JobManager.run                                                            *)

Move(m, from, to) ==
    /\ manager[m].pc = from
    /\ manager' = [manager EXCEPT ![m] = [pc |-> to, job |-> manager[m].job]]

\* _wait_for_slot returns: the lock is released before the slot is taken.
FindSlot(m) ==
    /\ Move(m, "wait", "slot")
    /\ running < MaxConcurrent
    /\ UNCHANGED <<table, running, up, stops, client, result, evidence>>

TakeSlot(m) ==
    /\ Move(m, "slot", "spawn")
    /\ running' = running + 1
    /\ table' = [table EXCEPT ![manager[m].job] = "running"]
    /\ UNCHANGED <<up, stops, client, result, evidence>>

Spawn(m) ==
    /\ Move(m, "spawn", "watch")
    /\ UNCHANGED <<table, running, up, stops, client, result, evidence>>

Saw(m, what) ==
    evidence' = [evidence EXCEPT ![manager[m].job] = @ \cup {what}]

\* Mutant: a failed Popen keeps its slot.
SpawnFailsKeepsSlot(m) ==
    /\ Move(m, "spawn", "over")
    /\ table' = [table EXCEPT ![manager[m].job] = "crash"]
    /\ Saw(m, "crash")
    /\ UNCHANGED <<running, up, stops, client, result>>

SpawnFails(m) ==
    /\ Move(m, "spawn", "over")
    /\ running' = running - 1
    /\ table' = [table EXCEPT ![manager[m].job] = "crash"]
    /\ Saw(m, "crash")
    /\ UNCHANGED <<up, stops, client, result>>

\* The result line, then the end of the output: run_job's own catch-all
\* reports a crash by its result.
ResultLine(m) ==
    /\ Move(m, "watch", "tail")
    /\ \E what \in {"ok", "failed", "crash"} :
          /\ Saw(m, what)
          /\ table' = [table EXCEPT ![manager[m].job] =
                          IF what = "ok" THEN "done" ELSE what]
    /\ UNCHANGED <<running, up, stops, client, result>>

\* The subprocess is killed before it wrote its result.
Killed(m) ==
    /\ Move(m, "watch", "tail")
    /\ Saw(m, "crash")
    /\ UNCHANGED <<table, running, up, stops, client, result>>

\* After proc.wait: whatever the job's status is now, unless it is settled.
Tail(m) ==
    /\ Move(m, "tail", "over")
    /\ running' = running - 1
    /\ table' = IF table[manager[m].job] \in {"done", "failed", "crash"} THEN table
                ELSE [table EXCEPT ![manager[m].job] = "crash"]
    /\ UNCHANGED <<up, stops, client, result, evidence>>

\* The container stops, with every thread and subprocess, and starts again.
Stop ==
    /\ up
    /\ stops < MaxStops
    /\ stops' = stops + 1
    /\ up' = FALSE
    /\ table' = [j \in Jobs |-> "absent"]
    /\ manager' = [m \in Managers |->
          IF manager[m].pc = "new" THEN manager[m]
          ELSE [pc |-> "over", job |-> manager[m].job]]
    /\ running' = 0
    /\ UNCHANGED <<client, result, evidence>>

Restart ==
    /\ ~ up
    /\ up' = TRUE
    /\ UNCHANGED <<table, manager, running, stops, client, result, evidence>>

-----------------------------------------------------------------------------
Call(j) == PostFails(j) \/ HandlePost(j) \/ PostAnswered(j)
           \/ HandleGet(j) \/ PollFails(j) \/ Receive(j) \/ BodyBreaks(j)
Manage(m) == FindSlot(m) \/ TakeSlot(m) \/ Spawn(m) \/ SpawnFails(m)
             \/ ResultLine(m) \/ Killed(m) \/ Tail(m)

Next ==
    \/ \E j \in Jobs : Submit(j) \/ Call(j) \/ TimeOut(j)
    \/ \E m \in Managers : Manage(m)
    \/ Stop \/ Restart

Spec == Init /\ [][Next]_vars

\* Calls return or fail, threads run, and subprocesses end (they do not fill
\* the pipe of their standard error, which nobody reads before they end).
\* No fairness of TimeOut: the four hours never have to pass.
Fairness ==
    /\ \A j \in Jobs : WF_vars(Call(j))
    /\ \A m \in Managers : WF_vars(Manage(m))

FairSpec == Spec /\ Fairness

-----------------------------------------------------------------------------
(* Properties                                                                *)

\* The slot counter is exact on every path of a manager, the failed spawn
\* included: a leak would queue every later job forever.
CountIsExact == running = Cardinality({m \in Managers : manager[m].pc \in Slotted})

\* A run succeeds only after a subprocess of its job ended well since its
\* POST: a reply is never that of an earlier run of the same job id.
OkMeansProduced == \A j \in Jobs : result[j] = "ok" => "ok" \in evidence[j]

\* An accepted job is settled, or lost with the container.
OpenJobsSettle == \A j \in Jobs : (table[j] \in Open) ~> (table[j] \notin Open)

\* A run ends, whatever the container does, and without its deadline.
RunsEnd == \A j \in Jobs : (client[j].pc # "idle") ~> (client[j].pc = "idle")
=============================================================================
