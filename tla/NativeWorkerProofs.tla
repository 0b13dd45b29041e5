------------------------- MODULE NativeWorkerProofs -------------------------
(***************************************************************************)
(* A native run that succeeds has converted its own job since its own POST, *)
(* for any number of jobs, managers, slots and container stops.             *)
(*                                                                          *)
(* The evidence is that of the latest POST.  So the invariant adds that the *)
(* table says "done", and a reply in flight says so, only on such evidence, *)
(* and that a run which has not posted yet has no result.  The number of    *)
(* running subprocesses plays no part, so the types of the other variables  *)
(* suffice.                                                                 *)
(*                                                                          *)
(* That the counter is exact is a second invariant: it is the cardinality   *)
(* of the managers that hold a slot, and each step moves at most one.       *)
(***************************************************************************)
EXTENDS NativeWorker, FiniteSetTheorems, TLAPS

Types ==
    /\ table \in [Jobs -> JobStatus]
    /\ manager \in [Managers -> [pc : ManagerPCs, job : Jobs \cup {NoJob}]]
    /\ client \in [Jobs -> [pc : ClientPCs, errors : 0..2, reply : JobStatus]]
    /\ result \in [Jobs -> Results]
    /\ evidence \in [Jobs -> SUBSET {"ok", "failed", "crash"}]
    /\ \A m \in Managers : manager[m].pc # "new" => manager[m].job \in Jobs

DoneIsProduced  == \A j \in Jobs : table[j] = "done" => "ok" \in evidence[j]
ReplyIsProduced ==
    \A j \in Jobs : client[j].pc = "asked" /\ client[j].reply = "done" => "ok" \in evidence[j]
FreshRunHasNone == \A j \in Jobs : client[j].pc = "post" => result[j] = "none"

IInv ==
    /\ Types
    /\ DoneIsProduced
    /\ ReplyIsProduced
    /\ FreshRunHasNone
    /\ OkMeansProduced

LEMMA InitIInv == Init => IInv
  BY WorkerAssumption DEF Init, IInv, Types, DoneIsProduced, ReplyIsProduced,
     FreshRunHasNone, OkMeansProduced, Run, JobStatus, Settled, Open, ManagerPCs,
     ClientPCs, Results

\* What the steps of a client run without the server do: its program counter
\* leaves "post" only for "idle", no reply "done" appears, and a result "ok"
\* needs such a reply.
LEMMA ClientStep ==
  ASSUME IInv, NEW j \in Jobs, UNCHANGED <<server, evidence>>,
         NEW c \in [pc : ClientPCs, errors : 0..2, reply : JobStatus],
         NEW r \in Results,
         client' = [client EXCEPT ![j] = c],
         result' = [result EXCEPT ![j] = r],
         c.pc # "asked",
         c.pc = "post" => r = "none",
         r = "ok" => result[j] = "ok" \/ (client[j].pc = "asked" /\ client[j].reply = "done")
  PROVE  IInv'
<1>1. Types'
  BY DEF IInv, Types, server
<1>2. /\ client'[j] = c /\ result'[j] = r
      /\ \A i \in Jobs : i # j => client'[i] = client[i] /\ result'[i] = result[i]
  BY DEF IInv, Types
<1>3. DoneIsProduced'
  BY DEF IInv, DoneIsProduced, server
<1>4. ReplyIsProduced'
  BY <1>2 DEF IInv, ReplyIsProduced
<1>5. FreshRunHasNone'
  BY <1>2 DEF IInv, FreshRunHasNone
<1>6. OkMeansProduced'
  BY <1>2 DEF IInv, OkMeansProduced, ReplyIsProduced
<1> QED
  BY <1>1, <1>3, <1>4, <1>5, <1>6 DEF IInv

LEMMA Runs ==
  ASSUME NEW pc \in ClientPCs, NEW e \in 0..2, NEW r \in JobStatus
  PROVE  /\ Run(pc, e, r) \in [pc : ClientPCs, errors : 0..2, reply : JobStatus]
         /\ Run(pc, e, r).pc = pc /\ Run(pc, e, r).errors = e /\ Run(pc, e, r).reply = r
  BY DEF Run

\* The two ways a client step ends.
LEMMA ContinueIInv ==
  ASSUME IInv, NEW j \in Jobs, UNCHANGED <<server, evidence>>,
         NEW e \in 0..2, Continue(j, "poll", e, "absent")
  PROVE  IInv'
<1>1. "poll" \in ClientPCs /\ "absent" \in JobStatus
  BY DEF ClientPCs, JobStatus
<1>2. Run("poll", e, "absent") \in [pc : ClientPCs, errors : 0..2, reply : JobStatus]
      /\ Run("poll", e, "absent").pc = "poll"
  BY <1>1, Runs
<1>3. result' = [result EXCEPT ![j] = result[j]] /\ result[j] \in Results
  BY DEF Continue, IInv, Types
<1>4. client' = [client EXCEPT ![j] = Run("poll", e, "absent")]
  BY DEF Continue
<1> QED
  BY <1>2, <1>3, <1>4, ClientStep

LEMMA ReturnIInv ==
  ASSUME IInv, NEW j \in Jobs, UNCHANGED <<server, evidence>>,
         NEW r \in Results, Return(j, r),
         r = "ok" => client[j].pc = "asked" /\ client[j].reply = "done"
  PROVE  IInv'
<1>1. "idle" \in ClientPCs /\ "absent" \in JobStatus /\ 0 \in 0..2
  BY DEF ClientPCs, JobStatus
<1>2. Run("idle", 0, "absent") \in [pc : ClientPCs, errors : 0..2, reply : JobStatus]
      /\ Run("idle", 0, "absent").pc = "idle"
  BY <1>1, Runs
<1>3. /\ client' = [client EXCEPT ![j] = Run("idle", 0, "absent")]
      /\ result' = [result EXCEPT ![j] = r]
  BY DEF Return
<1> QED
  BY <1>2, <1>3, ClientStep

\* What the steps of a manager and of the container do: evidence only grows,
\* and no job becomes "done" without it.
LEMMA ServerStep ==
  ASSUME IInv, UNCHANGED <<client, result>>,
         table' \in [Jobs -> JobStatus],
         manager' \in [Managers -> [pc : ManagerPCs, job : Jobs \cup {NoJob}]],
         \A m \in Managers : manager'[m].pc # "new" => manager'[m].job \in Jobs,
         evidence' \in [Jobs -> SUBSET {"ok", "failed", "crash"}],
         \A j \in Jobs : evidence[j] \subseteq evidence'[j],
         \A j \in Jobs : table'[j] = "done" => table[j] = "done" \/ "ok" \in evidence'[j]
  PROVE  IInv'
  BY DEF IInv, Types, DoneIsProduced, ReplyIsProduced, FreshRunHasNone, OkMeansProduced

\* A manager's own step: it moves, one status is written, something is seen.
LEMMA ManagerStep ==
  ASSUME IInv, UNCHANGED <<client, result>>,
         NEW m \in Managers, NEW from \in ManagerPCs \ {"new"}, NEW to \in ManagerPCs,
         Move(m, from, to),
         NEW s \in JobStatus,
         table' = [table EXCEPT ![manager[m].job] = s],
         evidence' = evidence \/ (\E w \in {"ok", "failed", "crash"} : Saw(m, w)),
         s = "done" => table[manager[m].job] = "done" \/ Saw(m, "ok")
  PROVE  IInv'
<1> DEFINE j == manager[m].job
<1>1. j \in Jobs /\ manager[m].pc = from
  BY DEF Move, IInv, Types
<1>2. manager' \in [Managers -> [pc : ManagerPCs, job : Jobs \cup {NoJob}]]
  BY <1>1 DEF Move, IInv, Types
<1>3. \A k \in Managers : manager'[k].pc # "new" => manager'[k].job \in Jobs
  BY <1>1 DEF Move, IInv, Types
<1>4. table' \in [Jobs -> JobStatus]
  BY DEF IInv, Types
<1>5. /\ evidence' \in [Jobs -> SUBSET {"ok", "failed", "crash"}]
      /\ \A i \in Jobs : evidence[i] \subseteq evidence'[i]
      /\ Saw(m, "ok") => "ok" \in evidence'[j]
  BY <1>1 DEF Saw, IInv, Types
<1>6. \A i \in Jobs : table'[i] = "done" => table[i] = "done" \/ "ok" \in evidence'[i]
  BY <1>1, <1>5 DEF IInv, Types
<1> QED
  BY <1>2, <1>3, <1>4, <1>5, <1>6, ServerStep

LEMMA NextIInv == ASSUME IInv, [Next]_vars PROVE IInv'
<1>1. CASE UNCHANGED vars
  BY <1>1 DEF vars, IInv, Types, DoneIsProduced, ReplyIsProduced,
     FreshRunHasNone, OkMeansProduced
<1>2. ASSUME NEW j \in Jobs, Submit(j) PROVE IInv'
  <2>1. "post" \in ClientPCs /\ "absent" \in JobStatus /\ 0 \in 0..2 /\ "none" \in Results
    BY DEF ClientPCs, JobStatus, Results
  <2>2. Run("post", 0, "absent") \in [pc : ClientPCs, errors : 0..2, reply : JobStatus]
        /\ Run("post", 0, "absent").pc = "post"
    BY <2>1, Runs
  <2> QED
    BY <1>2, <2>1, <2>2, ClientStep DEF Submit
<1>3. ASSUME NEW j \in Jobs, Call(j) \/ TimeOut(j) PROVE IInv'
  <2>1. CASE PostFails(j)
    BY <2>1, ReturnIInv DEF PostFails, Results
  <2>2. CASE PostAnswered(j)
    BY <2>2, ContinueIInv DEF PostAnswered
  <2>3. CASE TimeOut(j)
    BY <2>3, ReturnIInv DEF TimeOut, Results
  <2>4. CASE PollFails(j)
    <3>1. CASE client[j].errors = 2
      BY <2>4, <3>1, ReturnIInv DEF PollFails, Results
    <3>2. CASE client[j].errors # 2
      <4>1. client[j].errors + 1 \in 0..2
        BY <3>2 DEF IInv, Types
      <4> QED
        BY <2>4, <3>2, <4>1, ContinueIInv DEF PollFails
    <3> QED
      BY <3>1, <3>2
  <2>5. CASE Receive(j)
    <3>1. client[j].pc = "asked" /\ client[j].reply \in JobStatus
      BY <2>5 DEF Receive, IInv, Types
    <3>2. CASE client[j].reply = "running"
      BY <2>5, <3>2, ContinueIInv DEF Receive
    <3>3. CASE client[j].reply = "absent"
      BY <2>5, <3>3, ReturnIInv DEF Receive, Results
    <3>4. CASE client[j].reply = "done"
      BY <2>5, <3>1, <3>4, ReturnIInv DEF Receive, Results
    <3>5. CASE client[j].reply \in {"queued", "failed"}
      <4>1. Return(j, "failed")
        BY <2>5, <3>5 DEF Receive
      <4> QED
        BY <2>5, <4>1, ReturnIInv DEF Receive, Results
    <3>6. CASE client[j].reply = "crash"
      BY <2>5, <3>6, ReturnIInv DEF Receive, Results
    <3> QED
      BY <3>1, <3>2, <3>3, <3>4, <3>5, <3>6 DEF JobStatus, Settled, Open
  <2>6. CASE HandlePost(j)
    <3>1. /\ client[j].pc = "post" /\ UNCHANGED result
          /\ client' = [client EXCEPT ![j] = Run("sent", 0, "absent")]
          /\ evidence' = [evidence EXCEPT ![j] = {}]
      BY <2>6 DEF HandlePost, Continue
    <3>2. Run("sent", 0, "absent") \in [pc : ClientPCs, errors : 0..2, reply : JobStatus]
          /\ Run("sent", 0, "absent").pc = "sent"
      BY Runs DEF ClientPCs, JobStatus
    <3>3. /\ client' \in [Jobs -> [pc : ClientPCs, errors : 0..2, reply : JobStatus]]
          /\ client'[j].pc = "sent"
          /\ \A i \in Jobs : i # j => client'[i] = client[i] /\ evidence'[i] = evidence[i]
          /\ evidence' \in [Jobs -> SUBSET {"ok", "failed", "crash"}]
      BY <3>1, <3>2 DEF IInv, Types
    <3>4. /\ table' \in [Jobs -> JobStatus]
          /\ table'[j] \in Open
          /\ \A i \in Jobs : i # j => table'[i] = table[i]
          /\ manager' \in [Managers -> [pc : ManagerPCs, job : Jobs \cup {NoJob}]]
          /\ \A m \in Managers : manager'[m].pc # "new" => manager'[m].job \in Jobs
      <4>1. CASE table[j] \in Open
        BY <2>6, <4>1 DEF HandlePost, IInv, Types
      <4>2. CASE table[j] \notin Open
        <5>1. PICK m \in Managers :
                 /\ table' = [table EXCEPT ![j] = "queued"]
                 /\ manager' = [manager EXCEPT ![m] = [pc |-> "wait", job |-> j]]
          BY <2>6, <4>2 DEF HandlePost
        <5> QED
          BY <5>1 DEF IInv, Types, JobStatus, Open, ManagerPCs
      <4> QED
        BY <4>1, <4>2
    <3>5. result[j] = "none"
      BY <3>1 DEF IInv, FreshRunHasNone
    <3>6. Types'
      BY <3>1, <3>3, <3>4 DEF IInv, Types
    <3>7. DoneIsProduced'
      BY <3>3, <3>4 DEF IInv, DoneIsProduced, Open
    <3>8. ReplyIsProduced' /\ FreshRunHasNone' /\ OkMeansProduced'
      BY <3>1, <3>3, <3>5 DEF IInv, ReplyIsProduced, FreshRunHasNone, OkMeansProduced
    <3> QED
      BY <3>6, <3>7, <3>8 DEF IInv
  <2>7. CASE HandleGet(j)
    <3>1. /\ UNCHANGED <<server, evidence, result>>
          /\ client' = [client EXCEPT ![j] = Run("asked", client[j].errors, table[j])]
      BY <2>7 DEF HandleGet, Continue
    <3>2. Run("asked", client[j].errors, table[j])
             \in [pc : ClientPCs, errors : 0..2, reply : JobStatus]
          /\ Run("asked", client[j].errors, table[j]).pc = "asked"
          /\ Run("asked", client[j].errors, table[j]).reply = table[j]
      BY Runs DEF ClientPCs, IInv, Types
    <3>3. /\ client' \in [Jobs -> [pc : ClientPCs, errors : 0..2, reply : JobStatus]]
          /\ client'[j].pc = "asked" /\ client'[j].reply = table[j]
          /\ \A i \in Jobs : i # j => client'[i] = client[i]
      BY <3>1, <3>2 DEF IInv, Types
    <3> QED
      BY <3>1, <3>3 DEF IInv, Types, server, DoneIsProduced, ReplyIsProduced,
         FreshRunHasNone, OkMeansProduced
  <2>8. CASE BodyBreaks(j)
    BY <2>8, ReturnIInv DEF BodyBreaks, Results
  <2> QED
    BY <1>3, <2>1, <2>2, <2>3, <2>4, <2>5, <2>6, <2>7, <2>8 DEF Call
<1>4. ASSUME NEW m \in Managers, Manage(m) PROVE IInv'
  <2> DEFINE j == manager[m].job
  <2>1. ASSUME manager[m].pc # "new"
        PROVE  j \in Jobs /\ table[j] \in JobStatus
                 /\ table = [table EXCEPT ![j] = table[j]]
    BY <2>1 DEF IInv, Types
  <2>2. {"wait", "slot", "spawn", "watch", "tail", "over"} \subseteq ManagerPCs
        /\ {"running", "crash", "done", "failed"} \subseteq JobStatus
    BY DEF ManagerPCs, Slotted, JobStatus, Settled, Open
  <2>3. CASE FindSlot(m)
    BY <2>1, <2>2, <2>3, ManagerStep DEF FindSlot, Move
  <2>4. CASE TakeSlot(m)
    BY <2>2, <2>4, ManagerStep DEF TakeSlot
  <2>5. CASE Spawn(m)
    BY <2>1, <2>2, <2>5, ManagerStep DEF Spawn, Move
  <2>6. CASE SpawnFails(m)
    BY <2>2, <2>6, ManagerStep DEF SpawnFails
  <2>7. CASE ResultLine(m)
    <3>1. PICK what \in {"ok", "failed", "crash"} :
             /\ Saw(m, what)
             /\ table' = [table EXCEPT ![j] = IF what = "ok" THEN "done" ELSE what]
      BY <2>7 DEF ResultLine
    <3>2. (IF what = "ok" THEN "done" ELSE what) \in JobStatus
      BY <2>2
    <3>3. (IF what = "ok" THEN "done" ELSE what) = "done" => Saw(m, "ok")
      BY <3>1
    <3>4. Move(m, "watch", "tail") /\ UNCHANGED <<client, result>>
      BY <2>7 DEF ResultLine
    <3> QED
      BY <2>2, <3>1, <3>2, <3>3, <3>4, ManagerStep
  <2>8. CASE Killed(m)
    BY <2>1, <2>2, <2>8, ManagerStep DEF Killed, Move
  <2>9. CASE Tail(m)
    <3>1. CASE table' = table
      BY <2>1, <2>2, <2>9, <3>1, ManagerStep DEF Tail, Move
    <3>2. CASE table' = [table EXCEPT ![j] = "crash"]
      BY <2>2, <2>9, <3>2, ManagerStep DEF Tail
    <3> QED
      BY <2>9, <3>1, <3>2 DEF Tail
  <2> QED
    BY <1>4, <2>3, <2>4, <2>5, <2>6, <2>7, <2>8, <2>9 DEF Manage
<1>5. CASE Stop
  <2>1. table' \in [Jobs -> JobStatus] /\ \A j \in Jobs : table'[j] = "absent"
    BY <1>5 DEF Stop, JobStatus
  <2>2. /\ manager' \in [Managers -> [pc : ManagerPCs, job : Jobs \cup {NoJob}]]
        /\ \A m \in Managers : manager'[m].pc # "new" => manager'[m].job \in Jobs
    BY <1>5 DEF Stop, IInv, Types, ManagerPCs
  <2> QED
    BY <1>5, <2>1, <2>2, ServerStep DEF Stop, IInv, Types
<1>6. CASE Restart
  BY <1>6, ServerStep DEF Restart, IInv, Types
<1> QED
  BY <1>1, <1>2, <1>3, <1>4, <1>5, <1>6 DEF Next

\* A native run succeeds only after a subprocess of its own job ended well
\* since its POST: a "done" of an earlier run of the same id is never taken
\* for it, across resubmissions, lost replies and container restarts.
THEOREM NativeOkIsProduced == Spec => []OkMeansProduced
<1>1. IInv => OkMeansProduced
  BY DEF IInv
<1>2. IInv /\ [Next]_vars => IInv'
  BY NextIInv
<1> QED
  BY InitIInv, <1>1, <1>2, PTL DEF Spec

-----------------------------------------------------------------------------
(* The slot counter.  It is raised and lowered by one, so what it counts has *)
(* to be a finite set that gains or loses exactly the manager that moved.    *)

Holding == {m \in Managers : manager[m].pc \in Slotted}

Counted ==
    /\ manager \in [Managers -> [pc : ManagerPCs, job : Jobs \cup {NoJob}]]
    /\ CountIsExact

LEMMA HoldingIsFinite == IsFiniteSet(Holding) /\ Cardinality(Holding) \in Nat
<1>1. Holding \subseteq Managers
  BY DEF Holding
<1> QED
  BY <1>1, WorkerAssumption, FS_Subset, FS_CardinalityType

\* One manager moves, and takes the counter along.
LEMMA MoveCounts ==
  ASSUME Counted, NEW m \in Managers, NEW from \in ManagerPCs, NEW to \in ManagerPCs,
         Move(m, from, to),
         from \in Slotted /\ to \notin Slotted => running' = running - 1,
         from \notin Slotted /\ to \in Slotted => running' = running + 1,
         (from \in Slotted) = (to \in Slotted) => running' = running
  PROVE  Counted'
<1>1. manager' \in [Managers -> [pc : ManagerPCs, job : Jobs \cup {NoJob}]]
  BY DEF Counted, Move
<1>2. /\ manager[m].pc = from /\ manager'[m].pc = to
      /\ \A n \in Managers \ {m} : manager'[n] = manager[n]
  BY DEF Counted, Move
<1>3. running = Cardinality(Holding) /\ running \in Nat
  BY HoldingIsFinite DEF Counted, CountIsExact, Holding
<1>4. CASE from \in Slotted /\ to \notin Slotted
  <2>1. m \in Holding /\ Holding' = Holding \ {m}
    BY <1>2, <1>4 DEF Holding
  <2>2. Cardinality(Holding') = Cardinality(Holding) - 1
    BY <2>1, HoldingIsFinite, FS_RemoveElement
  <2> QED
    BY <1>1, <1>3, <1>4, <2>2 DEF Counted, CountIsExact, Holding
<1>5. CASE from \notin Slotted /\ to \in Slotted
  <2>1. m \notin Holding /\ Holding' = Holding \cup {m}
    BY <1>2, <1>5 DEF Holding
  <2>2. Cardinality(Holding') = Cardinality(Holding) + 1
    BY <2>1, HoldingIsFinite, FS_AddElement
  <2> QED
    BY <1>1, <1>3, <1>5, <2>2 DEF Counted, CountIsExact, Holding
<1>6. CASE (from \in Slotted) = (to \in Slotted)
  <2>1. Holding' = Holding
    BY <1>2, <1>6 DEF Holding
  <2> QED
    BY <1>1, <1>3, <1>6, <2>1 DEF Counted, CountIsExact, Holding
<1> QED
  BY <1>4, <1>5, <1>6

LEMMA StepCounts == ASSUME Counted, [Next]_vars PROVE Counted'
<1> USE DEF ManagerPCs, Slotted
<1>1. ASSUME UNCHANGED <<manager, running>> PROVE Counted'
  BY <1>1 DEF Counted, CountIsExact
<1>2. ASSUME NEW j \in Jobs, HandlePost(j) PROVE Counted'
  <2>1. CASE UNCHANGED manager
    BY <1>1, <1>2, <2>1 DEF HandlePost
  <2>2. CASE ~ UNCHANGED manager
    <3>1. PICK m \in Managers :
             /\ manager[m].pc = "new"
             /\ manager' = [manager EXCEPT ![m] = [pc |-> "wait", job |-> j]]
      BY <1>2, <2>2 DEF HandlePost
    <3>2. manager' \in [Managers -> [pc : ManagerPCs, job : Jobs \cup {NoJob}]]
      BY <3>1 DEF Counted
    <3>3. Holding' = Holding
      BY <3>1 DEF Holding, Counted
    <3> QED
      BY <1>2, <3>2, <3>3 DEF Counted, CountIsExact, Holding, HandlePost
  <2> QED
    BY <2>1, <2>2
<1>3. ASSUME NEW j \in Jobs, Submit(j) \/ Call(j) \/ TimeOut(j) PROVE Counted'
  BY <1>1, <1>2, <1>3 DEF Submit, Call, TimeOut, PostFails, PostAnswered, HandleGet,
     PollFails, Receive, BodyBreaks, server
<1>4. ASSUME NEW m \in Managers, Manage(m) PROVE Counted'
  <2>1. CASE FindSlot(m)
    BY <2>1, MoveCounts DEF FindSlot
  <2>2. CASE TakeSlot(m)
    BY <2>2, MoveCounts DEF TakeSlot
  <2>3. CASE Spawn(m)
    BY <2>3, MoveCounts DEF Spawn
  <2>4. CASE SpawnFails(m)
    BY <2>4, MoveCounts DEF SpawnFails
  <2>5. CASE ResultLine(m)
    BY <2>5, MoveCounts DEF ResultLine
  <2>6. CASE Killed(m)
    BY <2>6, MoveCounts DEF Killed
  <2>7. CASE Tail(m)
    BY <2>7, MoveCounts DEF Tail
  <2> QED
    BY <1>4, <2>1, <2>2, <2>3, <2>4, <2>5, <2>6, <2>7 DEF Manage
<1>5. CASE Stop
  <2>1. /\ manager' \in [Managers -> [pc : ManagerPCs, job : Jobs \cup {NoJob}]]
        /\ \A m \in Managers : manager'[m].pc \notin Slotted
    BY <1>5 DEF Stop, Counted
  <2>2. Holding' = {}
    BY <2>1 DEF Holding
  <2> QED
    BY <1>5, <2>1, <2>2, FS_EmptySet DEF Counted, CountIsExact, Holding, Stop
<1>6. CASE Restart
  BY <1>1, <1>6 DEF Restart
<1>7. CASE UNCHANGED vars
  BY <1>1, <1>7 DEF vars
<1> QED
  BY <1>3, <1>4, <1>5, <1>6, <1>7 DEF Next

\* The counter of worker.py is the number of managers that hold a slot, on
\* every path of a manager, for any number of jobs, managers, slots and stops.
THEOREM SlotsAreCounted == Spec => []CountIsExact
<1>1. Init => Counted
  <2>1. ASSUME Init PROVE Holding = {} /\ running = 0
    BY <2>1 DEF Init, Holding, Slotted
  <2>2. ASSUME Init
        PROVE manager \in [Managers -> [pc : ManagerPCs, job : Jobs \cup {NoJob}]]
    BY <2>2 DEF Init, ManagerPCs
  <2> QED
    BY <2>1, <2>2, FS_EmptySet DEF Counted, CountIsExact, Holding
<1>2. Counted /\ [Next]_vars => Counted'
  BY StepCounts
<1>3. Counted => CountIsExact
  BY DEF Counted
<1> QED
  BY <1>1, <1>2, <1>3, PTL DEF Spec
=============================================================================
