--------------------------- MODULE ConversionPool ---------------------------
(***************************************************************************)
(* The in-process conversion engine of apps/api/src/conversion: a fixed     *)
(* pool of worker threads (worker.ts) and the queues in front of them       *)
(* (WorkerPoolConversionService in index.ts).  A dead thread is never       *)
(* replaced.                                                                *)
(*                                                                          *)
(* The thread is Node's: what it posts arrives in order, its "error" comes  *)
(* over another port and so may overtake what it posted, and its "exit"     *)
(* comes after both.                                                        *)
(***************************************************************************)
EXTENDS Naturals, Sequences, FiniteSets

CONSTANTS
    Jobs,       \* submitted at most once each
    NoJob,
    Size        \* of the pool

ASSUME PoolAssumption == Size \in Nat \ {0} /\ NoJob \notin Jobs

Slots    == 1..Size
Endings == {"ok", "failed", "crash"}
Messages == [type : {"progress", "ok", "failed"}, job : Jobs]

VARIABLES
    outcome,    \* of the promise submit returned: "new", "waiting", or settled
    queue,      \* per slot, jobs not yet posted to its thread
    inflight,   \* per slot, the job posted to its thread
    tasks,      \* per slot, what was posted and the thread has not taken
    running,    \* per slot, the conversions the thread is in
    posted,     \* per slot, messages of the thread the pool has not handled
    failure,    \* per slot, "error" and "exit" events not yet handled
    thread,     \* per slot, starting (the engine loads), ready or dead
    converted,  \* jobs whose artifacts are complete
    closed

poolVars == <<outcome, queue, inflight, tasks, running, posted, failure, thread,
          converted, closed>>
main == <<outcome, queue, inflight>>            \* the pool's own state
side == <<running, thread, converted, closed>>  \* what no event handler writes

PoolTypeOK ==
    /\ outcome \in [Jobs -> Endings \cup {"new", "waiting"}]
    /\ queue \in [Slots -> Seq(Jobs)]
    /\ inflight \in [Slots -> Jobs \cup {NoJob}]
    /\ tasks \in [Slots -> Seq(Jobs)]
    /\ running \in [Slots -> SUBSET Jobs]
    /\ posted \in [Slots -> Seq(Messages)]
    /\ failure \in [Slots -> SUBSET {"error", "exit"}]
    /\ thread \in [Slots -> {"starting", "ready", "dead"}]
    /\ converted \subseteq Jobs
    /\ closed \in BOOLEAN

PoolInit ==
    /\ outcome = [j \in Jobs |-> "new"]
    /\ queue = [s \in Slots |-> <<>>]
    /\ inflight = [s \in Slots |-> NoJob]
    /\ tasks = [s \in Slots |-> <<>>]
    /\ running = [s \in Slots |-> {}]
    /\ posted = [s \in Slots |-> <<>>]
    /\ failure = [s \in Slots |-> {}]
    /\ thread = [s \in Slots |-> "starting"]
    /\ converted = {}
    /\ closed = FALSE

-----------------------------------------------------------------------------
(* The pool.                                                                 *)

\* postMessage: a dead thread takes nothing any more.
Post(s, j) ==
    tasks' = IF thread[s] = "dead" THEN tasks
             ELSE [tasks EXCEPT ![s] = Append(@, j)]

\* Mutant: every submit goes to the thread at once.
DispatchBusy(s, q, busy) ==
    IF q = <<>>
    THEN /\ queue' = [queue EXCEPT ![s] = q]
         /\ inflight' = [inflight EXCEPT ![s] = busy]
         /\ UNCHANGED tasks
    ELSE /\ queue' = [queue EXCEPT ![s] = Tail(q)]
         /\ inflight' = [inflight EXCEPT ![s] = Head(q)]
         /\ Post(s, Head(q))

\* dispatch, in a slot whose queue has become q and whose inflight job busy.
Dispatch(s, q, busy) ==
    IF busy # NoJob \/ q = <<>>
    THEN /\ queue' = [queue EXCEPT ![s] = q]
         /\ inflight' = [inflight EXCEPT ![s] = busy]
         /\ UNCHANGED tasks
    ELSE /\ queue' = [queue EXCEPT ![s] = Tail(q)]
         /\ inflight' = [inflight EXCEPT ![s] = Head(q)]
         /\ Post(s, Head(q))

\* Mutants: the slot's next job is not pulled; the slot is not freed.
SettleOnly(s, o) ==
    /\ outcome' = IF inflight[s] = NoJob THEN outcome
                  ELSE [outcome EXCEPT ![inflight[s]] = o]
    /\ inflight' = [inflight EXCEPT ![s] = NoJob]
    /\ UNCHANGED <<queue, tasks>>

SettleKeepsSlot(s, o) ==
    /\ outcome' = IF inflight[s] = NoJob THEN outcome
                  ELSE [outcome EXCEPT ![inflight[s]] = o]
    /\ Dispatch(s, queue[s], inflight[s])

Settle(s, o) ==
    /\ outcome' = IF inflight[s] = NoJob THEN outcome
                  ELSE [outcome EXCEPT ![inflight[s]] = o]
    /\ Dispatch(s, queue[s], NoJob)

Load(s) == Len(queue[s]) + (IF inflight[s] = NoJob THEN 0 ELSE 1)
LeastLoaded(s) ==
    \A r \in Slots : Load(s) < Load(r) \/ (Load(s) = Load(r) /\ s <= r)

Submit(j) ==
    /\ outcome[j] = "new"
    /\ outcome' = [outcome EXCEPT ![j] = "waiting"]
    /\ \E s \in Slots :
          /\ LeastLoaded(s)
          /\ Dispatch(s, Append(queue[s], j), inflight[s])
    /\ UNCHANGED <<posted, failure, side>>

\* A progress message is passed on; any other settles the slot, whatever its
\* jobId says.
OnMessage(s) ==
    /\ posted[s] # <<>>
    /\ posted' = [posted EXCEPT ![s] = Tail(@)]
    /\ IF Head(posted[s]).type = "progress" THEN UNCHANGED <<main, tasks>>
       ELSE Settle(s, Head(posted[s]).type)
    /\ UNCHANGED <<failure, side>>

OnError(s) ==
    /\ "error" \in failure[s]
    /\ failure' = [failure EXCEPT ![s] = @ \ {"error"}]
    /\ Settle(s, "crash")
    /\ UNCHANGED <<posted, side>>

\* Every death has a non-zero exit code: nothing ends a thread in peace.
OnExit(s) ==
    /\ failure[s] = {"exit"}
    /\ posted[s] = <<>>
    /\ failure' = [failure EXCEPT ![s] = {}]
    /\ Settle(s, "crash")
    /\ UNCHANGED <<posted, side>>

\* close: every thread is terminated, at the end of the API process.
Close ==
    /\ ~ closed
    /\ closed' = TRUE
    /\ thread' = [s \in Slots |-> "dead"]
    /\ failure' = [s \in Slots |->
          IF thread[s] = "dead" THEN failure[s] ELSE {"exit"}]
    /\ tasks' = [s \in Slots |-> <<>>]
    /\ running' = [s \in Slots |-> {}]
    /\ UNCHANGED <<main, posted, converted>>

-----------------------------------------------------------------------------
(* The thread.                                                               *)

\* The engine is loaded and the message listener installed.
Boot(s) ==
    /\ thread[s] = "starting"
    /\ thread' = [thread EXCEPT ![s] = "ready"]
    /\ UNCHANGED <<main, tasks, running, posted, failure, converted, closed>>

\* The listener is asynchronous: nothing in it waits for an earlier task.
Take(s) ==
    /\ thread[s] = "ready"
    /\ tasks[s] # <<>>
    /\ tasks' = [tasks EXCEPT ![s] = Tail(@)]
    /\ running' = [running EXCEPT ![s] = @ \cup {Head(tasks[s])}]
    /\ UNCHANGED <<main, posted, failure, thread, converted, closed>>

\* onProgress; one message per job is unhandled at a time (a bound).
Report(s, j) ==
    LET m == [type |-> "progress", job |-> j] IN
    /\ j \in running[s]
    /\ \A i \in DOMAIN posted[s] : posted[s][i] # m
    /\ posted' = [posted EXCEPT ![s] = Append(@, m)]
    /\ UNCHANGED <<main, tasks, failure, side>>

Finish(s, j, o) ==
    /\ j \in running[s]
    /\ running' = [running EXCEPT ![s] = @ \ {j}]
    /\ converted' = IF o = "ok" THEN converted \cup {j} ELSE converted
    /\ posted' = [posted EXCEPT ![s] = Append(@, [type |-> o, job |-> j])]
    /\ UNCHANGED <<main, tasks, failure, thread, closed>>

\* The thread dies while the engine loads or converts: of an uncaught error
\* or memory exhaustion ("error", then "exit"), or by exiting.
Die(s) ==
    /\ thread[s] = "starting" \/ running[s] # {}
    /\ thread' = [thread EXCEPT ![s] = "dead"]
    /\ \E e \in {{"error", "exit"}, {"exit"}} :
          failure' = [failure EXCEPT ![s] = e]
    /\ tasks' = [tasks EXCEPT ![s] = <<>>]
    /\ running' = [running EXCEPT ![s] = {}]
    /\ UNCHANGED <<main, posted, converted, closed>>

-----------------------------------------------------------------------------
HandleEvent(s) == OnMessage(s) \/ OnError(s) \/ OnExit(s)
Work(s) ==
    \/ Boot(s) \/ Take(s)
    \/ \E j \in Jobs : Report(s, j) \/ \E o \in {"ok", "failed"} : Finish(s, j, o)

PoolNext ==
    \/ \E j \in Jobs : Submit(j)
    \/ \E s \in Slots : HandleEvent(s) \/ Work(s) \/ Die(s)
    \/ Close

PoolSpec == PoolInit /\ [][PoolNext]_poolVars

\* The event loops of the API and of a live thread run, and a conversion ends.
\* Nothing makes a user submit or a thread die.
End(s) == \E j \in Jobs, o \in {"ok", "failed"} : Finish(s, j, o)
PoolFairness == \A s \in Slots :
    WF_poolVars(HandleEvent(s)) /\ WF_poolVars(Boot(s)) /\ WF_poolVars(Take(s)) /\ WF_poolVars(End(s))

PoolFairSpec == PoolSpec /\ PoolFairness

-----------------------------------------------------------------------------
(* Properties                                                                *)

Queued(s, j) == \E i \in DOMAIN queue[s] : queue[s][i] = j
Holds(s, j)  == inflight[s] = j \/ Queued(s, j)

\* No submit is forgotten and none is settled twice: a job is waiting exactly
\* when one slot holds it, as its inflight job or once in its queue.
WaitingJobsAreHeld ==
    /\ \A j \in Jobs : outcome[j] = "waiting" <=> \E s \in Slots : Holds(s, j)
    /\ \A r, s \in Slots : \A j \in Jobs : Holds(r, j) /\ Holds(s, j) => r = s
    /\ \A s \in Slots : \A i, k \in DOMAIN queue[s] :
          /\ queue[s][i] # inflight[s]
          /\ queue[s][i] = queue[s][k] => i = k

\* A job is reported converted only when it is its own conversion that ended
\* well, although the pool never compares the jobId of a result with the
\* job it settles, and an "error" may overtake what was posted before.
OkMeansConverted == \A j \in Jobs : outcome[j] = "ok" => j \in converted

\* One thread's death fails at most two jobs: the one it was converting and
\* the one posted to the dead thread between "error" and "exit".
DeathCostsTwoJobs ==
    Cardinality({j \in Jobs : outcome[j] = "crash"})
       <= 2 * Cardinality({s \in Slots : thread[s] = "dead"})

\* The slot s tells o of job j: what the thread has posted next is how the
\* conversion of j itself ended, or the thread that was given j has died.
Tells(s, j, o) ==
    /\ inflight[s] = j
    /\ IF o = "crash" THEN thread[s] = "dead" /\ failure[s] # {}
       ELSE posted[s] # <<>> /\ Head(posted[s]) = [type |-> o, job |-> j]

\* No job is ever settled with the fate of another one.
EachHearsItsOwn ==
    [][\A j \in Jobs :
          outcome[j] = "waiting" /\ outcome'[j] # "waiting"
             => \E s \in Slots : Tells(s, j, outcome'[j])]_poolVars

\* What a submit is answered is true of its own job, and a death tells of few.
OutcomesAreTrue ==
    [](OkMeansConverted /\ DeathCostsTwoJobs) /\ EachHearsItsOwn

\* Every job is settled, unless the thread of its slot dies.
JobsSettle ==
    \A j \in Jobs :
       (outcome[j] = "waiting")
          ~> (outcome[j] # "waiting"
              \/ \E s \in Slots : Holds(s, j) /\ thread[s] = "dead")
=============================================================================
