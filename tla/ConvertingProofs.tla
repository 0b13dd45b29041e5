------------------------- MODULE ConvertingProofs ---------------------------
(***************************************************************************)
(* What is proved of a version's life and of the pool that converts it.     *)
(***************************************************************************)
EXTENDS MCConverting, SequenceTheorems, FiniteSetTheorems, TLAPS

(***************************************************************************)
(* No submit is forgotten and no job is told converted that is not, for any *)
(* jobs, any size of the pool, any order of messages, "error" and "exit".   *)
(*                                                                          *)
(* The pool settles the slot's current job whatever the message is about.   *)
(* What makes that right is a protocol nowhere stated in the code: of one   *)
(* slot at most one thing is under way - a task not taken, a conversion, or *)
(* a result not handled - and it is of the job in flight; and when "error"  *)
(* can overtake a message there is none it could overtake.                  *)
(***************************************************************************)

Ends(s) == {i \in DOMAIN posted[s] : posted[s][i].type # "progress"}

OneUnderWay(s) ==
    /\ \A i \in DOMAIN tasks[s] : i = 1 /\ tasks[s][i] = inflight[s]
    /\ \A j \in running[s] : j = inflight[s] /\ tasks[s] = <<>>
    /\ \A i \in Ends(s) :
          /\ posted[s][i].job = inflight[s]
          /\ tasks[s] = <<>> /\ running[s] = {}
          /\ posted[s][i].type = "ok" => posted[s][i].job \in converted
    /\ \A i, k \in Ends(s) : i = k

DeadIsSilent(s) ==
    /\ failure[s] # {} => thread[s] = "dead"
    /\ thread[s] = "dead" => tasks[s] = <<>> /\ running[s] = {}
    /\ thread[s] = "starting" => running[s] = {} /\ Ends(s) = {}
    /\ "error" \in failure[s] => Ends(s) = {}

Protocol == \A s \in Slots : OneUnderWay(s) /\ DeadIsSilent(s)

PoolInv ==
    /\ PoolTypeOK
    /\ WaitingJobsAreHeld
    /\ OkMeansConverted
    /\ Protocol

LEMMA PoolStarts == PoolInit => PoolInv
<1> SUFFICES ASSUME PoolInit
             PROVE  PoolInv
  OBVIOUS
<1>1. PoolTypeOK
  <2>1. <<>> \in Seq(Jobs) /\ <<>> \in Seq(Messages)
    OBVIOUS
  <2>2. /\ queue \in [Slots -> Seq(Jobs)] /\ tasks \in [Slots -> Seq(Jobs)]
        /\ posted \in [Slots -> Seq(Messages)]
    BY <2>1 DEF PoolInit
  <2> QED
    BY <2>2 DEF PoolInit, PoolTypeOK
<1>2. WaitingJobsAreHeld /\ OkMeansConverted
  BY PoolAssumption DEF PoolInit, WaitingJobsAreHeld, OkMeansConverted, Holds, Queued
<1>3. Protocol
  BY DEF PoolInit, Protocol, OneUnderWay, DeadIsSilent, Ends
<1> QED
  BY <1>1, <1>2, <1>3 DEF PoolInv

-----------------------------------------------------------------------------
(* dispatch: what a slot holds afterwards, and what its thread is given.     *)

LEMMA DispatchTypes ==
  ASSUME PoolTypeOK, NEW s \in Slots, NEW q \in Seq(Jobs), NEW busy \in Jobs \cup {NoJob},
         Dispatch(s, q, busy)
  PROVE  /\ queue' \in [Slots -> Seq(Jobs)]
         /\ inflight' \in [Slots -> Jobs \cup {NoJob}]
         /\ tasks' \in [Slots -> Seq(Jobs)]
<1>1. CASE busy # NoJob \/ q = <<>>
  BY <1>1, ZenonT(40) DEF Dispatch, PoolTypeOK
<1>2. CASE ~ (busy # NoJob \/ q = <<>>)
  <2>1. Head(q) \in Jobs /\ Tail(q) \in Seq(Jobs)
    BY <1>2
  <2> QED
    <3>1. /\ queue' = [queue EXCEPT ![s] = Tail(q)]
          /\ inflight' = [inflight EXCEPT ![s] = Head(q)]
          /\ tasks' = tasks \/ tasks' = [tasks EXCEPT ![s] = Append(@, Head(q))]
      BY <1>2 DEF Dispatch, Post
    <3>2. tasks \in [Slots -> Seq(Jobs)] /\ Append(tasks[s], Head(q)) \in Seq(Jobs)
      BY <2>1 DEF PoolTypeOK
    <3>3. tasks' \in [Slots -> Seq(Jobs)]
      BY <3>1, <3>2
    <3> QED
      BY <2>1, <3>1, <3>3 DEF PoolTypeOK
<1> QED
  BY <1>1, <1>2

\* The slot holds what it was given; the other slots hold what they held.
LEMMA DispatchHolds ==
  ASSUME PoolTypeOK,
         NEW s \in Slots, NEW q \in Seq(Jobs), NEW busy \in Jobs \cup {NoJob},
         Dispatch(s, q, busy),
         \A i, k \in DOMAIN q : q[i] # busy /\ (q[i] = q[k] => i = k)
  PROVE  /\ \A j \in Jobs : Holds(s, j)' <=> j = busy \/ \E i \in DOMAIN q : q[i] = j
         /\ \A r \in Slots \ {s} : queue'[r] = queue[r] /\ inflight'[r] = inflight[r]
         /\ \A i, k \in DOMAIN queue'[s] :
               queue'[s][i] # inflight'[s] /\ (queue'[s][i] = queue'[s][k] => i = k)
<1>1. CASE busy # NoJob \/ q = <<>>
  BY <1>1 DEF Dispatch, PoolTypeOK, Holds, Queued
<1>2. CASE ~ (busy # NoJob \/ q = <<>>)
  <2>1. /\ queue' = [queue EXCEPT ![s] = Tail(q)]
        /\ inflight' = [inflight EXCEPT ![s] = Head(q)]
    BY <1>2 DEF Dispatch
  <2>2. queue'[s] = Tail(q) /\ inflight'[s] = q[1]
    BY <1>2, <2>1 DEF PoolTypeOK
  <2>3. /\ Tail(q) \in Seq(Jobs) /\ 1 \in DOMAIN q /\ q[1] \in Jobs
        /\ \A i \in DOMAIN Tail(q) : i + 1 \in DOMAIN q /\ Tail(q)[i] = q[i + 1] /\ i \in Nat \ {0}
        /\ \A i \in DOMAIN q : i = 1 \/ (i - 1 \in DOMAIN Tail(q) /\ Tail(q)[i - 1] = q[i])
    BY <1>2
  <2>4. \A j \in Jobs : Holds(s, j)' <=> j = q[1] \/ \E i \in DOMAIN Tail(q) : Tail(q)[i] = j
    BY <2>2 DEF Holds, Queued
  <2>5. \A j \in Jobs : (j = q[1] \/ \E i \in DOMAIN Tail(q) : Tail(q)[i] = j)
                           <=> \E i \in DOMAIN q : q[i] = j
    BY <2>3
  <2>6. busy \notin Jobs
    BY <1>2, PoolAssumption
  <2>7. \A i, k \in DOMAIN Tail(q) : Tail(q)[i] # q[1] /\ (Tail(q)[i] = Tail(q)[k] => i = k)
    BY <2>3
  <2> QED
    BY <2>1, <2>2, <2>4, <2>5, <2>6, <2>7 DEF PoolTypeOK
<1> QED
  BY <1>1, <1>2

\* A slot with nothing under way is given one task at most.
LEMMA DispatchOne ==
  ASSUME PoolTypeOK, NEW s \in Slots, NEW q \in Seq(Jobs), NEW busy \in Jobs \cup {NoJob},
         Dispatch(s, q, busy), tasks[s] = <<>>
  PROVE  /\ \A i \in DOMAIN tasks'[s] : i = 1 /\ tasks'[s][i] = inflight'[s]
         /\ thread[s] = "dead" => tasks'[s] = <<>>
         /\ \A r \in Slots \ {s} : tasks'[r] = tasks[r]
<1>1. CASE busy # NoJob \/ q = <<>>
  BY <1>1 DEF Dispatch, PoolTypeOK
<1>2. CASE ~ (busy # NoJob \/ q = <<>>)
  <2>1. Head(q) \in Jobs
    BY <1>2
  <2>2. inflight'[s] = Head(q)
    BY <1>2 DEF Dispatch, PoolTypeOK
  <2>3. CASE thread[s] = "dead"
    BY <1>2, <2>3 DEF Dispatch, Post
  <2>4. CASE thread[s] # "dead"
    <3>1. tasks' = [tasks EXCEPT ![s] = Append(<<>>, Head(q))]
      BY <1>2, <2>4 DEF Dispatch, Post
    <3>2. tasks'[s] = <<Head(q)>>
      BY <3>1 DEF PoolTypeOK
    <3> QED
      BY <2>1, <2>2, <2>4, <3>1, <3>2 DEF PoolTypeOK
  <2> QED
    BY <2>3, <2>4
<1> QED
  BY <1>1, <1>2

-----------------------------------------------------------------------------
(* The pool's steps.                                                         *)

\* settle, in a slot with nothing under way: for a job that may be told so.
LEMMA SettlePreserves ==
  ASSUME PoolInv, NEW s \in Slots, NEW o \in Endings, Settle(s, o),
         tasks[s] = <<>>,
         o = "ok" => inflight[s] \in converted \cup {NoJob}
  PROVE  /\ outcome' \in [Jobs -> Endings \cup {"new", "waiting"}]
         /\ queue' \in [Slots -> Seq(Jobs)]
         /\ inflight' \in [Slots -> Jobs \cup {NoJob}]
         /\ tasks' \in [Slots -> Seq(Jobs)]
         /\ WaitingJobsAreHeld'
         /\ \A j \in Jobs : outcome'[j] = "ok" => j \in converted
<1>1. PoolTypeOK /\ WaitingJobsAreHeld /\ OkMeansConverted
  BY DEF PoolInv
<1>2. queue[s] \in Seq(Jobs) /\ inflight[s] \in Jobs \cup {NoJob}
  BY <1>1 DEF PoolTypeOK
<1>3. Dispatch(s, queue[s], NoJob)
  BY DEF Settle
<1>4. \A i, k \in DOMAIN queue[s] :
         /\ queue[s][i] # NoJob /\ queue[s][i] # inflight[s]
         /\ queue[s][i] = queue[s][k] => i = k
  BY <1>1, <1>2, PoolAssumption DEF WaitingJobsAreHeld
<1>5. outcome' = IF inflight[s] = NoJob THEN outcome ELSE [outcome EXCEPT ![inflight[s]] = o]
  BY DEF Settle
<1>6. /\ \A j \in Jobs : Holds(s, j)' <=> \E i \in DOMAIN queue[s] : queue[s][i] = j
      /\ \A r \in Slots \ {s} : queue'[r] = queue[r] /\ inflight'[r] = inflight[r]
      /\ \A i, k \in DOMAIN queue'[s] :
            queue'[s][i] # inflight'[s] /\ (queue'[s][i] = queue'[s][k] => i = k)
  <2>1. NoJob \in Jobs \cup {NoJob} /\ NoJob \notin Jobs
    BY PoolAssumption
  <2> QED
    BY <1>1, <1>2, <1>3, <1>4, <2>1, DispatchHolds
<1>7. /\ \A j \in Jobs : Holds(s, j)' <=> Holds(s, j) /\ j # inflight[s]
      /\ \A j \in Jobs : \A r \in Slots \ {s} : Holds(r, j)' <=> Holds(r, j)
  BY <1>4, <1>6 DEF Holds, Queued
<1>8. \A j \in Jobs : outcome'[j] = IF j = inflight[s] THEN o ELSE outcome[j]
  BY <1>1, <1>2, <1>5, PoolAssumption DEF PoolTypeOK
<1>9. WaitingJobsAreHeld'
  <2>1. \A j \in Jobs : outcome'[j] = "waiting" <=> \E r \in Slots : Holds(r, j)'
    <3> SUFFICES ASSUME NEW j \in Jobs
                 PROVE  outcome'[j] = "waiting" <=> \E r \in Slots : Holds(r, j)'
      OBVIOUS
    <3>1. CASE j = inflight[s]
      <4>1. \A r \in Slots : ~ Holds(r, j)'
        BY <1>1, <1>7, <3>1 DEF WaitingJobsAreHeld, Holds
      <4> QED
        BY <1>8, <3>1, <4>1 DEF Endings
    <3>2. CASE j # inflight[s]
      BY <1>1, <1>7, <1>8, <3>2 DEF WaitingJobsAreHeld
    <3> QED
      BY <3>1, <3>2
  <2>2. \A p, r \in Slots : \A j \in Jobs : Holds(p, j)' /\ Holds(r, j)' => p = r
    BY <1>1, <1>7 DEF WaitingJobsAreHeld
  <2>3. \A r \in Slots : \A i, k \in DOMAIN queue'[r] :
          queue'[r][i] # inflight'[r] /\ (queue'[r][i] = queue'[r][k] => i = k)
    BY <1>1, <1>6 DEF WaitingJobsAreHeld
  <2> QED
    BY <2>1, <2>2, <2>3 DEF WaitingJobsAreHeld
<1>10. /\ queue' \in [Slots -> Seq(Jobs)]
       /\ inflight' \in [Slots -> Jobs \cup {NoJob}]
       /\ tasks' \in [Slots -> Seq(Jobs)]
  <2>1. NoJob \in Jobs \cup {NoJob}
    OBVIOUS
  <2> QED
    BY <1>1, <1>2, <1>3, <2>1, DispatchTypes
<1>11. outcome' \in [Jobs -> Endings \cup {"new", "waiting"}]
  BY <1>1, <1>5 DEF PoolTypeOK
<1>12. \A j \in Jobs : outcome'[j] = "ok" => j \in converted
  BY <1>1, <1>8, PoolAssumption DEF OkMeansConverted
<1> QED
  BY <1>9, <1>10, <1>11, <1>12

\* settle gives its slot's thread one task, and touches no other.
LEMMA SettleGivesOne ==
  ASSUME PoolInv, NEW s \in Slots, NEW o \in Endings, Settle(s, o), tasks[s] = <<>>
  PROVE  /\ \A i \in DOMAIN tasks'[s] : i = 1 /\ tasks'[s][i] = inflight'[s]
         /\ thread[s] = "dead" => tasks'[s] = <<>>
         /\ \A r \in Slots \ {s} : tasks'[r] = tasks[r] /\ inflight'[r] = inflight[r]
<1>1. PoolTypeOK /\ queue[s] \in Seq(Jobs) /\ NoJob \in Jobs \cup {NoJob}
  BY DEF PoolInv, PoolTypeOK
<1>2. Dispatch(s, queue[s], NoJob)
  BY DEF Settle
<1>3. \A r \in Slots \ {s} : inflight'[r] = inflight[r]
  BY <1>1, <1>2 DEF Dispatch, PoolTypeOK
<1> QED
  BY <1>1, <1>2, <1>3, DispatchOne

-----------------------------------------------------------------------------
(* The protocol of a slot.                                                   *)

\* What a slot's protocol depends on.
LEMMA Frame ==
  ASSUME PoolInv, NEW r \in Slots,
         tasks'[r] = tasks[r], running'[r] = running[r], posted'[r] = posted[r],
         inflight'[r] = inflight[r], failure'[r] = failure[r], thread'[r] = thread[r],
         converted \subseteq converted'
  PROVE  OneUnderWay(r)' /\ DeadIsSilent(r)'
<1>1. OneUnderWay(r) /\ DeadIsSilent(r) /\ Ends(r)' = Ends(r)
  BY DEF PoolInv, Protocol, Ends
<1> QED
  BY <1>1 DEF OneUnderWay, DeadIsSilent

\* Nothing is under way but a task that was just given.
LEMMA GivenOne ==
  ASSUME PoolInv, NEW s \in Slots,
         \A i \in DOMAIN tasks'[s] : i = 1 /\ tasks'[s][i] = inflight'[s],
         thread[s] = "dead" => tasks'[s] = <<>>,
         running[s] = {}, UNCHANGED <<running, thread>>,
         Ends(s)' = {}, failure'[s] \subseteq failure[s]
  PROVE  OneUnderWay(s)' /\ DeadIsSilent(s)'
<1>1. DeadIsSilent(s)
  BY DEF PoolInv, Protocol
<1> QED
  BY <1>1 DEF OneUnderWay, DeadIsSilent

\* With no job in flight nothing is under way.
LEMMA IdleSlot ==
  ASSUME PoolInv, NEW s \in Slots, inflight[s] = NoJob
  PROVE  tasks[s] = <<>> /\ running[s] = {} /\ Ends(s) = {}
<1>1. OneUnderWay(s) /\ PoolTypeOK /\ NoJob \notin Jobs
  BY PoolAssumption DEF PoolInv, Protocol
<1>2. /\ tasks[s] \in Seq(Jobs) /\ running[s] \subseteq Jobs
      /\ posted[s] \in Seq(Messages)
  BY <1>1 DEF PoolTypeOK
<1>3. \A i \in DOMAIN posted[s] : posted[s][i].job \in Jobs
  <2>1. \A i \in DOMAIN posted[s] : posted[s][i] \in Messages
    BY <1>2
  <2> QED
    BY <2>1 DEF Messages
<1>4. Ends(s) = {}
  BY <1>1, <1>3 DEF OneUnderWay, Ends
<1>5. running[s] = {}
  BY <1>1, <1>2 DEF OneUnderWay
<1>6. tasks[s] = <<>>
  <2> SUFFICES ASSUME tasks[s] # <<>>
               PROVE  FALSE
    OBVIOUS
  <2>1. 1 \in DOMAIN tasks[s] /\ tasks[s][1] \in Jobs
    BY <1>2
  <2> QED
    BY <1>1, <2>1 DEF OneUnderWay
<1> QED
  BY <1>4, <1>5, <1>6

\* The first message is taken: the results left are those behind it.
LEMMA TailEnds ==
  ASSUME PoolInv, NEW s \in Slots, posted[s] # <<>>, posted' = [posted EXCEPT ![s] = Tail(@)]
  PROVE  /\ posted' \in [Slots -> Seq(Messages)]
         /\ posted'[s] = Tail(posted[s])
         /\ \A r \in Slots \ {s} : posted'[r] = posted[r]
         /\ \A i \in Ends(s)' : i + 1 \in Ends(s) /\ i \in Nat \ {0}
                                /\ posted'[s][i] = posted[s][i + 1]
         /\ posted[s][1] = Head(posted[s]) /\ Head(posted[s]) \in Messages
         /\ 1 \in DOMAIN posted[s]
<1>1. posted \in [Slots -> Seq(Messages)] /\ posted[s] \in Seq(Messages)
  BY DEF PoolInv, PoolTypeOK
<1>2. Tail(posted[s]) \in Seq(Messages) /\ Head(posted[s]) \in Messages
      /\ posted[s][1] = Head(posted[s]) /\ 1 \in DOMAIN posted[s]
  BY <1>1
<1>3. \A i \in DOMAIN Tail(posted[s]) :
         i + 1 \in DOMAIN posted[s] /\ i \in Nat \ {0} /\ Tail(posted[s])[i] = posted[s][i + 1]
  BY <1>1
<1>4. posted'[s] = Tail(posted[s])
  BY <1>1
<1> QED
  BY <1>1, <1>2, <1>3, <1>4 DEF Ends

-----------------------------------------------------------------------------
(* Every step preserves the invariant.                                       *)

LEMMA SubmitPreserves ==
  ASSUME PoolInv, NEW j \in Jobs, Submit(j)
  PROVE  PoolInv'
<1>1. PoolTypeOK /\ WaitingJobsAreHeld /\ OkMeansConverted
  BY DEF PoolInv
<1>2. PICK s \in Slots : Dispatch(s, Append(queue[s], j), inflight[s])
  BY DEF Submit
<1> DEFINE q == Append(queue[s], j)
<1>3. /\ outcome[j] = "new" /\ outcome' = [outcome EXCEPT ![j] = "waiting"]
      /\ UNCHANGED <<posted, failure, running, thread, converted, closed>>
  BY DEF Submit, side
<1>4. /\ queue[s] \in Seq(Jobs) /\ inflight[s] \in Jobs \cup {NoJob}
      /\ q \in Seq(Jobs) /\ Len(queue[s]) \in Nat
      /\ DOMAIN queue[s] = 1..Len(queue[s]) /\ DOMAIN q = 1..Len(queue[s]) + 1
      /\ \A i \in DOMAIN queue[s] : q[i] = queue[s][i]
      /\ q[Len(queue[s]) + 1] = j
  BY <1>1 DEF PoolTypeOK
<1>5. Dispatch(s, q, inflight[s])
  BY <1>2
<1> HIDE DEF q
<1>6. \A r \in Slots : ~ Holds(r, j)
  BY <1>1, <1>3 DEF WaitingJobsAreHeld
<1>7. \A i, k \in DOMAIN q : q[i] # inflight[s] /\ (q[i] = q[k] => i = k)
  <2>1. \A i \in DOMAIN queue[s] : queue[s][i] # j
    BY <1>6 DEF Holds, Queued
  <2>2. inflight[s] # j
    BY <1>6 DEF Holds
  <2>3. \A i, k \in DOMAIN queue[s] :
           queue[s][i] # inflight[s] /\ (queue[s][i] = queue[s][k] => i = k)
    BY <1>1 DEF WaitingJobsAreHeld
  <2> QED
    BY <1>4, <2>1, <2>2, <2>3
<1>8. /\ \A x \in Jobs : Holds(s, x)' <=> x = inflight[s] \/ \E i \in DOMAIN q : q[i] = x
      /\ \A r \in Slots \ {s} : queue'[r] = queue[r] /\ inflight'[r] = inflight[r]
      /\ \A i, k \in DOMAIN queue'[s] :
            queue'[s][i] # inflight'[s] /\ (queue'[s][i] = queue'[s][k] => i = k)
  BY <1>1, <1>4, <1>5, <1>7, DispatchHolds
<1>9. /\ \A x \in Jobs : Holds(s, x)' <=> Holds(s, x) \/ x = j
      /\ \A x \in Jobs : \A r \in Slots \ {s} : Holds(r, x)' <=> Holds(r, x)
  BY <1>4, <1>8 DEF Holds, Queued
<1>10. WaitingJobsAreHeld'
  <2>1. \A x \in Jobs : outcome'[x] = IF x = j THEN "waiting" ELSE outcome[x]
    BY <1>1, <1>3 DEF PoolTypeOK
  <2>2. \A x \in Jobs : outcome'[x] = "waiting" <=> \E r \in Slots : Holds(r, x)'
    BY <1>1, <1>9, <2>1 DEF WaitingJobsAreHeld
  <2>3. \A p, r \in Slots : \A x \in Jobs : Holds(p, x)' /\ Holds(r, x)' => p = r
    BY <1>1, <1>6, <1>9 DEF WaitingJobsAreHeld
  <2>4. \A r \in Slots : \A i, k \in DOMAIN queue'[r] :
          queue'[r][i] # inflight'[r] /\ (queue'[r][i] = queue'[r][k] => i = k)
    BY <1>1, <1>8 DEF WaitingJobsAreHeld
  <2> QED
    BY <2>2, <2>3, <2>4 DEF WaitingJobsAreHeld
<1>11. PoolTypeOK' /\ OkMeansConverted'
  <2>1. /\ queue' \in [Slots -> Seq(Jobs)]
        /\ inflight' \in [Slots -> Jobs \cup {NoJob}]
        /\ tasks' \in [Slots -> Seq(Jobs)]
    BY <1>1, <1>4, <1>5, DispatchTypes
  <2>2. outcome' \in [Jobs -> Endings \cup {"new", "waiting"}]
    BY <1>1, <1>3 DEF PoolTypeOK
  <2>3. OkMeansConverted'
    BY <1>1, <1>3 DEF PoolTypeOK, OkMeansConverted
  <2> QED
    BY <1>1, <1>3, <2>1, <2>2, <2>3 DEF PoolTypeOK
<1>12. Protocol'
  <2> SUFFICES ASSUME NEW r \in Slots
               PROVE  OneUnderWay(r)' /\ DeadIsSilent(r)'
    BY DEF Protocol
  <2>1. CASE inflight[s] # NoJob
    <3>1. inflight' = [inflight EXCEPT ![s] = inflight[s]] /\ UNCHANGED tasks
      BY <1>5, <2>1 DEF Dispatch
    <3>2. inflight'[r] = inflight[r]
      BY <1>1, <3>1 DEF PoolTypeOK
    <3> QED
      BY <1>3, <3>1, <3>2, Frame
  <2>2. CASE inflight[s] = NoJob
    <3>1. tasks[s] = <<>> /\ running[s] = {} /\ Ends(s) = {}
      BY <2>2, IdleSlot
    <3>2. /\ \A i \in DOMAIN tasks'[s] : i = 1 /\ tasks'[s][i] = inflight'[s]
          /\ thread[s] = "dead" => tasks'[s] = <<>>
          /\ \A p \in Slots \ {s} : tasks'[p] = tasks[p]
      BY <1>1, <1>4, <1>5, <3>1, DispatchOne
    <3>3. Ends(s)' = {}
      BY <1>3, <3>1 DEF Ends
    <3>4. CASE r = s
      BY <1>3, <3>1, <3>2, <3>3, <3>4, GivenOne
    <3>5. CASE r # s
      BY <1>3, <1>8, <3>2, <3>5, Frame
    <3> QED
      BY <3>4, <3>5
  <2> QED
    BY <2>1, <2>2
<1> QED
  BY <1>1, <1>10, <1>11, <1>12 DEF PoolInv

\* message, error and exit all settle a slot with nothing under way.
LEMMA SettlingPreserves ==
  ASSUME PoolInv, NEW s \in Slots, NEW o \in Endings, Settle(s, o),
         tasks[s] = <<>>, running[s] = {}, Ends(s)' = {},
         o = "ok" => inflight[s] \in converted \cup {NoJob},
         posted' \in [Slots -> Seq(Messages)], failure' \in [Slots -> SUBSET {"error", "exit"}],
         failure'[s] \subseteq failure[s],
         \A r \in Slots \ {s} : posted'[r] = posted[r] /\ failure'[r] = failure[r],
         UNCHANGED side
  PROVE  PoolInv'
<1>1. UNCHANGED <<running, thread, converted, closed>>
  BY DEF side
<1>2. /\ outcome' \in [Jobs -> Endings \cup {"new", "waiting"}]
      /\ queue' \in [Slots -> Seq(Jobs)]
      /\ inflight' \in [Slots -> Jobs \cup {NoJob}]
      /\ tasks' \in [Slots -> Seq(Jobs)]
      /\ WaitingJobsAreHeld'
      /\ \A j \in Jobs : outcome'[j] = "ok" => j \in converted
  BY SettlePreserves
<1>3. PoolTypeOK'
  BY <1>1, <1>2 DEF PoolInv, PoolTypeOK
<1>4. OkMeansConverted'
  BY <1>1, <1>2 DEF OkMeansConverted
<1>5. /\ \A i \in DOMAIN tasks'[s] : i = 1 /\ tasks'[s][i] = inflight'[s]
      /\ thread[s] = "dead" => tasks'[s] = <<>>
      /\ \A r \in Slots \ {s} : tasks'[r] = tasks[r] /\ inflight'[r] = inflight[r]
  BY SettleGivesOne
<1>6. Protocol'
  <2> SUFFICES ASSUME NEW r \in Slots
               PROVE  OneUnderWay(r)' /\ DeadIsSilent(r)'
    BY DEF Protocol
  <2>1. CASE r = s
    BY <1>1, <1>5, <2>1, GivenOne
  <2>2. CASE r # s
    BY <1>1, <1>5, <2>2, Frame
  <2> QED
    BY <2>1, <2>2
<1> QED
  BY <1>2, <1>3, <1>4, <1>6 DEF PoolInv

\* The thread's steps leave the pool's own state as it is.
LEMMA MainKept ==
  ASSUME PoolInv, UNCHANGED main, converted \subseteq converted'
  PROVE  WaitingJobsAreHeld' /\ OkMeansConverted'
<1>1. UNCHANGED <<outcome, queue, inflight>>
  BY DEF main
<1> QED
  BY <1>1 DEF PoolInv, WaitingJobsAreHeld, OkMeansConverted, Holds, Queued

LEMMA OnMessagePreserves ==
  ASSUME PoolInv, NEW s \in Slots, OnMessage(s)
  PROVE  PoolInv'
<1>1. /\ posted[s] # <<>> /\ posted' = [posted EXCEPT ![s] = Tail(@)]
      /\ UNCHANGED failure /\ UNCHANGED side
  BY DEF OnMessage
<1>2. /\ posted' \in [Slots -> Seq(Messages)]
      /\ posted'[s] = Tail(posted[s])
      /\ \A r \in Slots \ {s} : posted'[r] = posted[r]
      /\ \A i \in Ends(s)' : i + 1 \in Ends(s) /\ i \in Nat \ {0}
                             /\ posted'[s][i] = posted[s][i + 1]
      /\ posted[s][1] = Head(posted[s]) /\ Head(posted[s]) \in Messages
      /\ 1 \in DOMAIN posted[s]
  BY <1>1, TailEnds
<1>3. PoolTypeOK /\ OneUnderWay(s) /\ DeadIsSilent(s)
  BY DEF PoolInv, Protocol
<1>4. CASE Head(posted[s]).type = "progress"
  <2>1. UNCHANGED <<outcome, queue, inflight, tasks, running, thread, converted, closed>>
    BY <1>1, <1>4 DEF OnMessage, main, side
  <2>2. PoolTypeOK' /\ WaitingJobsAreHeld' /\ OkMeansConverted'
    <3>1. PoolTypeOK'
      BY <1>1, <1>2, <1>3, <2>1 DEF PoolTypeOK
    <3> QED
      BY <2>1, <3>1, MainKept DEF main
  <2>3. Protocol'
    <3> SUFFICES ASSUME NEW r \in Slots
                 PROVE  OneUnderWay(r)' /\ DeadIsSilent(r)'
      BY DEF Protocol
    <3>1. CASE r = s
      <4>1. \A i \in Ends(s)' :
               /\ posted'[s][i].job = inflight[s]
               /\ tasks[s] = <<>> /\ running[s] = {}
               /\ posted'[s][i].type = "ok" => posted'[s][i].job \in converted
        <5>1. \A k \in Ends(s) :
                 /\ posted[s][k].job = inflight[s]
                 /\ tasks[s] = <<>> /\ running[s] = {}
                 /\ posted[s][k].type = "ok" => posted[s][k].job \in converted
          BY <1>3 DEF OneUnderWay
        <5> SUFFICES ASSUME NEW i \in Ends(s)'
                     PROVE  /\ posted'[s][i].job = inflight[s]
                            /\ tasks[s] = <<>> /\ running[s] = {}
                            /\ posted'[s][i].type = "ok"
                                 => posted'[s][i].job \in converted
          OBVIOUS
        <5>2. i + 1 \in Ends(s) /\ posted'[s][i] = posted[s][i + 1]
          BY <1>2
        <5> DEFINE k == i + 1
        <5>3. k \in Ends(s) /\ posted'[s][i] = posted[s][k]
          BY <5>2
        <5> HIDE DEF k
        <5> QED
          BY <5>1, <5>3
      <4>2. \A i, k \in Ends(s)' : i = k
        <5>1. \A i, k \in Ends(s)' : i + 1 = k + 1 /\ i \in Nat /\ k \in Nat
          BY <1>2, <1>3 DEF OneUnderWay
        <5> QED
          BY <5>1
      <4>3. OneUnderWay(s)'
        BY <1>3, <2>1, <4>1, <4>2 DEF OneUnderWay
      <4>4. DeadIsSilent(s)'
        BY <1>1, <1>2, <1>3, <2>1 DEF DeadIsSilent
      <4> QED
        BY <3>1, <4>3, <4>4
    <3>2. CASE r # s
      BY <1>1, <1>2, <2>1, <3>2, Frame
    <3> QED
      BY <3>1, <3>2
  <2> QED
    BY <2>2, <2>3 DEF PoolInv
<1>5. CASE Head(posted[s]).type # "progress"
  <2> DEFINE o == Head(posted[s]).type
  <2>1. Settle(s, o)
    BY <1>5 DEF OnMessage
  <2>2. o \in Endings
    BY <1>2, <1>5 DEF Messages, Endings
  <2>3. 1 \in Ends(s)
    BY <1>2, <1>5 DEF Ends
  <2>4. /\ tasks[s] = <<>> /\ running[s] = {}
        /\ o = "ok" => inflight[s] \in converted \cup {NoJob}
    BY <1>2, <1>3, <2>3 DEF OneUnderWay
  <2>5. Ends(s)' = {}
    BY <1>2, <1>3, <2>3 DEF OneUnderWay
  <2>6. /\ failure' \in [Slots -> SUBSET {"error", "exit"}]
        /\ failure'[s] \subseteq failure[s]
        /\ \A r \in Slots \ {s} : posted'[r] = posted[r] /\ failure'[r] = failure[r]
    BY <1>1, <1>2, <1>3 DEF PoolTypeOK
  <2> HIDE DEF o
  <2> QED
    BY <1>1, <1>2, <2>1, <2>2, <2>4, <2>5, <2>6, SettlingPreserves
<1> QED
  BY <1>4, <1>5

LEMMA OnErrorPreserves ==
  ASSUME PoolInv, NEW s \in Slots, OnError(s)
  PROVE  PoolInv'
<1>1. /\ "error" \in failure[s] /\ failure' = [failure EXCEPT ![s] = @ \ {"error"}]
      /\ Settle(s, "crash") /\ UNCHANGED posted /\ UNCHANGED side
  BY DEF OnError
<1>2. PoolTypeOK /\ DeadIsSilent(s)
  BY DEF PoolInv, Protocol
<1>3. tasks[s] = <<>> /\ running[s] = {} /\ Ends(s)' = {}
  BY <1>1, <1>2 DEF DeadIsSilent, Ends
<1>4. /\ posted' \in [Slots -> Seq(Messages)]
      /\ failure' \in [Slots -> SUBSET {"error", "exit"}]
      /\ failure'[s] \subseteq failure[s]
      /\ \A r \in Slots \ {s} : posted'[r] = posted[r] /\ failure'[r] = failure[r]
  BY <1>1, <1>2 DEF PoolTypeOK
<1>5. "crash" \in Endings /\ "crash" # "ok"
  BY DEF Endings
<1> QED
  BY <1>1, <1>3, <1>4, <1>5, SettlingPreserves

LEMMA OnExitPreserves ==
  ASSUME PoolInv, NEW s \in Slots, OnExit(s)
  PROVE  PoolInv'
<1>1. /\ failure[s] = {"exit"} /\ failure' = [failure EXCEPT ![s] = {}]
      /\ Settle(s, "crash") /\ posted[s] = <<>> /\ UNCHANGED posted /\ UNCHANGED side
  BY DEF OnExit
<1>2. PoolTypeOK /\ DeadIsSilent(s)
  BY DEF PoolInv, Protocol
<1>3. tasks[s] = <<>> /\ running[s] = {} /\ Ends(s)' = {}
  BY <1>1, <1>2 DEF DeadIsSilent, Ends
<1>4. /\ posted' \in [Slots -> Seq(Messages)]
      /\ failure' \in [Slots -> SUBSET {"error", "exit"}]
      /\ failure'[s] \subseteq failure[s]
      /\ \A r \in Slots \ {s} : posted'[r] = posted[r] /\ failure'[r] = failure[r]
  BY <1>1, <1>2 DEF PoolTypeOK
<1>5. "crash" \in Endings /\ "crash" # "ok"
  BY DEF Endings
<1> QED
  BY <1>1, <1>3, <1>4, <1>5, SettlingPreserves

LEMMA ClosePreserves ==
  ASSUME PoolInv, Close
  PROVE  PoolInv'
<1>1. /\ thread' = [s \in Slots |-> "dead"] /\ closed' = TRUE
      /\ failure' = [s \in Slots |->
            IF thread[s] = "dead" THEN failure[s] ELSE {"exit"}]
      /\ tasks' = [s \in Slots |-> <<>>]
      /\ running' = [s \in Slots |-> {}]
      /\ UNCHANGED <<outcome, queue, inflight, posted, converted>>
  BY DEF Close, main
<1>2. WaitingJobsAreHeld' /\ OkMeansConverted'
  BY <1>1, MainKept DEF main
<1>3. PoolTypeOK'
  <2>1. <<>> \in Seq(Jobs)
    OBVIOUS
  <2>2. tasks' \in [Slots -> Seq(Jobs)]
    BY <1>1, <2>1
  <2> QED
    BY <1>1, <2>2 DEF PoolInv, PoolTypeOK
<1>4. Protocol'
  <2> SUFFICES ASSUME NEW s \in Slots
               PROVE  OneUnderWay(s)' /\ DeadIsSilent(s)'
    BY DEF Protocol
  <2>1. OneUnderWay(s) /\ DeadIsSilent(s) /\ Ends(s)' = Ends(s)
    BY <1>1 DEF PoolInv, Protocol, Ends
  <2>2. tasks'[s] = <<>> /\ running'[s] = {} /\ thread'[s] = "dead"
    BY <1>1
  <2>3. OneUnderWay(s)'
    BY <1>1, <2>1, <2>2 DEF OneUnderWay
  <2>4. DeadIsSilent(s)'
    BY <1>1, <2>1, <2>2 DEF DeadIsSilent
  <2> QED
    BY <2>3, <2>4
<1> QED
  BY <1>2, <1>3, <1>4 DEF PoolInv

LEMMA BootPreserves ==
  ASSUME PoolInv, NEW s \in Slots, Boot(s)
  PROVE  PoolInv'
<1>1. /\ thread[s] = "starting" /\ thread' = [thread EXCEPT ![s] = "ready"]
      /\ UNCHANGED <<outcome, queue, inflight, tasks, running, posted, failure,
                     converted, closed>>
  BY DEF Boot, main
<1>2. WaitingJobsAreHeld' /\ OkMeansConverted'
  BY <1>1, MainKept DEF main
<1>3. PoolTypeOK /\ PoolTypeOK'
  BY <1>1 DEF PoolInv, PoolTypeOK
<1>4. Protocol'
  <2> SUFFICES ASSUME NEW r \in Slots
               PROVE  OneUnderWay(r)' /\ DeadIsSilent(r)'
    BY DEF Protocol
  <2>1. OneUnderWay(r) /\ DeadIsSilent(r) /\ Ends(r)' = Ends(r)
    BY <1>1 DEF PoolInv, Protocol, Ends
  <2>2. thread'[r] = IF r = s THEN "ready" ELSE thread[r]
    BY <1>1, <1>3 DEF PoolTypeOK
  <2>3. OneUnderWay(r)'
    BY <1>1, <2>1 DEF OneUnderWay
  <2>4. DeadIsSilent(r)'
    BY <1>1, <2>1, <2>2 DEF DeadIsSilent
  <2> QED
    BY <2>3, <2>4
<1> QED
  BY <1>2, <1>3, <1>4 DEF PoolInv

LEMMA TakePreserves ==
  ASSUME PoolInv, NEW s \in Slots, Take(s)
  PROVE  PoolInv'
<1>1. /\ thread[s] = "ready" /\ tasks[s] # <<>>
      /\ tasks' = [tasks EXCEPT ![s] = Tail(@)]
      /\ running' = [running EXCEPT ![s] = @ \cup {Head(tasks[s])}]
      /\ UNCHANGED <<outcome, queue, inflight, posted, failure, thread, converted, closed>>
  BY DEF Take, main
<1>2. WaitingJobsAreHeld' /\ OkMeansConverted'
  BY <1>1, MainKept DEF main
<1>3. PoolTypeOK /\ OneUnderWay(s) /\ DeadIsSilent(s) /\ Ends(s)' = Ends(s)
  BY <1>1 DEF PoolInv, Protocol, Ends
<1>4. /\ tasks[s] \in Seq(Jobs) /\ Head(tasks[s]) \in Jobs
      /\ Tail(tasks[s]) \in Seq(Jobs) /\ 1 \in DOMAIN tasks[s]
      /\ tasks[s][1] = Head(tasks[s]) /\ DOMAIN tasks[s] = 1..Len(tasks[s])
      /\ Len(tasks[s]) \in Nat
  BY <1>1, <1>3 DEF PoolTypeOK
<1>5. PoolTypeOK'
  BY <1>1, <1>3, <1>4 DEF PoolTypeOK
\* The task was the only one, nothing ran and no result was posted.
<1>6. /\ tasks'[s] = <<>>
      /\ running'[s] = {inflight[s]}
      /\ Ends(s) = {}
  <2>1. Len(tasks[s]) = 1
    <3>1. \A i \in 1..Len(tasks[s]) : i = 1
      BY <1>3, <1>4 DEF OneUnderWay
    <3>2. 1 \in 1..Len(tasks[s])
      BY <1>4
    <3>3. Len(tasks[s]) \in 1..Len(tasks[s])
      BY <1>4, <3>2
    <3> QED
      BY <3>1, <3>3
  <2>2. Tail(tasks[s]) = <<>>
    <3>1. Len(Tail(tasks[s])) = 0
      BY <1>1, <1>4, <2>1
    <3> QED
      BY <1>4, <3>1, EmptySeq
  <2>3. running[s] = {} /\ Ends(s) = {}
    BY <1>1, <1>3 DEF OneUnderWay
  <2>4. Head(tasks[s]) = inflight[s]
    BY <1>3, <1>4 DEF OneUnderWay
  <2> QED
    BY <1>1, <1>3, <2>2, <2>3, <2>4 DEF PoolTypeOK
<1>7. Protocol'
  <2> SUFFICES ASSUME NEW r \in Slots
               PROVE  OneUnderWay(r)' /\ DeadIsSilent(r)'
    BY DEF Protocol
  <2>1. CASE r = s
    <3>1. OneUnderWay(s)'
      BY <1>1, <1>3, <1>6 DEF OneUnderWay
    <3>2. DeadIsSilent(s)'
      BY <1>1, <1>3, <1>6 DEF DeadIsSilent
    <3> QED
      BY <2>1, <3>1, <3>2
  <2>2. CASE r # s
    <3>1. tasks'[r] = tasks[r] /\ running'[r] = running[r]
      BY <1>1, <1>3, <2>2 DEF PoolTypeOK
    <3> QED
      BY <1>1, <3>1, Frame
  <2> QED
    BY <2>1, <2>2
<1> QED
  BY <1>2, <1>5, <1>7 DEF PoolInv

\* A message more behind the others.
LEMMA Posting ==
  ASSUME PoolInv, NEW s \in Slots, NEW m \in Messages,
         posted' = [posted EXCEPT ![s] = Append(@, m)]
  PROVE  /\ posted' \in [Slots -> Seq(Messages)]
         /\ \A r \in Slots \ {s} : posted'[r] = posted[r]
         /\ \A i \in Ends(s)' :
               \/ i \in Ends(s) /\ posted'[s][i] = posted[s][i]
               \/ /\ i = Len(posted[s]) + 1 /\ posted'[s][i] = m
                  /\ m.type # "progress"
<1>1. posted \in [Slots -> Seq(Messages)] /\ posted[s] \in Seq(Messages)
  BY DEF PoolInv, PoolTypeOK
<1>2. /\ Append(posted[s], m) \in Seq(Messages)
      /\ \A i \in DOMAIN Append(posted[s], m) :
            \/ i \in DOMAIN posted[s] /\ Append(posted[s], m)[i] = posted[s][i]
            \/ i = Len(posted[s]) + 1 /\ Append(posted[s], m)[i] = m
  BY <1>1
<1>3. posted'[s] = Append(posted[s], m)
  BY <1>1
<1> QED
  BY <1>1, <1>2, <1>3 DEF Ends

LEMMA ReportPreserves ==
  ASSUME PoolInv, NEW s \in Slots, NEW j \in Jobs, Report(s, j)
  PROVE  PoolInv'
<1> DEFINE m == [type |-> "progress", job |-> j]
<1>1. /\ posted' = [posted EXCEPT ![s] = Append(@, m)]
      /\ UNCHANGED <<outcome, queue, inflight, tasks, failure, running, thread,
                     converted, closed>>
  BY DEF Report, main, side
<1>2. m \in Messages /\ m.type = "progress"
  BY DEF Messages
<1> HIDE DEF m
<1>3. WaitingJobsAreHeld' /\ OkMeansConverted'
  BY <1>1, MainKept DEF main
<1>4. /\ posted' \in [Slots -> Seq(Messages)]
      /\ \A r \in Slots \ {s} : posted'[r] = posted[r]
      /\ \A i \in Ends(s)' : i \in Ends(s) /\ posted'[s][i] = posted[s][i]
  BY <1>1, <1>2, Posting
<1>5. PoolTypeOK'
  BY <1>1, <1>4 DEF PoolInv, PoolTypeOK
<1>6. Protocol'
  <2> SUFFICES ASSUME NEW r \in Slots
               PROVE  OneUnderWay(r)' /\ DeadIsSilent(r)'
    BY DEF Protocol
  <2>1. CASE r = s
    <3>1. OneUnderWay(s) /\ DeadIsSilent(s)
      BY DEF PoolInv, Protocol
    <3>2. OneUnderWay(s)'
      BY <1>1, <1>4, <3>1 DEF OneUnderWay
    <3>3. DeadIsSilent(s)'
      BY <1>1, <1>4, <3>1 DEF DeadIsSilent
    <3> QED
      BY <2>1, <3>2, <3>3
  <2>2. CASE r # s
    BY <1>1, <1>4, <2>2, Frame
  <2> QED
    BY <2>1, <2>2
<1> QED
  BY <1>3, <1>5, <1>6 DEF PoolInv

LEMMA FinishPreserves ==
  ASSUME PoolInv, NEW s \in Slots, NEW j \in Jobs, NEW o \in {"ok", "failed"}, Finish(s, j, o)
  PROVE  PoolInv'
<1> DEFINE m == [type |-> o, job |-> j]
<1>1. /\ j \in running[s] /\ running' = [running EXCEPT ![s] = @ \ {j}]
      /\ converted' = IF o = "ok" THEN converted \cup {j} ELSE converted
      /\ posted' = [posted EXCEPT ![s] = Append(@, m)]
      /\ UNCHANGED <<outcome, queue, inflight, tasks, failure, thread, closed>>
  BY DEF Finish, main
<1>2. m \in Messages /\ m.type = o /\ m.job = j
  BY DEF Messages
<1> HIDE DEF m
<1>3. PoolTypeOK /\ OneUnderWay(s) /\ DeadIsSilent(s)
  BY DEF PoolInv, Protocol
<1>4. WaitingJobsAreHeld' /\ OkMeansConverted'
  BY <1>1, MainKept DEF main
<1>5. /\ posted' \in [Slots -> Seq(Messages)]
      /\ \A r \in Slots \ {s} : posted'[r] = posted[r]
      /\ \A i \in Ends(s)' :
            \/ i \in Ends(s) /\ posted'[s][i] = posted[s][i]
            \/ /\ i = Len(posted[s]) + 1 /\ posted'[s][i] = m
               /\ m.type # "progress"
  <2>1. posted' = [posted EXCEPT ![s] = Append(@, m)] /\ m \in Messages
    BY <1>1, <1>2
  <2> QED
    BY <2>1, Posting
<1>6. PoolTypeOK'
  BY <1>1, <1>3, <1>5 DEF PoolTypeOK
\* It was the only conversion, of the job in flight, and no result was posted.
<1>7. /\ tasks[s] = <<>> /\ running'[s] = {} /\ j = inflight[s] /\ Ends(s) = {}
      /\ thread[s] # "starting" /\ "error" \notin failure[s]
  <2>1. tasks[s] = <<>> /\ j = inflight[s] /\ Ends(s) = {}
    BY <1>1, <1>3 DEF OneUnderWay
  <2>2. \A k \in running[s] : k = j
    BY <1>3, <2>1 DEF OneUnderWay
  <2>3. running'[s] = {}
    BY <1>1, <1>3, <2>2 DEF PoolTypeOK
  <2>4. thread[s] # "starting" /\ "error" \notin failure[s]
    BY <1>1, <1>3 DEF DeadIsSilent
  <2> QED
    BY <2>1, <2>3, <2>4
<1>8. Protocol'
  <2> SUFFICES ASSUME NEW r \in Slots
               PROVE  OneUnderWay(r)' /\ DeadIsSilent(r)'
    BY DEF Protocol
  <2>1. CASE r = s
    <3>1. \A i \in Ends(s)' : i = Len(posted[s]) + 1 /\ posted'[s][i] = m
      BY <1>5, <1>7
    <3>2. m.type = "ok" => m.job \in converted'
      BY <1>1, <1>2
    <3>3. OneUnderWay(s)'
      BY <1>1, <1>2, <1>7, <3>1, <3>2 DEF OneUnderWay
    <3>4. DeadIsSilent(s)'
      BY <1>1, <1>3, <1>7 DEF DeadIsSilent
    <3> QED
      BY <2>1, <3>3, <3>4
  <2>2. CASE r # s
    <3>1. running'[r] = running[r] /\ converted \subseteq converted'
      BY <1>1, <1>3, <2>2 DEF PoolTypeOK
    <3> QED
      BY <1>1, <1>5, <2>2, <3>1, Frame
  <2> QED
    BY <2>1, <2>2
<1> QED
  BY <1>4, <1>6, <1>8 DEF PoolInv

LEMMA DiePreserves ==
  ASSUME PoolInv, NEW s \in Slots, Die(s)
  PROVE  PoolInv'
<1>1. PICK e \in {{"error", "exit"}, {"exit"}} : failure' = [failure EXCEPT ![s] = e]
  BY DEF Die
<1>2. /\ thread[s] = "starting" \/ running[s] # {}
      /\ thread' = [thread EXCEPT ![s] = "dead"]
      /\ tasks' = [tasks EXCEPT ![s] = <<>>]
      /\ running' = [running EXCEPT ![s] = {}]
      /\ UNCHANGED <<outcome, queue, inflight, posted, converted, closed>>
  BY DEF Die, main
<1>3. PoolTypeOK /\ OneUnderWay(s) /\ DeadIsSilent(s)
  BY DEF PoolInv, Protocol
<1>4. WaitingJobsAreHeld' /\ OkMeansConverted'
  BY <1>2, MainKept DEF main
<1>5. PoolTypeOK'
  <2>1. <<>> \in Seq(Jobs)
    OBVIOUS
  <2>2. tasks' \in [Slots -> Seq(Jobs)]
    BY <1>2, <1>3, <2>1 DEF PoolTypeOK
  <2> QED
    BY <1>1, <1>2, <1>3, <2>2 DEF PoolTypeOK
<1>6. Protocol'
  <2> SUFFICES ASSUME NEW r \in Slots
               PROVE  OneUnderWay(r)' /\ DeadIsSilent(r)'
    BY DEF Protocol
  <2>1. CASE r = s
    <3>1. Ends(s)' = {}
      BY <1>2, <1>3 DEF Ends, OneUnderWay, DeadIsSilent
    <3>2. tasks'[s] = <<>> /\ running'[s] = {} /\ thread'[s] = "dead"
      BY <1>2, <1>3 DEF PoolTypeOK
    <3> QED
      BY <2>1, <3>1, <3>2 DEF OneUnderWay, DeadIsSilent
  <2>2. CASE r # s
    <3>1. /\ tasks'[r] = tasks[r] /\ running'[r] = running[r]
          /\ failure'[r] = failure[r] /\ thread'[r] = thread[r]
      BY <1>1, <1>2, <1>3, <2>2 DEF PoolTypeOK
    <3> QED
      BY <1>2, <3>1, Frame
  <2> QED
    BY <2>1, <2>2
<1> QED
  BY <1>4, <1>5, <1>6 DEF PoolInv

LEMMA PoolSteps == PoolInv /\ [PoolNext]_poolVars => PoolInv'
<1> SUFFICES ASSUME PoolInv, [PoolNext]_poolVars
             PROVE  PoolInv'
  OBVIOUS
<1>1. CASE \E j \in Jobs : Submit(j)
  BY <1>1, SubmitPreserves
<1>2. CASE \E s \in Slots : HandleEvent(s)
  BY <1>2, OnMessagePreserves, OnErrorPreserves, OnExitPreserves DEF HandleEvent
<1>3. CASE \E s \in Slots : Work(s)
  BY <1>3, BootPreserves, TakePreserves, ReportPreserves, FinishPreserves DEF Work
<1>4. CASE \E s \in Slots : Die(s)
  BY <1>4, DiePreserves
<1>5. CASE Close
  BY <1>5, ClosePreserves
<1>6. CASE UNCHANGED poolVars
  <2>1. UNCHANGED <<outcome, queue, inflight, tasks, running, posted, failure,
                    thread, converted, closed>>
    BY <1>6 DEF poolVars
  <2>2. WaitingJobsAreHeld' /\ OkMeansConverted' /\ PoolTypeOK'
    BY <2>1, MainKept DEF main, PoolInv, PoolTypeOK
  <2>3. Protocol'
    BY <2>1, Frame DEF Protocol
  <2> QED
    BY <2>2, <2>3 DEF PoolInv
<1> QED
  BY <1>1, <1>2, <1>3, <1>4, <1>5, <1>6 DEF PoolNext

-----------------------------------------------------------------------------
\* Every state of the pool satisfies the invariant.
THEOREM PoolIsSound == PoolSpec => []PoolInv
<1>1. PoolInit => PoolInv
  BY PoolStarts
<1>2. PoolInv /\ [PoolNext]_poolVars => PoolInv'
  BY PoolSteps
<1> QED
  BY <1>1, <1>2, PTL DEF PoolSpec

\* The queues of apps/api/src/conversion/index.ts forget no submit and settle
\* none twice: a job waits exactly when one slot holds it, once.
THEOREM SubmitsAreHeld == PoolSpec => []WaitingJobsAreHeld
<1>1. PoolInv => WaitingJobsAreHeld
  BY DEF PoolInv
<1> QED
  BY <1>1, PoolIsSound, PTL

\* No submit is told of a conversion that is not its own or did not end well,
\* although the code never compares a result's jobId with the job it settles.
THEOREM OkIsTrue == PoolSpec => []OkMeansConverted
<1>1. PoolInv => OkMeansConverted
  BY DEF PoolInv
<1> QED
  BY <1>1, PoolIsSound, PTL

-----------------------------------------------------------------------------
(* A death tells of two jobs at most.  Inductive: the crashes told, and the  *)
(* "error" and "exit" events that may tell of one each when they are         *)
(* handled, are together two at most for every dead thread.                  *)

Crashed     == {j \in Jobs : outcome[j] = "crash"}
Dead        == {s \in Slots : thread[s] = "dead"}
Awaiting(e) == {s \in Slots : e \in failure[s]}

DeathsArePaid ==
    /\ IsFiniteSet(Crashed)
    /\ Cardinality(Crashed) + Cardinality(Awaiting("error")) + Cardinality(Awaiting("exit"))
         <= 2 * Cardinality(Dead)

\* Whatever is counted in slots is finite.
LEMMA SlotsAreFinite ==
  ASSUME NEW S \in SUBSET Slots
  PROVE  IsFiniteSet(S) /\ Cardinality(S) \in Nat
<1>1. IsFiniteSet(Slots)
  BY PoolAssumption, FS_Interval DEF Slots
<1> QED
  BY <1>1, FS_Subset, FS_CardinalityType

\* No event is added, no thread dies, and no crash is told.
LEMMA NobodyDies ==
  ASSUME DeathsArePaid, Crashed' \subseteq Crashed, UNCHANGED failure, Dead' = Dead
  PROVE  DeathsArePaid'
<1>1. Awaiting("error")' = Awaiting("error") /\ Awaiting("exit")' = Awaiting("exit")
  BY DEF Awaiting
<1>2. IsFiniteSet(Crashed') /\ Cardinality(Crashed') <= Cardinality(Crashed)
  BY FS_Subset DEF DeathsArePaid
<1>3. /\ Cardinality(Crashed) \in Nat /\ Cardinality(Crashed') \in Nat
      /\ Cardinality(Awaiting("error")) \in Nat /\ Cardinality(Awaiting("exit")) \in Nat
      /\ Cardinality(Dead) \in Nat
  BY <1>2, FS_CardinalityType, SlotsAreFinite DEF DeathsArePaid, Awaiting, Dead
<1> QED
  BY <1>1, <1>2, <1>3 DEF DeathsArePaid

\* What settling tells of.
LEMMA SettleTells ==
  ASSUME PoolInv, NEW s \in Slots, NEW o \in Endings, Settle(s, o)
  PROVE  /\ o # "crash" => Crashed' \subseteq Crashed
         /\ Crashed' \subseteq Crashed \cup {inflight[s]}
BY DEF Settle, Crashed, PoolInv, PoolTypeOK, Endings

\* An event is handled: it is gone, and may have told of a crash.
LEMMA EventTells ==
  ASSUME PoolInv, DeathsArePaid, NEW s \in Slots, NEW e \in {"error", "exit"},
         e \in failure[s], failure' = [failure EXCEPT ![s] = @ \ {e}],
         Settle(s, "crash"), thread' = thread
  PROVE  DeathsArePaid'
<1>1. Crashed' \subseteq Crashed \cup {inflight[s]}
  BY SettleTells DEF Endings
<1>2. IsFiniteSet(Crashed') /\ Cardinality(Crashed') <= Cardinality(Crashed) + 1
      /\ Cardinality(Crashed) \in Nat /\ Cardinality(Crashed') \in Nat
  <2>1. IsFiniteSet(Crashed)
    BY DEF DeathsArePaid
  <2>2. /\ IsFiniteSet(Crashed \cup {inflight[s]})
        /\ Cardinality(Crashed) \in Nat
        /\ Cardinality(Crashed \cup {inflight[s]}) <= Cardinality(Crashed) + 1
    <3>1. PICK j : j = inflight[s]
      OBVIOUS
    <3>2. Cardinality(Crashed) \in Nat
      BY <2>1, FS_CardinalityType
    <3>3. /\ IsFiniteSet(Crashed \cup {j})
          /\ Cardinality(Crashed \cup {j}) \in {Cardinality(Crashed), Cardinality(Crashed) + 1}
      BY <2>1, FS_AddElement
    <3> QED
      BY <3>1, <3>2, <3>3
  <2>3. /\ IsFiniteSet(Crashed')
        /\ Cardinality(Crashed') <= Cardinality(Crashed \cup {inflight[s]})
    BY <1>1, <2>2, FS_Subset
  <2>4. Cardinality(Crashed') \in Nat /\ Cardinality(Crashed \cup {inflight[s]}) \in Nat
    BY <2>2, <2>3, FS_CardinalityType
  <2> QED
    BY <2>2, <2>3, <2>4
<1>3. Dead' = Dead
  BY DEF Dead
<1>4. /\ \A r \in Slots : failure'[r] = IF r = s THEN failure[r] \ {e} ELSE failure[r]
      /\ s \in Awaiting(e)
  BY DEF PoolInv, PoolTypeOK, Awaiting
<1>5. /\ Awaiting(e)' = Awaiting(e) \ {s}
      /\ \A x \in {"error", "exit"} \ {e} : Awaiting(x)' = Awaiting(x)
  BY <1>4 DEF Awaiting
<1>6. Cardinality(Awaiting(e) \ {s}) = Cardinality(Awaiting(e)) - 1
  <2>1. IsFiniteSet(Awaiting(e))
    BY SlotsAreFinite DEF Awaiting
  <2> QED
    BY <1>4, <2>1, FS_RemoveElement
<1>7. /\ Cardinality(Awaiting("error")) \in Nat /\ Cardinality(Awaiting("exit")) \in Nat
      /\ Cardinality(Dead) \in Nat
  BY SlotsAreFinite DEF Awaiting, Dead
<1>8. Cardinality(Awaiting("error")') + Cardinality(Awaiting("exit")')
        = Cardinality(Awaiting("error")) + Cardinality(Awaiting("exit")) - 1
  <2>1. CASE e = "error"
    <3>1. Awaiting("error")' = Awaiting("error") \ {s} /\ Awaiting("exit")' = Awaiting("exit")
      BY <1>5, <2>1
    <3>2. Cardinality(Awaiting("error") \ {s}) = Cardinality(Awaiting("error")) - 1
      BY <1>6, <2>1
    <3>3. Cardinality(Awaiting("error")') = Cardinality(Awaiting("error")) - 1
      BY <3>1, <3>2
    <3>4. Cardinality(Awaiting("exit")') = Cardinality(Awaiting("exit"))
      BY <3>1
    <3> QED
      BY <1>7, <3>3, <3>4
  <2>2. CASE e = "exit"
    <3>1. Awaiting("exit")' = Awaiting("exit") \ {s} /\ Awaiting("error")' = Awaiting("error")
      BY <1>5, <2>2
    <3>2. Cardinality(Awaiting("exit") \ {s}) = Cardinality(Awaiting("exit")) - 1
      BY <1>6, <2>2
    <3>3. Cardinality(Awaiting("exit")') = Cardinality(Awaiting("exit")) - 1
      BY <3>1, <3>2
    <3>4. Cardinality(Awaiting("error")') = Cardinality(Awaiting("error"))
      BY <3>1
    <3> QED
      BY <1>7, <3>3, <3>4
  <2> QED
    BY <2>1, <2>2
<1>9. /\ Cardinality(Awaiting("error")') \in Nat /\ Cardinality(Awaiting("exit")') \in Nat
  <2>1. \A x \in {"error", "exit"} : Awaiting(x)' \subseteq Slots
    BY DEF Awaiting
  <2> QED
    BY <2>1, SlotsAreFinite
<1> QED
  BY <1>2, <1>3, <1>7, <1>8, <1>9 DEF DeathsArePaid

\* Threads die, and each leaves "exit", and "error" before it if it is one.
LEMMA Dying ==
  ASSUME DeathsArePaid, UNCHANGED outcome, NEW D \in SUBSET Slots,
         D \cap Dead = {}, Dead' = Dead \cup D,
         Awaiting("error")' \subseteq Awaiting("error") \cup D,
         Awaiting("exit")' \subseteq Awaiting("exit") \cup D
  PROVE  DeathsArePaid'
<1>1. Crashed' = Crashed
  BY DEF Crashed
<1>2. IsFiniteSet(D) /\ Cardinality(D) \in Nat /\ D \subseteq Slots
  BY SlotsAreFinite
<1>3. ASSUME NEW S \in SUBSET Slots, NEW T \in SUBSET Slots, T \subseteq S \cup D
      PROVE  Cardinality(T) <= Cardinality(S) + Cardinality(D)
  <2>1. IsFiniteSet(S) /\ Cardinality(S) \in Nat /\ Cardinality(T) \in Nat
        /\ Cardinality(S \cup D) \in Nat /\ IsFiniteSet(S \cup D)
        /\ Cardinality(S \cap D) \in Nat
    <3>1. S \cup D \in SUBSET Slots /\ S \cap D \in SUBSET Slots
      BY <1>2
    <3> QED
      BY <3>1, SlotsAreFinite
  <2>2. Cardinality(S \cup D) = Cardinality(S) + Cardinality(D) - Cardinality(S \cap D)
    BY <1>2, <2>1, FS_Union
  <2>3. Cardinality(T) <= Cardinality(S \cup D)
    BY <1>3, <2>1, FS_Subset
  <2> QED
    BY <1>2, <2>1, <2>2, <2>3
<1>4. Cardinality(Dead \cup D) = Cardinality(Dead) + Cardinality(D)
  <2>1. IsFiniteSet(Dead) /\ Cardinality(Dead) \in Nat
    BY SlotsAreFinite DEF Dead
  <2>2. Cardinality(Dead \cap D) = 0
    <3>1. Dead \cap D = {}
      OBVIOUS
    <3> QED
      BY <3>1, FS_EmptySet
  <2>3. Cardinality(Dead \cup D) = Cardinality(Dead) + Cardinality(D) - Cardinality(Dead \cap D)
    BY <1>2, <2>1, FS_Union
  <2> QED
    BY <1>2, <2>1, <2>2, <2>3
<1>5. \A x \in {"error", "exit"} : Awaiting(x) \in SUBSET Slots /\ Awaiting(x)' \in SUBSET Slots
  BY DEF Awaiting
<1>6. /\ Cardinality(Awaiting("error")') <= Cardinality(Awaiting("error")) + Cardinality(D)
      /\ Cardinality(Awaiting("exit")') <= Cardinality(Awaiting("exit")) + Cardinality(D)
  BY <1>3, <1>5
<1>7. /\ Cardinality(Awaiting("error")) \in Nat /\ Cardinality(Awaiting("exit")) \in Nat
      /\ Cardinality(Awaiting("error")') \in Nat /\ Cardinality(Awaiting("exit")') \in Nat
      /\ Cardinality(Dead) \in Nat /\ Cardinality(Crashed) \in Nat
  BY <1>5, SlotsAreFinite, FS_CardinalityType DEF Dead, DeathsArePaid
<1>8. Cardinality(Dead') = Cardinality(Dead) + Cardinality(D)
  BY <1>4
<1> QED
  BY <1>1, <1>2, <1>6, <1>7, <1>8 DEF DeathsArePaid

LEMMA DeathsStep ==
  ASSUME PoolInv, DeathsArePaid, [PoolNext]_poolVars
  PROVE  DeathsArePaid'
<1> USE DEF PoolInv, PoolTypeOK
<1>1. CASE UNCHANGED poolVars
  BY <1>1, NobodyDies DEF poolVars, Crashed, Dead
<1>2. ASSUME NEW j \in Jobs, Submit(j) PROVE DeathsArePaid'
  <2>1. Crashed' \subseteq Crashed /\ UNCHANGED failure /\ Dead' = Dead
    BY <1>2 DEF Submit, Crashed, Dead, side
  <2> QED
    BY <2>1, NobodyDies
<1>3. ASSUME NEW s \in Slots, OnMessage(s) PROVE DeathsArePaid'
  <2>1. UNCHANGED failure /\ Dead' = Dead
    BY <1>3 DEF OnMessage, Dead, side
  <2>2. Crashed' \subseteq Crashed
    <3>1. CASE Head(posted[s]).type = "progress"
      BY <1>3, <3>1 DEF OnMessage, main, Crashed
    <3>2. CASE Head(posted[s]).type # "progress"
      <4>1. Head(posted[s]) \in Messages
        BY <1>3 DEF OnMessage
      <4>2. Head(posted[s]).type \in Endings \ {"crash"}
        BY <3>2, <4>1 DEF Messages, Endings
      <4>3. Settle(s, Head(posted[s]).type)
        BY <1>3, <3>2 DEF OnMessage
      <4> QED
        BY <4>2, <4>3, SettleTells
    <3> QED
      BY <3>1, <3>2
  <2> QED
    BY <2>1, <2>2, NobodyDies
<1>4. ASSUME NEW s \in Slots, OnError(s) PROVE DeathsArePaid'
  BY <1>4, EventTells DEF OnError, side
<1>5. ASSUME NEW s \in Slots, OnExit(s) PROVE DeathsArePaid'
  <2>1. /\ "exit" \in failure[s] /\ failure[s] \ {"exit"} = {}
        /\ failure' = [failure EXCEPT ![s] = {}] /\ Settle(s, "crash") /\ thread' = thread
    BY <1>5 DEF OnExit, side
  <2>2. failure' = [failure EXCEPT ![s] = @ \ {"exit"}]
    BY <2>1
  <2> QED
    BY <2>1, <2>2, EventTells
<1>6. ASSUME NEW s \in Slots, Work(s) PROVE DeathsArePaid'
  <2>1. Crashed' = Crashed /\ UNCHANGED failure /\ Dead' = Dead
    BY <1>6, ZenonT(40) DEF Work, Boot, Take, Report, Finish, main, side, Crashed, Dead
  <2> QED
    BY <2>1, NobodyDies
<1>7. ASSUME NEW s \in Slots, Die(s) PROVE DeathsArePaid'
  <2>1. s \notin Dead
    BY <1>7 DEF Die, Dead, Protocol, DeadIsSilent
  <2>2. /\ UNCHANGED outcome /\ Dead' = Dead \cup {s}
        /\ \A r \in Slots \ {s} : failure'[r] = failure[r]
    BY <1>7 DEF Die, main, Dead
  <2>3. \A x \in {"error", "exit"} : Awaiting(x)' \subseteq Awaiting(x) \cup {s}
    BY <2>2 DEF Awaiting
  <2>4. {s} \in SUBSET Slots /\ {s} \cap Dead = {}
    BY <2>1
  <2> QED
    BY <2>2, <2>3, <2>4, Dying
<1>8. CASE Close
  <2>1. /\ UNCHANGED outcome /\ Dead' = Slots
        /\ \A r \in Dead : failure'[r] = failure[r]
    BY <1>8 DEF Close, main, Dead
  <2>2. \A x \in {"error", "exit"} : Awaiting(x)' \subseteq Awaiting(x) \cup (Slots \ Dead)
    BY <2>1 DEF Awaiting
  <2>3. /\ Slots \ Dead \in SUBSET Slots /\ (Slots \ Dead) \cap Dead = {}
        /\ Dead' = Dead \cup (Slots \ Dead)
    BY <2>1 DEF Dead
  <2> QED
    BY <2>1, <2>2, <2>3, Dying
<1> QED
  BY <1>1, <1>2, <1>3, <1>4, <1>5, <1>6, <1>7, <1>8 DEF PoolNext, HandleEvent

\* Settling a slot settles nothing but its job in flight, and as it is told.
LEMMA SettlesInflight ==
  ASSUME PoolInv, NEW s \in Slots, NEW o \in Endings, Settle(s, o),
         NEW j \in Jobs, outcome'[j] # outcome[j]
  PROVE  inflight[s] = j /\ outcome'[j] = o
BY DEF Settle, PoolInv, PoolTypeOK

\* Every step that settles a job does so at the slot that holds it in flight,
\* with the message about it that comes next or after the death of the thread.
LEMMA SettlingTells ==
  ASSUME PoolInv, [PoolNext]_poolVars, NEW j \in Jobs,
         outcome[j] = "waiting", outcome'[j] # "waiting"
  PROVE  \E s \in Slots : Tells(s, j, outcome'[j])
<1>1. ASSUME NEW s \in Slots, OnMessage(s)
      PROVE  Tells(s, j, outcome'[j])
  <2> DEFINE m == Head(posted[s])
  <2>1. posted[s] # <<>> /\ m.type # "progress" /\ Settle(s, m.type)
    BY <1>1 DEF OnMessage, main
  <2>2. /\ posted[s] \in Seq(Messages)
        /\ 1 \in DOMAIN posted[s] /\ m = posted[s][1] /\ m \in Messages
    BY <2>1 DEF PoolInv, PoolTypeOK
  <2>3. m.type \in Endings \ {"crash"} /\ m = [type |-> m.type, job |-> m.job]
    BY <2>1, <2>2 DEF Messages, Endings
  <2>4. 1 \in Ends(s)
    BY <2>1, <2>2 DEF Ends
  <2>5. m.job = inflight[s]
    BY <2>2, <2>4 DEF PoolInv, Protocol, OneUnderWay
  <2>6. inflight[s] = j /\ outcome'[j] = m.type
    BY <2>1, <2>3, SettlesInflight
  <2> QED
    BY <2>1, <2>3, <2>5, <2>6 DEF Tells
<1>2. ASSUME NEW s \in Slots, Settle(s, "crash"), failure[s] # {}
      PROVE  Tells(s, j, outcome'[j])
  <2>1. thread[s] = "dead"
    BY <1>2 DEF PoolInv, Protocol, DeadIsSilent
  <2>2. inflight[s] = j /\ outcome'[j] = "crash"
    BY <1>2, SettlesInflight DEF Endings
  <2> QED
    BY <1>2, <2>1, <2>2 DEF Tells
<1>3. ASSUME NEW s \in Slots, OnError(s) \/ OnExit(s)
      PROVE  Tells(s, j, outcome'[j])
  BY <1>2, <1>3 DEF OnError, OnExit
<1>4. ASSUME NEW i \in Jobs, Submit(i) PROVE FALSE
  BY <1>4 DEF Submit, PoolInv, PoolTypeOK
<1>5. ASSUME NEW s \in Slots, Work(s) \/ Die(s) PROVE FALSE
  BY <1>5, ZenonT(40) DEF Work, Boot, Take, Report, Finish, Die, main
<1>6. ~ Close /\ ~ UNCHANGED poolVars
  BY DEF Close, main, poolVars
<1> QED
  BY <1>1, <1>3, <1>4, <1>5, <1>6 DEF PoolNext, HandleEvent

\* What index.ts tells of a job befell that job: "ok" and "failed" are the
\* message about its own conversion, "ok" only when its artifacts are complete,
\* and "crash" is told to no job but the one given to a thread that died, two
\* jobs at most for every such thread.
THEOREM OutcomesAreToldTrue == PoolSpec => OutcomesAreTrue
<1>1. PoolInit => DeathsArePaid
  <2>1. PoolInit => /\ Crashed = {} /\ Dead = {}
                    /\ Awaiting("error") = {} /\ Awaiting("exit") = {}
    BY DEF PoolInit, Crashed, Dead, Awaiting
  <2> QED
    BY <2>1, FS_EmptySet DEF DeathsArePaid
<1>2. PoolInv /\ DeathsArePaid /\ [PoolNext]_poolVars => DeathsArePaid'
  BY DeathsStep
<1>3. PoolInv /\ DeathsArePaid => OkMeansConverted /\ DeathCostsTwoJobs
  <2>1. SUFFICES ASSUME PoolInv, DeathsArePaid PROVE DeathCostsTwoJobs
    BY DEF PoolInv
  <2>2. /\ Cardinality(Crashed) \in Nat /\ Cardinality(Dead) \in Nat
        /\ Cardinality(Awaiting("error")) \in Nat /\ Cardinality(Awaiting("exit")) \in Nat
    BY <2>1, SlotsAreFinite, FS_CardinalityType DEF DeathsArePaid, Dead, Awaiting
  <2>3. Cardinality(Crashed) <= 2 * Cardinality(Dead)
    BY <2>1, <2>2 DEF DeathsArePaid
  <2> QED
    BY <2>3 DEF DeathCostsTwoJobs, Crashed, Dead
<1>4. PoolInv /\ [PoolNext]_poolVars
        => [\A j \in Jobs :
               outcome[j] = "waiting" /\ outcome'[j] # "waiting"
                  => \E s \in Slots : Tells(s, j, outcome'[j])]_poolVars
  BY SettlingTells
<1>5. PoolSpec => [](OkMeansConverted /\ DeathCostsTwoJobs)
  BY <1>1, <1>2, <1>3, PoolIsSound, PTL DEF PoolSpec
<1>6. PoolSpec => EachHearsItsOwn
  BY <1>4, PoolIsSound, PTL DEF PoolSpec, EachHearsItsOwn
<1> QED
  BY <1>5, <1>6 DEF OutcomesAreTrue

-----------------------------------------------------------------------------
(***************************************************************************)
(* VersionLifecycle keeps its types, abandons no version, lets no late      *)
(* progress write clobber a READY row and gives no number twice, for any    *)
(* number of clients, versions, batches and crashes, whether or not         *)
(* requests overlap.  Where they do not, it implements VersionStatus, keeps *)
(* the files of READY versions, and imports whole tables until it crashes.  *)
(*                                                                          *)
(* NoAbandonedVersion is not inductive alone: it needs that a flow past its *)
(* first read has a version, and that no flow survives a crash, so that the *)
(* start-up's requeue overwrites no flow that owns a version.               *)
(***************************************************************************)

\* A flow that is past its first read knows its version; an import counts from 1.
FlowsHaveVersions ==
    \A t \in Tasks :
       /\ task[t].pc \notin {"idle", "create"} => task[t].v \in Versions
       /\ task[t].pc = "import" => task[t].k >= 1

\* Before the requeue only requests can be running.
NoFlowSurvivesCrash ==
    /\ phase = "down" => \A t \in Tasks : task[t].pc = "idle"
    /\ phase = "listening" => \A t \in Versions : task[t].pc = "idle"

LifeInv ==
    /\ TypeOK
    /\ FlowsHaveVersions
    /\ NoFlowSurvivesCrash
    /\ NoAbandonedVersion
    /\ LateProgressHarmless

USE DEF Tasks, PCs, Handlers, Starting, Converting, Statuses, Live, InFlight,
        Settled, Flow, FlowType, Idle

-----------------------------------------------------------------------------
(* A step of one flow takes no other flow's version away.                    *)

OnlyMoves(t) == \A s \in Tasks \ {t} : task'[s] = task[s]

LEMMA OwnersKept ==
    ASSUME NEW t \in Tasks, NEW v, NEW pcs, OnlyMoves(t), Owned(v, pcs),
           ~ (task[t].v = v /\ task[t].pc \in pcs)
    PROVE  Owned(v, pcs)'
BY DEF OnlyMoves, Owned

LEMMA OwnersUntouched ==
    ASSUME NEW v, NEW pcs, Owned(v, pcs), UNCHANGED task
    PROVE  Owned(v, pcs)'
BY DEF Owned

-----------------------------------------------------------------------------
LEMMA InitInv == Init => LifeInv
BY ConstantsOK DEF Init, LifeInv, TypeOK, FlowsHaveVersions, NoFlowSurvivesCrash,
   NoAbandonedVersion, LateProgressHarmless, Owned

LEMMA FlowIsTyped ==
    ASSUME NEW t \in Tasks, NEW f \in FlowType, TypeOK,
           task' = [task EXCEPT ![t] = f]
    PROVE  task' \in [Tasks -> FlowType]
BY DEF TypeOK

LEMMA GotoIsTyped ==
    ASSUME NEW t \in Tasks, NEW pc \in PCs, TypeOK, Goto(t, pc)
    PROVE  task' \in [Tasks -> FlowType]
<1>1. task[t] \in FlowType
  BY DEF TypeOK
<1>2. Flow(pc, task[t].v, task[t].dir, task[t].k) \in FlowType
  BY <1>1
<1>3. QED
  BY <1>2, FlowIsTyped DEF Goto

LEMMA StopIsTyped ==
    ASSUME NEW t \in Tasks, TypeOK, Stop(t)
    PROVE  task' \in [Tasks -> FlowType]
<1>1. Idle \in FlowType
  BY ConstantsOK
<1>2. QED
  BY <1>1, FlowIsTyped DEF Stop

\* Type correctness of one step.
LEMMA TypeStep == TypeOK /\ FlowsHaveVersions /\ [Next]_vars => TypeOK'
<1> SUFFICES ASSUME TypeOK, FlowsHaveVersions, [Next]_vars PROVE TypeOK'
  OBVIOUS
<1> USE ConstantsOK DEF TypeOK, FlowsHaveVersions, At, Numbers
<1>1. CASE UNCHANGED vars
  BY <1>1 DEF vars
<1>2. ASSUME NEW c \in Clients, UploadReadNewest(c) PROVE TypeOK'
  BY <1>2 DEF UploadReadNewest
<1>3. ASSUME NEW c \in Clients, UploadCreate(c) PROVE TypeOK'
  <2> DEFINE n == task[c].k + 1
  <2>1. PICK v \in Versions :
           /\ status' = [status EXCEPT ![v] = "PENDING"]
           /\ number' = [number EXCEPT ![v] = n]
           /\ task' = [task EXCEPT ![c] = Flow("start", v, 0, 0)]
    BY <1>3 DEF UploadCreate
  <2>2. n \in 0..MaxNumber
    BY <1>3 DEF UploadCreate
  <2>3. task' \in [Tasks -> FlowType]
    BY <2>1, FlowIsTyped
  <2>4. QED
    BY <1>3, <2>1, <2>2, <2>3 DEF UploadCreate
<1>4. ASSUME NEW c \in Clients, UploadCollide(c) PROVE TypeOK'
  <2>1. task' \in [Tasks -> FlowType]
    <3>1. CASE Stop(c)
      BY <3>1, StopIsTyped
    <3>2. CASE \E n \in 0..MaxNumber :
                  task' = [task EXCEPT ![c] = Flow("create", NoVersion, 0, n)]
      BY <3>2, FlowIsTyped
    <3>3. QED
      BY <1>4, <3>1, <3>2 DEF UploadCollide
  <2>2. QED
    BY <1>4, <2>1 DEF UploadCollide
<1>5. ASSUME NEW c \in Clients, NEW v \in Versions, ReconvertRead(c, v) PROVE TypeOK'
  BY <1>5 DEF ReconvertRead
<1>6. ASSUME NEW c \in Clients, ReconvertClear(c) PROVE TypeOK'
  <2>1. task' \in [Tasks -> FlowType]
    BY <1>6, GotoIsTyped DEF ReconvertClear
  <2>2. QED
    BY <1>6, <2>1 DEF ReconvertClear
<1>7. ASSUME NEW c \in Clients, ReconvertReset(c) PROVE TypeOK'
  <2>1. task' \in [Tasks -> FlowType]
    BY <1>7, GotoIsTyped, StopIsTyped DEF ReconvertReset
  <2>2. QED
    BY <1>7, <2>1 DEF ReconvertReset
<1>8. ASSUME NEW c \in Clients, NEW v \in Versions, DeleteRead(c, v) PROVE TypeOK'
  BY <1>8 DEF DeleteRead
<1>9. ASSUME NEW c \in Clients, DeleteElements(c) PROVE TypeOK'
  <2>1. task' \in [Tasks -> FlowType]
    BY <1>9, GotoIsTyped DEF DeleteElements
  <2>2. QED
    BY <1>9, <2>1 DEF DeleteElements
<1>10. ASSUME NEW c \in Clients, DeleteRow(c) PROVE TypeOK'
  <2>1. task' \in [Tasks -> FlowType]
    BY <1>10, GotoIsTyped, StopIsTyped DEF DeleteRow
  <2>2. CASE Row(task[c].v)
    <3>1. /\ task[c].v \in Versions
          /\ status' = [status EXCEPT ![task[c].v] = "deleted"]
          /\ number' = [number EXCEPT ![task[c].v] = 0]
          /\ progress' = [progress EXCEPT ![task[c].v] = 0]
          /\ elements' = [elements EXCEPT ![task[c].v] = {}]
          /\ UNCHANGED <<artifacts, writes, phase, crashes>>
      BY <1>10, <2>2 DEF DeleteRow
    <3>2. QED
      BY <2>1, <3>1
  <2>3. CASE ~ Row(task[c].v)
    BY <1>10, <2>1, <2>3 DEF DeleteRow
  <2>4. QED
    BY <2>2, <2>3
<1>11. ASSUME NEW c \in Clients, DeleteFiles(c) PROVE TypeOK'
  <2>1. task' \in [Tasks -> FlowType]
    BY <1>11, StopIsTyped DEF DeleteFiles
  <2>2. QED
    BY <1>11, <2>1 DEF DeleteFiles
<1>12. ASSUME NEW t \in Tasks, Start(t) PROVE TypeOK'
  <2>1. CASE status[task[t].v] = "PENDING"
    <3>1. task[t].v \in Versions
      BY <1>12 DEF Start
    <3>2. Flow("claim", task[t].v, number[task[t].v], 0) \in FlowType
      BY <3>1
    <3>3. QED
      BY <1>12, <2>1, <3>2, FlowIsTyped DEF Start
  <2>2. CASE status[task[t].v] # "PENDING"
    BY <1>12, <2>2, StopIsTyped DEF Start
  <2>3. QED
    BY <2>1, <2>2
<1>13. ASSUME NEW t \in Tasks, Claim(t) PROVE TypeOK'
  <2>1. task' \in [Tasks -> FlowType]
    BY <1>13, GotoIsTyped, StopIsTyped DEF Claim
  <2>2. CASE Row(task[t].v)
    <3>1. /\ task[t].v \in Versions
          /\ status' = [status EXCEPT ![task[t].v] = "PROCESSING"]
          /\ progress' = [progress EXCEPT ![task[t].v] = 1]
          /\ UNCHANGED <<number, elements, artifacts, writes, phase, crashes>>
      BY <1>13, <2>2 DEF Claim
    <3>2. QED
      BY <2>1, <3>1
  <2>3. CASE ~ Row(task[t].v)
    BY <1>13, <2>1, <2>3 DEF Claim
  <2>4. QED
    BY <2>2, <2>3
<1>14. ASSUME NEW t \in Tasks, StoreProgress(t) PROVE TypeOK'
  BY <1>14 DEF StoreProgress
<1>15. ASSUME NEW t \in Tasks, ConvertOk(t) PROVE TypeOK'
  <2>1. task' \in [Tasks -> FlowType]
    BY <1>15, GotoIsTyped DEF ConvertOk
  <2>2. QED
    BY <1>15, <2>1 DEF ConvertOk
<1>16. ASSUME NEW t \in Tasks, ConvertFail(t) PROVE TypeOK'
  <2>1. task' \in [Tasks -> FlowType]
    BY <1>16, GotoIsTyped DEF ConvertFail
  <2>2. QED
    BY <1>16, <2>1 DEF ConvertFail
<1>17. ASSUME NEW t \in Tasks, MarkFailed(t) PROVE TypeOK'
  <2>1. task' \in [Tasks -> FlowType]
    BY <1>17, StopIsTyped DEF MarkFailed
  <2>2. CASE Row(task[t].v)
    <3>1. /\ task[t].v \in Versions
          /\ status' = [status EXCEPT ![task[t].v] = "FAILED"]
          /\ UNCHANGED <<number, progress, elements, artifacts, writes, phase,
                         crashes>>
      BY <1>17, <2>2 DEF MarkFailed
    <3>2. QED
      BY <2>1, <3>1
  <2>3. CASE ~ Row(task[t].v)
    BY <1>17, <2>1, <2>3 DEF MarkFailed
  <2>4. QED
    BY <2>2, <2>3
<1>18. ASSUME NEW t \in Tasks, ReadMeta(t) PROVE TypeOK'
  <2>1. Flow("import", task[t].v, task[t].dir, 1) \in FlowType
    OBVIOUS
  <2>2. task' \in [Tasks -> FlowType]
    <3>1. \/ Goto(t, "abort")
          \/ task' = [task EXCEPT ![t] = Flow("import", task[t].v, task[t].dir, 1)]
      BY <1>18 DEF ReadMeta
    <3>2. "abort" \in PCs
      OBVIOUS
    <3>3. CASE Goto(t, "abort")
      BY <3>2, <3>3, GotoIsTyped
    <3>4. CASE task' = [task EXCEPT ![t] = Flow("import", task[t].v, task[t].dir, 1)]
      BY <2>1, <3>4, FlowIsTyped
    <3>5. QED
      BY <3>1, <3>3, <3>4
  <2>3. QED
    BY <1>18, <2>2 DEF ReadMeta
<1>19. ASSUME NEW t \in Tasks, ImportBatch(t) PROVE TypeOK'
  <2>1. Flow("import", task[t].v, task[t].dir, task[t].k + 1) \in FlowType
    OBVIOUS
  <2>2. task' \in [Tasks -> FlowType]
    BY <1>19, <2>1, FlowIsTyped, GotoIsTyped DEF ImportBatch
  <2>3. elements' \in [Versions -> SUBSET (1..Batches)]
    <3>1. CASE UNCHANGED elements
      BY <3>1
    <3>2. CASE ~ UNCHANGED elements
      <4>1. task[t].v \in Versions /\ task[t].k \in Nat
        BY <1>19 DEF ImportBatch
      <4>2. 1 <= task[t].k /\ task[t].k <= Batches
        BY <1>19 DEF ImportBatch
      <4>3. QED
        <5>1. elements' = [elements EXCEPT ![task[t].v] = @ \cup {task[t].k}]
          BY <1>19, <3>2 DEF ImportBatch
        <5>2. elements[task[t].v] \cup {task[t].k} \in SUBSET (1..Batches)
          BY <4>1, <4>2
        <5>3. QED
          BY <5>1, <5>2
    <3>3. QED
      BY <3>1, <3>2
  <2>4. QED
    BY <1>19, <2>2, <2>3 DEF ImportBatch
<1>20. ASSUME NEW t \in Tasks, MarkReady(t) PROVE TypeOK'
  <2>1. task' \in [Tasks -> FlowType]
    BY <1>20, StopIsTyped DEF MarkReady
  <2>2. CASE Row(task[t].v)
    <3>1. /\ task[t].v \in Versions
          /\ status' = [status EXCEPT ![task[t].v] = "READY"]
          /\ progress' = [progress EXCEPT ![task[t].v] = 100]
          /\ UNCHANGED <<number, elements, artifacts, writes, phase, crashes>>
      BY <1>20, <2>2 DEF MarkReady
    <3>2. QED
      BY <2>1, <3>1
  <2>3. CASE ~ Row(task[t].v)
    BY <1>20, <2>1, <2>3 DEF MarkReady
  <2>4. QED
    BY <2>2, <2>3
<1>21. ASSUME NEW t \in Tasks, Abort(t) PROVE TypeOK'
  <2>1. task' \in [Tasks -> FlowType]
    BY <1>21, StopIsTyped DEF Abort
  <2>2. QED
    BY <1>21, <2>1 DEF Abort
<1>22. ASSUME NEW v \in Versions, ProgressLands(v) PROVE TypeOK'
  BY <1>22 DEF ProgressLands
<1>23. CASE Recover
  BY <1>23 DEF Recover
<1>24. CASE RequeuePending
  <2>1. ASSUME NEW t \in Tasks PROVE task'[t] \in FlowType
    <3>1. task[t] \in FlowType
      BY DEF FlowType
    <3>2. t \in Versions => Flow("start", t, 0, 0) \in FlowType
      BY DEF FlowType
    <3>3. QED
      BY <1>24, <3>1, <3>2 DEF RequeuePending
  <2>2. task' \in [Tasks -> FlowType]
    BY <1>24, <2>1 DEF RequeuePending
  <2>3. QED
    BY <1>24, <2>2 DEF RequeuePending, FlowType
<1>25. CASE Crash
  BY <1>25 DEF Crash
<1>26. QED
  BY <1>1, <1>2, <1>3, <1>4, <1>5, <1>6, <1>7, <1>8, <1>9, <1>10, <1>11, <1>12,
     <1>13, <1>14, <1>15, <1>16, <1>17, <1>18, <1>19, <1>20, <1>21, <1>22,
     <1>23, <1>24, <1>25
  DEF Next, Request, Handle, Process

-----------------------------------------------------------------------------
LEMMA FlowsStep ==
    TypeOK /\ FlowsHaveVersions /\ [Next]_vars => FlowsHaveVersions'
<1> SUFFICES ASSUME TypeOK, FlowsHaveVersions, [Next]_vars
             PROVE  FlowsHaveVersions'
  OBVIOUS
<1> USE DEF TypeOK, FlowsHaveVersions, At, Goto, Stop
<1>1. CASE UNCHANGED vars
  BY <1>1 DEF vars
<1>2. ASSUME NEW c \in Clients, Request(c) \/ Handle(c) PROVE FlowsHaveVersions'
  BY <1>2 DEF Request, Handle, UploadReadNewest, UploadCreate, UploadCollide,
     ReconvertRead, ReconvertClear, ReconvertReset, DeleteRead, DeleteElements,
     DeleteRow, DeleteFiles
<1>3. ASSUME NEW t \in Tasks, Process(t) PROVE FlowsHaveVersions'
  BY <1>3 DEF Process, Start, Claim, StoreProgress, ConvertOk, ConvertFail,
     MarkFailed, ReadMeta, ImportBatch, MarkReady, Abort
<1>4. ASSUME NEW v \in Versions, ProgressLands(v) PROVE FlowsHaveVersions'
  BY <1>4 DEF ProgressLands
<1>5. CASE Recover
  BY <1>5 DEF Recover
<1>6. CASE RequeuePending
  BY <1>6 DEF RequeuePending
<1>7. CASE Crash
  BY <1>7 DEF Crash
<1>8. QED
  BY <1>1, <1>2, <1>3, <1>4, <1>5, <1>6, <1>7 DEF Next

LEMMA BootStep ==
    ASSUME TypeOK, NoFlowSurvivesCrash, [Next]_vars
    PROVE  NoFlowSurvivesCrash'
<1> USE ConstantsOK DEF TypeOK, NoFlowSurvivesCrash, At, Goto, Stop
<1>1. CASE UNCHANGED vars
  BY <1>1 DEF vars
<1>2. ASSUME NEW c \in Clients, Request(c) PROVE NoFlowSurvivesCrash'
  BY <1>2 DEF Request, MayRequest, UploadReadNewest, ReconvertRead, DeleteRead
<1>3. ASSUME NEW c \in Clients, Handle(c) PROVE NoFlowSurvivesCrash'
  <2>1. phase # "down" /\ UNCHANGED phase
    BY <1>3 DEF Handle, UploadCreate, UploadCollide, ReconvertClear,
       ReconvertReset, DeleteElements, DeleteRow, DeleteFiles
  <2>2. \A s \in Tasks \ {c} : task'[s] = task[s]
    BY <1>3 DEF Handle, UploadCreate, UploadCollide, ReconvertClear,
       ReconvertReset, DeleteElements, DeleteRow, DeleteFiles
  <2>3. QED
    BY <2>1, <2>2
<1>4. ASSUME NEW t \in Tasks, Process(t) PROVE NoFlowSurvivesCrash'
  BY <1>4 DEF Process, Start, Claim, StoreProgress, ConvertOk, ConvertFail,
     MarkFailed, ReadMeta, ImportBatch, MarkReady, Abort
<1>5. ASSUME NEW v \in Versions, ProgressLands(v) PROVE NoFlowSurvivesCrash'
  BY <1>5 DEF ProgressLands
<1>6. CASE Recover
  BY <1>6 DEF Recover
<1>7. CASE RequeuePending
  BY <1>7 DEF RequeuePending
<1>8. CASE Crash
  BY <1>8 DEF Crash
<1>9. QED
  BY <1>1, <1>2, <1>3, <1>4, <1>5, <1>6, <1>7, <1>8 DEF Next

-----------------------------------------------------------------------------
(* A step of flow t that leaves every other row's status alone keeps every   *)
(* other version owned; what it must show is that its own version is.        *)

Waits(v)   == status[v] = "PENDING" /\ phase = "serving" => Owned(v, Starting)
Runs(v)    == status[v] = "PROCESSING" /\ phase # "down" => Owned(v, Converting)

LEMMA OthersStayOwned ==
    ASSUME NEW t \in Tasks, NEW v \in Versions, OnlyMoves(t),
           Waits(v), Runs(v), task[t].v # v \/ task[t].pc \in Handlers \cup {"idle"},
           status'[v] = status[v], UNCHANGED phase
    PROVE  Waits(v)' /\ Runs(v)'
<1>1. ~ (task[t].v = v /\ task[t].pc \in Starting)
  OBVIOUS
<1>2. ~ (task[t].v = v /\ task[t].pc \in Converting)
  OBVIOUS
<1>3. Owned(v, Starting) => Owned(v, Starting)'
  BY <1>1, OwnersKept
<1>4. Owned(v, Converting) => Owned(v, Converting)'
  BY <1>2, OwnersKept
<1>5. QED
  BY <1>3, <1>4 DEF Waits, Runs

\* The steps of a request handler.
LEMMA HandlersKeepOwners ==
    ASSUME LifeInv, NEW c \in Clients, Request(c) \/ Handle(c)
    PROVE  NoAbandonedVersion'
<1> SUFFICES ASSUME NEW v \in Versions PROVE Waits(v)' /\ Runs(v)'
  BY DEF NoAbandonedVersion, Waits, Runs
<1>1. Waits(v) /\ Runs(v)
  BY DEF LifeInv, NoAbandonedVersion, Waits, Runs
<1>2. OnlyMoves(c) /\ UNCHANGED phase /\ task[c].pc \in Handlers \cup {"idle"}
  BY DEF LifeInv, TypeOK, Request, Handle, MayRequest, At, OnlyMoves, Goto, Stop,
     UploadReadNewest, UploadCreate, UploadCollide, ReconvertRead,
     ReconvertClear, ReconvertReset, DeleteRead, DeleteElements, DeleteRow,
     DeleteFiles
<1>3. CASE status'[v] = status[v]
  BY <1>1, <1>2, <1>3, OthersStayOwned
<1>4. CASE status'[v] # status[v]
  <2>1. \/ status'[v] = "deleted"
        \/ status'[v] = "PENDING" /\ task'[c].pc = "start" /\ task'[c].v = v
    BY <1>4 DEF LifeInv, TypeOK, Request, Handle, Goto, Stop, Row,
       UploadReadNewest, UploadCreate, UploadCollide, ReconvertRead,
       ReconvertClear, ReconvertReset, DeleteRead, DeleteElements, DeleteRow,
       DeleteFiles
  <2>2. QED
    BY <2>1 DEF Waits, Runs, Owned
<1>5. QED
  BY <1>3, <1>4

\* The steps of processVersion.
LEMMA ConversionsKeepOwners ==
    ASSUME LifeInv, NEW t \in Tasks, Process(t)
    PROVE  NoAbandonedVersion'
<1> SUFFICES ASSUME NEW v \in Versions PROVE Waits(v)' /\ Runs(v)'
  BY DEF NoAbandonedVersion, Waits, Runs
<1>1. Waits(v) /\ Runs(v)
  BY DEF LifeInv, NoAbandonedVersion, Waits, Runs
<1>2. OnlyMoves(t) /\ UNCHANGED phase
  BY DEF LifeInv, TypeOK, Process, OnlyMoves, Goto, Stop, Start, Claim,
     StoreProgress, ConvertOk, ConvertFail, MarkFailed, ReadMeta, ImportBatch, MarkReady, Abort
<1>3. CASE task[t].v # v
  <2>1. status'[v] = status[v]
    BY <1>3 DEF LifeInv, TypeOK, Process, Start, Claim, StoreProgress, ConvertOk,
       ConvertFail, MarkFailed, ReadMeta, ImportBatch, MarkReady, Abort
  <2>2. QED
    BY <1>1, <1>2, <1>3, <2>1, OthersStayOwned
<1>4. CASE task[t].v = v
  <2>1. CASE status'[v] \notin InFlight
    BY <2>1 DEF Waits, Runs
  <2>2. CASE status'[v] = "PENDING"
    <3>1. status[v] = "PENDING"
      BY <1>4, <2>2 DEF LifeInv, TypeOK, Process, Start, Claim, StoreProgress,
         ConvertOk, ConvertFail, MarkFailed, ReadMeta, ImportBatch, MarkReady,
         Abort
    <3>2. CASE task[t].pc \in Starting
      <4>1. task'[t].v = v /\ task'[t].pc \in Starting
        BY <1>4, <2>2, <3>1, <3>2 DEF LifeInv, TypeOK, Process, At, Goto, Row,
           Start, Claim, StoreProgress, ConvertOk, ConvertFail, MarkFailed,
           ReadMeta, ImportBatch, MarkReady, Abort
      <4>2. QED
        BY <2>2, <4>1 DEF Waits, Runs, Owned
    <3>3. CASE task[t].pc \notin Starting
      <4>1. Owned(v, Starting) => Owned(v, Starting)'
        BY <1>2, <3>3, OwnersKept
      <4>2. QED
        BY <1>1, <1>2, <2>2, <3>1, <4>1 DEF Waits, Runs
    <3>4. QED
      BY <3>2, <3>3
  <2>3. CASE status'[v] = "PROCESSING"
    <3>1. CASE task[t].pc \in Converting \/ status[v] # "PROCESSING"
      <4>1. task'[t].v = v /\ task'[t].pc \in Converting
        BY <1>4, <2>3, <3>1 DEF LifeInv, TypeOK, FlowsHaveVersions, Process, At,
           Goto, Stop, Row, Start, Claim, StoreProgress, ConvertOk, ConvertFail,
           MarkFailed, ReadMeta, ImportBatch, MarkReady, Abort
      <4>2. QED
        BY <2>3, <4>1 DEF Waits, Runs, Owned
    <3>2. CASE task[t].pc \notin Converting /\ status[v] = "PROCESSING"
      <4>1. Owned(v, Converting) => Owned(v, Converting)'
        BY <1>2, <3>2, OwnersKept
      <4>2. QED
        BY <1>1, <1>2, <2>3, <3>2, <4>1 DEF Waits, Runs
    <3>3. QED
      BY <3>1, <3>2
  <2>4. QED
    BY <2>1, <2>2, <2>3
<1>5. QED
  BY <1>3, <1>4

\* The steps of the start-up sequence, a crash, and a progress write.
LEMMA StartUpKeepsOwners ==
    ASSUME LifeInv,
           \/ Recover \/ RequeuePending \/ Crash
           \/ \E v \in Versions : ProgressLands(v)
           \/ UNCHANGED vars
    PROVE  NoAbandonedVersion'
<1> SUFFICES ASSUME NEW v \in Versions PROVE Waits(v)' /\ Runs(v)'
  BY DEF NoAbandonedVersion, Waits, Runs
<1>1. Waits(v) /\ Runs(v)
  BY DEF LifeInv, NoAbandonedVersion, Waits, Runs
<1>2. CASE UNCHANGED <<status, task, phase>>
  BY <1>1, <1>2, OwnersUntouched DEF Waits, Runs
<1>3. CASE Recover
  BY <1>3 DEF Recover, Waits, Runs
<1>4. CASE RequeuePending
  <2>1. status[v] = "PENDING" => task'[v].v = v /\ task'[v].pc \in Starting
    BY <1>4 DEF RequeuePending
  <2>2. \A t \in Tasks : task[t].pc # "idle" => task'[t] = task[t]
    BY <1>4 DEF RequeuePending, LifeInv, NoFlowSurvivesCrash
  <2>3. Owned(v, Converting) => Owned(v, Converting)'
    BY <2>2 DEF Owned
  <2>4. QED
    BY <1>1, <1>4, <2>1, <2>3 DEF RequeuePending, Waits, Runs, Owned
<1>5. CASE Crash
  BY <1>5 DEF Crash, Waits, Runs
<1>6. QED
  BY <1>2, <1>3, <1>4, <1>5 DEF ProgressLands, vars

-----------------------------------------------------------------------------
(* Only MarkReady writes READY, with progress 100; every other progress      *)
(* write needs a row that is not READY or takes it out of READY.             *)

LEMMA ProgressStep ==
    ASSUME LifeInv, [Next]_vars
    PROVE  LateProgressHarmless'
<1> USE DEF LifeInv, TypeOK, FlowsHaveVersions, LateProgressHarmless, At, Row
<1>1. CASE UNCHANGED vars
  BY <1>1 DEF vars
<1>2. ASSUME NEW c \in Clients, Request(c) \/ Handle(c)
      PROVE  LateProgressHarmless'
  BY <1>2 DEF Request, Handle, UploadReadNewest, UploadCreate, UploadCollide,
     ReconvertRead, ReconvertClear, ReconvertReset, DeleteRead, DeleteElements,
     DeleteRow, DeleteFiles
<1>3. ASSUME NEW t \in Tasks, Process(t) PROVE LateProgressHarmless'
  BY <1>3 DEF Process, Start, Claim, StoreProgress, ConvertOk, ConvertFail,
     MarkFailed, ReadMeta, ImportBatch, MarkReady, Abort
<1>4. ASSUME NEW v \in Versions, ProgressLands(v) PROVE LateProgressHarmless'
  BY <1>4 DEF ProgressLands
<1>5. CASE Recover \/ RequeuePending \/ Crash
  BY <1>5 DEF Recover, RequeuePending, Crash
<1>6. QED
  BY <1>1, <1>2, <1>3, <1>4, <1>5 DEF Next

LEMMA NextInv == LifeInv /\ [Next]_vars => LifeInv'
<1> SUFFICES ASSUME LifeInv, [Next]_vars PROVE LifeInv'
  OBVIOUS
<1>1. TypeOK' /\ FlowsHaveVersions'
  BY TypeStep, FlowsStep DEF LifeInv
<1>2. NoFlowSurvivesCrash'
  BY BootStep DEF LifeInv
<1>3. NoAbandonedVersion'
  BY HandlersKeepOwners, ConversionsKeepOwners, StartUpKeepsOwners DEF Next
<1>4. LateProgressHarmless'
  BY ProgressStep
<1>5. QED
  BY <1>1, <1>2, <1>3, <1>4 DEF LifeInv

LEMMA SpecInv == Spec => []LifeInv
BY InitInv, NextInv, PTL DEF Spec

-----------------------------------------------------------------------------
\* The rows, the files' owners and the flows keep their types.
THEOREM TypeCorrect == Spec => []TypeOK
<1>1. LifeInv => TypeOK
  BY DEF LifeInv
<1>2. QED
  BY <1>1, SpecInv, PTL

\* While the server runs, every PENDING or PROCESSING version has a
\* processVersion that will take it further (server.ts's recovery and the
\* PENDING check of processVersion together leave none behind).
THEOREM NoVersionAbandoned == Spec => []NoAbandonedVersion
<1>1. LifeInv => NoAbandonedVersion
  BY DEF LifeInv
<1>2. QED
  BY <1>1, SpecInv, PTL

\* The status guard on progress writes keeps a READY row at 100.
THEOREM LateProgressIsHarmless == Spec => []LateProgressHarmless
<1>1. LifeInv => LateProgressHarmless
  BY DEF LifeInv
<1>2. QED
  BY <1>1, SpecInv, PTL

-----------------------------------------------------------------------------
(* Numbers.  Rows appear in UploadCreate only, with a number nobody has, and *)
(* no other step brings a row back or changes its number.                    *)

NoRowAppears ==
    \A v \in Versions : Row(v)' => Row(v) /\ number'[v] = number[v]

LEMMA FewerRowsStayUnique ==
    ASSUME NumbersUnique, NoRowAppears
    PROVE  NumbersUnique'
BY DEF NumbersUnique, NoRowAppears

LEMMA NumbersStep ==
    ASSUME LifeInv, NumbersUnique, [Next]_vars
    PROVE  NumbersUnique'
<1> USE DEF LifeInv, TypeOK, FlowsHaveVersions, At, Row
<1>1. CASE UNCHANGED vars
  BY <1>1, FewerRowsStayUnique DEF vars, NoRowAppears
<1>2. ASSUME NEW c \in Clients, UploadCreate(c) PROVE NumbersUnique'
  <2> DEFINE n == task[c].k + 1
  <2>1. PICK v \in Versions :
           /\ status[v] = "none"
           /\ status' = [status EXCEPT ![v] = "PENDING"]
           /\ number' = [number EXCEPT ![v] = n]
    BY <1>2 DEF UploadCreate
  <2>2. \A w \in Versions : Row(w) => number[w] # n
    BY <1>2 DEF UploadCreate, NumberTaken
  <2>3. QED
    BY <2>1, <2>2 DEF NumbersUnique
<1>3. ASSUME NEW c \in Clients, Request(c) \/ Handle(c), ~ UploadCreate(c)
      PROVE  NumbersUnique'
  <2>1. NoRowAppears
    BY <1>3 DEF NoRowAppears, Request, Handle, UploadReadNewest, UploadCollide,
       ReconvertRead, ReconvertClear, ReconvertReset, DeleteRead,
       DeleteElements, DeleteRow, DeleteFiles
  <2>2. QED
    BY <2>1, FewerRowsStayUnique
<1>4. ASSUME NEW t \in Tasks, Process(t) PROVE NumbersUnique'
  <2>1. NoRowAppears
    BY <1>4 DEF NoRowAppears, Process, Start, Claim, StoreProgress, ConvertOk,
       ConvertFail, MarkFailed, ReadMeta, ImportBatch, MarkReady, Abort
  <2>2. QED
    BY <2>1, FewerRowsStayUnique
<1>5. ASSUME NEW v \in Versions, ProgressLands(v) PROVE NumbersUnique'
  BY <1>5, FewerRowsStayUnique DEF ProgressLands, NoRowAppears
<1>6. CASE Recover \/ RequeuePending \/ Crash
  BY <1>6, FewerRowsStayUnique DEF Recover, RequeuePending, Crash, NoRowAppears
<1>7. QED
  BY <1>1, <1>2, <1>3, <1>4, <1>5, <1>6 DEF Next

\* Concurrent createVersion calls never leave two rows with one number, hence
\* one directory: the unique index and the retry suffice, whatever is deleted
\* or crashes in between.
THEOREM NumbersAreUnique == Spec => []NumbersUnique
<1>1. Init => NumbersUnique
  BY DEF Init, NumbersUnique, Row
<1>2. LifeInv /\ NumbersUnique /\ [Next]_vars => NumbersUnique'
  BY NumbersStep
<1>3. QED
  BY <1>1, <1>2, SpecInv, PTL DEF Spec

-----------------------------------------------------------------------------
(* VersionLifecycle implements VersionStatus: whatever requests, duplicate   *)
(* uploads, failures and crashes come, the rows of a model go through the    *)
(* documented states only, provided no two requests work on one version at   *)
(* once (with Overlap the duplicate conversion after a start takes a READY   *)
(* row back to PROCESSING).                                                  *)
(*                                                                           *)
(* processVersion writes PROCESSING, READY and FAILED by id alone, so that   *)
(* the row is in the state the write comes from is a fact about all flows: a *)
(* version has one flow at most, and where that flow is says what state the  *)
(* row is in.                                                                *)

\* A flow before its first read, or none, is about no version.
Vacant == \A t \in Tasks : task[t].pc \in {"idle", "create"} => task[t].v = NoVersion

OneFlow == \A s, t \in Tasks : task[s].v \in Versions /\ task[s].v = task[t].v => s = t

\* Where a flow is, tells the state of its row.
Fits(t) ==
    LET v == task[t].v  pc == task[t].pc IN
    /\ pc \in {"clear", "reset"} => status[v] \in {"READY", "FAILED"}
    /\ pc \in {"start", "claim"} => status[v] = "PENDING"
    /\ pc \in {"convert", "meta", "import", "fail", "abort"} => status[v] = "PROCESSING"
    /\ pc \in {"del_elements", "del_row"} =>
          status[v] \in {"PENDING", "PROCESSING", "READY", "FAILED"}
    /\ pc = "del_files" => status[v] = "deleted"

\* Nothing runs before the server has requeued what was pending.
QuietUntilServing == phase # "serving" => \A t \in Tasks : task[t].pc = "idle"

Serial == Vacant /\ OneFlow /\ QuietUntilServing /\ \A t \in Tasks : Fits(t)

SInv == TypeOK /\ FlowsHaveVersions /\ Serial

Stays == Serial' /\ [Documented!Next]_status

-----------------------------------------------------------------------------
(* One flow moves: it keeps its version, drops it, or takes a free one.      *)

LEMMA OneMoves ==
  ASSUME SInv, NEW t \in Tasks, \A s \in Tasks \ {t} : task'[s] = task[s],
         phase = "serving", UNCHANGED phase,
         \A s \in Tasks \ {t} : task[s].v \in Versions =>
            status'[task[s].v] = status[task[s].v] /\ task'[t].v # task[s].v,
         task'[t].pc \in {"idle", "create"} => task'[t].v = NoVersion,
         Fits(t)'
  PROVE  Serial'
<1>1. Vacant'
  BY DEF SInv, Serial, Vacant
<1>2. OneFlow'
  BY DEF SInv, Serial, OneFlow
<1>3. QuietUntilServing'
  BY DEF QuietUntilServing
<1>4. ASSUME NEW s \in Tasks \ {t} PROVE Fits(s)'
  <2>1. Fits(s) /\ task'[s] = task[s]
    BY DEF SInv, Serial
  <2>2. CASE task[s].v \in Versions
    <3>1. status'[task[s].v] = status[task[s].v]
      BY <2>2
    <3> QED
      BY <2>1, <3>1 DEF Fits
  <2>3. CASE task[s].v \notin Versions
    <3>1. task[s].pc \in {"idle", "create"}
      BY <2>3 DEF SInv, FlowsHaveVersions
    <3> QED
      BY <2>1, <3>1 DEF Fits
  <2> QED
    BY <2>2, <2>3
<1> QED
  BY <1>1, <1>2, <1>3, <1>4 DEF Serial

\* A flow that is somewhere works for a serving process, on its own version.
LEMMA AFlowOwnsItsVersion ==
  ASSUME SInv, NEW t \in Tasks, task[t].pc # "idle"
  PROVE  /\ phase = "serving"
         /\ \A s \in Tasks \ {t} : task[s].v \in Versions => task[s].v # task[t].v
BY DEF SInv, Serial, QuietUntilServing, OneFlow

\* A step of a flow that goes on with its version, or ends.
LEMMA FlowGoesOn ==
  ASSUME SInv, NEW t \in Tasks, NEW v \in Versions, task[t].v = v, task[t].pc # "idle",
         \A s \in Tasks \ {t} : task'[s] = task[s], UNCHANGED phase,
         \A w \in Versions \ {v} : status'[w] = status[w],
         \/ task'[t].v = v /\ task'[t].pc \notin {"idle", "create"}
         \/ task'[t] = Idle,
         Fits(t)'
  PROVE  Serial'
<1>1. /\ phase = "serving"
      /\ \A s \in Tasks \ {t} : task[s].v \in Versions => task[s].v # task[t].v
  BY AFlowOwnsItsVersion
<1>2. task'[t].v \in {v, NoVersion}
  OBVIOUS
<1>3. \A s \in Tasks \ {t} : task[s].v \in Versions =>
            status'[task[s].v] = status[task[s].v] /\ task'[t].v # task[s].v
  BY <1>1, <1>2, ConstantsOK
<1>4. task'[t].pc \in {"idle", "create"} => task'[t].v = NoVersion
  OBVIOUS
<1> QED
  BY <1>1, <1>3, <1>4, OneMoves

LEMMA InitSInv == Init => SInv /\ Documented!Init
<1> SUFFICES ASSUME Init PROVE SInv /\ Documented!Init
  OBVIOUS
<1>1. TypeOK /\ FlowsHaveVersions
  BY InitInv DEF LifeInv
<1>2. Serial
  BY ConstantsOK DEF Init, Serial, Vacant, OneFlow, QuietUntilServing, Fits
<1>3. Documented!Init
  BY DEF Init, Documented!Init
<1> QED
  BY <1>1, <1>2, <1>3 DEF SInv

-----------------------------------------------------------------------------
(* Requests.                                                                 *)

LEMMA RequestStays ==
  ASSUME Overlap = FALSE, SInv, NEW c \in Clients, Request(c)
  PROVE  Stays
<1> USE DEF SInv, TypeOK
<1>1. /\ UNCHANGED <<status, phase>> /\ phase = "serving" /\ task[c].pc = "idle"
      /\ \A s \in Tasks \ {c} : task'[s] = task[s]
  BY DEF Request, UploadReadNewest, ReconvertRead, DeleteRead, MayRequest, At
<1>2. CASE UploadReadNewest(c)
  <2>1. task'[c].pc = "create" /\ task'[c].v = NoVersion
    BY <1>2 DEF UploadReadNewest
  <2>2. Fits(c)'
    BY <2>1 DEF Fits
  <2>3. \A s \in Tasks \ {c} : task[s].v \in Versions => task'[c].v # task[s].v
    BY <2>1, ConstantsOK
  <2> QED
    BY <1>1, <2>1, <2>2, <2>3, OneMoves DEF Stays
<1>3. ASSUME NEW v \in Versions, ReconvertRead(c, v) \/ DeleteRead(c, v) PROVE Stays
  <2>1. /\ task'[c].v = v /\ task'[c].pc \in {"clear", "del_elements"}
        /\ task'[c].pc = "clear" => status[v] \in Settled
        /\ task'[c].pc = "del_elements" => Row(v)
    BY <1>3 DEF ReconvertRead, DeleteRead
  <2>2. Fits(c)'
    BY <1>1, <2>1 DEF Fits, Row
  <2>3. \A s \in Tasks : ~ Works(s, v)
    BY <1>3 DEF ReconvertRead, DeleteRead, Undisturbed
  <2>4. \A s \in Tasks \ {c} : task[s].v \in Versions => task'[c].v # task[s].v
    BY <2>1, <2>3, ConstantsOK DEF Works, Serial, Vacant
  <2> QED
    BY <1>1, <2>1, <2>2, <2>4, OneMoves DEF Stays
<1> QED
  BY <1>2, <1>3 DEF Request

LEMMA CreateStays ==
  ASSUME SInv, NEW c \in Clients, UploadCreate(c)
  PROVE  Stays
<1>1. PICK v \in Versions :
         /\ status[v] = "none"
         /\ status' = [status EXCEPT ![v] = "PENDING"]
         /\ task' = [task EXCEPT ![c] = Flow("start", v, 0, 0)]
  BY DEF UploadCreate
<1>2. /\ task[c].pc = "create" /\ UNCHANGED phase
      /\ \A s \in Tasks \ {c} : task'[s] = task[s]
      /\ task'[c].pc = "start" /\ task'[c].v = v
      /\ status'[v] = "PENDING" /\ \A w \in Versions \ {v} : status'[w] = status[w]
  BY <1>1 DEF UploadCreate, At, SInv, TypeOK
<1>3. phase = "serving"
  BY <1>2, AFlowOwnsItsVersion
\* A flow's row has been created.
<1>4. ASSUME NEW s \in Tasks, task[s].v = v PROVE FALSE
  <2>1. Fits(s) /\ task[s].pc \notin {"idle", "create"} /\ task[s].pc \in PCs
    BY <1>4, ConstantsOK DEF SInv, TypeOK, Serial, Vacant
  <2> QED
    BY <1>1, <1>4, <2>1 DEF Fits
<1>5. Fits(c)'
  BY <1>2 DEF Fits
<1>6. \A s \in Tasks \ {c} : task[s].v \in Versions =>
            status'[task[s].v] = status[task[s].v] /\ task'[c].v # task[s].v
  BY <1>2, <1>4
<1>7. Serial'
  BY <1>2, <1>3, <1>5, <1>6, OneMoves
<1>8. Documented!Submit(v)
  BY <1>1 DEF Documented!Submit, Documented!Move
<1> QED
  BY <1>7, <1>8 DEF Stays, Documented!Next

LEMMA CollideStays ==
  ASSUME SInv, NEW c \in Clients, UploadCollide(c)
  PROVE  Stays
<1>1. /\ task[c].pc = "create" /\ UNCHANGED <<status, phase>>
      /\ \A s \in Tasks \ {c} : task'[s] = task[s]
      /\ task'[c].pc \in {"create", "idle"} /\ task'[c].v = NoVersion
  BY DEF UploadCollide, Stop, At, SInv, TypeOK
<1>2. phase = "serving"
  BY <1>1, AFlowOwnsItsVersion
<1>3. Fits(c)'
  BY <1>1 DEF Fits
<1>4. \A s \in Tasks \ {c} : task[s].v \in Versions => task'[c].v # task[s].v
  BY <1>1, ConstantsOK
<1> QED
  BY <1>1, <1>2, <1>3, <1>4, OneMoves DEF Stays

\* What a step of a flow with a version does to its row, and where it goes.
Steps(t, to) ==
    /\ \/ UNCHANGED status
       \/ status' = [status EXCEPT ![task[t].v] = to]
    /\ UNCHANGED phase
    /\ \A s \in Tasks \ {t} : task'[s] = task[s]
    /\ task'[t] = Idle \/ (task'[t].v = task[t].v /\ task'[t].pc \notin {"idle", "create"})

LEMMA StepsStay ==
  ASSUME SInv, NEW t \in Tasks, task[t].pc \notin {"idle", "create"}, NEW to, Steps(t, to),
         task'[t] = Idle \/ Fits(t)',
         [Documented!Next]_status
  PROVE  Stays
<1>1. task[t].v \in Versions
  BY DEF SInv, FlowsHaveVersions
<1>2. \A w \in Versions \ {task[t].v} : status'[w] = status[w]
  BY DEF Steps, SInv, TypeOK
<1>3. Fits(t)'
  BY DEF Fits
<1>4. Serial'
  BY <1>1, <1>2, <1>3, FlowGoesOn DEF Steps
<1> QED
  BY <1>4 DEF Stays

LEMMA HandlerStays ==
  ASSUME SInv, NEW c \in Clients, Handle(c)
  PROVE  Stays
<1> DEFINE v == task[c].v
<1> USE DEF SInv, TypeOK, Goto, Stop, At
<1>1. task[c].pc \notin {"idle", "create"} => Fits(c) /\ v \in Versions
  BY DEF FlowsHaveVersions, Serial
<1>2. CASE ReconvertClear(c) \/ DeleteElements(c)
  <2>1. Steps(c, "none") /\ UNCHANGED status
    BY <1>2 DEF Steps, ReconvertClear, DeleteElements
  <2>2. Fits(c)'
    BY <1>1, <1>2 DEF Fits, ReconvertClear, DeleteElements
  <2> QED
    BY <1>2, <2>1, <2>2, StepsStay DEF ReconvertClear, DeleteElements
<1>3. CASE ReconvertReset(c)
  <2>1. status[v] \in Settled /\ v \in Versions
    BY <1>1, <1>3 DEF Fits, ReconvertReset
  <2>2. /\ status' = [status EXCEPT ![v] = "PENDING"]
        /\ task' = [task EXCEPT ![c] = Flow("start", v, task[c].dir, task[c].k)]
    BY <1>3, <2>1 DEF ReconvertReset, Row
  <2>3. Steps(c, "PENDING") /\ Fits(c)'
    BY <1>3, <2>1, <2>2 DEF Steps, Fits, ReconvertReset
  <2>4. Documented!Again(v)
    BY <2>1, <2>2 DEF Documented!Again, Documented!Move
  <2> QED
    BY <1>3, <2>1, <2>3, <2>4, StepsStay DEF ReconvertReset, Documented!Next
<1>4. CASE DeleteRow(c)
  <2>1. status[v] \in Live /\ v \in Versions
    BY <1>1, <1>4 DEF Fits, DeleteRow
  <2>2. /\ status' = [status EXCEPT ![v] = "deleted"]
        /\ task' = [task EXCEPT ![c] = Flow("del_files", v, task[c].dir, task[c].k)]
    BY <1>4, <2>1 DEF DeleteRow, Row
  <2>3. Steps(c, "deleted") /\ Fits(c)'
    BY <1>4, <2>1, <2>2 DEF Steps, Fits, DeleteRow
  <2>4. Documented!Remove(v)
    BY <2>1, <2>2 DEF Documented!Remove, Documented!Move
  <2> QED
    BY <1>4, <2>1, <2>3, <2>4, StepsStay DEF DeleteRow, Documented!Next
<1>5. CASE DeleteFiles(c)
  <2>1. Steps(c, "none") /\ UNCHANGED status /\ task'[c] = Idle
    BY <1>5 DEF Steps, DeleteFiles
  <2> QED
    BY <1>5, <2>1, StepsStay DEF DeleteFiles
<1> QED
  BY <1>2, <1>3, <1>4, <1>5, CreateStays, CollideStays DEF Handle

-----------------------------------------------------------------------------
(* processVersion.                                                           *)

LEMMA ProcessStays ==
  ASSUME SInv, NEW t \in Tasks, Process(t)
  PROVE  Stays
<1> DEFINE v == task[t].v
<1> USE DEF SInv, TypeOK, Goto, Stop, At
<1>1. task[t].pc \notin {"idle", "create"}
  BY DEF Process, Start, Claim, StoreProgress, ConvertOk, ConvertFail, MarkFailed,
         ReadMeta, ImportBatch, MarkReady, Abort
<1>2. Fits(t) /\ v \in Versions
  BY <1>1 DEF FlowsHaveVersions, Serial
<1>3. CASE Start(t)
  <2>1. Steps(t, "none") /\ UNCHANGED status
    BY <1>3 DEF Steps, Start
  <2>2. Fits(t)'
    BY <1>2, <1>3 DEF Fits, Start
  <2> QED
    BY <1>1, <2>1, <2>2, StepsStay
<1>4. CASE Claim(t)
  <2>1. status[v] = "PENDING"
    BY <1>2, <1>4 DEF Fits, Claim
  <2>2. /\ status' = [status EXCEPT ![v] = "PROCESSING"]
        /\ task' = [task EXCEPT ![t] = Flow("convert", v, task[t].dir, task[t].k)]
    BY <1>4, <2>1 DEF Claim, Row
  <2>3. Steps(t, "PROCESSING") /\ Fits(t)'
    BY <1>2, <1>4, <2>2 DEF Steps, Fits, Claim
  <2>4. Documented!Begin(v)
    BY <2>1, <2>2 DEF Documented!Begin, Documented!Move
  <2> QED
    BY <1>1, <1>2, <2>3, <2>4, StepsStay DEF Documented!Next
<1>5. CASE StoreProgress(t)
  <2>1. UNCHANGED <<status, task, phase>>
    BY <1>5 DEF StoreProgress
  <2> QED
    BY <2>1 DEF Stays, Serial, Vacant, OneFlow, QuietUntilServing, Fits
<1>6. CASE ConvertOk(t) \/ ConvertFail(t) \/ ReadMeta(t) \/ ImportBatch(t)
  <2>1. /\ task[t].pc \in {"convert", "meta", "import"}
        /\ task'[t].pc \in {"meta", "fail", "import", "abort"} /\ task'[t].v = v
        /\ UNCHANGED <<status, phase>>
        /\ \A s \in Tasks \ {t} : task'[s] = task[s]
    BY <1>6 DEF ConvertOk, ConvertFail, ReadMeta, ImportBatch
  <2>2. Steps(t, "none") /\ Fits(t)'
    BY <1>2, <2>1 DEF Steps, Fits
  <2> QED
    BY <1>1, <2>1, <2>2, StepsStay
<1>7. ASSUME NEW to \in {"READY", "FAILED"}, task[t].pc \in {"fail", "import", "abort"},
             status' = [status EXCEPT ![v] = to], UNCHANGED phase,
             task' = [task EXCEPT ![t] = Idle]
      PROVE  Stays
  <2>1. status[v] = "PROCESSING"
    BY <1>2, <1>7 DEF Fits
  <2>2. Steps(t, to) /\ task'[t] = Idle
    BY <1>7 DEF Steps
  <2>3. Documented!Settle(v)
    BY <1>7, <2>1 DEF Documented!Settle, Documented!Move
  <2> QED
    BY <1>1, <1>2, <2>2, <2>3, StepsStay DEF Documented!Next
<1>8. CASE MarkFailed(t) \/ MarkReady(t) \/ Abort(t)
  <2>1. Row(v)
    BY <1>2, <1>8 DEF Fits, MarkFailed, MarkReady, Abort, Row
  <2> QED
    BY <1>7, <1>8, <2>1 DEF MarkFailed, MarkReady, Abort
<1> QED
  BY <1>3, <1>4, <1>5, <1>6, <1>8 DEF Process

-----------------------------------------------------------------------------
(* Start-up and crash.                                                       *)

LEMMA StartUpStays ==
  ASSUME SInv,
         \/ Recover \/ RequeuePending \/ Crash
         \/ \E v \in Versions : ProgressLands(v)
  PROVE  Stays
<1> USE DEF SInv, TypeOK
<1>1. CASE \E v \in Versions : ProgressLands(v)
  <2>1. UNCHANGED <<status, task, phase>>
    BY <1>1 DEF ProgressLands
  <2> QED
    BY <2>1 DEF Stays, Serial, Vacant, OneFlow, QuietUntilServing, Fits
<1>2. CASE Recover
  <2>1. /\ phase = "down" /\ phase' = "listening" /\ UNCHANGED task
        /\ status' = [v \in Versions |->
                        IF status[v] = "PROCESSING" THEN "PENDING" ELSE status[v]]
    BY <1>2 DEF Recover
  <2>2. \A t \in Tasks : task[t].pc = "idle"
    BY <2>1 DEF Serial, QuietUntilServing
  <2>3. Serial'
    BY <2>1, <2>2 DEF Serial, Vacant, OneFlow, QuietUntilServing, Fits
  <2>4. Documented!Restart
    BY <2>1 DEF Documented!Restart
  <2> QED
    BY <2>3, <2>4 DEF Stays, Documented!Next
<1>3. CASE RequeuePending
  <2>1. /\ phase = "listening" /\ phase' = "serving" /\ UNCHANGED status
        /\ task' = [t \in Tasks |->
                      IF t \in Versions /\ status[t] = "PENDING"
                      THEN Flow("start", t, 0, 0) ELSE task[t]]
    BY <1>3 DEF RequeuePending
  <2>2. \A t \in Tasks : task[t].pc = "idle" /\ task[t].v = NoVersion
    BY <2>1 DEF Serial, QuietUntilServing, Vacant
  <2>3. \A t \in Tasks :
           \/ /\ t \in Versions /\ status[t] = "PENDING"
              /\ task'[t].pc = "start" /\ task'[t].v = t
           \/ task'[t].pc = "idle" /\ task'[t].v = NoVersion
    <3> SUFFICES ASSUME NEW t \in Tasks
                 PROVE  \/ /\ t \in Versions /\ status[t] = "PENDING"
                           /\ task'[t].pc = "start" /\ task'[t].v = t
                        \/ task'[t].pc = "idle" /\ task'[t].v = NoVersion
      OBVIOUS
    <3>1. CASE t \in Versions /\ status[t] = "PENDING"
      <4>1. task'[t] = Flow("start", t, 0, 0)
        BY <2>1, <3>1
      <4> QED
        BY <3>1, <4>1
    <3>2. CASE ~ (t \in Versions /\ status[t] = "PENDING")
      <4>1. task'[t] = task[t]
        BY <2>1, <3>2
      <4> QED
        BY <2>2, <4>1
    <3> QED
      BY <3>1, <3>2
  <2>4. Vacant' /\ OneFlow' /\ QuietUntilServing'
    <3>1. \A t \in Tasks : task'[t].v \in Versions => task'[t].v = t
      BY <2>3, ConstantsOK
    <3>2. OneFlow'
      BY <3>1 DEF OneFlow
    <3>3. Vacant'
      BY <2>3 DEF Vacant
    <3> QED
      BY <2>1, <3>2, <3>3 DEF QuietUntilServing
  <2>5. \A t \in Tasks : Fits(t)'
    BY <2>1, <2>3 DEF Fits
  <2> QED
    BY <2>1, <2>4, <2>5 DEF Stays, Serial
<1>4. CASE Crash
  <2>1. phase' = "down" /\ UNCHANGED status /\ task' = [t \in Tasks |-> Idle]
    BY <1>4 DEF Crash
  <2>2. Serial'
    BY <2>1, ConstantsOK DEF Serial, Vacant, OneFlow, QuietUntilServing, Fits
  <2> QED
    BY <2>1, <2>2 DEF Stays
<1> QED
  BY <1>1, <1>2, <1>3, <1>4

LEMMA StepStays ==
  ASSUME Overlap = FALSE, SInv, [Next]_vars
  PROVE  SInv' /\ [Documented!Next]_status
<1>1. TypeOK' /\ FlowsHaveVersions'
  BY TypeStep, FlowsStep DEF SInv
<1>2. Stays
  <2>1. CASE UNCHANGED vars
    BY <2>1 DEF vars, Stays, SInv, Serial, Vacant, OneFlow, QuietUntilServing, Fits
  <2> QED
    BY <2>1, RequestStays, HandlerStays, ProcessStays, StartUpStays DEF Next
<1> QED
  BY <1>1, <1>2 DEF Stays, SInv

\* The rows of models.ts and server.ts follow the documented state machine.
THEOREM RowsFollowTheMachine == ASSUME Overlap = FALSE PROVE Spec => FollowsStatusMachine
<1>1. Init => SInv /\ Documented!Init
  BY InitSInv
<1>2. SInv /\ [Next]_vars => SInv' /\ [Documented!Next]_status
  BY StepStays
<1> QED
  BY <1>1, <1>2, PTL DEF Spec, FollowsStatusMachine, Documented!Spec

-----------------------------------------------------------------------------
(* What a number is for.  The directory of a version is named by its number, *)
(* which a flow reads once and uses until it ends.  Inductive: what a flow   *)
(* read is the number of its row, what a deletion has still to remove is the *)
(* directory of no row, and a deletion is the only request under way.        *)

RowsAreNumbered == \A v \in Versions : Row(v) => number[v] \in Numbers

OneHandler ==
    \A s, t \in Tasks :
       task[s].pc \in Handlers /\ task[t].pc \in Handlers /\ s # t =>
          task[s].pc = "create" /\ task[t].pc = "create"

\* Flows that have read the number of their row.
Locating == {"claim", "convert", "meta", "import", "fail", "abort", "del_elements", "del_row"}

Knows(t) ==
    /\ task[t].pc \in Locating => task[t].dir = number[task[t].v]
    /\ task[t].pc = "del_files" => \A v \in Versions : Row(v) => number[v] # task[t].dir

DirsAreOwn == RowsAreNumbered /\ OneHandler /\ \A t \in Tasks : Knows(t)

DInv == SInv /\ NumbersUnique /\ DirsAreOwn

\* A step of one flow that gives no number and takes none away.
LEMMA DirsKept ==
  ASSUME DInv, NEW t \in Tasks, OnlyMoves(t), number' = number,
         \A v \in Versions : Row(v)' => Row(v),
         task'[t].pc \in Handlers => task[t].pc \in Handlers /\ (task[t].pc = "create" => task'[t].pc = "create"),
         Knows(t)'
  PROVE  DirsAreOwn'
<1>1. RowsAreNumbered'
  BY DEF DInv, DirsAreOwn, RowsAreNumbered
<1>2. OneHandler'
  BY DEF DInv, DirsAreOwn, OneHandler, OnlyMoves
<1>3. ASSUME NEW s \in Tasks, s # t PROVE Knows(s)'
  <2>1. Knows(s) /\ task'[s] = task[s]
    BY <1>3 DEF DInv, DirsAreOwn, OnlyMoves
  <2> QED
    BY <2>1 DEF Knows
<1> QED
  BY <1>1, <1>2, <1>3 DEF DirsAreOwn

LEMMA DirsRequest ==
  ASSUME Overlap = FALSE, DInv, NEW c \in Clients, Request(c)
  PROVE  DirsAreOwn'
<1>1. /\ UNCHANGED <<status, number>> /\ OnlyMoves(c)
      /\ \/ task'[c].pc = "create" /\ \A t \in Tasks : task[t].pc \in Handlers => task[t].pc = "create"
         \/ task'[c].pc \in {"clear", "del_elements"} /\ \A t \in Tasks : task[t].pc \notin Handlers
      /\ task'[c].pc = "del_elements" => task'[c].dir = number[task'[c].v]
  BY DEF Request, UploadReadNewest, ReconvertRead, DeleteRead, MayRequest, DInv, SInv, TypeOK, OnlyMoves
<1>2. RowsAreNumbered'
  BY <1>1 DEF DInv, DirsAreOwn, RowsAreNumbered, Row
<1>3. OneHandler'
  BY <1>1 DEF OneHandler, OnlyMoves
<1>4. Knows(c)'
  BY <1>1 DEF Knows, Locating
<1>5. ASSUME NEW s \in Tasks, s # c PROVE Knows(s)'
  <2>1. Knows(s) /\ task'[s] = task[s]
    BY <1>1, <1>5 DEF DInv, DirsAreOwn, OnlyMoves
  <2> QED
    BY <1>1, <2>1 DEF Knows, Row
<1> QED
  BY <1>2, <1>3, <1>4, <1>5 DEF DirsAreOwn

LEMMA DirsCreate ==
  ASSUME DInv, NEW c \in Clients, UploadCreate(c)
  PROVE  DirsAreOwn'
<1>1. PICK v \in Versions :
         /\ status[v] = "none"
         /\ status' = [status EXCEPT ![v] = "PENDING"]
         /\ number' = [number EXCEPT ![v] = task[c].k + 1]
         /\ task' = [task EXCEPT ![c] = Flow("start", v, 0, 0)]
  BY DEF UploadCreate
<1>2. task[c].k + 1 \in Numbers /\ task[c].pc = "create"
  BY DEF UploadCreate, At
<1>3. OnlyMoves(c) /\ task'[c].pc = "start"
  BY <1>1 DEF DInv, SInv, TypeOK, OnlyMoves
<1>4. RowsAreNumbered'
  BY <1>1, <1>2 DEF DInv, SInv, TypeOK, DirsAreOwn, RowsAreNumbered, Row
<1>5. OneHandler'
  BY <1>3 DEF DInv, DirsAreOwn, OneHandler, OnlyMoves
<1>6. ASSUME NEW s \in Tasks, s # c PROVE Knows(s)'
  <2>1. Knows(s) /\ task'[s] = task[s]
    BY <1>3, <1>6 DEF DInv, DirsAreOwn, OnlyMoves
  <2>2. task[s].pc # "del_files"
    BY <1>2, <1>6 DEF DInv, DirsAreOwn, OneHandler
  <2>3. task[s].pc \in Locating => task[s].v \in Versions /\ task[s].v # v
    BY <1>1 DEF DInv, SInv, FlowsHaveVersions, Serial, Fits, Locating
  <2> QED
    BY <1>1, <2>1, <2>2, <2>3 DEF Knows, DInv, SInv, TypeOK
<1>7. Knows(c)'
  BY <1>3 DEF Knows, Locating
<1> QED
  BY <1>4, <1>5, <1>6, <1>7 DEF DirsAreOwn

LEMMA DirsDeleteRow ==
  ASSUME DInv, NEW c \in Clients, DeleteRow(c)
  PROVE  DirsAreOwn'
<1> DEFINE v == task[c].v
<1>1. /\ task[c].pc = "del_row" /\ v \in Versions /\ Row(v) /\ Knows(c)
  BY DEF DeleteRow, At, DInv, SInv, FlowsHaveVersions, Serial, Fits, Row, DirsAreOwn
<1>2. /\ status' = [status EXCEPT ![v] = "deleted"]
      /\ number' = [number EXCEPT ![v] = 0]
      /\ task' = [task EXCEPT ![c] = Flow("del_files", v, task[c].dir, task[c].k)]
  BY <1>1 DEF DeleteRow, Goto
<1>3. /\ OnlyMoves(c) /\ task'[c].pc = "del_files" /\ task'[c].dir = number[v]
      /\ status'[v] = "deleted" /\ \A w \in Versions \ {v} : status'[w] = status[w] /\ number'[w] = number[w]
  BY <1>1, <1>2 DEF DInv, SInv, TypeOK, OnlyMoves, Knows, Locating
<1>4. \A w \in Versions : Row(w)' => w # v /\ Row(w) /\ number'[w] = number[w] /\ number[w] # number[v]
  BY <1>1, <1>3 DEF Row, DInv, NumbersUnique
<1>5. RowsAreNumbered'
  BY <1>4 DEF DInv, DirsAreOwn, RowsAreNumbered
<1>6. OneHandler'
  BY <1>1, <1>3 DEF DInv, DirsAreOwn, OneHandler, OnlyMoves
<1>7. Knows(c)'
  BY <1>3, <1>4 DEF Knows, Locating
<1>8. ASSUME NEW s \in Tasks, s # c PROVE Knows(s)'
  <2>1. Knows(s) /\ task'[s] = task[s]
    BY <1>3, <1>8 DEF DInv, DirsAreOwn, OnlyMoves
  <2>2. task[s].pc \in Locating => task[s].v \in Versions /\ task[s].v # v
    BY <1>1, <1>8 DEF DInv, SInv, FlowsHaveVersions, Serial, OneFlow, Locating
  <2> QED
    BY <1>3, <1>4, <2>1, <2>2 DEF Knows
<1> QED
  BY <1>5, <1>6, <1>7, <1>8 DEF DirsAreOwn

LEMMA DirsHandle ==
  ASSUME DInv, NEW c \in Clients, Handle(c)
  PROVE  DirsAreOwn'
<1> USE DEF At, Goto, Stop
<1>1. CASE UploadCollide(c)
  <2>1. /\ OnlyMoves(c) /\ UNCHANGED <<status, number>> /\ task[c].pc = "create"
        /\ task'[c].pc \in {"create", "idle"}
    BY <1>1 DEF UploadCollide, DInv, SInv, TypeOK, OnlyMoves
  <2> QED
    BY <2>1, DirsKept DEF Knows, Locating, Row
<1>2. CASE ReconvertClear(c) \/ DeleteElements(c)
  <2>1. /\ OnlyMoves(c) /\ UNCHANGED <<status, number>> /\ task[c].pc \in {"clear", "del_elements"}
        /\ task'[c].pc = IF task[c].pc = "clear" THEN "reset" ELSE "del_row"
        /\ task'[c].v = task[c].v /\ task'[c].dir = task[c].dir /\ Knows(c)
    BY <1>2 DEF ReconvertClear, DeleteElements, DInv, SInv, TypeOK, OnlyMoves, DirsAreOwn
  <2>2. Knows(c)'
    BY <2>1 DEF Knows, Locating
  <2> QED
    BY <2>1, <2>2, DirsKept DEF Row
<1>3. CASE ReconvertReset(c)
  <2>1. task[c].v \in Versions /\ Row(task[c].v)
    BY <1>3 DEF ReconvertReset, DInv, SInv, FlowsHaveVersions, Serial, Fits, Row
  <2>2. /\ OnlyMoves(c) /\ UNCHANGED number /\ task'[c].pc = "start"
        /\ status' = [status EXCEPT ![task[c].v] = "PENDING"]
    BY <1>3, <2>1 DEF ReconvertReset, DInv, SInv, TypeOK, OnlyMoves
  <2>3. \A v \in Versions : Row(v)' => Row(v)
    BY <2>1, <2>2 DEF Row, DInv, SInv, TypeOK
  <2> QED
    BY <2>2, <2>3, DirsKept DEF Knows, Locating
<1>4. CASE DeleteFiles(c)
  <2>1. OnlyMoves(c) /\ UNCHANGED <<status, number>> /\ task'[c].pc = "idle"
    BY <1>4 DEF DeleteFiles, DInv, SInv, TypeOK, OnlyMoves
  <2> QED
    BY <2>1, DirsKept DEF Knows, Locating, Row
<1> QED
  BY <1>1, <1>2, <1>3, <1>4, DirsCreate, DirsDeleteRow DEF Handle

LEMMA DirsProcess ==
  ASSUME DInv, NEW t \in Tasks, Process(t)
  PROVE  DirsAreOwn'
<1> USE DEF At, Goto, Stop
<1>1. number' = number /\ \A v \in Versions : Row(v)' => Row(v)
  BY DEF Process, Start, Claim, StoreProgress, ConvertOk, ConvertFail, MarkFailed,
     ReadMeta, ImportBatch, MarkReady, Abort, Row, DInv, SInv, TypeOK
<1>2. OnlyMoves(t) /\ task'[t].pc \notin Handlers
  BY DEF Process, Start, Claim, StoreProgress, ConvertOk, ConvertFail, MarkFailed,
     ReadMeta, ImportBatch, MarkReady, Abort, DInv, SInv, TypeOK, OnlyMoves
<1>3. Knows(t)'
  <2>1. Knows(t)
    BY DEF DInv, DirsAreOwn
  <2>2. \/ task'[t].pc = "idle"
        \/ task'[t].pc = "claim" /\ task'[t].dir = number[task'[t].v]
        \/ task'[t].pc \in Locating /\ task[t].pc \in Locating /\ task'[t].v = task[t].v /\ task'[t].dir = task[t].dir
    BY DEF Process, Start, Claim, StoreProgress, ConvertOk, ConvertFail, MarkFailed,
       ReadMeta, ImportBatch, MarkReady, Abort, DInv, SInv, TypeOK, Locating
  <2> QED
    BY <1>1, <2>1, <2>2 DEF Knows, Locating
<1> QED
  BY <1>1, <1>2, <1>3, DirsKept

LEMMA DirsStep ==
  ASSUME Overlap = FALSE, DInv, [Next]_vars
  PROVE  DirsAreOwn'
<1>1. CASE UNCHANGED vars \/ \E v \in Versions : ProgressLands(v)
  <2>1. UNCHANGED <<status, number, task>>
    BY <1>1 DEF vars, ProgressLands
  <2> QED
    BY <2>1 DEF DInv, DirsAreOwn, RowsAreNumbered, OneHandler, Knows, Row
<1>2. CASE Recover
  <2>1. UNCHANGED <<number, task>> /\ \A v \in Versions : Row(v)' => Row(v)
    BY <1>2 DEF Recover, Row, DInv, SInv, TypeOK
  <2> QED
    BY <2>1 DEF DInv, DirsAreOwn, RowsAreNumbered, OneHandler, Knows
<1>3. CASE RequeuePending \/ Crash
  <2>1. UNCHANGED <<status, number>> /\ \A t \in Tasks : task'[t].pc \in {"idle", "start"}
    <3>1. CASE Crash
      BY <3>1 DEF Crash
    <3>2. CASE RequeuePending
      <4>1. \A t \in Tasks : task[t].pc = "idle"
        BY <3>2 DEF RequeuePending, DInv, SInv, Serial, QuietUntilServing
      <4> QED
        BY <3>2, <4>1 DEF RequeuePending
    <3> QED
      BY <1>3, <3>1, <3>2
  <2> QED
    BY <2>1 DEF DInv, DirsAreOwn, RowsAreNumbered, OneHandler, Knows, Locating, Row
<1> QED
  BY <1>1, <1>2, <1>3, DirsRequest, DirsHandle, DirsProcess DEF Next

-----------------------------------------------------------------------------
(* The files of a READY version.                                             *)

LEMMA ReadyFilesStay ==
  ASSUME DInv, [Next]_vars, NEW v \in Versions, status[v] = "READY", status'[v] = "READY"
  PROVE  artifacts'[number[v]] = artifacts[number[v]]
<1>1. SUFFICES ASSUME artifacts' # artifacts PROVE artifacts'[number[v]] = artifacts[number[v]]
  OBVIOUS
<1>2. number[v] \in Numbers /\ Row(v)
  BY DEF DInv, DirsAreOwn, RowsAreNumbered, Row
<1>3. \/ \E c \in Clients : DeleteFiles(c)
      \/ \E t \in Tasks : ConvertOk(t)
  BY <1>1 DEF Next, vars, Request, UploadReadNewest, ReconvertRead, DeleteRead, Handle, UploadCreate,
     UploadCollide, ReconvertClear, ReconvertReset, DeleteElements, DeleteRow, Process, Start, Claim,
     StoreProgress, ConvertFail, MarkFailed, ReadMeta, ImportBatch, MarkReady, Abort, ProgressLands,
     Recover, RequeuePending, Crash
<1>4. CASE \E c \in Clients : DeleteFiles(c)
  <2>1. PICK c \in Clients : DeleteFiles(c)
    BY <1>4
  <2>2. number[v] # task[c].dir
    BY <1>2, <2>1 DEF DeleteFiles, At, DInv, DirsAreOwn, Knows
  <2> QED
    BY <1>2, <2>1, <2>2 DEF DeleteFiles, DInv, SInv, TypeOK
<1>5. CASE \E t \in Tasks : ConvertOk(t)
  <2>1. PICK t \in Tasks : ConvertOk(t)
    BY <1>5
  <2>2. task[t].pc = "convert" /\ task[t].v \in Versions /\ task[t].dir = number[task[t].v]
        /\ status[task[t].v] = "PROCESSING"
    BY <2>1 DEF ConvertOk, At, DInv, SInv, FlowsHaveVersions, Serial, Fits, DirsAreOwn, Knows, Locating
  <2>3. number[v] # task[t].dir
    BY <1>2, <2>2 DEF DInv, NumbersUnique, Row
  <2> QED
    BY <1>2, <2>1, <2>3 DEF ConvertOk, DInv, SInv, TypeOK
<1> QED
  BY <1>3, <1>4, <1>5

LEMMA DInvAlways == ASSUME Overlap = FALSE PROVE Spec => []DInv
<1>1. Init => DirsAreOwn
  BY DEF Init, DirsAreOwn, RowsAreNumbered, OneHandler, Knows, Locating, Row
<1>2. Spec => []SInv
  <2>1. Init => SInv
    BY InitSInv
  <2>2. SInv /\ [Next]_vars => SInv'
    BY StepStays
  <2> QED
    BY <2>1, <2>2, PTL DEF Spec
<1>3. SInv /\ NumbersUnique /\ DirsAreOwn /\ [Next]_vars => DirsAreOwn'
  BY DirsStep DEF DInv
<1>4. SInv /\ NumbersUnique /\ DirsAreOwn => DInv
  BY DEF DInv
<1> QED
  BY <1>1, <1>2, <1>3, <1>4, NumbersAreUnique, PTL DEF Spec

\* The directory of a READY version is written by no conversion and removed by
\* no deletion while the version stays READY, though numbers are used again:
\* a deletion frees its number before it removes the directory (models.ts:473).
THEOREM ReadyArtifactsStay == ASSUME Overlap = FALSE PROVE Spec => ReadyArtifactsImmutable
<1>1. DInv /\ [Next]_vars =>
        [\A v \in Versions : status[v] = "READY" /\ status'[v] = "READY"
            => artifacts'[number[v]] = artifacts[number[v]]]_vars
  BY ReadyFilesStay
<1> QED
  BY <1>1, DInvAlways, PTL DEF Spec, ReadyArtifactsImmutable

-----------------------------------------------------------------------------
(* The elements of a version.  Inductive, without a crash: until a flow      *)
(* imports, its version has no element; it has imported the batches below    *)
(* its counter; and who reads the meta file finds it.                        *)

Imported(t) ==
    LET v == task[t].v IN
    /\ task[t].pc \in {"reset", "start", "claim", "convert", "meta", "fail"} => elements[v] = {}
    /\ task[t].pc = "import" => elements[v] = 1..(task[t].k - 1) /\ task[t].k <= Batches + 1
    /\ task[t].pc = "meta" => artifacts[task[t].dir] # NoVersion
    /\ task[t].pc # "abort"

Whole ==
    /\ phase # "serving" => \A v \in Versions : status[v] = "none"
    /\ \A v \in Versions : status[v] = "none" => elements[v] = {}
    /\ \A t \in Tasks : Imported(t)
    /\ ReadyHasAllElements

\* A step of one flow, which changes its own version only.
LEMMA WholeKept ==
  ASSUME DInv, Whole, NEW t \in Tasks, OnlyMoves(t), phase = "serving", phase' = phase,
         NEW v \in Versions,
         \A s \in Tasks \ {t} : task[s].v # v, task[t].v \in {v, NoVersion},
         task'[t].v \in {v, NoVersion},
         \A w \in Versions \ {v} : status'[w] = status[w] /\ elements'[w] = elements[w],
         \A s \in Tasks \ {t} : task[s].pc = "meta" => artifacts'[task[s].dir] # NoVersion,
         status'[v] = "none" => elements'[v] = {},
         status'[v] = "READY" => Works(t, v)' \/ elements'[v] = 1..Batches,
         Imported(t)'
  PROVE  Whole'
<1>1. ASSUME NEW s \in Tasks \ {t} PROVE Imported(s)'
  <2>1. task'[s] = task[s] /\ Imported(s) /\ task[s].v # v
    BY DEF OnlyMoves, Whole
  <2>2. task[s].pc \notin {"idle", "create"} => task[s].v \in Versions
    BY DEF DInv, SInv, FlowsHaveVersions
  <2> QED
    BY <2>1, <2>2 DEF Imported
<1>2. ASSUME NEW w \in Versions, status'[w] = "READY", \A s \in Tasks : ~ Works(s, w)'
      PROVE  elements'[w] = 1..Batches
  <2>1. CASE w = v
    BY <1>2, <2>1
  <2>2. CASE w # v
    <3>1. status[w] = "READY" /\ elements'[w] = elements[w] /\ w # NoVersion
      BY <1>2, <2>2, ConstantsOK
    <3>2. \A s \in Tasks : ~ Works(s, w)
      BY <1>2, <2>2, <3>1 DEF Works, OnlyMoves
    <3> QED
      BY <3>1, <3>2 DEF Whole, ReadyHasAllElements
  <2> QED
    BY <2>1, <2>2
<1>3. \A w \in Versions : status'[w] = "none" => elements'[w] = {}
  BY DEF Whole
<1>4. \A s \in Tasks : Imported(s)'
  BY <1>1
<1>5. ReadyHasAllElements'
  BY <1>2 DEF ReadyHasAllElements
<1> QED
  BY <1>3, <1>4, <1>5 DEF Whole

\* A step of one flow that changes no version.
LEMMA WholeFlow ==
  ASSUME DInv, Whole, NEW t \in Tasks, OnlyMoves(t), phase = "serving",
         UNCHANGED <<phase, status, elements, artifacts>>,
         \A w \in Versions : Works(t, w) => Works(t, w)' \/ status[w] # "READY",
         Imported(t)'
  PROVE  Whole'
<1>1. \A s \in Tasks : Imported(s)'
  BY DEF OnlyMoves, Whole, Imported
<1>2. ReadyHasAllElements'
  BY DEF Whole, ReadyHasAllElements, OnlyMoves, Works
<1> QED
  BY <1>1, <1>2 DEF Whole

LEMMA WholeRequest ==
  ASSUME Overlap = FALSE, DInv, Whole, NEW c \in Clients, Request(c)
  PROVE  Whole'
<1>1. /\ UNCHANGED <<status, elements, artifacts, phase>> /\ OnlyMoves(c) /\ phase = "serving"
      /\ task[c].pc = "idle" /\ task'[c].pc \in {"create", "clear", "del_elements"}
  BY DEF Request, UploadReadNewest, ReconvertRead, DeleteRead, MayRequest, At, DInv, SInv, TypeOK, OnlyMoves
<1> QED
  BY <1>1, WholeFlow DEF Imported, Works

LEMMA WholeCreate ==
  ASSUME DInv, Whole, NEW c \in Clients, UploadCreate(c)
  PROVE  Whole'
<1>1. PICK v \in Versions :
         /\ status[v] = "none"
         /\ status' = [status EXCEPT ![v] = "PENDING"]
         /\ task' = [task EXCEPT ![c] = Flow("start", v, 0, 0)]
  BY DEF UploadCreate
<1>2. task[c].pc = "create" /\ task[c].v = NoVersion /\ phase = "serving"
      /\ UNCHANGED <<phase, elements, artifacts>>
  BY DEF UploadCreate, At, DInv, SInv, Serial, Vacant, QuietUntilServing
<1>3. OnlyMoves(c) /\ task'[c].pc = "start" /\ task'[c].v = v
      /\ status'[v] = "PENDING" /\ \A w \in Versions \ {v} : status'[w] = status[w]
  BY <1>1 DEF DInv, SInv, TypeOK, OnlyMoves
<1>4. elements'[v] = {}
  BY <1>1, <1>2 DEF Whole
<1>5. \A s \in Tasks \ {c} : task[s].v # v
  BY <1>1, ConstantsOK DEF DInv, SInv, TypeOK, Serial, Vacant, Fits
<1>6. Imported(c)'
  BY <1>3, <1>4 DEF Imported
<1>7. \A s \in Tasks \ {c} : task[s].pc = "meta" => artifacts'[task[s].dir] # NoVersion
  BY <1>2 DEF Whole, Imported
<1> QED
  BY <1>2, <1>3, <1>5, <1>6, <1>7, WholeKept

\* A flow with a version has it for itself.
LEMMA ItsVersion ==
  ASSUME DInv, NEW t \in Tasks, task[t].pc \notin {"idle", "create"}
  PROVE  /\ phase = "serving" /\ task[t].v \in Versions
         /\ \A s \in Tasks \ {t} : task[s].v # task[t].v
         /\ Fits(t) /\ Knows(t)
BY DEF DInv, SInv, Serial, QuietUntilServing, OneFlow, FlowsHaveVersions, DirsAreOwn

\* Nobody who reads a meta file has it removed.
LEMMA MetasStay ==
  ASSUME DInv, Whole, NEW c \in Clients, DeleteFiles(c), NEW s \in Tasks, task[s].pc = "meta"
  PROVE  artifacts'[task[s].dir] # NoVersion
<1>1. Row(task[s].v) /\ task[s].dir = number[task[s].v] /\ task[s].v \in Versions
  BY ItsVersion DEF Fits, Row, Knows, Locating
<1>2. task[s].dir # task[c].dir /\ task[s].dir \in Numbers
  BY <1>1 DEF DeleteFiles, At, DInv, DirsAreOwn, Knows, RowsAreNumbered
<1> QED
  BY <1>2 DEF DeleteFiles, DInv, SInv, TypeOK, Whole, Imported

LEMMA WholeHandle ==
  ASSUME DInv, Whole, NEW c \in Clients, Handle(c)
  PROVE  Whole'
<1> DEFINE v == task[c].v
<1>1. CASE UploadCollide(c)
  <2>1. /\ OnlyMoves(c) /\ UNCHANGED <<status, elements, artifacts, phase>>
        /\ task[c].pc = "create" /\ task[c].v = NoVersion
        /\ task'[c].pc \in {"create", "idle"} /\ phase = "serving"
    BY <1>1 DEF UploadCollide, At, Stop, DInv, SInv, TypeOK, OnlyMoves, Serial, Vacant, QuietUntilServing
  <2> QED
    BY <2>1, WholeFlow, ConstantsOK DEF Imported, Works
<1>2. CASE ReconvertClear(c) \/ DeleteElements(c)
  <2>1. /\ phase = "serving" /\ v \in Versions /\ Fits(c) /\ \A s \in Tasks \ {c} : task[s].v # v
    BY <1>2, ItsVersion DEF ReconvertClear, DeleteElements, At
  <2>2. /\ OnlyMoves(c) /\ UNCHANGED <<status, artifacts, phase>>
        /\ task'[c].v = v /\ task'[c].pc \in {"reset", "del_row"}
        /\ elements'[v] = {} /\ \A w \in Versions \ {v} : elements'[w] = elements[w]
    BY <1>2, <2>1 DEF ReconvertClear, DeleteElements, Goto, DInv, SInv, TypeOK, OnlyMoves
  <2>3. Imported(c)' /\ Works(c, v)'
    BY <2>2 DEF Imported, Works
  <2>4. \A s \in Tasks \ {c} : task[s].pc = "meta" => artifacts'[task[s].dir] # NoVersion
    BY <2>2 DEF Whole, Imported
  <2> QED
    BY <2>1, <2>2, <2>3, <2>4, WholeKept
<1>3. CASE ReconvertReset(c) \/ DeleteRow(c)
  <2>1. /\ phase = "serving" /\ v \in Versions /\ Fits(c) /\ \A s \in Tasks \ {c} : task[s].v # v
        /\ task[c].pc \in {"reset", "del_row"}
    BY <1>3, ItsVersion DEF ReconvertReset, DeleteRow, At
  <2>2. Row(v) /\ (task[c].pc = "reset" => elements[v] = {})
    BY <2>1 DEF Fits, Row, Whole, Imported
  <2>3. /\ OnlyMoves(c) /\ UNCHANGED <<artifacts, phase>>
        /\ task'[c].v = v /\ task'[c].pc \in {"start", "del_files"}
        /\ elements'[v] = {} /\ \A w \in Versions \ {v} : elements'[w] = elements[w]
        /\ status'[v] \in {"PENDING", "deleted"} /\ \A w \in Versions \ {v} : status'[w] = status[w]
    BY <1>3, <2>1, <2>2 DEF ReconvertReset, DeleteRow, Goto, At, DInv, SInv, TypeOK, OnlyMoves
  <2>4. Imported(c)'
    BY <2>3 DEF Imported
  <2>5. \A s \in Tasks \ {c} : task[s].pc = "meta" => artifacts'[task[s].dir] # NoVersion
    BY <2>3 DEF Whole, Imported
  <2> QED
    BY <2>1, <2>3, <2>4, <2>5, WholeKept
<1>4. CASE DeleteFiles(c)
  <2>1. /\ phase = "serving" /\ v \in Versions /\ \A s \in Tasks \ {c} : task[s].v # v
        /\ status[v] = "deleted"
    BY <1>4, ItsVersion DEF DeleteFiles, At, Fits
  <2>2. /\ OnlyMoves(c) /\ UNCHANGED <<status, elements, phase>>
        /\ task'[c].v = NoVersion /\ task'[c].pc = "idle"
    BY <1>4 DEF DeleteFiles, Stop, DInv, SInv, TypeOK, OnlyMoves
  <2>3. \A s \in Tasks \ {c} : task[s].pc = "meta" => artifacts'[task[s].dir] # NoVersion
    BY <1>4, MetasStay
  <2>4. Imported(c)'
    BY <2>2 DEF Imported
  <2> QED
    BY <2>1, <2>2, <2>3, <2>4, WholeKept
<1> QED
  BY <1>1, <1>2, <1>3, <1>4, WholeCreate DEF Handle

LEMMA WholeProcess ==
  ASSUME DInv, Whole, NEW t \in Tasks, Process(t)
  PROVE  Whole'
<1> DEFINE v == task[t].v
<1>1. task[t].pc \notin {"idle", "create"}
  BY DEF Process, Start, Claim, StoreProgress, ConvertOk, ConvertFail, MarkFailed,
         ReadMeta, ImportBatch, MarkReady, Abort, At
<1>2. /\ phase = "serving" /\ v \in Versions /\ Fits(t) /\ Knows(t) /\ Imported(t)
      /\ \A s \in Tasks \ {t} : task[s].v # v
  BY <1>1, ItsVersion DEF Whole
<1>3. OnlyMoves(t) /\ phase' = phase
  BY DEF Process, Start, Claim, StoreProgress, ConvertOk, ConvertFail, MarkFailed,
         ReadMeta, ImportBatch, MarkReady, Abort, Goto, Stop, DInv, SInv, TypeOK, OnlyMoves
<1>4. \A w \in Versions \ {v} : status'[w] = status[w] /\ elements'[w] = elements[w]
  BY <1>2 DEF Process, Start, Claim, StoreProgress, ConvertOk, ConvertFail, MarkFailed,
         ReadMeta, ImportBatch, MarkReady, Abort, DInv, SInv, TypeOK
<1>5. task'[t].v \in {v, NoVersion}
  BY <1>2 DEF Process, Start, Claim, StoreProgress, ConvertOk, ConvertFail, MarkFailed,
         ReadMeta, ImportBatch, MarkReady, Abort, Goto, Stop, DInv, SInv, TypeOK
<1>6. \A s \in Tasks \ {t} : task[s].pc = "meta" => artifacts'[task[s].dir] # NoVersion
  <2>1. CASE artifacts' = artifacts
    BY <2>1 DEF Whole, Imported
  <2>2. CASE ConvertOk(t)
    <3> SUFFICES ASSUME NEW s \in Tasks \ {t}, task[s].pc = "meta"
                 PROVE  artifacts'[task[s].dir] # NoVersion
      OBVIOUS
    <3>1. Row(task[s].v) /\ task[s].dir = number[task[s].v] /\ task[s].v \in Versions
      BY ItsVersion DEF Fits, Row, Knows, Locating
    <3>2. task[s].dir \in Numbers /\ artifacts[task[s].dir] # NoVersion /\ v # NoVersion
      BY <1>2, <3>1, ConstantsOK DEF DInv, DirsAreOwn, RowsAreNumbered, Whole, Imported
    <3> QED
      BY <2>2, <3>2 DEF ConvertOk, DInv, SInv, TypeOK
  <2> QED
    BY <2>1, <2>2 DEF Process, Start, Claim, StoreProgress, ConvertFail, MarkFailed,
         ReadMeta, ImportBatch, MarkReady, Abort
<1>7. /\ status'[v] \in {"PENDING", "PROCESSING", "READY", "FAILED"}
      /\ status'[v] = "READY" => elements'[v] = 1..Batches
      /\ Imported(t)'
  <2> USE DEF Goto, Stop, At
  <2>1. CASE Start(t) \/ Claim(t) \/ StoreProgress(t) \/ ConvertFail(t)
    <3>1. /\ task[t].pc \in {"start", "claim", "convert"} /\ elements'[v] = elements[v]
          /\ task'[t].pc \in {"idle", "claim", "convert", "fail"}
          /\ task'[t].pc # "idle" => task'[t].v = v
          /\ status'[v] \in {status[v], "PROCESSING"}
      BY <1>2, <2>1 DEF Start, Claim, StoreProgress, ConvertFail, DInv, SInv, TypeOK
    <3>2. status[v] \in {"PENDING", "PROCESSING"} /\ elements[v] = {}
      BY <1>2, <3>1 DEF Fits, Imported
    <3> QED
      BY <3>1, <3>2 DEF Imported
  <2>2. CASE ConvertOk(t)
    <3>1. /\ task[t].pc = "convert" /\ UNCHANGED <<status, elements>>
          /\ task'[t].pc = "meta" /\ task'[t].v = v /\ task'[t].dir = task[t].dir
      BY <2>2 DEF ConvertOk, DInv, SInv, TypeOK
    <3>2. task[t].dir = number[v] /\ status[v] = "PROCESSING" /\ elements[v] = {}
      BY <1>2, <3>1 DEF Knows, Locating, Fits, Imported
    <3>3. task[t].dir \in Numbers
      BY <1>2, <3>2 DEF DInv, DirsAreOwn, RowsAreNumbered, Row
    <3>4. artifacts'[task[t].dir] # NoVersion
      BY <1>2, <2>2, <3>3, ConstantsOK DEF ConvertOk, DInv, SInv, TypeOK
    <3> QED
      BY <3>1, <3>2, <3>4 DEF Imported
  <2>3. CASE MarkFailed(t)
    <3>1. status[v] = "PROCESSING" /\ Row(v)
      BY <1>2, <2>3 DEF MarkFailed, Fits, Row
    <3>2. status'[v] = "FAILED" /\ task'[t].pc = "idle"
      BY <1>2, <2>3, <3>1 DEF MarkFailed, DInv, SInv, TypeOK
    <3> QED
      BY <3>2 DEF Imported
  <2>4. CASE ReadMeta(t)
    <3>1. artifacts[task[t].dir] # NoVersion /\ elements[v] = {} /\ status[v] = "PROCESSING"
      BY <1>2, <2>4 DEF ReadMeta, Imported, Fits
    <3>2. /\ task'[t].pc = "import" /\ task'[t].v = v /\ task'[t].k = 1
          /\ UNCHANGED <<status, elements>>
      BY <2>4, <3>1 DEF ReadMeta, DInv, SInv, TypeOK
    <3>3. 1..(1 - 1) = {} /\ 1 <= Batches + 1
      BY ConstantsOK
    <3> QED
      BY <3>1, <3>2, <3>3 DEF Imported
  <2>5. CASE ImportBatch(t)
    <3>1. /\ task[t].k \in Nat /\ task[t].k >= 1 /\ task[t].k <= Batches /\ status[v] = "PROCESSING"
          /\ elements[v] = 1..(task[t].k - 1)
      BY <1>2, <2>5 DEF ImportBatch, Fits, Imported, DInv, SInv, TypeOK, FlowsHaveVersions
    <3>2. Row(v) /\ task[t].k \notin elements[v]
      BY <3>1 DEF Row
    <3>3. /\ elements'[v] = elements[v] \cup {task[t].k} /\ status' = status
          /\ task'[t].pc = "import" /\ task'[t].v = v /\ task'[t].k = task[t].k + 1
      BY <1>2, <2>5, <3>2 DEF ImportBatch, DInv, SInv, TypeOK
    <3>4. elements'[v] = 1..(task'[t].k - 1) /\ task'[t].k <= Batches + 1
      BY <3>1, <3>3, ConstantsOK
    <3> QED
      BY <3>1, <3>3, <3>4 DEF Imported
  <2>6. CASE MarkReady(t)
    <3>1. /\ task[t].k \in Nat /\ task[t].k > Batches /\ task[t].k <= Batches + 1
          /\ status[v] = "PROCESSING" /\ elements[v] = 1..(task[t].k - 1)
      BY <1>2, <2>6 DEF MarkReady, Fits, Imported, DInv, SInv, TypeOK
    <3>2. task[t].k - 1 = Batches
      BY <3>1, ConstantsOK
    <3>3. status'[v] = "READY" /\ elements' = elements /\ task'[t].pc = "idle"
      BY <1>2, <2>6, <3>1 DEF MarkReady, Row, DInv, SInv, TypeOK
    <3> QED
      BY <3>1, <3>2, <3>3 DEF Imported
  <2>7. ~ Abort(t)
    BY <1>2 DEF Abort, Imported
  <2> QED
    BY <2>1, <2>2, <2>3, <2>4, <2>5, <2>6, <2>7 DEF Process
<1> QED
  BY <1>2, <1>3, <1>4, <1>5, <1>6, <1>7, WholeKept

LEMMA WholeStep ==
  ASSUME Overlap = FALSE, DInv, Whole, [Next]_vars, crashes' = crashes
  PROVE  Whole'
<1>1. CASE UNCHANGED vars \/ \E v \in Versions : ProgressLands(v)
  <2>1. UNCHANGED <<status, elements, artifacts, task, phase>>
    BY <1>1 DEF vars, ProgressLands
  <2> QED
    BY <2>1 DEF Whole, Imported, ReadyHasAllElements, Works
<1>2. CASE Recover \/ RequeuePending
  <2>1. /\ \A v \in Versions : status[v] = "none" /\ elements[v] = {} /\ status'[v] = status[v]
        /\ elements' = elements
        /\ \A t \in Tasks : task[t].pc = "idle"
    BY <1>2 DEF Recover, RequeuePending, Whole, DInv, SInv, Serial, QuietUntilServing, TypeOK
  <2>2. \A t \in Tasks : task'[t].pc = "idle"
    <3>1. CASE Recover
      BY <2>1, <3>1 DEF Recover
    <3>2. CASE RequeuePending
      BY <2>1, <3>2 DEF RequeuePending
    <3> QED
      BY <1>2, <3>1, <3>2
  <2> QED
    BY <2>1, <2>2 DEF Whole, Imported, ReadyHasAllElements
<1>3. ~ Crash
  BY DEF Crash, DInv, SInv, TypeOK
<1> QED
  BY <1>1, <1>2, <1>3, WholeRequest, WholeHandle, WholeProcess DEF Next

\* Until the process crashes, a conversion never meets the elements of an
\* earlier one: no import aborts, and a READY version nobody works on has all
\* its elements, whatever was converted, reconverted, failed and deleted.
THEOREM NoImportMeetsOldRows == ASSUME Overlap = FALSE PROVE Spec => []ImportsAreWhole
<1> DEFINE WholeYet == crashes = 0 => Whole
<1>1. Init => WholeYet
  BY DEF Init, Whole, Imported, ReadyHasAllElements
<1>2. DInv /\ DInv' /\ WholeYet /\ [Next]_vars => WholeYet'
  <2>1. SUFFICES ASSUME DInv, DInv', WholeYet, [Next]_vars, crashes' = 0 PROVE Whole'
    OBVIOUS
  <2>2. crashes' = crashes
    <3>1. crashes' = crashes \/ Crash
      BY <2>1 DEF Next, vars, Request, UploadReadNewest, ReconvertRead, DeleteRead, Handle, UploadCreate,
         UploadCollide, ReconvertClear, ReconvertReset, DeleteElements, DeleteRow, DeleteFiles, Process,
         Start, Claim, StoreProgress, ConvertOk, ConvertFail, MarkFailed, ReadMeta, ImportBatch,
         MarkReady, Abort, ProgressLands, Recover, RequeuePending
    <3>2. ~ Crash
      BY <2>1 DEF Crash, DInv, SInv, TypeOK
    <3> QED
      BY <3>1, <3>2
  <2> QED
    BY <2>1, <2>2, WholeStep
<1>3. WholeYet => ImportsAreWhole
  BY DEF ImportsAreWhole, Whole, Imported, ImportNeverAborts, At
<1> HIDE DEF WholeYet
<1> QED
  BY <1>1, <1>2, <1>3, DInvAlways, PTL DEF Spec
=============================================================================
