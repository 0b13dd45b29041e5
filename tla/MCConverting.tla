---------------------------- MODULE MCConverting ----------------------------
(***************************************************************************)
(* One run of a version's life under overlapping requests and of the pool   *)
(* of threads that converts it.  processVersion sees of the pool only that  *)
(* a submit is answered, so the two share no variable and the first state   *)
(* picks the one whose steps are taken.                                     *)
(***************************************************************************)
EXTENDS VersionLifecycle, ConversionPool

VARIABLE half

ConvertingInit == half \in {"life", "pool"} /\ Init /\ PoolInit

ConvertingNext ==
    /\ UNCHANGED half
    /\ \/ half = "life" /\ Next /\ UNCHANGED poolVars
       \/ half = "pool" /\ PoolNext /\ UNCHANGED vars

\* The fairness of both; what the half at rest could do at once is asked of it
\* only where it is the one at work.
ConvertingSpec ==
    /\ ConvertingInit
    /\ [][ConvertingNext]_<<half, vars, poolVars>>
    /\ WF_vars(half = "life" /\ Recover)
    /\ WF_vars(half = "life" /\ RequeuePending)
    /\ \A c \in Clients : WF_vars(Handle(c))
    /\ \A t \in Tasks : WF_vars(Advance(t))
    /\ \A v \in Versions : WF_vars(ProgressLands(v))
    /\ \A s \in Slots :
          /\ WF_poolVars(HandleEvent(s))
          /\ WF_poolVars(half = "pool" /\ Boot(s))
          /\ WF_poolVars(Take(s))
          /\ WF_poolVars(End(s))
=============================================================================
