--------------------------- MODULE EngineRouting ----------------------------
(***************************************************************************)
(* Which engine converts the versions of one model: routeEngine in          *)
(* apps/api/src/conversion/engineRouting.ts, and processVersion's use of it *)
(* in routes/models.ts, which reads the newest other version, decides, and  *)
(* stores the engine with a later update.                                   *)
(*                                                                          *)
(* Versions are their numbers; a source size is one of the three classes    *)
(* the two thresholds make: below NATIVE_THRESHOLD_BYTES ("small"), from it *)
(* to PRESPLIT_THRESHOLD_BYTES ("big"), and above both ("huge").            *)
(***************************************************************************)
EXTENDS Naturals

CONSTANTS
    MaxVersion,     \* bound on version numbers
    MaxRestarts,    \* bound on restarts with another NATIVE_WORKER_URL
    Overlap         \* may the versions of the model be in work together?

ASSUME RoutingAssumption ==
    MaxVersion \in Nat /\ MaxRestarts \in Nat /\ Overlap \in BOOLEAN

Versions == 1..MaxVersion
Sizes    == {"small", "big", "huge"}
Engines  == {"wasm", "native"}
PCs      == {"none", "start", "claim", "convert", "settled"}

VARIABLES
    pc,         \* "none" without a row, "settled" once READY or FAILED
    size,
    engine,     \* Version.engine; "null" until processVersion stores one
    decided,    \* between the decision and its update: engine and presplit
    made,       \* how the version's artifacts were made: engine and path
    native,     \* is NATIVE_WORKER_URL set?
    restarts

vars == <<pc, size, engine, decided, made, native, restarts>>

Choice(e, p) == [engine |-> e, presplit |-> p]
Undecided == Choice("null", FALSE)
Choices == [engine : Engines \cup {"null"}, presplit : BOOLEAN]

TypeOK ==
    /\ pc \in [Versions -> PCs]
    /\ size \in [Versions -> Sizes]
    /\ engine \in [Versions -> Engines \cup {"null"}]
    /\ decided \in [Versions -> Choices]
    /\ made \in [Versions -> Choices]
    /\ native \in BOOLEAN
    /\ restarts \in 0..MaxRestarts
    /\ \A n \in Versions : decided[n].engine = "null" <=> pc[n] \notin {"claim", "convert"}

Init ==
    /\ pc = [n \in Versions |-> "none"]
    /\ size = [n \in Versions |-> "small"]
    /\ engine = [n \in Versions |-> "null"]
    /\ decided = [n \in Versions |-> Undecided]
    /\ made = [n \in Versions |-> Undecided]
    /\ native \in BOOLEAN
    /\ restarts = 0

Row(n) == pc[n] # "none"
Calm == Overlap \/ \A n \in Versions : pc[n] \in {"none", "settled"}

-----------------------------------------------------------------------------
(* routeEngine.  The decision is "sticky", "native", "fallback" (native but  *)
(* not configured) or "wasm".                                                *)

\* findFirst id != n, orderBy versionNumber desc
NewestOther(n, m) ==
    /\ Row(m) /\ m # n
    /\ \A k \in Versions : Row(k) /\ k # n => k <= m

Alone(n) == \A m \in Versions : Row(m) => m = n

\* What routeEngine notes: only a decision by size falls back.
FallsBack(n) == Alone(n) /\ size[n] # "small" /\ ~ native

\* Mutant: the size decides first.
DecidesSizeFirst(n, e) ==
    IF size[n] # "small" /\ native THEN e = "native"
    ELSE IF Alone(n) THEN e = "wasm"
    ELSE \E m \in Versions :
            NewestOther(n, m) /\ e = (IF engine[m] = "native" THEN "native" ELSE "wasm")

\* Without another version the size decides; else the newest one's engine,
\* where null counts as wasm.
Decides(n, e) ==
    IF Alone(n) THEN e = (IF size[n] # "small" /\ native THEN "native" ELSE "wasm")
    ELSE \E m \in Versions :
            NewestOther(n, m) /\ e = (IF engine[m] = "native" THEN "native" ELSE "wasm")

-----------------------------------------------------------------------------
(* A new version of any size (its number is one above the newest); its       *)
(* conversion; reconversion and deletion of a settled one.                   *)

\* The next version number.
NextNumber(n) ==
    /\ \A m \in Versions : Row(m) => m < n
    /\ n = 1 \/ (n - 1 \in Versions /\ Row(n - 1))

Upload(n) ==
    /\ Calm
    /\ NextNumber(n)
    /\ pc' = [pc EXCEPT ![n] = "start"]
    /\ \E s \in Sizes : size' = [size EXCEPT ![n] = s]
    /\ UNCHANGED <<engine, decided, made, native, restarts>>

\* An engine stored by an earlier run of this version stays; presplit is for
\* huge sources and for the fallback.
Route(n) ==
    /\ pc[n] = "start"
    /\ \E e \in Engines :
          /\ IF engine[n] = "null" THEN Decides(n, e) ELSE e = engine[n]
          /\ decided' = [decided EXCEPT ![n] =
                Choice(e, e = "wasm" /\ (size[n] = "huge" \/ FallsBack(n)))]
    /\ pc' = [pc EXCEPT ![n] = "claim"]
    /\ UNCHANGED <<size, engine, made, native, restarts>>

Claim(n) ==
    /\ pc[n] = "claim"
    /\ engine' = [engine EXCEPT ![n] = decided[n].engine]
    /\ pc' = [pc EXCEPT ![n] = "convert"]
    /\ UNCHANGED <<size, decided, made, native, restarts>>

\* RoutingConversionService: the decided engine or none.  A failed
\* conversion leaves the artifacts of an earlier one.
Convert(n) ==
    /\ pc[n] = "convert"
    /\ pc' = [pc EXCEPT ![n] = "settled"]
    /\ \/ /\ decided[n].engine = "native" => native
          /\ made' = [made EXCEPT ![n] = decided[n]]
       \/ UNCHANGED made
    /\ decided' = [decided EXCEPT ![n] = Undecided]
    /\ UNCHANGED <<size, engine, native, restarts>>

Reconvert(n) ==
    /\ Calm
    /\ pc[n] = "settled"
    /\ pc' = [pc EXCEPT ![n] = "start"]
    /\ UNCHANGED <<size, engine, decided, made, native, restarts>>

Delete(n) ==
    /\ Calm
    /\ pc[n] = "settled"
    /\ pc' = [pc EXCEPT ![n] = "none"]
    /\ engine' = [engine EXCEPT ![n] = "null"]
    /\ made' = [made EXCEPT ![n] = Undecided]
    /\ UNCHANGED <<size, decided, native, restarts>>

\* Interrupted versions are processed again, perhaps with another setting.
Restart ==
    /\ restarts < MaxRestarts
    /\ restarts' = restarts + 1
    /\ native' \in BOOLEAN
    /\ pc' = [n \in Versions |->
                IF pc[n] \in {"claim", "convert"} THEN "start" ELSE pc[n]]
    /\ decided' = [n \in Versions |-> Undecided]
    /\ UNCHANGED <<size, engine, made>>

-----------------------------------------------------------------------------
Next ==
    \/ \E n \in Versions :
          \/ Upload(n) \/ Route(n) \/ Claim(n) \/ Convert(n)
          \/ Reconvert(n) \/ Delete(n)
    \/ Restart

Spec == Init /\ [][Next]_vars

-----------------------------------------------------------------------------
(* Properties                                                                *)

\* One model never mixes engines (schema.prisma): all artifacts it has were
\* made by one engine.
NoMixing ==
    \A m, n \in Versions :
       made[m].engine # "null" /\ made[n].engine # "null"
          => made[m].engine = made[n].engine

\* The artifacts of a version are those of the engine its row names.
ArtifactsMatchRow ==
    \A n \in Versions : made[n].engine # "null" => made[n].engine = engine[n]

\* A source at or above the native threshold never takes the plain wasm path
\* (the comments at engineRouting.ts:9-10 and models.ts:179-181).
OversizedNeverPlain ==
    \A n \in Versions :
       size[n] # "small" /\ made[n].engine = "wasm" => made[n].presplit
=============================================================================
