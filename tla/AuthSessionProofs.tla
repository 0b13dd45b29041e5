------------------------- MODULE AuthSessionProofs --------------------------
(***************************************************************************)
(* No tab presents a refresh token that it has spent, for any number of     *)
(* tabs, requests denied together, logins, logouts and lost answers.        *)
(*                                                                          *)
(* The single flight of refreshTokens alone does not give this: a spent     *)
(* token must not come back to its tab either, through the store all tabs   *)
(* share or with a late answer.  The invariant says where a token its own   *)
(* tab has spent may still be: in that tab's memory or the store, while the *)
(* answer of the refresh that spent it is on its way.                       *)
(*                                                                          *)
(* From this follows what a user sees: a tab whose refresh was refused was   *)
(* refused for what another tab did to the token.                           *)
(***************************************************************************)
EXTENDS AuthSession, FiniteSetTheorems, TLAPS

Spent(t, k) == t \in exchanged[k]
Presents(t) == refresh[t].pc \in {"sent", "found"}
Answering(t) == refresh[t].pc \in {"ok", "lost"}

\* A token that somebody has, was issued.
Issued(k) == k \in Tokens /\ refreshToken[k] # "none"
OnlyIssued ==
    /\ \A k \in Tokens : exchanged[k] # {} => Issued(k)
    /\ storage # 0 => Issued(storage)
    /\ \A t \in Tabs :
          /\ tokens[t] # 0 => Issued(tokens[t])
          /\ Presents(t) \/ refresh[t].pc = "ok" => Issued(refresh[t].pair)

\* A pair on its way to a tab is nowhere else yet.
OnItsWay(t) ==
    refresh[t].pc = "ok" =>
       /\ exchanged[refresh[t].pair] = {}
       /\ storage # refresh[t].pair
       /\ \A r \in Tabs :
             /\ tokens[r] # refresh[t].pair
             /\ Presents(r) => refresh[r].pair # refresh[t].pair
             /\ refresh[r].pc = "ok" /\ r # t => refresh[r].pair # refresh[t].pair

SpentIsGone(t) ==
    /\ tokens[t] # 0 /\ Spent(t, tokens[t]) => Answering(t)
    /\ storage # 0 /\ Spent(t, storage) => Answering(t) /\ tokens[t] # 0
    \* Until the answer a token in the store can still be spent.
    /\ storage # 0 /\ Presents(t) /\ refresh[t].pair = storage => tokens[t] # 0

InPlace == OnlyIssued /\ \A t \in Tabs : OnItsWay(t) /\ SpentIsGone(t)

IInv == TypeOK /\ InPlace

-----------------------------------------------------------------------------
LEMMA TokensArePositive ==
  MaxToken \in Nat /\ Tokens \subseteq Pairs /\ 0 \notin Tokens /\ 0 \in Pairs
<1>1. Cardinality(Requests) \in Nat
  BY SessionAssumption, FS_CardinalityType
<1> QED
  BY <1>1, SessionAssumption DEF MaxToken, Tokens, Pairs

USE TokensArePositive

LEMMA InitIInv == Init => IInv
<1> SUFFICES ASSUME Init PROVE IInv
  OBVIOUS
<1>1. TypeOK
  BY SessionAssumption DEF Init, TypeOK, OpState, Call, NoCall
<1>2. InPlace
  BY DEF Init, InPlace, OnlyIssued, OnItsWay, SpentIsGone, Presents, NoCall, Call
<1> QED
  BY <1>1, <1>2 DEF IInv

-----------------------------------------------------------------------------
(* Types.                                                                    *)

LEMMA TypeStep == TypeOK /\ [Next]_vars => TypeOK'
<1> SUFFICES ASSUME TypeOK, [Next]_vars PROVE TypeOK'
  OBVIOUS
<1> USE DEF TypeOK, server, browser, OpState, Call, NoCall
<1>1. CASE UNCHANGED vars
  BY <1>1 DEF vars
<1>2. ASSUME NEW t \in Tabs, Login(t) PROVE TypeOK'
  BY <1>2, SessionAssumption DEF Login
<1>3. ASSUME NEW t \in Tabs, Open(t) PROVE TypeOK'
  BY <1>3 DEF Open
<1>4. ASSUME NEW t \in Tabs, LogoutSend(t) PROVE TypeOK'
  <2>1. CASE UNCHANGED logout
    BY <1>4, <2>1 DEF LogoutSend, Forget
  <2>2. CASE logout' = [logout EXCEPT ![t] = Call("sent", storage)] /\ UNCHANGED browser
    <3>1. Call("sent", storage) \in [pc : {"none", "sent", "over"}, pair : Pairs]
      OBVIOUS
    <3>2. logout' \in [Tabs -> [pc : {"none", "sent", "over"}, pair : Pairs]]
      BY <2>2, <3>1
    <3> QED
      BY <1>4, <2>2, <3>2 DEF LogoutSend
  <2> QED
    BY <1>4, <2>1, <2>2 DEF LogoutSend
<1>5. ASSUME NEW t \in Tabs, LogoutDone(t) PROVE TypeOK'
  BY <1>5 DEF LogoutDone, Forget
<1>6. ASSUME NEW t \in Tabs, NEW o \in Requests, OpSend(t, o) PROVE TypeOK'
  BY <1>6 DEF OpSend
<1>7. ASSUME NEW t \in Tabs, NEW o \in Requests, OpAnswer(t, o) PROVE TypeOK'
  BY <1>7 DEF OpAnswer
<1>8. ASSUME NEW t \in Tabs, NEW o \in Requests, OpDenied(t, o) PROVE TypeOK'
  <2> DEFINE R == [pc : {"none", "sent", "found", "ok", "failed", "lost"}, pair : Pairs]
  <2>1. Call("sent", tokens[t]) \in R
    OBVIOUS
  <2>2. refresh' \in [Tabs -> R]
    BY <1>8, <2>1 DEF OpDenied, Joins
  <2>3. op' \in [Requests -> [pc : {"new", "sent", "denied", "waiting", "ended"},
                              again : BOOLEAN]]
    BY <1>8 DEF OpDenied
  <2> QED
    BY <1>8, <2>2, <2>3 DEF OpDenied
<1>9. ASSUME NEW t \in Tabs, RefreshFind(t) PROVE TypeOK'
  BY <1>9 DEF RefreshFind
<1>10. ASSUME NEW t \in Tabs, RefreshRotate(t) PROVE TypeOK'
  <2> DEFINE R == [pc : {"none", "sent", "found", "ok", "failed", "lost"}, pair : Pairs]
  <2>1. PICK k \in Tokens : /\ refresh' = [refresh EXCEPT ![t] = Call("ok", k)]
                            /\ refreshToken' = [refreshToken EXCEPT
                                  ![refresh[t].pair] = "revoked", ![k] = "live"]
    BY <1>10 DEF RefreshRotate
  <2>2. Call("ok", k) \in R
    OBVIOUS
  <2>3. refresh' \in [Tabs -> R]
    BY <2>1, <2>2
  <2>4. refreshToken' \in [Tokens -> {"none", "live", "revoked"}]
    BY <2>1
  <2>5. exchanged' \in [Tokens -> SUBSET Tabs]
    BY <1>10 DEF RefreshRotate
  <2> QED
    BY <1>10, <2>3, <2>4, <2>5 DEF RefreshRotate
<1>11. ASSUME NEW t \in Tabs, RefreshOk(t) PROVE TypeOK'
  BY <1>11 DEF RefreshOk, Resume
<1>12. ASSUME NEW t \in Tabs, RefreshFailed(t) PROVE TypeOK'
  BY <1>12 DEF RefreshFailed, Resume
<1>13. ASSUME NEW t \in Tabs, LogoutRevoke(t) PROVE TypeOK'
  BY <1>13 DEF LogoutRevoke
<1>14. ASSUME NEW t \in Tabs, RefreshFault(t) PROVE TypeOK'
  BY <1>14, SessionAssumption DEF RefreshFault
<1>15. ASSUME NEW t \in Tabs, LogoutFault(t) PROVE TypeOK'
  BY <1>15, SessionAssumption DEF LogoutFault
<1> QED
  BY <1>1, <1>2, <1>3, <1>4, <1>5, <1>6, <1>7, <1>8, <1>9, <1>10, <1>11, <1>12,
     <1>13, <1>14, <1>15 DEF Next, Answer, Of

-----------------------------------------------------------------------------
(* Where the tokens are.                                                     *)

\* A step that moves no token.
LEMMA NothingMoves ==
  ASSUME InPlace, UNCHANGED <<exchanged, tokens, storage, refresh>>,
         \A k \in Tokens : refreshToken[k] # "none" => refreshToken'[k] # "none"
  PROVE  InPlace'
BY DEF InPlace, OnlyIssued, OnItsWay, SpentIsGone, Presents, Answering, Spent, Issued

LEMMA FindKeeps ==
  ASSUME IInv, NEW t \in Tabs, RefreshFind(t)
  PROVE  InPlace'
<1>1. /\ UNCHANGED <<refreshToken, exchanged, tokens, storage>>
      /\ refresh[t].pc = "sent" /\ refresh'[t].pc \in {"found", "failed"}
      /\ refresh'[t].pair = refresh[t].pair
      /\ \A r \in Tabs \ {t} : refresh'[r] = refresh[r]
  BY DEF IInv, TypeOK, RefreshFind, server, browser
<1> QED
  BY <1>1 DEF IInv, InPlace, OnlyIssued, OnItsWay, SpentIsGone, Presents, Answering,
              Spent, Issued

LEMMA FaultKeeps ==
  ASSUME IInv, NEW t \in Tabs, RefreshFault(t)
  PROVE  InPlace'
<1>1. /\ UNCHANGED <<refreshToken, exchanged, tokens, storage>>
      /\ refresh'[t].pc = "lost"
      /\ \A r \in Tabs \ {t} : refresh'[r] = refresh[r]
  BY DEF IInv, TypeOK, RefreshFault, server, browser
<1> QED
  BY <1>1 DEF IInv, InPlace, OnlyIssued, OnItsWay, SpentIsGone, Presents, Answering,
              Spent, Issued

\* The presented token is spent; it may be in the tab's memory and the store
\* until the answer arrives.  The new one is nowhere else.
LEMMA RotateKeeps ==
  ASSUME IInv, NEW t \in Tabs, RefreshRotate(t)
  PROVE  InPlace'
<1> DEFINE p == refresh[t].pair
<1>1. PICK k \in Tokens :
         /\ refreshToken[k] = "none"
         /\ refreshToken' = [refreshToken EXCEPT ![p] = "revoked", ![k] = "live"]
         /\ refresh' = [refresh EXCEPT ![t] = Call("ok", k)]
  BY DEF RefreshRotate, Issue
<1>2. /\ refresh[t].pc = "found" /\ exchanged' = [exchanged EXCEPT ![p] = @ \cup {t}]
      /\ UNCHANGED <<tokens, storage>>
  BY DEF RefreshRotate, browser
<1>3. Presents(t) /\ ~ Answering(t) /\ p \in Tokens /\ refreshToken[p] # "none"
  BY <1>2 DEF IInv, InPlace, OnlyIssued, Presents, Answering, Issued
<1>4. /\ refresh'[t] = Call("ok", k) /\ refresh'[t].pc = "ok" /\ refresh'[t].pair = k
      /\ \A r \in Tabs \ {t} : refresh'[r] = refresh[r]
  BY <1>1 DEF IInv, TypeOK, Call
<1>5. \A x \in Tokens : /\ refreshToken[x] # "none" => refreshToken'[x] # "none"
                        /\ refreshToken'[k] # "none"
                        /\ exchanged'[x] = IF x = p THEN exchanged[x] \cup {t} ELSE exchanged[x]
  BY <1>1, <1>2, <1>3 DEF IInv, TypeOK
<1> HIDE DEF p
<1>6. OnlyIssued'
  <2>1. \A x \in Tokens : exchanged'[x] # {} => Issued(x)'
    BY <1>3, <1>5 DEF IInv, InPlace, OnlyIssued, Issued
  <2>2. storage' # 0 => Issued(storage)'
    BY <1>2, <1>5 DEF IInv, InPlace, OnlyIssued, Issued
  <2>3. ASSUME NEW r \in Tabs
        PROVE  /\ tokens'[r] # 0 => Issued(tokens[r])'
               /\ Presents(r)' \/ refresh'[r].pc = "ok" => Issued(refresh[r].pair)'
    <3>1. tokens'[r] # 0 => Issued(tokens[r])'
      BY <1>2, <1>5 DEF IInv, InPlace, OnlyIssued, Issued
    <3>2. CASE r = t
      BY <1>4, <1>5, <3>1, <3>2 DEF Issued
    <3>3. CASE r # t
      BY <1>4, <1>5, <3>1, <3>3 DEF IInv, InPlace, OnlyIssued, Issued, Presents
    <3> QED
      BY <3>2, <3>3
  <2> QED
    BY <2>1, <2>2, <2>3 DEF OnlyIssued
<1>7. /\ exchanged[k] = {} /\ storage # k /\ p # k
      /\ \A r \in Tabs : /\ tokens[r] # k
                         /\ Presents(r) \/ refresh[r].pc = "ok" => refresh[r].pair # k
  BY <1>1, <1>3 DEF IInv, InPlace, OnlyIssued, Issued
<1>8. ASSUME NEW r \in Tabs PROVE OnItsWay(r)'
  <2>1. CASE r = t
    BY <1>2, <1>4, <1>5, <1>7, <2>1 DEF OnItsWay, Presents
  <2>2. CASE r # t
    <3>1. OnItsWay(r) /\ (refresh[r].pc = "ok" => refresh[r].pair \in Tokens)
      BY DEF IInv, InPlace, OnlyIssued, Issued
    <3>2. refresh[r].pc = "ok" => refresh[r].pair # p /\ refresh[r].pair # k
      BY <1>3, <1>7, <3>1 DEF OnItsWay, p
    <3> QED
      BY <1>2, <1>4, <1>5, <2>2, <3>1, <3>2 DEF OnItsWay, Presents
  <2> QED
    BY <2>1, <2>2
<1>9. ASSUME NEW r \in Tabs PROVE SpentIsGone(r)'
  <2>1. /\ SpentIsGone(r) /\ (tokens[r] # 0 => tokens[r] \in Tokens)
        /\ (storage # 0 => storage \in Tokens)
    BY DEF IInv, InPlace, OnlyIssued, Issued
  <2>2. CASE r = t
    BY <1>2, <1>3, <1>4, <1>5, <2>1, <2>2 DEF SpentIsGone, Spent, Presents, Answering, p
  <2>3. CASE r # t
    BY <1>2, <1>4, <1>5, <2>1, <2>3 DEF SpentIsGone, Spent, Presents, Answering
  <2> QED
    BY <2>2, <2>3
<1> QED
  BY <1>6, <1>8, <1>9 DEF InPlace

LEMMA LoginKeeps ==
  ASSUME IInv, NEW t \in Tabs, Login(t)
  PROVE  InPlace'
<1>1. PICK k \in Tokens :
         /\ refreshToken[k] = "none" /\ refreshToken' = [refreshToken EXCEPT ![k] = "live"]
         /\ tokens' = [tokens EXCEPT ![t] = k] /\ storage' = k
  BY DEF Login, Issue
<1>2. UNCHANGED <<exchanged, refresh>>
  BY DEF Login
<1>3. /\ tokens'[t] = k /\ \A r \in Tabs \ {t} : tokens'[r] = tokens[r]
      /\ refreshToken'[k] # "none"
      /\ \A x \in Tokens : refreshToken[x] # "none" => refreshToken'[x] # "none"
  BY <1>1 DEF IInv, TypeOK
<1>4. /\ exchanged[k] = {} /\ k # 0
      /\ \A r \in Tabs : Presents(r) \/ refresh[r].pc = "ok" => refresh[r].pair # k
  BY <1>1 DEF IInv, InPlace, OnlyIssued, Issued
<1>5. OnlyIssued'
  BY <1>1, <1>2, <1>3 DEF IInv, InPlace, OnlyIssued, Issued, Presents
<1>6. ASSUME NEW r \in Tabs PROVE OnItsWay(r)' /\ SpentIsGone(r)'
  BY <1>1, <1>2, <1>3, <1>4
     DEF IInv, InPlace, OnItsWay, SpentIsGone, Presents, Answering, Spent
<1> QED
  BY <1>5, <1>6 DEF InPlace

LEMMA OpenKeeps ==
  ASSUME IInv, NEW t \in Tabs, Open(t)
  PROVE  InPlace'
<1>1. /\ UNCHANGED <<refreshToken, exchanged, refresh, storage>>
      /\ refresh[t] = NoCall /\ storage # 0
      /\ tokens'[t] = storage /\ \A r \in Tabs \ {t} : tokens'[r] = tokens[r]
  BY DEF IInv, TypeOK, Open, Quiet, server
<1>2. refresh[t].pc = "none"
  BY <1>1 DEF NoCall, Call
<1> QED
  BY <1>1, <1>2 DEF IInv, InPlace, OnlyIssued, OnItsWay, SpentIsGone, Presents, Answering,
                    Spent, Issued

LEMMA ForgetKeeps ==
  ASSUME IInv, NEW t \in Tabs, Forget(t), UNCHANGED <<server, refresh>>
  PROVE  InPlace'
<1>1. /\ UNCHANGED <<refreshToken, exchanged, refresh>> /\ storage' = 0
      /\ tokens'[t] = 0 /\ \A r \in Tabs \ {t} : tokens'[r] = tokens[r]
  BY DEF IInv, TypeOK, Forget, server
<1> QED
  BY <1>1 DEF IInv, InPlace, OnlyIssued, OnItsWay, SpentIsGone, Presents, Answering,
              Spent, Issued

\* A refresh starts only where none is under way, so the tab's token is unspent.
LEMMA DeniedKeeps ==
  ASSUME IInv, NEW t \in Tabs, NEW o \in Requests, OpDenied(t, o)
  PROVE  InPlace'
<1>1. UNCHANGED <<refreshToken, exchanged, tokens, storage>>
  BY DEF OpDenied, server, browser
<1>2. CASE UNCHANGED refresh
  BY <1>1, <1>2, NothingMoves DEF IInv
<1>3. CASE /\ tokens[t] # 0 /\ refresh[t] = NoCall
           /\ refresh' = [refresh EXCEPT ![t] = Call("sent", tokens[t])]
  <2>1. /\ refresh[t].pc = "none"
        /\ refresh'[t].pc = "sent" /\ refresh'[t].pair = tokens[t]
        /\ \A r \in Tabs \ {t} : refresh'[r] = refresh[r]
    BY <1>3 DEF IInv, TypeOK, NoCall, Call
  <2> QED
    BY <1>1, <1>3, <2>1 DEF IInv, InPlace, OnlyIssued, OnItsWay, SpentIsGone, Presents,
                            Answering, Spent, Issued
<1> QED
  BY <1>2, <1>3 DEF OpDenied, Joins

LEMMA OkKeeps ==
  ASSUME IInv, NEW t \in Tabs, RefreshOk(t)
  PROVE  InPlace'
<1> DEFINE p == refresh[t].pair
<1>1. /\ UNCHANGED <<refreshToken, exchanged>> /\ storage' = p
      /\ refresh[t].pc = "ok" /\ refresh'[t].pc = "none"
      /\ \A r \in Tabs \ {t} : refresh'[r] = refresh[r]
      /\ tokens'[t] = p /\ \A r \in Tabs \ {t} : tokens'[r] = tokens[r]
  BY DEF IInv, TypeOK, RefreshOk, server, NoCall, Call
<1>2. /\ Issued(p) /\ p # 0 /\ exchanged[p] = {}
      /\ \A r \in Tabs \ {t} : Presents(r) \/ refresh[r].pc = "ok" => refresh[r].pair # p
  BY <1>1 DEF IInv, InPlace, OnlyIssued, OnItsWay, Issued
<1> HIDE DEF p
<1>3. OnlyIssued'
  BY <1>1, <1>2 DEF IInv, InPlace, OnlyIssued, Presents, Issued
<1>4. ASSUME NEW r \in Tabs PROVE OnItsWay(r)' /\ SpentIsGone(r)'
  BY <1>1, <1>2 DEF IInv, InPlace, OnItsWay, SpentIsGone, Presents, Answering, Spent
<1> QED
  BY <1>3, <1>4 DEF InPlace

LEMMA FailedKeeps ==
  ASSUME IInv, NEW t \in Tabs, RefreshFailed(t)
  PROVE  InPlace'
<1>1. /\ UNCHANGED <<refreshToken, exchanged>>
      /\ storage' = IF tokens[t] # 0 THEN 0 ELSE storage
      /\ refresh'[t].pc = "none"
      /\ \A r \in Tabs \ {t} : refresh'[r] = refresh[r]
      /\ tokens'[t] = 0 /\ \A r \in Tabs \ {t} : tokens'[r] = tokens[r]
  BY DEF IInv, TypeOK, RefreshFailed, server, NoCall, Call
<1> QED
  BY <1>1 DEF IInv, InPlace, OnlyIssued, OnItsWay, SpentIsGone, Presents, Answering,
              Spent, Issued

LEMMA StepIInv == IInv /\ [Next]_vars => IInv'
<1> SUFFICES ASSUME IInv, [Next]_vars PROVE IInv'
  OBVIOUS
<1>1. TypeOK'
  BY TypeStep DEF IInv
<1>2. InPlace'
  <2>1. CASE UNCHANGED vars
    BY <2>1, NothingMoves DEF IInv, vars
  <2>2. ASSUME NEW t \in Tabs, LogoutSend(t) \/ LogoutDone(t) PROVE InPlace'
    <3>1. CASE Forget(t)
      BY <2>2, <3>1, ForgetKeeps DEF LogoutSend, LogoutDone
    <3>2. CASE ~ Forget(t)
      BY <2>2, <3>2, NothingMoves DEF LogoutSend, LogoutDone, server, browser, IInv
    <3> QED
      BY <3>1, <3>2
  <2>3. ASSUME NEW t \in Tabs, LogoutRevoke(t) PROVE InPlace'
    <3>1. \A k \in Tokens : refreshToken[k] # "none" => refreshToken'[k] # "none"
      BY <2>3 DEF LogoutRevoke, IInv, TypeOK
    <3> QED
      BY <2>3, <3>1, NothingMoves DEF LogoutRevoke, browser, IInv
  <2>4. ASSUME NEW t \in Tabs, LogoutFault(t) PROVE InPlace'
    BY <2>4, NothingMoves DEF LogoutFault, server, browser, IInv
  <2>5. ASSUME NEW t \in Tabs, NEW o \in Requests, OpSend(t, o) \/ OpAnswer(t, o)
        PROVE  InPlace'
    BY <2>5, NothingMoves DEF OpSend, OpAnswer, server, browser, IInv
  <2> QED
    BY <2>1, <2>2, <2>3, <2>4, <2>5, LoginKeeps, OpenKeeps, DeniedKeeps, FindKeeps,
       RotateKeeps, OkKeeps, FailedKeeps, FaultKeeps DEF Next, Answer, Of
<1> QED
  BY <1>1, <1>2 DEF IInv

-----------------------------------------------------------------------------
\* A step that sends a refresh token sends the tab's own, from where no
\* refresh is under way.
LEMMA SendingIsDenied ==
  ASSUME IInv, [Next]_vars, NEW t \in Tabs, refresh[t].pc # "sent", refresh'[t].pc = "sent"
  PROVE  /\ refresh[t].pc = "none" /\ tokens[t] # 0
         /\ refresh'[t].pair = tokens[t] /\ UNCHANGED exchanged
<1> USE DEF IInv, TypeOK, NoCall, Call, server
<1>1. CASE UNCHANGED vars
  BY <1>1 DEF vars
<1>2. ASSUME NEW r \in Tabs,
             \/ Login(r) \/ Open(r) \/ LogoutSend(r) \/ LogoutDone(r)
             \/ LogoutRevoke(r) \/ LogoutFault(r)
             \/ \E o \in Of(r) : OpSend(r, o) \/ OpAnswer(r, o)
      PROVE  FALSE
  <2>1. UNCHANGED refresh
    BY <1>2 DEF Login, Open, LogoutSend, LogoutDone, LogoutRevoke, LogoutFault, OpSend,
                OpAnswer
  <2> QED
    BY <2>1
<1>3. ASSUME NEW r \in Tabs, RefreshFind(r) PROVE FALSE
  BY <1>3 DEF RefreshFind
<1>4. ASSUME NEW r \in Tabs, RefreshRotate(r) PROVE FALSE
  BY <1>4 DEF RefreshRotate
<1>5. ASSUME NEW r \in Tabs, RefreshOk(r) \/ RefreshFailed(r) PROVE FALSE
  <2>1. refresh' = [refresh EXCEPT ![r] = NoCall]
    BY <1>5 DEF RefreshOk, RefreshFailed
  <2>2. CASE r = t
    BY <2>1, <2>2
  <2>3. CASE r # t
    BY <2>1, <2>3
  <2> QED
    BY <2>2, <2>3
<1>6. ASSUME NEW r \in Tabs, RefreshFault(r) PROVE FALSE
  BY <1>6 DEF RefreshFault
<1>7. ASSUME NEW r \in Tabs, NEW o \in Of(r), OpDenied(r, o)
      PROVE  /\ refresh[t].pc = "none" /\ tokens[t] # 0
             /\ refresh'[t].pair = tokens[t] /\ UNCHANGED exchanged
  BY <1>7 DEF OpDenied, Joins
<1> QED
  BY <1>1, <1>2, <1>3, <1>4, <1>5, <1>6, <1>7 DEF Next, Answer

\* The single flight of authTransport.ts: however many requests are denied at
\* once, and whatever other tabs do to the tokens they share, a tab never
\* presents a refresh token that it has spent itself.
THEOREM NoTokenIsReplayed == Spec => NeverReplays
<1>1. Init => IInv
  BY InitIInv
<1>2. IInv /\ [Next]_vars => IInv'
  BY StepIInv
<1>3. IInv /\ [Next]_vars =>
         [\A t \in Tabs : refresh[t].pc # "sent" /\ refresh'[t].pc = "sent"
             => t \notin exchanged[refresh'[t].pair]]_vars
  <2> SUFFICES ASSUME IInv, [Next]_vars, NEW t \in Tabs,
                      refresh[t].pc # "sent", refresh'[t].pc = "sent"
               PROVE  t \notin exchanged[refresh'[t].pair]
    OBVIOUS
  <2>1. /\ refresh[t].pc = "none" /\ tokens[t] # 0 /\ refresh'[t].pair = tokens[t]
    BY SendingIsDenied
  <2> QED
    BY <2>1 DEF IInv, InPlace, SpentIsGone, Spent, Answering
<1> QED
  BY <1>1, <1>2, <1>3, PTL DEF Spec, NeverReplays
-----------------------------------------------------------------------------
(* Who ends a session.                                                       *)

\* What a tab presents it has not spent, and what it was refused is revoked.
Refused(t) ==
    /\ Presents(t) \/ refresh[t].pc = "failed" => ~ Spent(t, refresh[t].pair)
    /\ refresh[t].pc = "failed" =>
          refresh[t].pair \in Tokens /\ refreshToken[refresh[t].pair] = "revoked"

\* A token that is revoked stays so, and a tab spends only what it presents.
LEMMA RevokedStays ==
  ASSUME IInv, [Next]_vars
  PROVE  /\ \A k \in Tokens : refreshToken[k] = "revoked" => refreshToken'[k] = "revoked"
         /\ \A t \in Tabs, k \in Tokens : Spent(t, k)' =>
               Spent(t, k) \/ (refresh[t].pc = "found" /\ refresh'[t].pc = "ok")
<1> USE DEF IInv, TypeOK, server, browser, Spent
<1>1. CASE UNCHANGED server
  BY <1>1
<1>2. ASSUME NEW r \in Tabs, RefreshRotate(r)
      PROVE  /\ \A k \in Tokens : refreshToken[k] = "revoked" => refreshToken'[k] = "revoked"
             /\ \A t \in Tabs, k \in Tokens : Spent(t, k)' =>
                   Spent(t, k) \/ (refresh[t].pc = "found" /\ refresh'[t].pc = "ok")
  <2>1. PICK n \in Tokens :
           /\ Issue(n)
           /\ refreshToken' = [refreshToken EXCEPT ![refresh[r].pair] = "revoked", ![n] = "live"]
           /\ refresh' = [refresh EXCEPT ![r] = Call("ok", n)]
    BY <1>2 DEF RefreshRotate
  <2>2. refreshToken[n] = "none"
    BY <2>1 DEF Issue
  <2>3. \A k \in Tokens : refreshToken[k] = "revoked" => refreshToken'[k] = "revoked"
    BY <2>1, <2>2
  <2>4. \A t \in Tabs, k \in Tokens : t \in exchanged'[k] => t \in exchanged[k] \/ t = r
    BY <1>2 DEF RefreshRotate
  <2>5. refresh[r].pc = "found" /\ refresh'[r].pc = "ok"
    BY <1>2, <2>1 DEF RefreshRotate, Call
  <2> QED
    BY <2>3, <2>4, <2>5
<1>3. ASSUME NEW r \in Tabs, Login(r) \/ LogoutRevoke(r)
      PROVE  /\ \A k \in Tokens : refreshToken[k] = "revoked" => refreshToken'[k] = "revoked"
             /\ UNCHANGED exchanged
  <2>1. CASE Login(r)
    BY <2>1 DEF Login, Issue
  <2>2. CASE LogoutRevoke(r)
    BY <2>2 DEF LogoutRevoke
  <2> QED
    BY <1>3, <2>1, <2>2
<1>4. UNCHANGED server \/ \E r \in Tabs : RefreshRotate(r) \/ Login(r) \/ LogoutRevoke(r)
  BY DEF vars, Next, Answer, Open, LogoutSend, OpSend, RefreshFind, RefreshOk, RefreshFailed,
         LogoutDone, OpAnswer, OpDenied, RefreshFault, LogoutFault
<1> QED
  BY <1>1, <1>2, <1>3, <1>4

\* What a step of one tab makes of its refresh.
LEMMA RefreshSteps ==
  ASSUME IInv, [Next]_vars, NEW t \in Tabs
  PROVE  \/ refresh'[t] = refresh[t]
         \/ refresh'[t].pc \in {"none", "ok", "lost"}
         \/ /\ refresh[t].pc = "none" /\ tokens[t] # 0
            /\ refresh'[t] = Call("sent", tokens[t])
         \/ /\ refresh[t].pc = "sent" /\ refresh'[t].pair = refresh[t].pair
            /\ refresh'[t].pc = IF refreshToken[refresh[t].pair] = "live" THEN "found" ELSE "failed"
<1> USE DEF IInv, TypeOK, server, browser, Call, NoCall
<1> DEFINE Goal ==
         \/ refresh'[t] = refresh[t]
         \/ refresh'[t].pc \in {"none", "ok", "lost"}
         \/ /\ refresh[t].pc = "none" /\ tokens[t] # 0
            /\ refresh'[t] = Call("sent", tokens[t])
         \/ /\ refresh[t].pc = "sent" /\ refresh'[t].pair = refresh[t].pair
            /\ refresh'[t].pc = IF refreshToken[refresh[t].pair] = "live" THEN "found" ELSE "failed"
<1>1. CASE UNCHANGED refresh
  BY <1>1
<1>2. ASSUME NEW r \in Tabs, RefreshFind(r) PROVE Goal
  BY <1>2 DEF RefreshFind
<1>3. ASSUME NEW r \in Tabs, RefreshRotate(r) PROVE Goal
  <2>1. PICK n \in Tokens : refresh' = [refresh EXCEPT ![r] = Call("ok", n)]
    BY <1>3 DEF RefreshRotate
  <2>2. CASE r = t
    BY <2>1, <2>2
  <2>3. CASE r # t
    BY <2>1, <2>3
  <2> QED
    BY <2>2, <2>3
<1>4. ASSUME NEW r \in Tabs, RefreshFault(r) PROVE Goal
  <2>1. refresh' = [refresh EXCEPT ![r].pc = "lost"]
    BY <1>4 DEF RefreshFault
  <2>2. CASE r = t
    <3>1. refresh'[t].pc = "lost"
      BY <2>1, <2>2
    <3> QED
      BY <3>1
  <2>3. CASE r # t
    BY <2>1, <2>3
  <2> QED
    BY <2>2, <2>3
<1>5. ASSUME NEW r \in Tabs, RefreshOk(r) \/ RefreshFailed(r) PROVE Goal
  <2>1. refresh' = [refresh EXCEPT ![r] = NoCall]
    BY <1>5 DEF RefreshOk, RefreshFailed
  <2>2. CASE r = t
    <3>1. refresh'[t].pc = "none"
      BY <2>1, <2>2
    <3> QED
      BY <3>1
  <2>3. CASE r # t
    BY <2>1, <2>3
  <2> QED
    BY <2>2, <2>3
<1>6. ASSUME NEW r \in Tabs, NEW o \in Of(r), OpDenied(r, o) PROVE Goal
  <2>1. CASE UNCHANGED refresh
    BY <2>1
  <2>2. CASE tokens[r] # 0 /\ Joins(r, Call("sent", tokens[r]))
    <3>1. CASE refresh[r] = NoCall
      BY <2>2, <3>1 DEF Joins
    <3>2. CASE refresh[r] # NoCall
      BY <2>2, <3>2 DEF Joins
    <3> QED
      BY <3>1, <3>2
  <2> QED
    BY <1>6, <2>1, <2>2 DEF OpDenied
<1>7. \/ UNCHANGED refresh
      \/ \E r \in Tabs : \/ RefreshFind(r) \/ RefreshRotate(r) \/ RefreshFault(r)
                         \/ RefreshOk(r) \/ RefreshFailed(r)
                         \/ \E o \in Of(r) : OpDenied(r, o)
  BY DEF vars, Next, Answer, Login, Open, LogoutSend, OpSend, LogoutRevoke,
         LogoutDone, OpAnswer, LogoutFault
<1> QED
  BY <1>1, <1>2, <1>3, <1>4, <1>5, <1>6, <1>7

\* No step breaks it.
LEMMA RefusedStep ==
  ASSUME IInv, [Next]_vars, NEW t \in Tabs, Refused(t)
  PROVE  Refused(t)'
<1>1. TypeOK /\ IInv'
  BY StepIInv DEF IInv
<1>2. CASE refresh'[t] = refresh[t]
  <2>1. refresh[t].pair \in Pairs
    BY <1>1 DEF TypeOK
  <2>2. Presents(t) => refresh[t].pair \in Tokens
    BY DEF IInv, InPlace, OnlyIssued, Issued
  <2>3. ASSUME Presents(t) \/ refresh[t].pc = "failed" PROVE ~ Spent(t, refresh[t].pair)'
    <3>1. refresh[t].pair \in Tokens /\ ~ Spent(t, refresh[t].pair) /\ refresh'[t].pc # "ok"
      BY <1>2, <2>2, <2>3 DEF Refused, Presents
    <3> QED
      BY <3>1, RevokedStays, <1>2 DEF Spent
  <2>4. refresh[t].pc = "failed" => refreshToken'[refresh[t].pair] = "revoked"
    BY RevokedStays DEF Refused
  <2> QED
    BY <1>2, <2>3, <2>4 DEF Refused, Presents, Spent
<1>3. CASE refresh'[t].pc \in {"none", "ok", "lost"}
  BY <1>3 DEF Refused, Presents
<1>4. CASE /\ refresh[t].pc = "none" /\ tokens[t] # 0
           /\ refresh'[t] = Call("sent", tokens[t])
  <2>1. refresh'[t].pc = "sent" /\ refresh'[t].pair = tokens[t] /\ tokens[t] \in Tokens
    BY <1>4 DEF Call, IInv, InPlace, OnlyIssued, Issued
  <2>2. SpentIsGone(t) /\ ~ Answering(t)
    BY <1>4 DEF IInv, InPlace, Answering
  <2>3. ~ Spent(t, tokens[t])
    BY <1>4, <2>2 DEF SpentIsGone
  <2>4. t \notin exchanged'[tokens[t]]
    BY <1>4, <2>1, <2>3, RevokedStays DEF Spent
  <2> QED
    BY <2>1, <2>4 DEF Refused, Presents, Spent
<1>5. CASE /\ refresh[t].pc = "sent" /\ refresh'[t].pair = refresh[t].pair
           /\ refresh'[t].pc = IF refreshToken[refresh[t].pair] = "live" THEN "found" ELSE "failed"
  <2>1. /\ refresh[t].pair \in Tokens /\ refreshToken[refresh[t].pair] # "none"
        /\ refreshToken[refresh[t].pair] \in {"none", "live", "revoked"}
    BY <1>1, <1>5 DEF IInv, InPlace, OnlyIssued, Issued, Presents, TypeOK
  <2>2. ~ Spent(t, refresh[t].pair)'
    <3>1. ~ Spent(t, refresh[t].pair)
      BY <1>5 DEF Refused, Presents
    <3> QED
      BY <1>5, <2>1, <3>1, RevokedStays DEF Spent
  <2>3. refresh'[t].pc = "failed" => refreshToken'[refresh[t].pair] = "revoked"
    BY <1>5, <2>1, RevokedStays
  <2> QED
    BY <1>5, <2>1, <2>2, <2>3 DEF Refused, Presents, Spent
<1> QED
  BY <1>2, <1>3, <1>4, <1>5, RefreshSteps

\* authTransport.ts clears a tab's tokens only when its user logs out, a
\* refresh is not answered, or the refresh is refused for a token that another
\* tab has spent or revoked: never for one the tab has spent itself.
THEOREM SessionsLast == Spec => StaysLoggedIn
<1> DEFINE AllRefused == \A t \in Tabs : Refused(t)
<1>1. Init => IInv /\ AllRefused
  BY InitIInv DEF Init, Refused, Presents, NoCall, Call
<1>2. IInv /\ AllRefused /\ [Next]_vars => IInv' /\ AllRefused'
  <2>1. SUFFICES ASSUME IInv, AllRefused, [Next]_vars PROVE AllRefused'
    BY StepIInv
  <2>2. ASSUME NEW t \in Tabs PROVE Refused(t)'
    BY <2>1, <2>2, RefusedStep
  <2> QED
    BY <2>2
<1>3. IInv /\ AllRefused /\ [Next]_vars =>
        [\A t \in Tabs : tokens[t] # 0 /\ tokens'[t] = 0 =>
          \/ LogoutSend(t) \/ LogoutDone(t)
          \/ refresh[t].pc = "lost"
          \/ t \notin exchanged[refresh[t].pair]
                /\ refreshToken[refresh[t].pair] = "revoked"]_vars
  <2> SUFFICES ASSUME IInv, AllRefused, [Next]_vars, NEW t \in Tabs,
                      tokens[t] # 0, tokens'[t] = 0,
                      ~ LogoutSend(t), ~ LogoutDone(t), refresh[t].pc # "lost"
               PROVE  t \notin exchanged[refresh[t].pair]
                        /\ refreshToken[refresh[t].pair] = "revoked"
    OBVIOUS
  <2>1. RefreshFailed(t)
    <3> USE DEF IInv, TypeOK, server, browser
    <3>1. tokens' # tokens
      OBVIOUS
    <3>2. ASSUME NEW r \in Tabs, Login(r) PROVE FALSE
      BY <3>2 DEF Login
    <3>3. ASSUME NEW r \in Tabs, Open(r) PROVE FALSE
      BY <3>3 DEF Open
    <3>4. ASSUME NEW r \in Tabs, RefreshOk(r) PROVE FALSE
      <4>1. refresh[r].pair # 0
        BY <3>4 DEF RefreshOk, InPlace, OnlyIssued, Issued
      <4> QED
        BY <3>4, <4>1 DEF RefreshOk
    <3>5. ASSUME NEW r \in Tabs, r # t, LogoutSend(r) \/ LogoutDone(r) \/ RefreshFailed(r)
          PROVE  FALSE
      BY <3>5 DEF LogoutSend, LogoutDone, RefreshFailed, Forget
    <3>6. \E r \in Tabs : \/ Login(r) \/ Open(r) \/ LogoutSend(r) \/ LogoutDone(r)
                          \/ RefreshOk(r) \/ RefreshFailed(r)
      BY <3>1 DEF vars, Next, Answer, OpSend, RefreshFind, RefreshRotate, LogoutRevoke,
                  OpAnswer, OpDenied, RefreshFault, LogoutFault
    <3> QED
      BY <3>2, <3>3, <3>4, <3>5, <3>6
  <2>2. refresh[t].pc = "failed"
    BY <2>1 DEF RefreshFailed
  <2> QED
    BY <2>2 DEF Refused, Spent
<1> QED
  BY <1>1, <1>2, <1>3, PTL DEF Spec, StaysLoggedIn
=============================================================================
