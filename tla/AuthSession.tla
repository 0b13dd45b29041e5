---------------------------- MODULE AuthSession -----------------------------
(***************************************************************************)
(* One user's session: refresh-token rotation and logout in apps/api/src/   *)
(* routes/auth.ts, and the browser side, apps/web/src/api/authTransport.ts  *)
(* (the 401 protocol with its single-flight refresh) and store/auth.ts.     *)
(*                                                                          *)
(* A tab's script runs without interruption between two awaits; what a tab  *)
(* awaits is an answer of the server.  All tabs share localStorage, which a *)
(* tab reads only when it is opened.                                        *)
(***************************************************************************)
EXTENDS Naturals, FiniteSets

CONSTANTS
    Tabs,
    Requests,       \* pairs of a tab and a number: a request is sent once
    MaxLogins,
    MaxFaults       \* bound on refreshes and logouts that are not answered

ASSUME SessionAssumption ==
    /\ IsFiniteSet(Tabs)
    /\ Requests \subseteq Tabs \X Nat /\ IsFiniteSet(Requests)
    /\ MaxLogins \in Nat /\ MaxFaults \in Nat

\* Every login and every refresh issues one pair of tokens; a request causes
\* at most one refresh.  0 stands for no tokens.
MaxToken == MaxLogins + Cardinality(Requests)
Tokens   == 1..MaxToken
Pairs    == 0..MaxToken

Of(t) == {o \in Requests : o[1] = t}

VARIABLES
    refreshToken,   \* RefreshToken rows: "none", "live" or "revoked"
    exchanged,      \* the tabs for which a refresh token bought a new pair
    tokens,         \* of each tab (authTransport's variable)
    storage,        \* localStorage obh.tokens
    op,             \* requests under withAuthRetry
    refresh,        \* each tab's refreshInFlight
    logout,         \* each tab's logout
    logins, faults

vars == <<refreshToken, exchanged, tokens, storage, op, refresh, logout,
          logins, faults>>
server == <<refreshToken, exchanged>>
browser == <<tokens, storage>>

\* A request is denied with 401, waits for the refresh, and is sent again; a
\* refresh is found good, and buys a new pair.
OpState(pc, again) == [pc |-> pc, again |-> again]
Call(pc, pair) == [pc |-> pc, pair |-> pair]
NoCall == Call("none", 0)

TypeOK ==
    /\ refreshToken \in [Tokens -> {"none", "live", "revoked"}]
    /\ exchanged \in [Tokens -> SUBSET Tabs]
    /\ tokens \in [Tabs -> Pairs]
    /\ storage \in Pairs
    /\ op \in [Requests -> [pc : {"new", "sent", "denied", "waiting", "ended"},
                           again : BOOLEAN]]
    /\ refresh \in [Tabs -> [pc : {"none", "sent", "found", "ok", "failed", "lost"}, pair : Pairs]]
    /\ logout \in [Tabs -> [pc : {"none", "sent", "over"}, pair : Pairs]]
    /\ logins \in 0..MaxLogins
    /\ faults \in 0..MaxFaults

Init ==
    /\ refreshToken = [k \in Tokens |-> "none"]
    /\ exchanged = [k \in Tokens |-> {}]
    /\ tokens = [t \in Tabs |-> 0]
    /\ storage = 0
    /\ op = [o \in Requests |-> OpState("new", FALSE)]
    /\ refresh = [t \in Tabs |-> NoCall]
    /\ logout = [t \in Tabs |-> NoCall]
    /\ logins = 0
    /\ faults = 0

Quiet(t) ==
    /\ \A o \in Of(t) : op[o].pc \in {"new", "ended"}
    /\ refresh[t] = NoCall
    /\ logout[t] = NoCall

-----------------------------------------------------------------------------
(* routes/auth.ts                                                            *)

\* createRefreshToken: a pair that nobody had before.
Issue(k) ==
    /\ refreshToken[k] = "none"
    /\ \A j \in Tokens : j < k => refreshToken[j] # "none"

\* POST /auth/refresh looks the token up ...
RefreshFind(t) ==
    /\ refresh[t].pc = "sent"
    /\ refresh' = [refresh EXCEPT ![t].pc =
          IF refreshToken[refresh[t].pair] = "live" THEN "found" ELSE "failed"]
    /\ UNCHANGED <<server, browser, op, logout, logins, faults>>

\* ... and then revokes it, by id alone, and creates the next one (which
\* nobody can present before the answer).
RefreshRotate(t) ==
    /\ refresh[t].pc = "found"
    /\ \E k \in Tokens :
          /\ Issue(k)
          /\ refreshToken' = [refreshToken EXCEPT ![refresh[t].pair] = "revoked",
                                                  ![k] = "live"]
          /\ refresh' = [refresh EXCEPT ![t] = Call("ok", k)]
    /\ exchanged' = [exchanged EXCEPT ![refresh[t].pair] = @ \cup {t}]
    /\ UNCHANGED <<browser, op, logout, logins, faults>>

\* POST /auth/logout
LogoutRevoke(t) ==
    /\ logout[t].pc = "sent"
    /\ refreshToken' = [refreshToken EXCEPT ![logout[t].pair] =
          IF @ = "live" THEN "revoked" ELSE @]
    /\ logout' = [logout EXCEPT ![t].pc = "over"]
    /\ UNCHANGED <<exchanged, browser, op, refresh, logins, faults>>

\* A call fails: a refresh before or after the server acted, a logout before.
RefreshFault(t) ==
    /\ refresh[t].pc \in {"sent", "ok"}
    /\ faults < MaxFaults
    /\ faults' = faults + 1
    /\ refresh' = [refresh EXCEPT ![t].pc = "lost"]
    /\ UNCHANGED <<server, browser, op, logout, logins>>

LogoutFault(t) ==
    /\ logout[t].pc = "sent"
    /\ faults < MaxFaults
    /\ faults' = faults + 1
    /\ logout' = [logout EXCEPT ![t].pc = "over"]
    /\ UNCHANGED <<server, browser, op, refresh, logins>>

-----------------------------------------------------------------------------
(* store/auth.ts                                                             *)

Login(t) ==
    /\ tokens[t] = 0
    /\ logout[t] = NoCall
    /\ logins < MaxLogins
    /\ logins' = logins + 1
    /\ \E k \in Tokens :
          /\ Issue(k)
          /\ refreshToken' = [refreshToken EXCEPT ![k] = "live"]
          /\ tokens' = [tokens EXCEPT ![t] = k]
          /\ storage' = k
    /\ UNCHANGED <<exchanged, op, refresh, logout, faults>>

\* A tab is opened with what localStorage holds.
Open(t) ==
    /\ Quiet(t)
    /\ tokens[t] = 0
    /\ storage # 0
    /\ tokens' = [tokens EXCEPT ![t] = storage]
    /\ UNCHANGED <<server, storage, op, refresh, logout, logins, faults>>

Forget(t) == tokens' = [tokens EXCEPT ![t] = 0] /\ storage' = 0

\* logout sends the stored refresh token, if any, and forgets the tokens when
\* the call is over, however it ended.
LogoutSend(t) ==
    /\ tokens[t] # 0
    /\ logout[t] = NoCall
    /\ IF storage = 0
       THEN Forget(t) /\ UNCHANGED logout
       ELSE logout' = [logout EXCEPT ![t] = Call("sent", storage)] /\ UNCHANGED browser
    /\ UNCHANGED <<server, op, refresh, logins, faults>>

LogoutDone(t) ==
    /\ logout[t].pc = "over"
    /\ Forget(t)
    /\ logout' = [logout EXCEPT ![t] = NoCall]
    /\ UNCHANGED <<server, op, refresh, logins, faults>>

-----------------------------------------------------------------------------
(* authTransport.ts: withAuthRetry and refreshTokens                        *)

OpSend(t, o) ==
    /\ op[o].pc = "new"
    /\ tokens[t] # 0
    /\ op' = [op EXCEPT ![o] = OpState("sent", FALSE)]
    /\ UNCHANGED <<server, browser, refresh, logout, logins, faults>>

\* requireAuth accepts an access token until it expires, which may be now.
OpAnswer(t, o) ==
    /\ op[o].pc = "sent"
    /\ \E pc \in {"ended", "denied"} : op' = [op EXCEPT ![o].pc = pc]
    /\ UNCHANGED <<server, browser, refresh, logout, logins, faults>>

\* Mutant: every denied request starts a refresh of its own.
JoinsAlone(t, call) == refresh' = [refresh EXCEPT ![t] = call]

\* refreshTokens: join the refresh in flight, or start it.
Joins(t, call) ==
    refresh' = IF refresh[t] = NoCall THEN [refresh EXCEPT ![t] = call] ELSE refresh

\* A second 401, or one without tokens, is final.
OpDenied(t, o) ==
    /\ op[o].pc = "denied"
    /\ IF ~ op[o].again /\ tokens[t] # 0
       THEN /\ op' = [op EXCEPT ![o].pc = "waiting"]
            /\ Joins(t, Call("sent", tokens[t]))
       ELSE op' = [op EXCEPT ![o].pc = "ended"] /\ UNCHANGED refresh
    /\ UNCHANGED <<server, browser, logout, logins, faults>>

\* Every waiting request of the tab goes on.
Resume(t, state) ==
    op' = [o \in Requests |->
             IF o \in Of(t) /\ op[o].pc = "waiting" THEN state ELSE op[o]]

\* Mutant: refreshInFlight is not reset after a success.
RefreshOkKeeps(t) ==
    /\ refresh[t].pc = "ok"
    /\ tokens' = [tokens EXCEPT ![t] = refresh[t].pair]
    /\ storage' = refresh[t].pair
    /\ Resume(t, OpState("sent", TRUE))
    /\ refresh' = [refresh EXCEPT ![t].pc = "none"]
    /\ UNCHANGED <<server, logout, logins, faults>>

\* Mutant: the new pair is not kept in memory.
RefreshOkStoresOnly(t) ==
    /\ refresh[t].pc = "ok"
    /\ storage' = refresh[t].pair
    /\ Resume(t, OpState("sent", TRUE))
    /\ refresh' = [refresh EXCEPT ![t] = NoCall]
    /\ UNCHANGED <<server, tokens, logout, logins, faults>>

\* The new pair replaces whatever the tab holds by now; the requests are sent
\* once more.
RefreshOk(t) ==
    /\ refresh[t].pc = "ok"
    /\ tokens' = [tokens EXCEPT ![t] = refresh[t].pair]
    /\ storage' = refresh[t].pair
    /\ Resume(t, OpState("sent", TRUE))
    /\ refresh' = [refresh EXCEPT ![t] = NoCall]
    /\ UNCHANGED <<server, logout, logins, faults>>

\* The session is given up: clearTokens, unless they are gone already.
RefreshFailed(t) ==
    /\ refresh[t].pc \in {"failed", "lost"}
    /\ tokens' = [tokens EXCEPT ![t] = 0]
    /\ storage' = IF tokens[t] # 0 THEN 0 ELSE storage
    /\ Resume(t, OpState("ended", FALSE))
    /\ refresh' = [refresh EXCEPT ![t] = NoCall]
    /\ UNCHANGED <<server, logout, logins, faults>>

-----------------------------------------------------------------------------
Answer(t) ==
    \/ RefreshFind(t) \/ RefreshRotate(t) \/ RefreshOk(t) \/ RefreshFailed(t)
    \/ LogoutRevoke(t) \/ LogoutDone(t)
    \/ \E o \in Of(t) : OpAnswer(t, o) \/ OpDenied(t, o)

Next ==
    \E t \in Tabs :
          \/ Login(t) \/ Open(t) \/ LogoutSend(t)
          \/ \E o \in Of(t) : OpSend(t, o)
          \/ Answer(t)
          \/ RefreshFault(t) \/ LogoutFault(t)

Spec == Init /\ [][Next]_vars

\* Every request is answered or fails, and every answer is handled.
FairSpec == Spec /\ \A t \in Tabs : WF_vars(Answer(t))

-----------------------------------------------------------------------------
(* Properties                                                                *)

\* The refresh token is single-use: it buys at most one new pair (CONTEXT.md).
SingleUse == \A k \in Tokens : Cardinality(exchanged[k]) <= 1

\* However many requests are denied at once, a tab never presents a refresh
\* token that it has spent itself: that is what the single flight is for.
NeverReplays ==
    [][\A t \in Tabs :
          refresh[t].pc # "sent" /\ refresh'[t].pc = "sent"
             => t \notin exchanged[refresh'[t].pair]]_vars

\* A tab ends its own session only when its user logs out or an answer is
\* lost; otherwise it is refused a token only if another tab spent or
\* revoked it.
StaysLoggedIn ==
    [][\A t \in Tabs : tokens[t] # 0 /\ tokens'[t] = 0 =>
          \/ LogoutSend(t) \/ LogoutDone(t)
          \/ refresh[t].pc = "lost"
          \/ t \notin exchanged[refresh[t].pair]
                /\ refreshToken[refresh[t].pair] = "revoked"]_vars

\* Every request ends: none waits for a refresh that is over.
RequestsEnd ==
    \A o \in Requests : (op[o].pc # "new") ~> (op[o].pc = "ended")
=============================================================================
