---------------------------- MODULE VersionEvents ----------------------------
(***************************************************************************)
(* How a page learns the status of a version: the row that processVersion   *)
(* (routes/models.ts) writes, the event it emits after some of the writes,  *)
(* the stream of routes/events.ts that passes events on to the listeners of *)
(* the moment, and the viewer page's list and subscription (ViewerPage.tsx, *)
(* subscribeVersions in api/client.ts).  One version; progress is left out. *)
(***************************************************************************)
EXTENDS Naturals, Sequences

CONSTANTS
    MaxRuns,        \* bound on conversions of the version
    MaxDrops,       \* bound on breaks of the stream
    MaxRestarts     \* bound on restarts of the API

EventsAssumption == MaxRuns \in Nat \ {0} /\ MaxDrops \in Nat /\ MaxRestarts \in Nat

Statuses == {"PENDING", "PROCESSING", "READY", "FAILED"}
PagePCs  == {"new", "asked", "listed", "live", "probe", "stopped", "left"}
NoReply  == "none"

VARIABLES
    row,        \* Version.status
    due,        \* the status processVersion wrote and has yet to emit
    runs, drops, restarts,
    page,       \* the viewer page; "live" while its listener is installed
    reply,      \* of the page's list request, in flight
    shown,      \* the status the viewer page shows
    wire,       \* events sent to the page and not received
    missed      \* the last change of the row was not sent to the page

vars   == <<row, due, runs, drops, restarts, page, reply, shown, wire, missed>>
viewer == <<page, reply, shown, wire>>

TypeOK ==
    /\ row \in Statuses /\ due \in Statuses \cup {NoReply}
    /\ runs \in 0..MaxRuns /\ drops \in 0..MaxDrops /\ restarts \in 0..MaxRestarts
    /\ page \in PagePCs
    /\ reply \in Statuses \cup {NoReply} /\ shown \in Statuses \cup {NoReply}
    /\ wire \in Seq(Statuses)
    /\ missed \in BOOLEAN

Init ==
    /\ row = "PENDING" /\ due = NoReply
    /\ runs = 1 /\ drops = 0 /\ restarts = 0
    /\ page = "new" /\ reply = NoReply /\ shown = NoReply
    /\ wire = <<>> /\ missed = FALSE

-----------------------------------------------------------------------------
(* The row, and the events.                                                  *)

\* A change the page has not heard of matters once it has read the list.
Unheard == page \notin {"new", "left"}

Write(status, event) ==
    /\ due = NoReply
    /\ row' = status
    /\ due' = IF event THEN status ELSE NoReply
    /\ missed' = (missed \/ (~ event /\ Unheard))

\* update, then emit: a request may be answered in between.
Claim ==
    /\ row = "PENDING"
    /\ Write("PROCESSING", TRUE)
    /\ UNCHANGED <<runs, drops, restarts, viewer>>

\* Mutant: a failed outcome is stored and not emitted.
SettleQuietly(status) ==
    /\ row = "PROCESSING" /\ due = NoReply
    /\ row' = status
    /\ due' = IF status = "READY" THEN status ELSE NoReply
    /\ UNCHANGED missed
    /\ UNCHANGED <<runs, drops, restarts, viewer>>

Settle(status) ==
    /\ row = "PROCESSING"
    /\ Write(status, TRUE)
    /\ UNCHANGED <<runs, drops, restarts, viewer>>

\* The catch block: the row fails, and nothing is emitted.
Throw ==
    /\ row \in {"PENDING", "PROCESSING"}
    /\ Write("FAILED", FALSE)
    /\ UNCHANGED <<runs, drops, restarts, viewer>>

Reconvert ==
    /\ row \in {"READY", "FAILED"}
    /\ runs < MaxRuns
    /\ runs' = runs + 1
    /\ Write("PENDING", FALSE)
    /\ UNCHANGED <<drops, restarts, viewer>>

\* To the listeners installed now, and to nobody later.
Emit ==
    /\ due # NoReply
    /\ due' = NoReply
    /\ wire' = IF page = "live" THEN Append(wire, due) ELSE wire
    /\ missed' = IF page = "live" THEN FALSE ELSE missed \/ Unheard
    /\ UNCHANGED <<row, runs, drops, restarts, page, reply, shown>>

Break == IF page = "live" THEN page' = "probe" /\ wire' = <<>> ELSE UNCHANGED <<page, wire>>

\* Interrupted conversions are pending again when the API starts.
Restart ==
    /\ restarts < MaxRestarts
    /\ restarts' = restarts + 1
    /\ row' = IF row = "PROCESSING" THEN "PENDING" ELSE row
    /\ due' = NoReply
    /\ missed' = (missed \/ wire # <<>>
                  \/ (Unheard /\ (due # NoReply \/ row' # row)))
    /\ Break
    /\ UNCHANGED <<runs, drops, reply, shown>>

-----------------------------------------------------------------------------
(* The viewer page.                                                          *)

List ==
    /\ page = "new"
    /\ page' = "asked"
    /\ reply' = row
    /\ UNCHANGED <<row, due, runs, drops, restarts, shown, wire, missed>>

\* loadVersions: the list is shown, and only then the page subscribes.
Listed ==
    /\ page = "asked"
    /\ page' = "listed"
    /\ shown' = reply /\ reply' = NoReply
    /\ UNCHANGED <<row, due, runs, drops, restarts, wire, missed>>

Connect ==
    /\ page = "listed"
    /\ page' = "live"
    /\ UNCHANGED <<row, due, runs, drops, restarts, reply, shown, wire, missed>>

Receive ==
    /\ wire # <<>>
    /\ shown' = Head(wire)
    /\ wire' = Tail(wire)
    /\ UNCHANGED <<row, due, runs, drops, restarts, page, reply, missed>>

\* The stream errors: events on their way are lost.
Drop ==
    /\ page = "live"
    /\ drops < MaxDrops
    /\ drops' = drops + 1
    /\ Break
    /\ missed' = (missed \/ wire # <<>>)
    /\ UNCHANGED <<row, due, runs, restarts, reply, shown>>

\* GET /auth/me: connect again, or stop when the session has ended.  The list
\* is not read again.
Probe(ok) ==
    /\ page = "probe"
    /\ page' = IF ok THEN "listed" ELSE "stopped"
    /\ UNCHANGED <<row, due, runs, drops, restarts, reply, shown, wire, missed>>

Leave ==
    /\ page \notin {"new", "left"}
    /\ page' = "left"
    /\ wire' = <<>>
    /\ UNCHANGED <<row, due, runs, drops, restarts, reply, shown, missed>>

-----------------------------------------------------------------------------
Convert == Claim \/ Emit \/ (\E status \in {"READY", "FAILED"} : Settle(status)) \/ Throw
Page == List \/ Listed \/ Connect \/ Receive \/ (\E ok \in BOOLEAN : Probe(ok))

Next ==
    \/ Convert \/ Reconvert \/ Restart
    \/ Page \/ Drop \/ Leave

Spec == Init /\ [][Next]_vars

-----------------------------------------------------------------------------
(* Properties                                                                *)

\* The list, read before the subscription, and the events fit together: when
\* nothing is on its way to a page that listens, it shows the row, unless the
\* last change of the row was made in silence or while it did not listen.
LivePageIsCurrent ==
    page = "live" /\ wire = <<>> /\ due = NoReply => shown = row \/ missed

\* "Replaces polling" (events.ts:2): it shows the row.
ReplacesPolling ==
    page = "live" /\ wire = <<>> /\ due = NoReply => shown = row
=============================================================================
