--------------------------- MODULE ActivityHistory ---------------------------
(***************************************************************************)
(* The activity history (history.ts) between the engine that reports a      *)
(* channel's transmissions (engine/WidebandEngine.ts, teed in server.ts)    *)
(* and the page that lists the alerts (frontend/admin/radio.ts).            *)
(*                                                                          *)
(* One channel, which alerts when heard. Its opens, readings and closes      *)
(* come down the helper's pipe and may be behind: the engine hops away and   *)
(* back, the helper is respawned in the middle of a transmission, the        *)
(* service restarts, and rows are pruned and alerts dismissed, meanwhile.    *)
(* A second channel would share nothing but the table.                       *)
(***************************************************************************)
EXTENDS Integers, Sequences, FiniteSets

CONSTANTS
  MaxTx,       \* transmissions
  MaxTs,       \* the clock
  MaxPipe,     \* lines on their way from the helper
  Retention,   \* ticks a row is kept
  Cooldown,    \* ticks between two alerts of the channel
  Mishaps      \* what may come between: how many of each of Upsets

\* The last two are a page that is open, and what its operator dismisses.
Upsets == {"hop", "respawn", "restart", "find", "socket", "failure", "page", "dismissal"}

ASSUME HistoryAssumption == {MaxTx, MaxTs, MaxPipe, Retention, Cooldown} \subseteq Nat \ {0} /\ Mishaps \subseteq [Upsets -> Nat]

VARIABLES
  ts,      \* the clock
  helper,  \* the lane, and the lines in the pipe
  engine,  \* whether the group and the open set hold the channel; the opens it took for stale
  table,   \* the rows, and what the store remembers of them
  desk,    \* the admin page's list of alerts
  upsets   \* what may still go wrong

historyVars == <<ts, helper, engine, table, desk, upsets>>

NoRow == 0
Unknown == -1

Upset(kind) == upsets[kind] > 0 /\ upsets' = [upsets EXCEPT ![kind] = @ - 1]

AlertIds == {r.id : r \in {q \in table.rows : q.kind = "alert"}}

----------------------------------------------------------------------------
(* The store.                                                               *)

\* UPDATE ... WHERE id = ? AND durationMs IS NULL.
EndedAt(rows, id) ==
  {IF r.id = id /\ r.dur = Unknown THEN [r EXCEPT !.dur = IF ts > r.ts THEN ts - r.ts ELSE 0] ELSE r : r \in rows}

Inserted(t, kind, tx) ==
  [t EXCEPT !.next = @ + 1,
            !.rows = @ \union {[id |-> t.next, kind |-> kind, ts |-> ts, dur |-> Unknown, tx |-> tx, rf |-> 0, run |-> t.run]}]

\* Defect: the row that was open stays so.
RecordOrphans(t, tx) == [Inserted(t, "active", tx) EXCEPT !.open = t.next]

\* record() of an opening: the one still open ends now.
RecordActive(t, tx) ==
  LET q == Inserted(t, "active", tx)
  IN  [q EXCEPT !.rows = IF t.open = NoRow THEN @ ELSE EndedAt(@, t.open), !.open = t.next]

\* release().
Release(t) ==
  IF t.open = NoRow THEN t ELSE [t EXCEPT !.rows = EndedAt(@, t.open), !.last = t.open, !.open = NoRow]

\* Defect: the reading goes to the row that closed last.
SetRfClosed(t, tx) ==
  LET id == IF t.last # NoRow THEN t.last ELSE t.open
  IN  [t EXCEPT !.rows = {IF r.id = id THEN [r EXCEPT !.rf = tx] ELSE r : r \in @}]

\* setRf(): to the open row, or to the one that closed last.
SetRf(t, tx) ==
  LET id == IF t.open # NoRow THEN t.open ELSE t.last
  IN  [t EXCEPT !.rows = {IF r.id = id THEN [r EXCEPT !.rf = tx] ELSE r : r \in @}]

\* prune(), at boot and daily.
Kept(rows) == {r \in rows : r.ts >= ts - Retention}

\* The alert of an opening, outside the channel's cooldown, is a row of its own (server.ts remembers
\* when it was).
Quiet(t) == t.alerted # 0 /\ ts - t.alerted < Cooldown
Alerted(t, tx) == IF Quiet(t) THEN t ELSE [Inserted(t, "alert", tx) EXCEPT !.alerted = ts]

\* A request cut short: of a dismissal nothing more is known, and the list is asked for all the same.
Cut(st) == CASE st \in {"asked", "served", "fails"} -> "fails" [] st \in {"dismissing", "dismissed"} -> "dismissed" [] OTHER -> st

----------------------------------------------------------------------------
(* The helper's lane.                                                       *)

Line(what) == [what |-> what, tx |-> helper.tx]

\* An open, and while it lasts nothing; at the close the reading first, if there were samples enough.
LaneOpens ==
  /\ helper.tuned /\ ~helper.open /\ helper.tx < MaxTx /\ Len(helper.pipe) < MaxPipe
  /\ helper' = [helper EXCEPT !.open = TRUE, !.tx = @ + 1, !.pipe = Append(@, [what |-> "open", tx |-> helper.tx + 1])]
  /\ UNCHANGED <<ts, engine, table, desk, upsets>>

LaneCloses ==
  /\ helper.open /\ Len(helper.pipe) + 1 < MaxPipe
  /\ \E lines \in {<<Line("rf"), Line("close")>>, <<Line("close")>>} :
       helper' = [helper EXCEPT !.open = FALSE, !.pipe = @ \o lines]
  /\ UNCHANGED <<ts, engine, table, desk, upsets>>

\* tune(): an open lane is closed, without a reading.
LaneTunes ==
  /\ helper.told # <<>> /\ Len(helper.pipe) < MaxPipe
  /\ helper' = [helper EXCEPT !.tuned = Head(helper.told), !.told = Tail(@), !.open = FALSE,
                              !.pipe = IF helper.open THEN Append(@, Line("close")) ELSE @]
  /\ UNCHANGED <<ts, engine, table, desk, upsets>>

----------------------------------------------------------------------------
(* The engine and the tee.                                                  *)

\* An open of a channel of another group is stale; a page on the socket is told of an alert.
ReadsOpen(line) ==
  IF ~engine.inGroup
  THEN engine' = [engine EXCEPT !.stale = @ \union {line.tx}] /\ UNCHANGED <<table, desk>>
  ELSE /\ engine' = [engine EXCEPT !.open = TRUE]
       /\ table' = Alerted(RecordActive(table, line.tx), line.tx)
       /\ desk' = [desk EXCEPT !.pending = @ \/ (desk.socket /\ ~Quiet(table))]

\* A close of what a hop has released is stale.
ReadsClose ==
  /\ engine' = [engine EXCEPT !.open = FALSE]
  /\ table' = IF engine.open THEN Release(table) ELSE table
  /\ desk' = desk

ReadsRf(line) == table' = SetRf(table, line.tx) /\ UNCHANGED <<engine, desk>>

Reads ==
  /\ helper.pipe # <<>>
  /\ helper' = [helper EXCEPT !.pipe = Tail(@)]
  /\ LET line == Head(helper.pipe)
     IN  CASE line.what = "open" -> ReadsOpen(line) [] line.what = "close" -> ReadsClose [] line.what = "rf" -> ReadsRf(line)
  /\ UNCHANGED <<ts, upsets>>

\* sendTune(): what is open is released first.
Hops ==
  /\ Upset("hop") /\ Len(helper.told) < 2
  /\ engine' = [engine EXCEPT !.inGroup = ~@, !.open = FALSE]
  /\ table' = IF engine.open THEN Release(table) ELSE table
  /\ helper' = [helper EXCEPT !.told = Append(@, engine'.inGroup)]
  /\ UNCHANGED <<ts, desk>>

\* The helper dies and is replaced, or the engine is stopped and started: the open set is forgotten,
\* and nothing is released.
Respawns ==
  /\ Upset("respawn")
  /\ helper' = [helper EXCEPT !.open = FALSE, !.pipe = <<>>, !.told = <<>>, !.tuned = engine.inGroup]
  /\ engine' = [engine EXCEPT !.open = FALSE]
  /\ UNCHANGED <<ts, table, desk>>

\* The service restarts: the table stays, what was remembered of it is gone, and the socket drops.
Restarts ==
  /\ Upset("restart")
  /\ helper' = [helper EXCEPT !.open = FALSE, !.pipe = <<>>, !.told = <<>>, !.tuned = TRUE]
  /\ engine' = [engine EXCEPT !.inGroup = TRUE, !.open = FALSE]
  /\ table' = [table EXCEPT !.rows = Kept(@), !.open = NoRow, !.last = NoRow, !.alerted = 0, !.run = @ + 1]
  /\ desk' = [desk EXCEPT !.socket = FALSE, !.wire.st = Cut(@)]
  /\ ts' = ts

Prunes ==
  /\ Kept(table.rows) # table.rows
  /\ table' = [table EXCEPT !.rows = Kept(@)]
  /\ UNCHANGED <<ts, helper, engine, desk, upsets>>

\* A find of Close Call is a row of its own kind, never an open one.
CloseCall ==
  /\ Upset("find")
  /\ table' = Inserted(table, "closecall", 0)
  /\ UNCHANGED <<ts, helper, engine, desk>>

Ticks ==
  /\ ts < MaxTs /\ ts' = ts + 1
  /\ UNCHANGED <<helper, engine, table, desk, upsets>>

----------------------------------------------------------------------------
(* The page: one request at a time.                                         *)

\* Defect: only what the socket tells asks for the list.
PendingOnly == desk.pending
\* "alerts-now" when it is told, "alerts" every minute.
AlertsDue == desk.pending \/ desk.minute

\* renderAlerts(): the flag is lowered before the request, so an alert during it asks again.
ListAsked ==
  /\ desk.wire.st = "idle" /\ AlertsDue
  /\ desk' = [desk EXCEPT !.pending = FALSE, !.minute = FALSE, !.wire = [st |-> "asked", rows |-> {}]]
  /\ UNCHANGED <<ts, helper, engine, table, upsets>>

ListServed ==
  /\ desk.wire.st = "asked"
  /\ desk' = [desk EXCEPT !.wire = [st |-> "served", rows |-> AlertIds]]
  /\ UNCHANGED <<ts, helper, engine, table, upsets>>

RequestFails ==
  /\ desk.wire.st \in {"asked", "dismissing"} /\ Upset("failure")
  /\ desk' = [desk EXCEPT !.wire.st = Cut(@)]
  /\ UNCHANGED <<ts, helper, engine, table>>

\* A list we have is kept when the request fails; a dismissal asks for the list either way.
ListLands ==
  /\ desk.wire.st \in {"served", "fails", "dismissed"}
  /\ desk' = [desk EXCEPT !.wire = [st |-> "idle", rows |-> {}],
                          !.shown = IF desk.wire.st = "served" THEN desk.wire.rows ELSE @,
                          !.binned = IF desk.wire.st = "served" THEN {} ELSE @,
                          !.pending = @ \/ desk.wire.st = "dismissed"]
  /\ UNCHANGED <<ts, helper, engine, table, upsets>>

\* An alert's bin, which is off until the list is painted again, or "Clear all", which asks first: by
\* then the list that was asked for has come.
Dismisses ==
  /\ desk.wire.st = "idle" /\ Upset("dismissal")
  /\ \/ \E i \in desk.shown \ desk.binned :
          desk' = [desk EXCEPT !.wire = [st |-> "dismissing", rows |-> {i}], !.binned = @ \union {i}]
     \/ /\ desk.shown # {} /\ ~desk.pending
        /\ desk' = [desk EXCEPT !.wire = [st |-> "dismissing", rows |-> {}]]
  /\ UNCHANGED <<ts, helper, engine, table>>

\* deleteAlert(), clearAlerts(): alerts only. One that is gone already is a 404, and the list is asked for.
Deletes ==
  /\ desk.wire.st = "dismissing"
  /\ table' = [table EXCEPT !.rows = {r \in @ : ~(r.kind = "alert" /\ (desk.wire.rows = {} \/ r.id \in desk.wire.rows))}]
  /\ desk' = [desk EXCEPT !.wire = [st |-> "dismissed", rows |-> {}]]
  /\ UNCHANGED <<ts, helper, engine, upsets>>

MinuteComes ==
  /\ ~desk.minute /\ desk' = [desk EXCEPT !.minute = TRUE]
  /\ UNCHANGED <<ts, helper, engine, table, upsets>>

SocketDrops ==
  /\ desk.socket /\ Upset("socket")
  /\ desk' = [desk EXCEPT !.socket = FALSE]
  /\ UNCHANGED <<ts, helper, engine, table>>

SocketReturns ==
  /\ ~desk.socket
  /\ desk' = [desk EXCEPT !.socket = TRUE]
  /\ UNCHANGED <<ts, helper, engine, table, upsets>>

----------------------------------------------------------------------------

HistoryInit ==
  /\ ts = 1 /\ upsets \in Mishaps
  /\ helper = [tuned |-> TRUE, open |-> FALSE, tx |-> 0, pipe |-> <<>>, told |-> <<>>]
  /\ engine = [inGroup |-> TRUE, open |-> FALSE, stale |-> {}]
  /\ table = [rows |-> {}, next |-> 1, open |-> NoRow, last |-> NoRow, alerted |-> 0, run |-> 1]
  /\ desk = [shown |-> {}, binned |-> {}, pending |-> FALSE, minute |-> TRUE, socket |-> TRUE, wire |-> [st |-> "idle", rows |-> {}]]

Radio == LaneOpens \/ LaneCloses \/ LaneTunes \/ Reads \/ Hops \/ Respawns \/ Restarts \/ CloseCall \/ Ticks \/ Prunes

\* The page's own lane: polls and what comes of them.
PageRuns == upsets["page"] > 0 /\ (ListAsked \/ ListServed \/ ListLands \/ Deletes \/ MinuteComes)

HistoryNext == Radio \/ PageRuns \/ RequestFails \/ Dismisses \/ SocketDrops \/ SocketReturns

HistoryFairness == WF_historyVars(PageRuns)

HistorySpec == HistoryInit /\ [][HistoryNext]_historyVars /\ HistoryFairness

----------------------------------------------------------------------------

HistoryRows == [id : 1 .. table.next - 1, kind : {"active", "closecall", "alert"}, ts : 1 .. MaxTs, dur : Unknown .. MaxTs,
         tx : 0 .. MaxTx, rf : 0 .. MaxTx, run : 1 .. table.run]

HistoryTypeOK ==
  /\ ts \in 1 .. MaxTs /\ upsets \in [Upsets -> Nat]
  /\ table.rows \subseteq HistoryRows /\ {table.open, table.last} \subseteq 0 .. table.next - 1
  /\ desk.binned \subseteq desk.shown /\ desk.shown \subseteq 1 .. table.next - 1

Openings == {r \in table.rows : r.kind = "active"}

\* A channel is on the air once at a time: whatever hops, respawns and restarts came between, an
\* opening's airtime is over when the next begins, and one without an end is the one that is open, or
\* was when the service went down.
AirtimeOnce ==
  \A r \in Openings :
    /\ r.dur # Unknown => \A q \in Openings : q.id > r.id => r.ts + r.dur <= q.ts
    /\ r.dur = Unknown => r.id = table.open \/ r.run < table.run

\* A reading lands on the row of the transmission it was taken of; or of a transmission the engine took
\* for stale, which has none.
ReadingOnItsRow == \A r \in table.rows : r.rf # 0 => r.rf = r.tx \/ r.rf \in engine.stale

RowsSound == AirtimeOnce /\ ReadingOnItsRow

\* The page comes to list just the alerts there are: none that was dismissed, pruned or cleared
\* elsewhere, and none missing that came while its socket was down or its request on the wire.
AlertsShown == <>[](upsets["page"] > 0 => desk.shown = AlertIds)
=============================================================================
