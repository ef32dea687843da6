----------------------------- MODULE AdminPage -----------------------------
(***************************************************************************)
(* The admin page's writes (frontend/admin): the Tune page, whose fields    *)
(* are saved at once, after a countdown that collects them, or behind an    *)
(* Apply bar, by what a save costs the radio (tune.ts, batcher.ts); its     *)
(* weather channel; and the power keys, which take the service away and     *)
(* watch for it to come back (system.ts, systemActionWatcher.ts).           *)
(*                                                                         *)
(* All of it shares one lane of requests (poller.ts): one on the wire at a  *)
(* time, polls and writes in the order they were queued.  While a power     *)
(* action is watched the lane takes nothing.  The page is one thread: what  *)
(* it holds is one record, tune, and each of its functions is an operator   *)
(* on it.  The document's revision is abstracted to whether a copy is still *)
(* fresh when it is sent back.                                              *)
(***************************************************************************)
EXTENDS Integers, Sequences

CONSTANTS
  Fields,       \* fields of one group of the Tune page
  Cost,         \* what a save of each costs: live (nothing to undo), scan or heavy
  Sliders,      \* the fields with a slider
  Values,       \* what a field, or the weather channel, can hold
  Invalid,      \* the values a field's own check refuses
  Nothing,      \* no value, no field, no process seen
  Plans         \* what may come, together: edits of each field and of "weather", writes of others,
                \* requests that fail, power actions and crashes of the service

ASSUME AdminAssumption ==
  /\ Cost \in [Fields -> {"live", "scan", "heavy"}]
  /\ Sliders \subseteq Fields /\ Invalid \subseteq Values /\ Values \ Invalid # {}
  /\ Nothing \notin Values \cup Fields
  /\ \A p \in Plans : /\ p.edits \in [Fields \cup {"weather"} -> Nat]
                      /\ {p.others, p.fails, p.power} \subseteq Nat

VARIABLES
  server,   \* the document's fields, its weather channel, the process, whether it is up or leaving
  tune,     \* the page: what the Tune page and the power keys hold
  want,     \* history: what the operator asked of each field and has not got yet, taken back or seen refused
  allowed,  \* what of the plan is left
  disowned  \* history: the fields of which the page let go of a save on its way, until all is settled

pageVars == <<server, tune, want, allowed>>

----------------------------------------------------------------------------
(* The Tune page's fields.                                                  *)

\* What the radio has, or will have once a save on its way lands.
Baseline(p, f) == IF p.sending[f] # Nothing THEN p.sending[f] ELSE p.loaded[f]

\* The fields the batch's state names.
BatchIds(b) ==
  CASE b.kind \in {"pending", "error"} -> b.ids
    [] b.kind = "saving" -> b.saving
    [] OTHER -> {}

Busy(p, f) == f \in p.inflight \cup p.heavy \cup BatchIds(p.batch) \/ p.sending[f] # Nothing

\* paintRow(): a field back at what the radio has is not in error.
PaintRows(p) == [p EXCEPT !.errs = {f \in @ : p.values[f] # p.loaded[f]}]

\* revert(ids).
Revert(p, ids) ==
  PaintRows([p EXCEPT !.values = [f \in Fields |-> IF f \in ids THEN Baseline(p, f) ELSE @[f]]])

----------------------------------------------------------------------------
(* ApplyBatcher: the fields collected, their countdown, the save under way  *)
(* and the flushes that wait for it.                                        *)

Change(p, f) ==
  [p EXCEPT !.batch.ids = @ \cup {f}, !.batch.timer = TRUE, !.batch.kind = "pending"]

Undo(p) == [p EXCEPT !.batch.ids = {}, !.batch.timer = FALSE, !.batch.kind = "idle"]

Drop(p, f) ==
  LET b == p.batch
      shown == IF b.saving # {} THEN "saving" ELSE "idle"
  IN  CASE f \notin b.ids -> p
        [] b.ids = {f} -> [p EXCEPT !.batch.ids = {}, !.batch.timer = FALSE, !.batch.kind = shown]
        [] OTHER -> [p EXCEPT !.batch.ids = @ \ {f}]

\* Defect: a batch that failed forgets what it held.
BatchForgets(p, ids) ==
  [p EXCEPT !.batch.timer = FALSE, !.batch.kind = "error", !.batch.saving = {}]

\* The save failed: what it held, and what came since, waits for Retry or Undo.
BatchFails(p, ids) ==
  [p EXCEPT !.batch.ids = @ \cup ids, !.batch.timer = FALSE, !.batch.kind = "error",
            !.batch.saving = {}]

BatchSaved(p) ==
  [p EXCEPT !.batch.kind = IF p.batch.ids = {} THEN "saved" ELSE @, !.batch.saving = {}]

----------------------------------------------------------------------------
(* Saving: one job of the lane, a read of the document and a write back.    *)

\* saveIds(ids): the values as they are now.
SaveJob(p, ids, by) ==
  [kind |-> "save", by |-> by, sent |-> [f \in ids |-> p.values[f]], at |-> "new", copy |-> Nothing]

\* What a refused save leaves on its rows.
Flagged(p, ids) == PaintRows([p EXCEPT !.errs = @ \cup ids])

\* What became of the caller of a save that failed: saveNow() or the batch.
Failed(p, by, ids) ==
  CASE by = "batch" -> BatchFails(p, ids)
    [] by = "direct" -> [p EXCEPT !.inflight = @ \ ids, !.retry = ids]
    [] OTHER -> [p EXCEPT !.inflight = @ \ ids, !.heavy = @ \cup {f \in ids : p.values[f] # p.loaded[f]}]

\* poller.run(): at the end of the lane, or refused at once, what was on its way forgotten.
SaveIds(p, ids, by) ==
  LET job == SaveJob(p, ids, by)
      sending == [f \in Fields |->
        IF f \notin ids THEN p.sending[f] ELSE IF p.paused THEN Nothing ELSE job.sent[f]]
      q == [p EXCEPT !.sending = sending]
  IN  IF p.paused THEN Failed(Flagged(q, ids), by, ids) ELSE [q EXCEPT !.lane = Append(@, job)]

SaveNow(p, ids, by) ==
  SaveIds([p EXCEPT !.inflight = @ \cup ids, !.retry = {}], ids, by)

\* flush(), nothing under way.
TakeBatch(p) ==
  LET ids == p.batch.ids
  IN  IF ids = {} THEN p
      ELSE SaveIds([p EXCEPT !.batch.ids = {}, !.batch.saving = ids, !.batch.kind = "saving"], ids, "batch")

Flush(p) ==
  LET q == [p EXCEPT !.batch.timer = FALSE]
  IN  IF p.batch.saving # {} THEN [q EXCEPT !.batch.waits = @ + 1] ELSE TakeBatch(q)

\* A batch settled: the flushes that waited for it look again, the first takes what there is.
Resumed(p) ==
  LET rest == IF p.paused \/ p.batch.ids = {} THEN 0 ELSE p.batch.waits - 1
  IN  IF p.batch.waits = 0 THEN p ELSE TakeBatch([p EXCEPT !.batch.waits = rest])

\* Only this save's entries: a later save of the same field may own it.
Settle(p, sent) ==
  [p EXCEPT !.sending = [f \in Fields |->
     IF f \in DOMAIN sent /\ @[f] = sent[f] THEN Nothing ELSE @[f]]]

\* A newer edit made while the save was under way stays the operator's.
SaveSucceeds(p, sent, cfg) ==
  LET ids == DOMAIN sent
  IN  PaintRows([p EXCEPT !.errs = @ \ ids,
                     !.loaded = [f \in Fields |-> IF f \in ids THEN cfg[f] ELSE @[f]],
                     !.values = [f \in Fields |-> IF f \in ids /\ @[f] = sent[f] THEN cfg[f] ELSE @[f]]])

SaveLands(p, job) ==
  LET ids == DOMAIN job.sent
      q == Settle(p, job.sent)
      v == IF job.at = "ok" THEN SaveSucceeds(q, job.sent, job.copy.cfg) ELSE Flagged(q, ids)
  IN  CASE job.at = "no" /\ job.by = "batch" -> Resumed(BatchFails(v, ids))
        [] job.at = "no" /\ job.by # "batch" -> Failed(v, job.by, ids)
        [] job.at = "ok" /\ job.by = "batch" -> Resumed(BatchSaved(v))
        [] OTHER -> [v EXCEPT !.inflight = @ \ ids]

\* The saves of a field in the lane.
SavesOf(p, f) == {i \in DOMAIN p.lane : p.lane[i].kind = "save" /\ f \in DOMAIN p.lane[i].sent}

----------------------------------------------------------------------------
(* commit(): every change of the operator's, by its cost.                   *)

\* isNoOp(): the same as what the radio has, or will have once a save of it lands.
IsNoOp(p, f) == p.values[f] = Baseline(p, f)

Commit(p, f) ==
  LET queued == Cost[f] \in {"scan", "heavy"}
      noChange == queued /\ IsNoOp(p, f)
      err == ~noChange /\ p.values[f] \in Invalid
      q == PaintRows([p EXCEPT !.errs = IF err THEN @ \cup {f} ELSE @ \ {f},
                          !.heavy = IF Cost[f] = "scan" THEN @ \ {f} ELSE @])
  IN  CASE (noChange \/ err) /\ Cost[f] = "scan" -> Drop(q, f)
        [] (noChange \/ err) /\ Cost[f] # "scan" -> [q EXCEPT !.heavy = @ \ {f}]
        [] ~noChange /\ ~err /\ Cost[f] = "live" -> SaveNow(q, {f}, "direct")
        [] ~noChange /\ ~err /\ Cost[f] = "scan" -> Change(q, f)
        [] OTHER -> [q EXCEPT !.heavy = @ \cup {f}]

\* Defect: a reload of the page's values follows the server everywhere.
AnyField(p, f) == p.focus # f

\* Only untouched fields follow the server.
Untouched(p, f) == p.values[f] = p.loaded[f] /\ ~Busy(p, f) /\ p.focus # f

\* load().
Load(p, cfg) ==
  IF ~p.ready THEN [p EXCEPT !.ready = TRUE, !.values = cfg, !.loaded = cfg]
  ELSE LET follow == {f \in Fields : Untouched(p, f)}
       IN  PaintRows([p EXCEPT !.values = [f \in Fields |-> IF f \in follow THEN cfg[f] ELSE @[f]],
                          !.loaded = [f \in Fields |-> IF f \in follow THEN cfg[f] ELSE @[f]]])

----------------------------------------------------------------------------
(* The weather channel: its control, what the server was last known to     *)
(* have, the delay, the save under way and one more queued behind it.       *)

WxBusy(w) == w.saving \/ w.queued \/ w.timer

ScheduleWeather(w) ==
  IF w.saving THEN [w EXCEPT !.queued = TRUE, !.err = FALSE] ELSE [w EXCEPT !.timer = TRUE, !.err = FALSE]

\* paintWeather(): the control follows unless it is busy or holds an unsaved edit.
PaintWeather(w, have) ==
  IF WxBusy(w) THEN w
  ELSE [w EXCEPT !.shown = IF @ = w.loaded \/ w.loaded = Nothing THEN have ELSE @, !.loaded = have]

\* saveWeather().
SaveWeather(p) ==
  IF p.paused THEN [p EXCEPT !.wx.err = TRUE]
  ELSE [p EXCEPT !.wx = [@ EXCEPT !.saving = TRUE, !.err = FALSE],
                 !.lane = Append(@, [kind |-> "weather", sent |-> p.wx.shown, at |-> "new", copy |-> Nothing])]

\* What it takes for known is what the control shows when the answer comes.
WeatherLands(w, ok) ==
  LET v == [w EXCEPT !.saving = FALSE, !.queued = FALSE,
                     !.loaded = IF ok THEN w.shown ELSE @, !.err = ~ok]
  IN  IF w.queued THEN ScheduleWeather(v) ELSE v

----------------------------------------------------------------------------
(* The power keys and the watcher.                                          *)

NoWatch == [phase |-> "none", base |-> Nothing, sawDown |-> FALSE, probe |-> "idle"]

\* Defect: the page stays as it is when nothing happened.
StaysBusy(p) == p

\* settle().
SettlePower(p) == [p EXCEPT !.busy = FALSE, !.paused = FALSE, !.watch = NoWatch]

PowerLands(p, ok) ==
  IF ~ok THEN [p EXCEPT !.busy = FALSE]
  ELSE [p EXCEPT !.paused = TRUE, !.watch = [NoWatch EXCEPT !.phase = "pending", !.base = p.powerBase]]

Unchanged(p) == SettlePower(p)

\* A probe's answer: a process, or none. late: the watch is older than its timeout.
Probed(p, proc, late) ==
  LET w == p.watch
  IN  CASE proc = Nothing ->
             [p EXCEPT !.watch = [w EXCEPT !.phase = "down", !.sawDown = TRUE, !.probe = "idle"]]
        [] proc # Nothing /\ proc # w.base -> SettlePower([p EXCEPT !.startedAt = Nothing, !.resync = TRUE])
        [] proc = w.base /\ late -> Unchanged(p)
        [] OTHER -> [p EXCEPT !.watch = [w EXCEPT !.phase = "pending", !.sawDown = FALSE, !.probe = "idle"]]

----------------------------------------------------------------------------
(* What the operator does.                                                  *)

Wire(p) == tune' = p /\ UNCHANGED server
\* The operator has one pointer: while it holds a slider it does nothing else.
Click == tune.ready /\ tune.focus = Nothing
Entry(f) == tune.ready /\ allowed.edits[f] > 0 /\ allowed' = [allowed EXCEPT !.edits[f] = @ - 1]
Wants(ids, v) == want' = [f \in Fields |-> IF f \in ids THEN v[f] ELSE want[f]]

\* A lane that is paused refuses a save at once; nothing is owed if the radio has it anyway.
Moot(p, f) == p.paused /\ p.values[f] = p.loaded[f]

\* What a commit asks for: nothing new if it is what the radio has or will have.
Due(p, f) ==
  LET v == p.values[f]
      live == Cost[f] = "live"
  IN  CASE ~live /\ IsNoOp(p, f) -> p.sending[f]
        [] v \in Invalid /\ (live \/ ~IsNoOp(p, f)) -> Nothing
        [] live /\ v \notin Invalid /\ Moot(p, f) -> Nothing
        [] OTHER -> v

Asked(p, f) == want' = [want EXCEPT ![f] = Due(p, f)]

Slide(f, v) ==
  /\ Entry(f) /\ f \in Sliders /\ v # tune.values[f] /\ v \notin Invalid /\ (tune.focus = f \/ Click)
  /\ Wire([tune EXCEPT !.values[f] = v, !.focus = f])
  /\ UNCHANGED want

\* The change is committed, and the operator leaves the field: of the browser's focus, which stays with a
\* slider until something else is clicked, the model keeps the time until then (tune.ts:220-223).
ReleaseSlider ==
  /\ tune.focus # Nothing
  /\ Wire(Commit([tune EXCEPT !.focus = Nothing], tune.focus))
  /\ Asked(tune, tune.focus)
  /\ UNCHANGED allowed

\* A box, a switch or a reset.
Enter(f, v) ==
  /\ Entry(f) /\ v # tune.values[f] /\ Click
  /\ LET p == [tune EXCEPT !.values[f] = v] IN Wire(Commit(p, f)) /\ Asked(p, f)

UndoBatch ==
  /\ Click /\ tune.batch.kind \in {"pending", "error"}
  /\ Wire(Revert(Undo(tune), tune.batch.ids))
  /\ Wants(tune.batch.ids, tune.sending)
  /\ UNCHANGED allowed

RetryBatch ==
  Click /\ tune.batch.kind = "error" /\ Wire(Flush(tune)) /\ UNCHANGED <<want, allowed>>

RetryDirect ==
  Click /\ tune.retry # {} /\ Wire(SaveNow(tune, tune.retry, "direct")) /\ UNCHANGED <<want, allowed>>

\* Apply takes the countdown's fields with it: one save, one restart.
Apply ==
  /\ Click /\ tune.heavy # {}
  /\ LET b == tune.batch
         fold == b.kind \in {"pending", "error"}
         ids == tune.heavy \cup (IF fold THEN b.ids ELSE {})
         q == [tune EXCEPT !.heavy = {}]
     IN  /\ Wire(SaveNow(IF fold THEN Undo(q) ELSE q, ids, "apply"))
         /\ Wants({f \in ids : Moot(tune, f)}, [f \in Fields |-> Nothing])
  /\ UNCHANGED allowed

Cancel ==
  /\ Click /\ tune.heavy # {}
  /\ Wire(Revert([tune EXCEPT !.heavy = {}], tune.heavy))
  /\ Wants(tune.heavy, tune.sending)
  /\ UNCHANGED allowed

EditWeather(v) ==
  /\ Entry("weather") /\ Click /\ tune.wx.loaded # Nothing /\ v # tune.wx.shown
  /\ Wire([tune EXCEPT !.wx = ScheduleWeather([@ EXCEPT !.shown = v])])
  /\ UNCHANGED want

RetryWeather ==
  /\ Click /\ tune.wx.err
  /\ Wire(IF WxBusy(tune.wx) THEN [tune EXCEPT !.wx = ScheduleWeather(@)] ELSE SaveWeather(tune))
  /\ UNCHANGED <<want, allowed>>

\* runAction(), confirmed: the process last seen is the one asked.
Power ==
  /\ Click /\ tune.startedAt # Nothing /\ ~tune.busy /\ allowed.power > 0
  /\ allowed' = [allowed EXCEPT !.power = @ - 1]
  /\ Wire([tune EXCEPT !.busy = TRUE, !.powerBase = tune.startedAt,
                       !.lane = Append(@, [kind |-> "power", at |-> "new", copy |-> Nothing])])
  /\ UNCHANGED want

----------------------------------------------------------------------------
(* The page's timers.                                                       *)

Countdown == tune.batch.timer /\ Wire(Flush(tune)) /\ UNCHANGED <<want, allowed>>

WeatherDelay ==
  tune.wx.timer /\ Wire(SaveWeather([tune EXCEPT !.wx.timer = FALSE])) /\ UNCHANGED <<want, allowed>>

\* A pass of the polls that are due: the Tune page's, and status before it when it is asked for
\* or a minute old.
Passes == {<<"tune">>, <<"status", "tune">>}
Tick(todo) ==
  /\ ~tune.paused /\ \A i \in DOMAIN tune.lane : tune.lane[i].kind # "pass"
  /\ tune.resync => Len(todo) = 2
  /\ Wire([tune EXCEPT !.lane = Append(@, [kind |-> "pass", todo |-> todo, at |-> "new", copy |-> Nothing])])
  /\ UNCHANGED <<want, allowed>>

WatchAsks ==
  /\ tune.watch.phase # "none" /\ tune.watch.probe = "idle"
  /\ Wire([tune EXCEPT !.watch.probe = "asked"])
  /\ UNCHANGED <<want, allowed>>

----------------------------------------------------------------------------
(* The wire. The lane's first job is on it.                                 *)

Head1 == tune.lane[1]
Answers(at, copy) == tune' = [tune EXCEPT !.lane[1].at = at, !.lane[1].copy = copy]

\* A pass that finds the lane paused ends.
Stops(p) == p.lane[1].kind = "pass" /\ p.paused

Served(kind, at) ==
  /\ tune.lane # <<>> /\ server.up /\ Head1.kind = kind /\ Head1.at = at /\ ~Stops(tune)
  /\ UNCHANGED <<want, allowed>>

\* A save reads the document...
GivesCopy ==
  /\ Served("save", "new")
  /\ Answers("got", [cfg |-> server.cfg, fresh |-> TRUE]) /\ UNCHANGED server

\* applyTune().
Applied(job) == [f \in Fields |-> IF f \in DOMAIN job.sent THEN job.sent[f] ELSE job.copy.cfg[f]]

\* ...and writes it back, unless somebody has overtaken it or it is not valid.
Puts ==
  /\ Served("save", "got")
  /\ LET new == Applied(Head1)
     IN  IF Head1.copy.fresh /\ \A f \in Fields : new[f] \notin Invalid
         THEN Answers("ok", [cfg |-> new]) /\ server' = [server EXCEPT !.cfg = new]
         ELSE Answers("no", Nothing) /\ UNCHANGED server

SetsWeather ==
  Served("weather", "new") /\ Answers("ok", Nothing) /\ server' = [server EXCEPT !.wx = Head1.sent]

\* The power routes answer, and the process goes a moment later.
TakesPower ==
  Served("power", "new") /\ Answers("ok", Nothing) /\ server' = [server EXCEPT !.leaving = TRUE]

AnswersPoll ==
  /\ Served("pass", "new")
  /\ Answers("ok", IF Head(Head1.todo) = "status" THEN [proc |-> server.proc]
                   ELSE [cfg |-> server.cfg, wx |-> server.wx])
  /\ UNCHANGED server

\* Nobody there, a refusal, or an answer lost on its way.
Fails ==
  /\ tune.lane # <<>> /\ Head1.at # "no" /\ ~Stops(tune)
  /\ allowed.fails > 0 \/ ~server.up
  /\ allowed' = IF server.up THEN [allowed EXCEPT !.fails = @ - 1] ELSE allowed
  /\ Answers("no", Nothing)
  /\ UNCHANGED <<server, want>>

\* Got what was wanted, or it is what the radio has anyway; unless a later save of it is in the lane.
Got(job) ==
  want' = [f \in Fields |->
    IF /\ f \in DOMAIN job.sent /\ want[f] = job.sent[f] /\ (job.at = "ok" \/ tune.loaded[f] = want[f])
       /\ SavesOf(tune, f) \subseteq {1}
    THEN Nothing ELSE want[f]]

\* A poll's answer, and on to the pass's next.
PollLands(p, job) ==
  LET what == Head(job.todo)
      q == CASE job.at = "no" -> p
             [] job.at = "ok" /\ what = "status" -> [p EXCEPT !.startedAt = job.copy.proc]
             [] OTHER -> [Load(p, job.copy.cfg) EXCEPT !.wx = PaintWeather(@, job.copy.wx)]
      next == [job EXCEPT !.todo = Tail(@), !.at = "new", !.copy = Nothing]
  IN  [q EXCEPT !.resync = IF what = "status" THEN FALSE ELSE @,
                !.lane = IF next.todo = <<>> THEN @ ELSE <<next>> \o @]

Lands ==
  /\ tune.lane # <<>> /\ (Head1.at \in {"ok", "no"} \/ Stops(tune))
  /\ LET job == Head1
         p == [tune EXCEPT !.lane = Tail(@)]
     IN  /\ tune' = CASE job.kind = "save" -> SaveLands(p, job)
                      [] job.kind = "weather" -> [p EXCEPT !.wx = WeatherLands(@, job.at = "ok")]
                      [] job.kind = "power" -> PowerLands(p, job.at = "ok")
                      [] job.kind = "pass" /\ job.at = "new" -> p
                      [] OTHER -> PollLands(p, job)
         /\ IF job.kind = "save" THEN Got(job) ELSE UNCHANGED want
  /\ UNCHANGED <<server, allowed>>

\* The probes' own requests, beside the lane. late: the watch is older than its timeout, within
\* which a service that goes away has gone.
ProbeAnswered(late) ==
  /\ tune.watch.probe = "asked" /\ server.up /\ (late => ~server.leaving)
  /\ tune' = Probed(tune, server.proc, late)
  /\ UNCHANGED <<server, want, allowed>>

\* Nobody there, or too slow.
ProbeFails ==
  /\ tune.watch.probe = "asked" /\ (allowed.fails > 0 \/ ~server.up)
  /\ allowed' = IF server.up THEN [allowed EXCEPT !.fails = @ - 1] ELSE allowed
  /\ tune' = Probed(tune, Nothing, FALSE)
  /\ UNCHANGED <<server, want>>

----------------------------------------------------------------------------
(* The service and everybody else.                                          *)

Overtaken(p) ==
  IF p.lane # <<>> /\ p.lane[1].kind = "save" /\ p.lane[1].at = "got"
  THEN [p EXCEPT !.lane[1].copy.fresh = FALSE] ELSE p

OtherWrites(f, v) ==
  /\ allowed.others > 0 /\ server.up /\ v # server.cfg[f] /\ v \notin Invalid
  /\ allowed' = [allowed EXCEPT !.others = @ - 1]
  /\ server' = [server EXCEPT !.cfg[f] = v] /\ tune' = Overtaken(tune)
  /\ UNCHANGED want

\* The process exits, asked to or not; a socket that reopens asks for the status.
Exit ==
  /\ server.up
  /\ allowed.power > 0 \/ server.leaving
  /\ allowed' = IF server.leaving THEN allowed ELSE [allowed EXCEPT !.power = @ - 1]
  /\ server' = [server EXCEPT !.up = FALSE, !.leaving = FALSE, !.proc = @ + 1] /\ tune' = Overtaken(tune)
  /\ UNCHANGED want

Boots ==
  /\ ~server.up
  /\ server' = [server EXCEPT !.up = TRUE] /\ tune' = [tune EXCEPT !.resync = TRUE]
  /\ UNCHANGED <<want, allowed>>

\* The restart that was accepted and never came.
Stays ==
  /\ server.leaving /\ allowed.fails > 0
  /\ server' = [server EXCEPT !.leaving = FALSE] /\ allowed' = [allowed EXCEPT !.fails = @ - 1]
  /\ UNCHANGED <<tune, want>>

----------------------------------------------------------------------------

Opened ==
  LET any == CHOOSE v \in Values \ Invalid : TRUE
  IN  [ready |-> FALSE, values |-> [f \in Fields |-> any], loaded |-> [f \in Fields |-> any],
       sending |-> [f \in Fields |-> Nothing], inflight |-> {}, heavy |-> {}, errs |-> {},
       focus |-> Nothing, retry |-> {},
       batch |-> [kind |-> "idle", ids |-> {}, timer |-> FALSE, saving |-> {}, waits |-> 0],
       wx |-> [shown |-> Nothing, loaded |-> Nothing, timer |-> FALSE,
               saving |-> FALSE, queued |-> FALSE, err |-> FALSE],
       lane |-> <<>>, paused |-> FALSE, resync |-> TRUE,
       startedAt |-> Nothing, busy |-> FALSE, powerBase |-> Nothing, watch |-> NoWatch]

PageInit ==
  LET any == CHOOSE v \in Values \ Invalid : TRUE
  IN  /\ server = [cfg |-> [f \in Fields |-> any], wx |-> any, proc |-> 1, up |-> TRUE, leaving |-> FALSE]
      /\ tune = Opened /\ want = [f \in Fields |-> Nothing]
      /\ allowed \in Plans /\ disowned = {}

Step ==
  \/ \E f \in Fields, v \in Values : Slide(f, v) \/ Enter(f, v) \/ OtherWrites(f, v)
  \/ \E v \in Values : EditWeather(v)
  \/ ReleaseSlider \/ UndoBatch \/ RetryBatch \/ RetryDirect \/ Apply \/ Cancel \/ RetryWeather \/ Power
  \/ \E todo \in Passes : Tick(todo)
  \/ Countdown \/ WeatherDelay \/ WatchAsks
  \/ GivesCopy \/ Puts \/ SetsWeather \/ TakesPower \/ AnswersPoll \/ Fails \/ Lands
  \/ \E late \in BOOLEAN : ProbeAnswered(late)
  \/ ProbeFails
  \/ Exit \/ Boots \/ Stays

\* A save of the field is in the lane, and the page knows none on its way.
LetGo(p, f) == SavesOf(p, f) # {} /\ p.sending[f] = Nothing

\* No save of it is on its way, nothing is asked of it and the page shows what it loaded.
Settled(p, f, asked) == SavesOf(p, f) = {} /\ asked = Nothing /\ p.values[f] = p.loaded[f]

PageNext ==
  /\ Step
  /\ disowned' = {f \in Fields : LetGo(tune', f) \/ (f \in disowned /\ ~Settled(tune', f, want'[f]))}

\* Timers, the wire and the service's supervisor; of the operator, that a slider is let go.
PageFairness ==
  /\ WF_pageVars(ReleaseSlider) /\ WF_pageVars(Countdown) /\ WF_pageVars(WeatherDelay) /\ WF_pageVars(WatchAsks)
  /\ SF_pageVars(Tick(<<"status", "tune">>))
  /\ WF_pageVars(GivesCopy) /\ WF_pageVars(Puts) /\ WF_pageVars(SetsWeather)
  /\ WF_pageVars(TakesPower) /\ WF_pageVars(AnswersPoll)
  /\ WF_pageVars(~server.up /\ Fails) /\ WF_pageVars(Lands)
  /\ SF_pageVars(ProbeAnswered(TRUE)) /\ WF_pageVars(~server.up /\ ProbeFails)
  /\ WF_pageVars(server.leaving /\ Exit) /\ WF_pageVars(Boots)

PageSpec == PageInit /\ [][PageNext]_<<pageVars, disowned>> /\ PageFairness

----------------------------------------------------------------------------
(* Properties.                                                              *)

PageTypeOK ==
  /\ server.cfg \in [Fields -> Values] /\ server.wx \in Values
  /\ {tune.values, tune.loaded} \subseteq [Fields -> Values]
  /\ tune.sending \in [Fields -> Values \cup {Nothing}] /\ want \in [Fields -> Values \cup {Nothing}]
  /\ UNION {tune.heavy, tune.errs, tune.inflight, tune.batch.ids, tune.batch.saving} \subseteq Fields
  /\ tune.batch.kind \in {"idle", "pending", "saving", "saved", "error"}
  /\ tune.watch.phase \in {"none", "pending", "down"}

\* What was entered in a field is on the page, in the countdown, behind the Apply bar, on its way,
\* or flagged as not saved.
EntryKept(f) ==
  want[f] # Nothing /\ tune.focus # f =>
    /\ tune.values[f] = want[f]
    /\ \/ f \in tune.batch.ids \cup tune.heavy \cup tune.errs
       \/ \E i \in SavesOf(tune, f) : tune.lane[i].sent[f] = want[f]

\* What the operator entered stays on the page until the radio has it, and the page
\* knows it still owes it (saveIds(), commit(), batcher.ts), save for the fields it let go of.
EditsKept == \A f \in Fields \ disowned : EntryKept(f)

\* The requests of a kind in the lane.
Requests(kind) == {i \in DOMAIN tune.lane : tune.lane[i].kind = kind}

\* The power keys are held just while an action's request is in the lane or the action is watched,
\* one at a time, the lane is paused just while it is watched, and what the watch compares with is
\* a process that ran (system.ts, systemActionWatcher.ts, poller.ts).
KeysHeld ==
  LET watched == tune.watch.phase # "none"
  IN  /\ tune.busy <=> Requests("power") # {} \/ watched
      /\ tune.paused <=> watched
      /\ \A i, j \in Requests("power") : i = j /\ ~watched
      /\ watched => tune.watch.base \in 1 .. server.proc

\* A weather channel that shows something else than the server was last known to have is counted
\* down, on its way or marked, whatever the polls bring meanwhile (paintWeather(), saveWeather()).
WeatherKept ==
  /\ tune.wx.saving <=> Requests("weather") # {}
  /\ tune.wx.loaded # Nothing /\ tune.wx.shown # tune.wx.loaded =>
       tune.wx.timer \/ tune.wx.saving \/ tune.wx.err

\* What the page owes is on it, and it is held up by nothing that is over.
PageSound == EditsKept /\ KeysHeld /\ WeatherKept

\* tune.ts:405, "Only this save's entries: a later save of the same id may own it now", tune.ts:232,
\* "What the radio has, or will have once an in-flight save lands". The entry is told by its
\* value: of two saves of one value the first to land drops the second's; and a save refused by a
\* paused lane drops that of an older one, still on its way.
EntryOwned == \A f \in Fields : ~LetGo(tune, f)

\* However saves fail and the service comes and goes, the page ends settled: the
\* power keys free and their baseline the process that runs, and every field what
\* the radio has, unless it waits for the operator, is flagged, or shows an entry the
\* field itself refuses, or is one of those the page let go of (EntryOwned).
PageConverges ==
  <>[](/\ ~tune.busy /\ ~tune.paused /\ tune.startedAt = server.proc
       /\ \A f \in Fields : \/ tune.values[f] = server.cfg[f]
                            \/ f \in tune.heavy \cup tune.errs \/ tune.values[f] \in Invalid
                            \/ tune.batch.kind = "error" /\ f \in tune.batch.ids
                            \/ f \in disowned
       /\ tune.wx.shown = server.wx \/ tune.wx.err)
=============================================================================
