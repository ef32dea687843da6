# Verification of the kerchunk kiosk

The kiosk (`src/kiosk`) is a radio scanner in three programs. A TypeScript backend keeps the
configuration, decides what the radio is doing, polls the feeds and serves the pages. A native
helper, `kerchunk-dsp`, reads an RTL-SDR or a SpyServer, demodulates up to a handful of channels at
once, decides which of them is heard and plays it. Two pages show it all: the wall (a dashboard over
a map) and the admin pages. Backend and helper talk through pipes (one command per line to the
helper's stdin, one event per line from its stdout, raw audio on fd 3), backend and pages through
HTTP and a websocket.

This directory holds TLA+ models of the parts that decide something, the TLC configurations that
check them, and TLAPS proofs about seventeen of them. Every definition is a translation of the code at
the lines `PROJECT.json` ("map") gives; file and line numbers in comments refer to the same tree
(paths are shortened to the file name).

## 1. The system

| Component | State it keeps | Operations | What makes it correct | Module |
|---|---|---|---|---|
| **Scanner** `native/src/scanner.cpp` | lanes (channel, open, gates, deadlines), the audible lane, lockouts by id | `tune`, `poll` every 10 ms, `skip`, `alert_unmute`, `assign_cc` | one speaker, on an open lane that may speak, never idle while there is one; the events tell the truth | `Scanner` |
| **Live loop, RTL source** `live.cpp`, `rtl_source.cpp`, `spsc.hpp` | command queue, sample ring, coalescing buffer, generation, pending tune, settle count | `on_samples` (USB thread), `step` (DSP thread), `set_center` | no sample of one center is demodulated under the plan of another; the sample clock loses nothing | `LiveLoop`, `TunedFeed` |
| **Engine: supervision** `WidebandEngine.ts` | child, five timers, failure count, what the pages were told | `start`, `stop`, `retune`, `respawnForSource`, exit, watchdogs | one helper, watched, right for the configuration; failures are shown and recovered from | `HelperSupervisor` |
| **Engine: rotation** `WidebandEngine.ts`, `scanSchedule.ts`, `grouping.ts` | groups, sweep stops, hold, priority look, open lanes as Node knows them | hop timer, events, aiming while down | every window is visited; a transmission holds the radio, for so long and no longer | `Rotation` |
| **Engine without a helper** `RtlFmEngine.ts` | one `rtl_fm`, one sink, hop and restart timers | `start`, `stop`, hop, exits | one receiver on the dongle, and the round goes on | `RtlFm` |
| **Mode machine** `server.ts`, `modeStore.ts`, `hf/controller.ts` | mode, monitored channel, break-in and its two timers, safety mode, `mode.json` | HTTP requests, SAME header and end, temperature sample, boot | the radio does what the operator last asked, except while an alert has it | `ModeControl` |
| **Shortwave sweep** `hf/sweep.ts`, `hf/controller.ts`, `hf/receptionLog.ts` | window, station, fades and cooldowns, log | surveys, timers, skip, break-in | what plays is the live window's and is logged as such; it goes round | `ShortwaveSweep` |
| **Schedules** `hf/scheduleStore.ts`, `hf/schedule.ts` | five files, the database read from them | fetch round, retry, reload, who is on at a minute | the last good copy is kept; the new season arrives; a slot is on when the list says | `ShortwaveSchedules` |
| **Close call recorder** `ccRecorder.ts`, `ccSampleStore.ts` | pre-roll ring, clip, write queue, store | audio, `audible`, reset, file, lock out | a clip is its own lane's; the store fits its budget | `CcRecorder` |
| **History** `history.ts`, `admin/radio.ts` | rows, open rows by channel, alerts | record, close, prune, dismiss, list | airtime counted once; a reading on its own row; the page lists the alerts there are | `ActivityHistory` |
| **Configuration document** `ConfigStore.ts`, `server.ts` | document, revision, file, backup | `GET`/`PUT` with `If-Match`, channel routes, background writers, boot | no lost update; a crash leaves a readable document | `ConfigDocument` |
| **Live hub and now-playing** `ws.ts`, `dashboard.ts`, `liveStore.ts` | sockets, replay slot, what a page shows | broadcast, reconnect, fold | what is shown as live plays; an error does not outlive its cause | `NowPlaying` |
| **Admin Tune page** `tune.ts`, `batcher.ts`, `poller.ts`, `system.ts` | pending edits, countdown, Apply bar, request lane, power watch | edit, save, poll, power | no edit lost unseen; the page ends on what the radio has | `AdminPage` |
| **Wall stages** `dashboard.ts`, `zoom.ts`, `atlas.ts`, `hitAnim.ts`, `cbRings.ts` | stage, zoom, traces | status poll, frames, promises | nothing blank or twice; ends on the server's mode | `WallStages` |
| **Wall map** `map.ts`, `glassState.ts`, `glassLayer.ts`, `radarSync.ts`, `radarFade.ts`, `aircraft.ts` | fronts, smoke, radar layers, aircraft, framing | events, frames, context loss, resize | what is drawn is what is there; what ended goes | `ActivityMap` |
| **Radar feed** `RadarFeed.ts`, `pngIndexed.ts` | current scan, download, decoder | poll, resume, decode | one image, and the newest arrives | `RadarFeed` |
| **Lightning feed** `LightningFeed.ts` | last key, ring of flashes | poll, download | once, in order, none lost | `LightningFeed` |
| **SpyServer source** `spyserver_source.cpp` | connection, gain marker | network reads, retune by marker | as the live loop, over a network | none |
| **Helper outputs** `outputs.cpp`, `multimon.cpp` | event queue, pumps, SAME child | writer threads, fd swap | whole samples, no blocked thread | none |
| **DSP chain, detectors, schema, entry point, tooling** | filters, wiring | | | none |

How they interact. The mode machine builds a scan plan from the document and calls the engine; the
engine spawns the helper and writes `tune`; the helper's stdin thread queues it, the live loop applies
it when samples of the new center arrive; the scanner opens and closes lanes on those samples; its
events go back through the pipe to the engine, whose hop timer acts on what it has been told, and
which tees them into the history, the recorder and the hub. The hub sends them to every page, which
folds them into what it shows. SAME headers travel the same way up to the mode machine, which may
take the radio from whatever was playing. Pages write by `PUT` into the document, which restarts or
re-points the engine. The radar and lightning feeds go to the map through the hub and HTTP.

What is hard: the backend is single-threaded, but each handler acts on a helper that has moved on; a
tune and the events of the window before it cross in the pipes; a helper that was told to quit is
still alive when its successor starts; ten timers are armed and cleared on different paths; samples
of the old center are still in USB transfers and in the ring after a retune; alerts, the operator,
the temperature and a restart all set the mode; handlers await a mixer, a provider or a restart and
go on with a document that has changed; power fails inside a save; sockets close with events in
flight; promises of the pages settle after a change of mind; a download is resumed on a file that was
replaced. `PROJECT.json` lists these one by one under "hazards", with the properties that watch each
or the reason why none does.

## 2. The modules

    ModeControl        what the radio is doing      --calls-->  the engine
    HelperSupervisor   the engine and its process   --spawns--> the helper
    Rotation           the engine's windows         <--pipes--> the helper
    LiveLoop           samples meet commands        implements  TunedFeed
    Scanner            lanes, squelch, speaker      --events--> NowPlaying, ActivityHistory, CcRecorder
    ConfigDocument     document, tabs, files        --plan-->   ModeControl
    ShortwaveSweep     drives the engine in hf mode (ModeControl)
    ShortwaveSchedules names its stations
    NowPlaying         hub and pages;  WallStages, ActivityMap the wall;  AdminPage the admin's writes
    RadarFeed, LightningFeed feed ActivityMap;  RtlFm stands in for the helper

Each module is one component and takes its neighbours at their interface. `Rotation` holds the helper
as seen through the pipes: which lanes are open and which one speaks, as `Scanner` produces them.
`HelperSupervisor` has the life of the process and leaves the windows to `Rotation`. `ModeControl`
sees the engine as the plan it was given last, and the sweep as running or not. `NowPlaying` composes
helper pipe, engine, hub, socket and page; `ActivityHistory` the engine, the table and the page that
lists it; `AdminPage` page, request lane and service; `ConfigDocument` tabs, service, engine and files.

`MC<module>` instantiates a module for TLC; `<module>Proofs` holds theorems about it, and about a module that
lies near it: the recorder's are in `ScannerProofs`, the stages' in `ModeControlProofs`, the history's and those of the
Tune page in `HelperSupervisorProofs`, those of what a page shows in `ConfigDocumentProofs`;
`ShortwaveProofs` holds those of the sweep and of the calendar, `SidePartsProofs` those of the
radar and lightning polls, of the store of schedules, of the engine without a helper and of the map. Parts that share
no state are checked side by side: a variable `part` chooses at the start which of them moves, the
others stand still in one initial state, so the states of a run are the sum of its parts' and each
part is explored whole. `MCScanner` hosts Scanner and CcRecorder, `MCModeControl` ModeControl and
WallStages, `MCHelperSupervisor` HelperSupervisor and ActivityHistory, `MCShortwave` the sweep, the
store and the calendar, `MCSideParts` RadarFeed, LightningFeed, RtlFm and ActivityMap. Fairness is
stated per part, of the part that moves.

## 3. What each run checks

Runs marked (s) are checked for safety alone. States are distinct states. `CHECK_DEADLOCK FALSE` is
used where the bounded environment (calls, faults, tunes, changes) runs out and the part then rests;
liveness properties say what must have happened by then.

| Run | Parts | States |
|---|---|---|
| `scanner` | Scanner (s), CcRecorder (s) | 2,172,476 |
| `mode_control` | ModeControl, WallStages | 329,902 |
| `helper_supervisor` | HelperSupervisor, ActivityHistory | 503,061 |
| `rotation` | Rotation | 412,709 |
| `live_loop` | LiveLoop against TunedFeed | 508,235 |
| `config_document` | ConfigDocument (s) | 432,088 |
| `shortwave` | ShortwaveSweep, ShortwaveSchedules | 523,848 |
| `now_playing` | NowPlaying | 566,220 |
| `admin_page` | AdminPage | 597,328 |
| `side_parts` | RadarFeed, LightningFeed, RtlFm, ActivityMap | 111,849 |
| `supervisor_same`, `locked_out_silent` | the two disagreements of section 5 | |

### scanner

Scanner: `poll()` is a loop over the lanes that carries the audible lane from one iteration to the next,
so an iteration is a step (`cursor`); commands come between polls, on the same thread. What a lane
measures is one `Reading`, the answers of the thresholds and detectors, and not a level. Deadlines are
counted in polls. `told` is what a client believes that has applied every event; `lockout` is history.
Three lanes: a priority channel, an ordinary one, a see-only one with a tone squelch, the weather
channel and one Close Call frequency; three tunes, of which one monitors; five readings. Three
lanes are what it takes for a close to choose between two successors, a tune of two lanes leaves one
to a discovery, the two polls to open and the hang of one are the smallest for which the counters
matter, and a holdoff of four outlives a retune.

CcRecorder: audio and events are two streams, each late by up to `Lag` chunks of a quarter of a second,
the length of the grace a clip's head is given. Two frequencies and one ordinary channel, a pre-roll
of 3 chunks against a cap of 5 and a minimum of 2, six chunks of time and three changes of the speaker:
enough for a clip that is cut at the cap, one too short to keep, one that follows another's close
within the pre-roll, and a store over its budget of one while the operator removes a clip.

### mode_control

ModeControl: a handler runs to its end before the next one starts; what it awaits settles in the same
macrotask. Timers are counted in ticks; one that is due stays due until its callback runs, and other
handlers may run first. `asked` is the operator's last choice, `fellBack` says that a boot could not
run the saved mode. Two frequencies, three configurations (one without weather channel, one without
SpyServer), three alerts of which one is a test, a hold of 2 or 3 ticks against a grace and a dedupe
of 1, two sweep windows. Two frequencies tell a listed one from a scanned one; three headers are what the single
remembered header can be evicted by.

WallStages: the page is one record and every function of it an operator; a promise (picture, first map
frame, animation end) settles in its own time against the closure that is current then. Three of the
five modes (one without a stage, the CB dial, the Atlas), two stations, three changes on the server
and one failure: a change while a zoom waits for its picture, one while it runs, and a third back. A
wall that opens in the Atlas starts with both stations in the log, any other with none.

### helper_supervisor

HelperSupervisor: Node's handlers are steps; processes move between them, so a helper dies before its
exit is delivered, a ready line waits in the pipe while a watchdog is due, and a helper told to quit
still holds the dongle when the next one tries to open it. `start()` and `stop()` await nothing but
each other, so each is one step. A configuration is what tells one helper from another: whether there is
something to scan, lanes and rate, source, and the arguments that build a decoder. Three processes
(one dying, one live, one about to be spawned), four configurations, two faults and three calls in any
order. Two faults are what shows an error; three calls reach a start, a change of source and a stop
while a restart is pending.

ActivityHistory: one channel, which alerts when heard; its lines wait in a pipe of three while the engine hops away
and back, is respawned in the middle of a transmission, or the service restarts and prunes. Two transmissions
tell the row of one from that of the other, which is what the reading and the airtime are about. Five
sets of mishaps, since what upsets the table and what upsets the page are different actors.

### rotation

Two pipes of lines under way, each side acting on what the other was doing. Time passes at the ticks of
the hop timer. Dwell extension by recorded activity is a choice between `MinDwell` and `MaxDwell`.
`silence` and `busy` are history. A scan of two groups (one with a priority channel) and a sweep stop,
a direct tune over a SpyServer, CB on the same SpyServer; pipes of two lines, one call and one exit.
Two groups and one stop reach every transition of the timer (hop, stop, look, return); a dwell and a
hold cap of two ticks against a look of one tell the three apart. With one call there is one change of plan under way at a time.

### live_loop

Three threads: the stdin reader queues commands (and drops one that finds the queue full, which
changes nothing), the USB callback tags what it is handed with the current generation and coalesces it
into blocks, the DSP thread drains commands and takes one block at a time. `set_center` moves the
device in one step and counts the generation up in the next, because a transfer can be handed over in
between. A unit stands for a run of samples and carries the window it was captured under, or `Moving`
while the device settles. `due` counts the units handed to the callback that the engine's clock has
not counted. Transfers of 2 units and blocks of 3, so that blocks straddle transfers and a retune cuts
a block short; a ring of two blocks, so that it overflows; two tunes and one list, so that a list
falls before, between and after.

`TunedFeed` is what the loop promises the engine: windows change only to the one asked for last, nothing
is demodulated while another is awaited, what is demodulated was captured under the live window, and
the last list of known frequencies given is the one in force. `FeedHolds` is the refinement: the
window asked for is the pending tune's, or the engine's when none is pending.

The assumption `SettleCovers` is the one the code's comment makes ("one full in-flight USB transfer"
plus the PLL margin), generalised: what is captured before the device has settled, that is `Backlog`
whole transfers, the rest of one being filled and the device's own time, fits in the settle. The run
takes it with equality. At 2.4 Msps (8,192 samples a transfer, 56,192 of settle) it holds even when all
four of librtlsdr's buffers wait, for a device that settles within 6 ms; at 250 ksps the settle is
13,192 samples and it holds only when no complete transfer waits as the device moves. Publishing the blocks of one transfer is one step:
what the DSP thread could free in the ring meanwhile only makes room. `MaxDropped` is 0: at most the
drops of one transfer wait to be noted; the count is only ever added to and taken whole.

### config_document

A request holds the chain of writes while it waits for the scanner or the mixer; reads, hits of the
helper, answers of providers and measurements come at any time. A tab is its copy, the revision it
read and the edit it has in mind; Undo replays a snapshot on a fresh copy. A full save copies the file
over the backup, then replaces the file, and power fails in the middle of the copy, before the
replacement or after it; while the service is down the operator may leave the file unreadable. Two
tabs (interchangeable) and two frequencies, two channel rows which an old document may hold on one
frequency, a discovery hidden at its third hit, two writes, three hits, one answer or measurement, one
power failure, and at most five of these together (`Budgets`, `Most`). Two writers are what an update can be
lost between; three hits file, count and hide a discovery; one crash reaches each of the three cuts. Five leave
room for two writers across such a discovery, and for two writers, two hits and a power failure.

### shortwave

ShortwaveSweep: two windows that share a channel, the first of which sees past its band's edge, surveys late by up to
two tunes, a window of 3 ticks, fades of 2 and a cooldown of 4, so that a station outlives a window and
returns within a round. ShortwaveSchedules, the store: two seasons, two bad answers and two deaths,
over five files of three sites. The calendar: days of three minutes, weeks of three days, months of 7
and 6 days and three years, run through and begun again; slots within the day, to its end, past midnight and all
day; six windows of dates (none, within a year, across its end, of one day, dated, dated across a year's end) and the first, second and last such
weekday of a month. Every boundary of `schedule.ts` is met with a day on either side.

### now_playing

Helper, pipe, engine, hub, socket and one page. A channel that is heard, one that is only watched, the
weather channel; two scan windows and the weather window; one line in the pipe when a lane opens or
closes, no event in flight when the engine acts again (several go out in one action), two deaths, two
losses (of the socket, or of the page, which is loaded again) and one call, at most three of these together (`Troubles`,
`Most`): each pair meets every third, and what takes more is left to the proof, which has no bound. Two deaths show an
error and lift it; one loss is what a page misses an event by, and the second comes before the page was told the whole
again. A page may be loaded, and an admin's socket open, at any moment, also while the hub's slot is empty because nothing
plays: such a page is `Untold`, and may then show a silent channel (section 5).

### admin_page

Tune page, power keys, their one lane of requests, and the service behind it. One field saved at once,
one after a countdown (both with sliders), one behind Apply; two valid values and one the server refuses.
`want` is what the operator asked of each field and has not got; `disowned` the fields of which the page let
go of a save on its way (section 5). Five plans of what the operator, another writer, failing requests and
power do: two edits under a countdown against an Apply and a failure; a field saved at once twice, a
countdown, another writer and a failure; the weather channel; a power action over a save under way, while
the operator goes on; one over a crash.

### side_parts

RadarFeed: three scans, images of three parts of which the crop needs two, two resumes, two attempts,
two failures: a newer image may replace the file at every part. LightningFeed: six files, a window of
four and a catch-up of three, two failures: both limits cut, and a failing file falls first, between and last.
RtlFm: lists of two, one and none, three processes, two calls, two deaths: a hop, a restart and a stop
meet each other's late reports. ActivityMap: two channels, two aircraft, nine plans, each of the enemies
of one layer: lost contexts, dropped redraws, frames that fail, the CB stage, dropped sockets, resizes.

## 4. The properties

Each is a conjunction of named parts, defined beside it with its comment.

| Property | Says |
|---|---|
| `SpeakerSound` | the speaker is on an open lane that may speak, somebody has it whenever someone could, noise is gated, a see-only channel is heard only under an alert |
| `LanesAsTold` | a client that applied every event knows the open lanes and the audible one exactly; a skip outlives retunes that reassign its lane |
| `HandedOn` | the speaker never moves past a waiting priority lane; a discovery gives its lane back |
| `ClipsSound` | a clip holds its own lane's audio but for the stated grace; the store settles within its budget |
| `ChoiceKept` | outside a break-in the mode is the operator's last choice, and so is what a restart loads; the sweep stands by it; no break-in ends before its message or its minimum |
| `EngineOnMode`, `ShedOnEveryTune` | engine and thermal shed follow the mode, whichever path came last |
| `BreakInEnds` | every break-in ends |
| `StageSound`, `WallFollowsServer` | the wall is never blank and draws nothing twice, and the CB rings stand just while their channel plays and no error covers it; it ends on the server's mode with nothing under way |
| `HelperSound` | one helper, or a restart; no live helper without a parent; one watchdog from spawn to end; the helper has the source, lanes and rate in force; a crash loop is shown though each helper says ready |
| `ErrorLiftedByHelper`, `EventuallyHealthy` | a helper, and no mere attempt, lifts the report; when faults cease the radio comes back |
| `RowsSound`, `AlertsShown` | airtime is counted once, a reading is on its own row; the page comes to list just the alerts there are |
| `RotationSound` | once both pipes are empty, Node knows what the helper has; no sitting in silence; looks return to where they came from |
| `NeverCutOff`, `RotationCompletes` | the scan does not leave what is heard before the cap; every window is visited for ever |
| `LoopSound` | only settled samples of the live window are demodulated; every sample is counted by the clock, discarded and dropped ones included |
| `FeedHolds`, `WindowArrives` | the loop implements `TunedFeed`; an awaited window arrives |
| `DocumentInForce` | a copy that would be accepted shows all that can be seen of the document; the scanner scans it and the helper knows its channels |
| `DocumentSafe` | the file is always what a boot may go on from; no request puts a channel on a taken frequency |
| `StationSound`, `CooldownKept`, `SweepGoesRound` | what plays is seen by the live window and logged as played; nothing repeats before its cooldown; the sweep goes round |
| `LastGoodCopy`, `SchedulesCatchUp`, `OnAirAsListed` | no schedule goes back to an older season or nothing; the new season arrives; a slot is on when the list says |
| `PageFollowsSpeaker`, `ErrorGoes` | what a page shows as live is what the speaker plays, but for a page told of no speaker since it was loaded or connected, which while nothing plays may show a silent channel (section 5); no page says it is scanning while something plays; an error goes when its cause has |
| `PageSound`, `PageConverges` | what was asked and the radio has not got is on the page, and waits, is under way or is marked, the weather channel included; the power keys are held just while their action is under way; the page ends on what the radio has, its keys free |
| `WholeImage`, `FeedCatchesUp` | a picture is cut from one image, no older than it says; the last scan arrives |
| `StrikesOnceInOrder` | flashes once and in order, no file lost to a failure |
| `OneListener`, `RoundGoesOn` | one known receiver on the dongle and none after a stop; each channel of a list is listened to again and again |
| `PictureSound`, `WallClears` | stale radar stays dark and a screen is fitted; nothing that is over lingers |

Each has a mutant in `PROJECT.json`: a changed definition, of the kind a bug in that code would be,
under which TLC finds the property violated.

### Fairness

What the event loop, the threads and the kernel do in time is fair; what the operator, the ether, the
helper's health, other writers and failures do is not.

* ModeControl: timers that are due run (`WF` on `Tick`, `Revert`). WallStages: the pollers ask and
  answer, a picture is ready, animations and fades end, frames are drawn.
* HelperSupervisor: pipes are read, timers fire, a process opens a free device and ends when told to.
  History: the page's timers and requests run.
* Rotation: `SF` on `Tick` and on the helper reading its stdin, because the bound on the pipes can hold
  either up again and again, which time and a pipe of 64 KiB do not; `WF` on reading events, booting
  and the restart timer. Nothing makes a carrier come or go.
* LiveLoop: `WF` on the device, the callback and the DSP thread; `SF` on `Stalled`, since a loop that
  looks again every millisecond does see the limit pass. Nobody owes a command.
* ShortwaveSweep: the controller's tick and the helper's tuning. Schedules: requests are answered or
  cut at a minute, and the hourly timer runs.
* NowPlaying: helper and engine read, respawn, prove and hop, the hub delivers, a socket that can open
  opens and a stalled one drains. New traffic is a premise of `ErrorGoes`, not fairness.
* AdminPage: the countdown, the pollers, the lane, the service's answers, its exit and boot; a request
  to a service that is down is refused. `SF` on the polls that share the lane with others and on the
  answer of the probe, which failures disable again and again.
* RadarFeed, LightningFeed: requests end. RtlFm: `SF` on the hop timer, which every respawn re-arms, `WF`
  on exits, dwell and restart. ActivityMap: its timers, a draw that was asked for, a context that comes back.
* Scanner, CcRecorder, ConfigDocument: no fairness; their properties are safety.

## 5. Where code and documents disagree

Two are runs that must fail, quoted in "findings":

| Run | Code | Said |
|---|---|---|
| `supervisor_same` | `--same-enable` is a spawn argument and `retune` does not compare it (WidebandEngine.ts:524) | server.ts:1214 "must start SAME decoding now" |
| `locked_out_silent` | the lists of known frequencies are compared as sequences of values, and locking out the newest discovery moves its frequency from the end of one part to the start of the next (server.ts:1014) | libraryActions.ts:19, server.ts:998: Close Call never reports it again |

The same kind, seen while modelling. The first ten are formulas of the modules, which the runs
above do not check; TLC refutes each, `CloseCallInSync` once two plans differ in Close Call only:

* `MonitorHeld` (Scanner): a skip closes the held lane, and `poll()` returns at once in monitor mode; scanner.cpp:110
  says "hold it open and audible with no squelch".
* `OrphanScans` (ModeControl): deleting a monitored frequency that was only listed restarts nothing; server.ts:983 says
  "fall back to scanning".
* `ShedWhenHot` (ModeControl): a monitor request leaves the break-in flag set, and a thermal trip under it is never
  acted on (server.ts:895).
* `CloseCallInSync` (HelperSupervisor): `--close-call` is a spawn argument and `retune` does not compare it;
  WidebandEngine.ts:604 "so this stays in sync".
* `MonitorParked` (Rotation): a direct tune keeps the sweep ranges, so the hop timer runs; WidebandEngine.ts:995 "the
  hop timer is parked anyway".
* `OwnWindowOnly` (Rotation): aiming a helper that is down leaves the old plan's sweep stops; server.ts:210.
* `NeverAClip` (CcRecorder): a clip still in the write queue when its frequency is locked out or made a channel is written
  after the deletion; server.ts:855 says such a frequency "never get[s] a clip".
* `HeldChannelShown` (NowPlaying): a channel held open emits nothing new, so after a reconnect
  nothing shows it until the speaker changes hands (ws.ts, `lastNowPlaying`).
* `LiveIsHeard` (NowPlaying): the hub's slot is empty while nothing plays, so a page that is loaded then, or an admin that
  reconnects (liveStore.ts:53-56, ws.ts:30), is not told that audible events flow, and shows a channel that opens in silence as
  live (live.ts:39-41, dashboard.ts:97-99), until the speaker next changes hands. ws.ts:19-20 says that "audible" means "this is
  what the speaker plays", dashboard.ts:57-60 that once such events flow they alone drive what is live.
  `PageFollowsSpeaker` leaves out just that: an `Untold` page, a silent speaker and a silent channel.
* `EntryOwned` (AdminPage): a save on its way is known by its field and value, so of two saves of one value the first
  to land drops the second's entry (tune.ts:404-407), and a save the paused lane refuses drops an older one's; tune.ts:405
  says "Only this save's entries". A poll in between takes the operator's value off the page, and the page can end on
  a value the radio does not have, unmarked. `PageSound` (in its `EditsKept`) and `PageConverges` leave out such a field until it is settled.

The rest the models follow as the code has it:

* History: a respawn or a stop in mid-transmission clears the open lanes without a release
  (WidebandEngine.ts:663, :1301); rows open at a restart stay without duration; a reading that comes
  before its own opening was recorded lands on the row before.
* Document: a measurement between a tab's `GET` and a lockout-only `PUT` makes the scanned rows differ
  and restarts the engine in full (against server.ts:991-993); a provider that throws is taken for one
  that knows nothing (server.ts:381-389); Undo of a dismissal puts a discovery back under its old
  identity, beside one filed anew (radio.ts:256); volume and mute are assigned before the mixer is awaited.
* Schedules: HFCC's site list is saved unread (scheduleStore.ts:115-116, against :89); the first retry comes after about
  two hours and not "within the hour" (:118); EiBi's rows are saved and not reloaded when its second file fails; a
  clock set back delays the next fetch; a slot that ends when it starts is the whole day.
* Map: staleness is judged by the last metadata, not the last answer (radarSync.ts:54-68, RadarFeed.ts:4-6);
  a front opened while the socket is down is not drawn; a refit waits for a quiet whose event may be
  lost; a lost context puts the last scan back as pending, however old.
* RtlFm: a crash while a channel holds emits no idle; a dead sink is not replaced while the one
  channel of a list never opens.
* Tune page: a flush that waited behind a failed save sends at once (batcher.ts:62, :71-75); an older
  save's success clears a newer entry's flag (tune.ts:419).
* Grouping: the sweep skips a window half covered by the ranges (grouping.ts:117-119, :129). Recorder:
  the pre-roll of a glitch counts toward the shortest clip kept.

## 6. What is proved

For every value of the constants that satisfies the named assumptions; tlapm checks every leaf. Each
theorem follows from an inductive invariant; what that adds to the property is what the code relies on.

* **ScannerProofs, the scanner**: `TypeCorrect`; `SpeakerSafe`, `SpeakerLive`, `GateSafe`, `SeeOnlySafe` from one
  invariant, together `SpeakerTheorem`. That the speaker is on an open lane is not inductive: whether
  a lane may speak after its alert depends on the muting its channel was configured with, so the
  invariant relates the flags of every lane (`LaneSane`) and says that `poll()` only runs outside
  monitor mode. `LanesTheorem`, from `KnownInv`: lanes that are in use have channels of their own, what
  the client was told is what is open and heard, and a lane owes the holdoff of its channel.
  `HandingTheorem`, an action property, from both.
* **ScannerProofs, the recorder**: `ClipsTheorem`. `ClipInv` says that what the recorder holds, followed by the
  audio on its way, is one stretch cut by the changes of the speaker that are pending: their ages say
  how far from the end each of them was, so a late change and late audio together cost a clip no more
  than a beat at its head and a lag on either side. `StoreInv`: a queued clip has its write scheduled, and
  without queue and sweep the store is within its budget.
* **ModeControlProofs, the modes**: `ModeTypes`; `ChoiceStands`, `ChoiceSurvives`, `SweepFollows` from an
  invariant that adds what a revert relies on (`RevertSafe`: timers are armed only while `breakIn` is
  set, a break-in clears the monitored channel and remembers where it came from); `BreakInHolds` from
  it and from `Counted`, by which the safety net counts down as the time since the break-in counts up;
  together `ChoiceTheorem`; the action property `ShedHolds`. `NetTheorem` is the half of `BreakInEnds` that is
  safety: a break-in has its net armed throughout, and nothing but time moves it (`NetArmed`, `NetRunsDown`). `EngineTheorem`, from `OnStation`: a plan is what
  the mode asks for but for the hunt, and only a document that drops the monitored channel leaves an orphan.
* **ModeControlProofs, the wall's stages**: `StageTheorem`, from `WallRight`: the stages are the mode's except
  while a zoom runs, which it does over a live map only; the line is the hit or the one fading out, traces are
  the log as last painted without the line, and each promise under way is known by who waits for it. The rings of the CB
  dial stand exactly while its channel is live and no error covers it (`RingsRight`): every event that sets, clears or
  hides the channel leaves the page to be painted (`Dirtied`), and the paint decides.
* **HelperSupervisorProofs, the engine's process**: one invariant, the conjunction of the module's invariants with
  `ChildReal` and `FailuresCounted` (the failure count never falls behind the deaths); from it
  `SupervisorTypes`, `NobodyOrphaned`, `EngineSupervised`, `HelperWatched`, `HelperFits`,
  `CrashLoopReported`, together `HelperTheorem`, and the action property `ErrorLifted`.
* **HelperSupervisorProofs, the history**: `RowsTheorem`, from `PipeFollows`: lines in the pipe are of the opening before
  them, and the row a reading goes to, the one that is open or else the one closed last, is of the
  transmission read unless the engine took that one for stale.
* **HelperSupervisorProofs, the Tune page**: `EditsTheorem`, from `AdminInv`: the entry of a field is what the last
  save of it in the lane sent (`EntriesRight`), a mark stands only on a field that differs from what was
  loaded, what waits is in the batch's state, and what the operator asked for is counted down, behind the
  Apply bar, the field's entry, or marked (`Owed`). Each function of the page is a lemma about a page, the
  actions compose them: one that asks nothing new keeps every entry (`Moves`), one that does owes just its own (`Follows`).
  `SoundTheorem`, from `KeysInv`, which knows of the lane what the edits do not need: at most one power request is in
  it or watched, the watch is of a process that ran and of the answer it waits for (`PowerRight`), statuses are of processes
  that ran (`StatusesRan`), and the weather channel has its edit in the countdown, in the lane or marked
  (`WeatherRight`). What the page does with its fields leaves all of that aside (`Aside`).
* **RotationProofs**: `RotationTheorem` and `NeverCutTheorem`. Node and the helper disagree only by what is under
  way, so the invariant says what the lines in the pipes are going to do: the last one about a lane says
  whether it is open, the last one about the speaker who it is, the last command which window
  (`LanesRight`, `SpeakerRight`, `WindowRight`). Silence is part of the time on a window, and an alert that
  asks for a lane whose close is under way starts the dwell anew (`SilenceRight`). A hold is no older
  than the time for which it had a reason (`HoldRight`).
* **LiveLoopProofs**: `LoopTheorem` and `ImplementsFeed`. The tunes in the command queue are the next
  ones in order, generations only grow along ring and buffer, and behind what is still to be discarded every
  unit is of the window asked for; what of each block is to be discarded is a count that runs
  through the ring (`CleanBehind`). That the settle is enough is `SettleCovers` and the step of the retune. The
  clock is a sum over the ring, a recursive function: the facts about it (`UnitsAdd`
  and its like) are proved by the least counterexample, over the library's well-founded order of the naturals.
  `ImplementsFeed` is the refinement: the initial states are the feed's, each step one of the feed's or a stutter.
* **ConfigDocumentProofs**: `InForceTheorem`, from `CopiesFresh`: each change an operator could see comes
  with a save, and a save with a revision nobody holds (`TagsInOrder`); only the volume changes before its
  save, and meanwhile the mixer holds the chain of writes. `DocumentTheorem`, of the steps, from
  `FileWritten` and from what an edit may do to the rows.
* **ConfigDocumentProofs, what a page shows**: `PageTheorem`, from `Radio`, `Hubs` and `Speech`. The last line about the
  speaker in the pipe names who speaks; without one the hub's slot does, or nobody while a tune is under
  way (`LinesLead`). The engine's view of a line is that of the window it is to be in, which is the
  helper's once no tune is under way (`TunesFollow`), and a helper whose "ready" is unread has no past
  at the hub: it is new after a status, or not proven (`NewUnproven`). The last event on its way to the page that
  tells the whole says what the slot says; without one the page shows it, or knows that it has lost some
  (`PageRight`). An opening of a channel that may speak has a line about the speaker behind it unless it is the speaker
  that speaks (`OpensSpoken`), so a page told nothing yet that shows such a channel is about to be told (`Speech`): what is
  left for it to show is a silent one.
* **ShortwaveProofs**: `StationTheorem` from `TunesRight` and `SweepRight`: each tune under way may play
  where it goes, the last of them is the engine's aim and that is what the sweep decided; and
  from `LogRight`, by which the last row of the listened station stays marked as played through break-ins, surveys that
  add rows and the turn of the night. `CooldownTheorem`, of the steps. `OnAirTheorem`: a minute is a day and a minute
  of it, so a slot past midnight is of its own day or of the next, and the calendar's wrap changes neither.
* **SidePartsProofs, the radar poll**: `RadarTypes` and `ImageTheorem`. A picture is cut when the decoder settles, long
  after the parts came: the invariant (`PollSound`) says of a poll under way that what the decoder was
  fed is of one image, the one whose tag a resume would send, no older than the scan asked for.
* **SidePartsProofs, the lightning poll**: `StrikesTheorem`, from `KeysFollow` (what is listed follows what was taken,
  in order), `InTurn` (what is fresh follows what was told) and `NoneLost`.
* **SidePartsProofs, the schedules' store**: `LastGoodCopyTheorem`, an action property, from `DiskInOrder`: what is
  answered from is on the disk or older, and during a round nothing on the disk is of a later season than the round's.
* **SidePartsProofs, the engine without a helper**: `OneListenerTheorem`, from `Knows`: what is up is what the engine
  knows, on the channel of its place in the list, with no restart waiting beside it.
* **SidePartsProofs, the map**: `PictureTheorem`, from `FadeRight`: a map that went dark has faded out and wants no
  scan, without a scan nothing fades in, and what a lost context took is uploaded anew before it is drawn.

The assumptions say that identifiers are distinct, that a tune names a channel once, that durations and
bounds are natural numbers, that a crop ends within its image, that a header's hold is clamped to
the minimum, as the code does, that the months of a year end one after the other, and, for the live loop,
that the settle covers what is under way (section 3).

Only model-checked: the thirteen liveness properties, which are out of the prover's reach: it does not
handle fairness and ENABLED.

## 7. What is not modelled

* **SpyServer source**: a network protocol in front of the same live loop; its gain marker stands for
  the generation and comes round after a few retunes, so it implements `TunedFeed` only as far as the
  network's delay is bounded by it. Left out for the size of the project.
* **Helper outputs and the SAME decoder's process**: writer threads, the fd swap with half a sample
  carried, pacing against a sound card's clock. What the decoder reads out is an input of ModeControl.
* **Wall watchdog, AlertMirror**: a process check from outside and a clock kept beside the helper's.
* **Weather, space weather, statistics, channel lookups**: periodic polls into a cache, sampled numbers,
  HTTP clients and text matching. That a lookup answers into a later document is in ConfigDocument.
* **DSP chain, carrier survey, close call detector**: floating point. Their answers are inputs
  (`Reading`, a hit that comes at any time).
* **Configuration schema, command line, line protocol, entry point, bench, scripts, packaging**:
  declarative, stateless or wiring. The Library and the other admin tabs render what they are given.
* CcRecorder: a tune's way to the helper. The backend tells the tune, and the recorder starts afresh, when the tune is
  written (server.ts:878); in the model the helper takes the tune up at that moment, and the telling comes late, as events
  do. What the helper still plays in between belongs to nobody for the recorder, and the next clip's head may hold that much
  more of it than `ClipPure` says.
* RtlFm: an error of a spawn has no guard of its own (RtlFmEngine.ts:238-241). It comes on the next tick, while the process is
  still the engine's own, so the model has it as an exit at once, and the guard of the close (:244-248) makes no difference.
* AdminPage: the browser's focus stays with a slider after its change until something else is clicked (tune.ts:220-223), and
  a reload leaves the field alone as long. The model has the operator leave the field with the change.
* Of the modelled parts: signal levels, transmission statistics, noise floor arithmetic, log throttling, argument
  formatting, text and layout; the memory ordering of the lock-free queue; a disk that fails rather than
  loses power.

The plan these modules came from went from what decides most outward: Scanner, ModeControl,
HelperSupervisor, Rotation, LiveLoop with TunedFeed; then the recorder, the document and the sweep; then
history, schedules, feeds and pages; proofs last. Of that plan the SpyServer source, the fd pump and
the wall watchdog are left.
