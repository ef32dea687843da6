----------------------------- MODULE ActivityMap -----------------------------
(***************************************************************************)
(* The map of the wall (frontend/map): the transmissions and their smoke     *)
(* (glassState.ts), the radar (radarSync.ts, radarFade.ts) and the one GPU   *)
(* layer that draws both when something changes and at no other time         *)
(* (glassLayer.ts); the aircraft over it (aircraft.ts, and the backend's     *)
(* aircraft.ts that polls for them); and the framing that waits for a pause  *)
(* in the traffic (map.ts).                                                 *)
(*                                                                          *)
(* Its enemies: a socket that drops, so that a release, an idle or an empty  *)
(* sky is never told; Google, which draws when it likes, drops a redraw it   *)
(* was asked for, and loses the GL context with all that was uploaded; a     *)
(* fetch that fails; and the CB stage, which hides the map for an hour.      *)
(*                                                                          *)
(* The page is one thread; what it holds is one record, page, and each of    *)
(* its functions is an operator on it. Positions, colours, brightness, wind  *)
(* and the drawing itself are left out; a time span is over when its own     *)
(* step of time says so. painted is what the screen shows.                   *)
(***************************************************************************)
EXTENDS Integers, FiniteSets

CONSTANTS
  Ids,        \* channels with a site on the map
  Planes,
  None,       \* nobody
  Ttl,        \* TX_TTL_MS, in steps
  Life,       \* smokeLifeMs, in ticks
  Merge,      \* puffMergeMs, in ticks
  StaleAge,   \* display.radar.staleMs, in steps
  MaxStale,   \* maxStaleTicks
  Plans       \* what may come, together; and whether display.radar is enabled

Kinds == {"radar", "scans", "ups", "sockets", "hides", "losses", "drops", "fails", "flights", "sizes"}

ASSUME ActivityMapAssumption ==
  /\ {Ttl, Life, StaleAge} \subseteq Nat \ {0} /\ {Merge, MaxStale} \subseteq Nat
  /\ None \notin Ids /\ Plans \subseteq [Kinds -> Nat]

VARIABLES
  world,  \* the backend: its scan and the scans' ages, the open lanes, the speaker, the sky, the feed, the hub
  page,   \* the page
  left    \* what of the plan is left

mapVars == <<world, page, left>>

LastScan == 3

----------------------------------------------------------------------------
(* GlassLayer: when it asks Google for a redraw.                             *)

Off(p) == p.ctx = "off"

\* poke(): ask now, and ask again should that be dropped.
Poke(p) == IF Off(p) \/ p.paused THEN p ELSE [p EXCEPT !.asked = TRUE, !.timer = TRUE]

\* setPaused().
SetPaused(p, b) ==
  CASE Off(p) -> [p EXCEPT !.paused = b]
    [] ~Off(p) /\ b -> [p EXCEPT !.paused = TRUE, !.timer = FALSE]
    [] OTHER -> Poke([p EXCEPT !.paused = FALSE])

----------------------------------------------------------------------------
(* GlassState.                                                              *)

NoFront == [st |-> "none", ttl |-> 0, out |-> FALSE]

Live(p) == {i \in Ids : p.fronts[i].st = "live"}

\* keyUp(): a transmission that is there already is only re-armed.
KeyedUp(p, i) ==
  IF i \in Live(p) THEN [p EXCEPT !.fronts[i].ttl = Ttl]
  ELSE [p EXCEPT !.fronts[i] = [NoFront EXCEPT !.st = "live", !.ttl = Ttl]]

Rearm(p, i) == IF i \in Live(p) THEN [p EXCEPT !.fronts[i].ttl = Ttl] ELSE p

\* birth(): a young puff is fed again, its birth kept.
Birth(smoke) == IF \E a \in smoke : a =< Merge THEN smoke ELSE smoke \cup {0}

\* release() of each.
ReleaseThese(p, ids) ==
  LET going == ids \cap Live(p)
  IN  [p EXCEPT !.fronts = [i \in Ids |-> IF i \in going THEN [@[i] EXCEPT !.st = "released", !.out = FALSE] ELSE @[i]],
                !.smoke = [i \in Ids |-> IF i \in going THEN Birth(@[i]) ELSE @[i]]]

\* Defect: a transmission whose release was missed is not given up.
FrameWaits(p) ==
  [p EXCEPT !.fronts = [i \in Ids |-> IF @[i].st = "released" /\ @[i].out THEN NoFront ELSE @[i]],
            !.smoke = [i \in Ids |-> {a \in @[i] : a < Life}]]

\* frame(): a missed release, a dissolve that is over, smoke that has lived.
FrameOf(p) ==
  LET q == ReleaseThese(p, {i \in Live(p) : p.fronts[i].ttl = 0})
  IN  [q EXCEPT !.fronts = [i \in Ids |-> IF @[i].st = "released" /\ @[i].out THEN NoFront ELSE @[i]],
                !.smoke = [i \in Ids |-> {a \in @[i] : a < Life}]]

\* The frame changes with time: a grow or a dissolve, a ttl to come, a smoke tick.
Changing(p) == \E i \in Ids : p.fronts[i].st # "none" \/ p.smoke[i] # {}

----------------------------------------------------------------------------
(* RadarFade: how much radar is on the screen, none, some or all, and how    *)
(* much it is to be; whether the two newest scans are being mixed.           *)

Retarget(p, to) == [p EXCEPT !.to = to]

\* setStale().
SetStale(p, stale) ==
  LET q == [p EXCEPT !.wanted = ~stale, !.dark = @ /\ stale]
  IN  Poke(IF q.has THEN Retarget(q, IF stale THEN 0 ELSE 2) ELSE q)

\* Defect: a scan uploaded anew is shown, whatever RadarSync said of it.
FrameShown(p, f) ==
  IF p.has /\ p.alpha > 0 THEN [p EXCEPT !.mixing = TRUE, !.tex = <<@[2], f>>]
  ELSE [Retarget(p, 2) EXCEPT !.mixing = FALSE, !.has = TRUE, !.tex = <<f, f>>]

\* frame() and the uploads of takePending(): the old scan and the new one, or the new one alone.
FrameTaken(p, f) ==
  IF p.has /\ p.alpha > 0 THEN [p EXCEPT !.mixing = TRUE, !.tex = <<@[2], f>>]
  ELSE [Retarget(p, IF p.wanted THEN 2 ELSE 0) EXCEPT !.mixing = FALSE, !.has = TRUE, !.tex = <<f, f>>]

TakePending(p) ==
  IF p.pending = 0 THEN p ELSE [FrameTaken(p, p.pending) EXCEPT !.shown = p.pending, !.pending = 0]

Fading(p) == (p.has /\ p.mixing) \/ p.alpha # p.to

----------------------------------------------------------------------------
(* GlassLayer: a draw, and Google's context.                                *)

Blank == [radar |-> {}, fronts |-> {}, smoke |-> {}]

Picture(p) ==
  [radar  |-> IF p.shown = 0 \/ ~p.has \/ p.alpha = 0 THEN {}
              ELSE IF p.mixing THEN {p.tex[1], p.tex[2]} ELSE {p.tex[2]},
   fronts |-> {i \in Ids : p.fronts[i].st # "none"},
   smoke  |-> {i \in Ids : p.smoke[i] # {}}]

\* reschedule(): a timer while something will change.
Reschedule(p) == IF p.paused THEN p ELSE [p EXCEPT !.timer = Fading(p) \/ Changing(p)]

\* draw(): of a context that is ours.
Drawn(p) ==
  LET q == FrameOf(TakePending([p EXCEPT !.asked = FALSE]))
      v == Picture(q)
  IN  IF p.ctx # "on" THEN [p EXCEPT !.asked = FALSE]
      ELSE Reschedule([q EXCEPT !.painted = v, !.dark = @ \/ (~q.wanted /\ v.radar = {})])

\* init(): the last scan is uploaded again.
Restored(p) == [p EXCEPT !.ctx = "on", !.pending = IF @ = 0 THEN p.shown ELSE @]

\* giveUp(): no WebGL2, or a shader that does not compile; the layer is unmounted.
GivenUp(p) == [p EXCEPT !.ctx = "off", !.timer = FALSE, !.asked = FALSE, !.painted = Blank]

\* onContextLost: with it goes a scan that was waiting to be uploaded.
Lost(p) ==
  [p EXCEPT !.ctx = "lost", !.has = FALSE, !.tex = <<0, 0>>, !.pending = p.shown, !.painted = Blank]

----------------------------------------------------------------------------
(* RadarSync.                                                               *)

Stale(w, s) == w.age[s] > StaleAge

\* checkStale(): what the server said of the scan it last named, or its age by now.
CheckStale(w, p) ==
  LET stale == p.said \/ Stale(w, p.meta)
  IN  IF p.meta = 0 \/ stale = p.stale THEN p ELSE SetStale([p EXCEPT !.stale = stale], stale)

\* pollRadar(): one at a time, and none for a layer that is off or hidden.
PollRadar(p) ==
  IF ~p.radar \/ Off(p) \/ p.paused \/ p.fly # "no" THEN p ELSE [p EXCEPT !.fly = "meta"]

\* run(): the scan's meta, and what it says; a failure, or a kiosk with no scan yet, is no answer.
MetaIn(w, p) ==
  LET q == [p EXCEPT !.meta = w.scan, !.said = Stale(w, w.scan)]
  IN  CASE w.scan = 0 -> [p EXCEPT !.fly = "no"]
        [] w.scan # 0 /\ w.scan = p.last -> CheckStale(w, [q EXCEPT !.fly = "no"])
        [] OTHER -> [q EXCEPT !.fly = "frame"]

\* The frame, of the scan the backend has by now.
FrameIn(w, p) ==
  CheckStale(w, Poke([p EXCEPT !.fly = "no", !.last = p.meta, !.pending = w.scan]))

----------------------------------------------------------------------------
(* map.ts: framing, and the live feed.                                      *)

\* refit(): never mid-transmission.
RefitForgets(p) ==
  IF Live(p) # {} THEN p ELSE [p EXCEPT !.due = FALSE, !.fitted = p.screen]

Refit(p) ==
  IF Live(p) # {} THEN [p EXCEPT !.due = TRUE] ELSE [p EXCEPT !.due = FALSE, !.fitted = p.screen]

OnQuiet(p) == IF p.due THEN Refit(p) ELSE p

OnActive(p, i) == Poke(KeyedUp(p, i))
OnRelease(p, i) == Poke(ReleaseThese(p, {i}))
OnIdle(p) == OnQuiet(Poke(ReleaseThese([p EXCEPT !.audible = None], Ids)))
OnAudible(p, who) == [p EXCEPT !.audible = who]
OnSignal(p) == IF p.audible = None THEN p ELSE Rearm(p, p.audible)

\* AircraftLayer.update(): the snapshot's planes, moved, added and taken away, trails and all.
OnAircraft(p, snapshot) == [p EXCEPT !.markers = snapshot]

\* WsHub.broadcast() to this page.
Told(heard) == IF page.up THEN heard ELSE page

----------------------------------------------------------------------------
(* Traffic: lanes open and close, the speaker moves.                        *)

Spend(kind) == left[kind] > 0 /\ left' = [left EXCEPT ![kind] = @ - 1]

Opens(i) ==
  /\ i \notin world.open /\ Spend("ups")
  /\ world' = [world EXCEPT !.open = @ \cup {i}]
  /\ page' = Told(OnActive(page, i))

\* The release, the speaker's if it was the speaker, and with the last of them the idle.
Closes(i) ==
  /\ i \in world.open
  /\ world' = [world EXCEPT !.open = @ \ {i}, !.speaker = IF @ = i THEN None ELSE @]
  /\ LET p == OnRelease(page, i)
         q == IF world.speaker = i THEN OnAudible(p, None) ELSE p
     IN  page' = Told(IF world'.open = {} THEN OnIdle(q) ELSE q)
  /\ UNCHANGED left

Speaks(i) ==
  /\ i \in world.open /\ world.speaker # i
  /\ world' = [world EXCEPT !.speaker = i]
  /\ page' = Told(OnAudible(page, i))
  /\ UNCHANGED left

Signal ==
  /\ world.speaker # None
  /\ page' = Told(OnSignal(page))
  /\ UNCHANGED <<world, left>>

----------------------------------------------------------------------------
(* Radar.                                                                   *)

\* RadarFeed publishes, and the event makes the page ask.
ScanLands ==
  /\ world.scan < LastScan /\ Spend("scans")
  /\ world' = [world EXCEPT !.scan = @ + 1]
  /\ page' = Told(PollRadar(page))

RadarTimer == page' = PollRadar(page) /\ page.fly = "no" /\ UNCHANGED <<world, left>>

StaleTimer ==
  /\ ~Off(page) /\ ~page.paused
  /\ page' = CheckStale(world, page)
  /\ UNCHANGED <<world, left>>

RadarAnswers ==
  /\ page.fly # "no"
  /\ page' = IF page.fly = "meta" THEN MetaIn(world, page) ELSE FrameIn(world, page)
  /\ UNCHANGED <<world, left>>

\* A frame that fails leaves the page with the meta of a scan it does not have.
RadarFails ==
  /\ page.fly # "no" /\ Spend("fails")
  /\ page' = LET p == [page EXCEPT !.fly = "no"]
             IN  IF page.fly = "meta" THEN p ELSE CheckStale(world, p)
  /\ UNCHANGED world

----------------------------------------------------------------------------
(* AircraftFeed and the hub's slot for it.                                  *)

Flies(a) ==
  /\ Spend("flights")
  /\ world' = [world EXCEPT !.sky = IF a \in @ THEN @ \ {a} ELSE @ \cup {a}]
  /\ UNCHANGED page

Announced(snapshot, streak, kept) ==
  /\ world' = [world EXCEPT !.feed = [kept |-> kept, streak |-> streak], !.slot = snapshot]
  /\ page' = Told(OnAircraft(page, snapshot))

\* pollOnce(): the sky as it is.
AircraftPoll == Announced(world.sky, 0, world.sky) /\ UNCHANGED left

\* A failure keeps the last snapshot for so many polls.
AircraftFails ==
  /\ Spend("fails")
  /\ LET streak == IF world.feed.streak > MaxStale THEN world.feed.streak ELSE world.feed.streak + 1
     IN  Announced(IF streak =< MaxStale THEN world.feed.kept ELSE {}, streak, world.feed.kept)

----------------------------------------------------------------------------
(* The socket, the stage over the map, the screen.                          *)

Drops == page.up /\ Spend("sockets") /\ page' = [page EXCEPT !.up = FALSE] /\ UNCHANGED world

\* WsHub.add(): who speaks, and the planes, if any.
Reconnects ==
  /\ ~page.up
  /\ LET p == IF world.speaker = None THEN page ELSE OnAudible(page, world.speaker)
         q == IF world.slot = {} THEN p ELSE OnAircraft(p, world.slot)
     IN  page' = [q EXCEPT !.up = TRUE]
  /\ UNCHANGED <<world, left>>

Pause == ~page.paused /\ Spend("hides") /\ page' = SetPaused(page, TRUE) /\ UNCHANGED world

Resume ==
  /\ page.paused
  /\ page' = PollRadar(SetPaused(page, FALSE))
  /\ UNCHANGED <<world, left>>

Resized ==
  /\ Spend("sizes")
  /\ page' = [page EXCEPT !.screen = @ + 1, !.resize = TRUE]
  /\ UNCHANGED world

ResizeTimer ==
  /\ page.resize
  /\ page' = Refit([page EXCEPT !.resize = FALSE])
  /\ UNCHANGED <<world, left>>

----------------------------------------------------------------------------
(* Google.                                                                  *)

\* When it was asked, and whenever it likes.
Draw == page' = Drawn(page) /\ UNCHANGED <<world, left>>

DropsRedraw == page.asked /\ Spend("drops") /\ page' = [page EXCEPT !.asked = FALSE] /\ UNCHANGED world

LayerTimer ==
  /\ page.timer /\ ~page.asked /\ ~page.paused
  /\ page' = [page EXCEPT !.asked = TRUE]
  /\ UNCHANGED <<world, left>>

\* The context, and a redraw.
ContextComes ==
  /\ page.ctx \in {"none", "lost"}
  /\ page' = [Restored(page) EXCEPT !.asked = TRUE]
  /\ UNCHANGED <<world, left>>

ContextUseless ==
  /\ page.ctx \in {"none", "lost"} /\ Spend("losses")
  /\ page' = GivenUp(page)
  /\ UNCHANGED world

ContextLost == page.ctx = "on" /\ Spend("losses") /\ page' = Lost(page) /\ UNCHANGED world

----------------------------------------------------------------------------
(* Time, one kind of span after another.                                    *)

ScansAge ==
  /\ \E s \in 1 .. world.scan : world.age[s] =< StaleAge
  /\ world' = [world EXCEPT !.age = [s \in 0 .. LastScan |->
        IF s \in 1 .. world.scan /\ @[s] =< StaleAge THEN @[s] + 1 ELSE @[s]]]
  /\ UNCHANGED <<page, left>>

FadeMoves ==
  /\ page.mixing \/ page.alpha # page.to
  /\ page' = [page EXCEPT !.mixing = FALSE,
                          !.alpha = IF @ < page.to THEN @ + 1 ELSE IF @ > page.to THEN @ - 1 ELSE @]
  /\ UNCHANGED <<world, left>>

\* Out, or a step nearer to its ttl.
FrontsAge ==
  /\ \E i \in Ids : page.fronts[i].st # "none"
  /\ page' = [page EXCEPT !.fronts = [i \in Ids |->
        LET f == @[i]
        IN  CASE f.st = "none" -> f
              [] f.st = "released" -> [f EXCEPT !.out = TRUE]
              [] OTHER -> [f EXCEPT !.ttl = IF @ = 0 THEN 0 ELSE @ - 1]]]
  /\ page' # page
  /\ UNCHANGED <<world, left>>

SmokeTick ==
  /\ \E i \in Ids : \E a \in page.smoke[i] : a < Life
  /\ page' = [page EXCEPT !.smoke = [i \in Ids |-> {IF a < Life THEN a + 1 ELSE a : a \in @[i]}]]
  /\ UNCHANGED <<world, left>>

----------------------------------------------------------------------------

FreshPage(radar) ==
  [radar |-> radar, up |-> TRUE, paused |-> FALSE, ctx |-> "none", timer |-> TRUE, asked |-> FALSE,
   fronts |-> [i \in Ids |-> NoFront], smoke |-> [i \in Ids |-> {}], audible |-> None,
   wanted |-> TRUE, has |-> FALSE, alpha |-> 0, to |-> 0, mixing |-> FALSE, tex |-> <<0, 0>>,
   pending |-> 0, shown |-> 0, dark |-> FALSE,
   last |-> 0, meta |-> 0, said |-> FALSE, stale |-> FALSE, fly |-> "no",
   markers |-> {}, screen |-> 0, fitted |-> 0, resize |-> FALSE, due |-> FALSE, painted |-> Blank]

ActivityMapInit ==
  /\ world = [scan |-> 0, age |-> [s \in 0 .. LastScan |-> 0], open |-> {}, speaker |-> None,
              sky |-> {}, feed |-> [kept |-> {}, streak |-> 0], slot |-> {}]
  /\ left \in Plans
  /\ page = FreshPage(left.radar = 1)

Traffic == (\E i \in Ids : Opens(i) \/ Closes(i) \/ Speaks(i)) \/ Signal
Timers == RadarTimer \/ StaleTimer \/ ResizeTimer \/ LayerTimer

ActivityMapNext ==
  \/ Traffic \/ ScanLands \/ RadarAnswers \/ RadarFails \/ Timers
  \/ (\E a \in Planes : Flies(a)) \/ AircraftPoll \/ AircraftFails
  \/ Drops \/ Reconnects \/ Pause \/ Resume \/ Resized
  \/ Draw \/ DropsRedraw \/ ContextComes \/ ContextUseless \/ ContextLost
  \/ ScansAge \/ FadeMoves \/ FrontsAge \/ SmokeTick

\* Timers fire, requests end, the socket comes back, and so does a lost context; Google draws
\* what it is asked to, but for the redraws it drops. Whoever hides the map may leave it so.
ActivityMapFairness ==
  /\ WF_mapVars(RadarTimer) /\ WF_mapVars(StaleTimer) /\ WF_mapVars(LayerTimer) /\ WF_mapVars(ResizeTimer)
  /\ WF_mapVars(RadarAnswers) /\ WF_mapVars(AircraftPoll) /\ WF_mapVars(Reconnects)
  /\ WF_mapVars(page.asked /\ Draw) /\ WF_mapVars(ContextComes)
  /\ WF_mapVars(ScansAge) /\ WF_mapVars(FadeMoves) /\ WF_mapVars(FrontsAge) /\ WF_mapVars(SmokeTick)

ActivityMapSpec == ActivityMapInit /\ [][ActivityMapNext]_mapVars /\ ActivityMapFairness

----------------------------------------------------------------------------
(* What the wall may show.                                                  *)

MapTypeOK ==
  /\ world.scan \in 0 .. LastScan /\ world.open \subseteq Ids /\ world.speaker \in world.open \cup {None}
  /\ page.tex \in (0 .. LastScan) \X (0 .. LastScan) /\ page.pending \in 0 .. LastScan
  /\ page.painted.radar \subseteq 1 .. LastScan
  /\ \A i \in Ids : page.fronts[i].ttl \in 0 .. Ttl /\ page.smoke[i] \subseteq 0 .. Life

\* Radar that has left the screen because it was stale stays off it, through a lost context and
\* a scan uploaded anew, until the page holds a scan to be fresh again (radarFade.ts:2-5).
StaysDark == page.dark => page.painted.radar = {}

\* With no newer scan, what is on the screen is faded out, whatever was lost on the way: no
\* weather of an hour ago stands on a wall that draws only when something changes (RadarFeed.ts:2-6).
OldWeatherGoes == <>[](page.paused \/ page.painted.radar = {})

\* A transmission that is over, the smoke of it and a plane that has gone leave the screen, even
\* if the event that said so was lost with the socket and a redraw with Google (glassState.ts:278).
NothingLingers ==
  <>[](/\ page.markers = world.sky
       /\ page.paused \/ (page.painted.fronts \subseteq world.open /\ page.painted.smoke = {}))

\* A screen the map is not fitted to is going to be fitted to: now, or in the next quiet (map.ts:612-622).
StageFits == page.fitted # page.screen => page.resize \/ page.due

\* The radar draws nothing after it has gone dark (until a new scan is announced, see StaysDark), and what
\* is drawn is fitted to its screen or will be.
PictureSound == StaysDark /\ StageFits

\* Of what is over nothing stays on the screen: old echoes, a transmission, its smoke, a plane.
WallClears == OldWeatherGoes /\ NothingLingers
=============================================================================
