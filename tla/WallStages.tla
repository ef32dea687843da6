----------------------------- MODULE WallStages -----------------------------
(***************************************************************************)
(* The wall page's stages (frontend/dashboard/dashboard.ts): the map, the   *)
(* CB dial over it and the HF Atlas over it, following the mode the status  *)
(* poll reports; the zoom between the map and the Atlas (zoom.ts), whose    *)
(* picture, whose first map frame and whose animation end in their own      *)
(* time; the Atlas's live line (hitAnim.ts, atlas.ts), which fades into the *)
(* faint trace the log leaves behind; and the dial's rings (cbRings.ts).    *)
(*                                                                          *)
(* Every one of those promises is checked when it settles against the       *)
(* closure that is current then: a change of mind must make it a dead       *)
(* letter, and must itself leave nothing half-done.                         *)
(*                                                                          *)
(* The page is one thread; what it holds is one record, wall, and each      *)
(* function of the page is an operator on it. Text, meter, clock, weather   *)
(* and drawing are left out. The operator's wish for reduced motion is the  *)
(* constant Still.                                                          *)
(***************************************************************************)
EXTENDS Integers, FiniteSets

CONSTANTS
  WallModes,    \* of scan, weather, monitor, cb and hf, the ones that come
  Stations,     \* stations with a place on the map
  NoStation,    \* no station, no mode seen yet
  Still,        \* prefers-reduced-motion
  MaxChanges,   \* changes on the server's side and errors on the socket
  MaxFails      \* polls and pictures that fail

\* A zoom: its picture is awaited, or it runs. The picture's promise outlives a zoom that is
\* finished early; a cancelled animation's settles at once, and is ignored.
Zooms == [id : 1 .. 9, what : {"picture", "run"}, dir : {"out", "in"}]
NoZoom == [id |-> 0, what |-> "none", dir |-> "none"]

ASSUME StageAssumption ==
  /\ WallModes \subseteq {"scan", "weather", "monitor", "cb", "hf"} /\ WallModes # {}
  /\ NoStation \notin Stations /\ Still \in BOOLEAN /\ {MaxChanges, MaxFails} \subseteq Nat

VARIABLES
  server,   \* mode, break-in, the station it plays and the ones it has logged
  lane,     \* the poller's one request in flight, with the answer
  wall,     \* the page
  left      \* changes and failures left

wallVars == <<server, lane, wall, left>>

----------------------------------------------------------------------------
(* The page's own helpers.                                                  *)

\* mapShouldRun(), syncMap(): pause and resume of a map that has mounted.
MapShouldRun(w) == ~w.cbOn /\ ~w.hfOn
SyncMap(w) ==
  IF w.map \notin {"live", "paused"} THEN w
  ELSE [w EXCEPT !.map = IF MapShouldRun(w) THEN "live" ELSE "paused"]

----------------------------------------------------------------------------
(* HitAnimator: line is the station it draws; fades, while that goes out.   *)

Wipe(w) == [w EXCEPT !.line = NoStation, !.fades = FALSE]

\* end()'s callback: the line is a trace from here on.
Faded(w) == [w EXCEPT !.fading = NoStation, !.under = FALSE, !.dirty = TRUE]

\* Defect: a fade that ends does not hand its line over.
FadeForgets(w) == IF w.fades THEN Wipe(w) ELSE w

FinishFade(w) == IF w.fades THEN Faded(Wipe(w)) ELSE w

HitHold(w, s) == [w EXCEPT !.line = s, !.fades = FALSE]

HitStart(w, s) == HitHold(FinishFade(w), s)

HitEnd(w) ==
  LET v == FinishFade(w)
  IN  CASE v.line = NoStation -> Faded(v)
        [] v.line # NoStation /\ Still -> Faded(Wipe(v))
        [] OTHER -> [v EXCEPT !.fades = TRUE]

\* hitAction(known, prev, next, lost).
HitAction(known, prev, next, lost) ==
  CASE ~known -> IF next = NoStation THEN "none" ELSE "hold"
    [] known /\ prev = NoStation /\ next # NoStation -> IF next = lost THEN "hold" ELSE "start"
    [] known /\ prev # NoStation /\ next = NoStation -> "end"
    [] OTHER -> IF prev = next THEN "none" ELSE "replace"

----------------------------------------------------------------------------
(* The zoom.                                                                *)

\* What a zoom leaves behind when it is over, by itself or not.
AfterZoom(w, dir) ==
  IF dir = "out" THEN SyncMap([w EXCEPT !.hfWait = FALSE])
  ELSE [Wipe(w) EXCEPT !.hfStage = FALSE]

FinishZoom(w) ==
  LET z == w.zoomDone
  IN  IF z = NoZoom THEN w
      ELSE AfterZoom([w EXCEPT !.zoomDone = NoZoom, !.hfZoom = IF z.what = "run" THEN FALSE ELSE @], z.dir)

ZoomWhenReady(w, dir) ==
  LET free == {i \in 1 .. 9 : \A p \in w.pictures : p.id # i}
      p == [id |-> CHOOSE i \in free : TRUE, what |-> "picture", dir |-> dir]
  IN  [w EXCEPT !.zoomDone = p, !.pictures = @ \cup {p}]

StartZoom(w, p) == [w EXCEPT !.hfZoom = TRUE, !.zoomDone = [p EXCEPT !.what = "run"]]

ZoomFor(prev, next, breakIn, hasMap) ==
  CASE ~hasMap \/ breakIn \/ prev = NoStation \/ Still -> "none"
    [] hasMap /\ ~breakIn /\ prev = "scan" /\ next = "hf" -> "out"
    [] hasMap /\ ~breakIn /\ prev = "hf" /\ next = "scan" -> "in"
    [] OTHER -> "none"

----------------------------------------------------------------------------
(* CbRings.                                                                 *)

RingsHold(w) == [w EXCEPT !.rings = "on"]
RingsEnd(w) == IF w.rings = "on" THEN [w EXCEPT !.rings = "fading"] ELSE w

----------------------------------------------------------------------------
(* The stages.                                                              *)

\* setCbStage(on).
SetCbStage(w, on) ==
  IF on = w.cbOn THEN w
  ELSE SyncMap([w EXCEPT !.cbOn = on, !.cbTimer = on, !.dirty = TRUE,
                         !.cbHit = on /\ @, !.rings = IF on THEN @ ELSE "none"])

\* setHfStage(true, zoom).
EnterHf(w, zoom) ==
  LET v == [FinishZoom(w) EXCEPT !.hfOn = TRUE, !.hfStage = TRUE, !.greyTimer = TRUE, !.heardDue = TRUE]
  IN  IF zoom = "out" THEN ZoomWhenReady([v EXCEPT !.hfWait = TRUE], "out") ELSE SyncMap(v)

\* setHfStage(false, zoom).
LeaveHf(w, zoom) ==
  LET v == SyncMap([FinishZoom(w) EXCEPT
                      !.hfOn = FALSE, !.greyTimer = FALSE, !.known = FALSE,
                      !.hit = NoStation, !.fading = NoStation, !.lost = NoStation, !.key = <<>>])
  IN  IF zoom = "in" THEN ZoomWhenReady(v, "in") ELSE AfterZoom(v, "in")

SetHfStage(w, on, zoom) ==
  CASE on = w.hfOn -> w
    [] on /\ ~w.hfOn -> EnterHf(w, zoom)
    [] OTHER -> LeaveHf(w, zoom)

\* Defect: a change of mind leaves the zoom under way.
ZoomStands(w, s) == w

\* paintStatus(), the answer s come: a change finishes a zoom it makes wrong.
ChangeOfMind(w, s) == IF s.mode # w.mode \/ s.breakIn # w.breakIn THEN FinishZoom(w) ELSE w

PaintStatus(w, s) ==
  LET zoom == ZoomFor(IF w.seen THEN w.mode ELSE NoStation, s.mode, s.breakIn, w.map \in {"live", "paused"})
      v == [ChangeOfMind(w, s) EXCEPT !.seen = TRUE, !.mode = s.mode, !.breakIn = s.breakIn]
      u == SetHfStage(SetCbStage(v, s.mode = "cb"), s.mode = "hf", zoom)
      changed == s.mode # w.mode \/ s.breakIn # w.breakIn \/ s.plays # w.plays
  IN  [u EXCEPT !.plays = s.plays, !.dirty = @ \/ changed, !.heardDue = @ \/ s.plays # w.plays]

----------------------------------------------------------------------------
(* A paint, one per frame.                                                  *)

\* applyHit(next).
ApplyHit(w, next) ==
  LET action == HitAction(w.known, w.hit, next, w.lost)
      v == [w EXCEPT !.known = TRUE, !.hit = next,
                     !.lost = IF ~w.error THEN NoStation ELSE IF w.hit # NoStation THEN w.hit ELSE @]
  IN  CASE action = "hold" -> HitHold([v EXCEPT !.fading = NoStation], next)
        [] action \in {"start", "replace"} -> [HitStart(v, next) EXCEPT !.under = next \in w.traces]
        [] action = "end" -> HitEnd([v EXCEPT !.fading = w.hit])
        [] OTHER -> v

\* atlasTraces(log, live): every station logged but the live one, which is drawn over them.
AtlasTraces(log, live) == log \ {live}

\* paintHfLayers(v): the still layers repaint only when what they show has changed.
PaintHf(w) ==
  LET next == IF w.error THEN NoStation ELSE w.plays
      v == ApplyHit(w, next)
      live == IF v.under THEN NoStation ELSE IF next # NoStation THEN next ELSE v.fading
      key == <<v.log, live>>
  IN  IF key = v.key THEN v ELSE [v EXCEPT !.key = key, !.traces = AtlasTraces(v.log, live)]

\* applyCbHit(v): the rings on the mast that is live, or fading from it. No mast is live
\* while the readout is an error (cbView's liveN).
PaintCb(w) ==
  LET next == w.cbLive /\ ~w.error
      v == [w EXCEPT !.cbHit = next]
  IN  CASE next /\ ~w.cbHit -> RingsHold(v)
        [] ~next /\ w.cbHit -> RingsEnd(v)
        [] OTHER -> v

Painted(w) ==
  LET v == IF w.cbOn THEN PaintCb([w EXCEPT !.dirty = FALSE]) ELSE [w EXCEPT !.dirty = FALSE]
  IN  IF w.hfOn THEN PaintHf(v) ELSE v

----------------------------------------------------------------------------
(* The server and the socket: what the page is told.                        *)

Change(s) == left.changes > 0 /\ left' = [left EXCEPT !.changes = @ - 1] /\ server' = s
Told(w) == left.changes > 0 /\ left' = [left EXCEPT !.changes = @ - 1] /\ wall' = w

ModeSet(m) ==
  /\ m # server.mode
  /\ Change([server EXCEPT !.mode = m, !.plays = NoStation])
  /\ UNCHANGED <<lane, wall>>

BreakIn == Change([server EXCEPT !.breakIn = ~@]) /\ UNCHANGED <<lane, wall>>

\* The sweep stops on a station, or moves on.
Plays(s) ==
  /\ server.mode = "hf" /\ s # server.plays
  /\ Change([server EXCEPT !.plays = s, !.log = @ \cup ({s} \ {NoStation})])
  /\ UNCHANGED <<lane, wall>>

\* An engine event: the receiver errs or recovers, a CB channel takes the speaker or leaves it.
ErrorEvent ==
  Told([wall EXCEPT !.error = ~@, !.dirty = TRUE]) /\ UNCHANGED <<server, lane>>
\* What it says of the speaker also proves it works, unless its helper is unproven.
CbEvent ==
  /\ server.mode = "cb" \/ wall.cbLive
  /\ \E e \in {FALSE, wall.error} : Told([wall EXCEPT !.cbLive = ~@, !.error = e, !.dirty = TRUE])
  /\ UNCHANGED <<server, lane>>

----------------------------------------------------------------------------
(* The page's one lane of requests (poller.ts).                             *)

Idle == [what |-> "idle"]

AskStatus ==
  /\ lane = Idle
  /\ lane' = [what |-> "status", answer |-> server]
  /\ UNCHANGED <<server, wall, left>>

AskHeard ==
  /\ lane = Idle /\ wall.heardDue
  /\ wall' = [wall EXCEPT !.heardDue = FALSE]
  /\ lane' = IF wall.hfOn \/ ~wall.logLoaded THEN [what |-> "heard", answer |-> server] ELSE lane
  /\ UNCHANGED <<server, left>>

Lands ==
  /\ lane # Idle
  /\ lane' = Idle
  /\ wall' = IF lane.what = "status" THEN PaintStatus(wall, lane.answer)
             ELSE [wall EXCEPT !.log = lane.answer.log, !.logLoaded = TRUE, !.dirty = TRUE]
  /\ UNCHANGED <<server, left>>

Fails == left.fails > 0 /\ left' = [left EXCEPT !.fails = @ - 1]

Lost == lane # Idle /\ lane' = Idle /\ Fails /\ UNCHANGED <<server, wall>>

----------------------------------------------------------------------------
(* What ends in its own time.                                               *)

Page(w) == wall' = w /\ UNCHANGED <<server, lane, left>>

\* Defect: whichever zoom is under way takes the picture.
AnyZoom(w, p) == w.zoomDone # NoZoom

\* A picture, and what it waited for with it, is for the zoom that asked for it.
Mine(w, p) == w.zoomDone = p

PictureReady ==
  \E p \in wall.pictures :
    LET w == [wall EXCEPT !.pictures = @ \ {p}]
    IN  Page(IF Mine(w, p) THEN StartZoom(w, p) ELSE w)

\* Defect: the zoom waits for ever.
ZoomHangs(w, p) == w

\* No picture, no zoom.
NoPicture(w, p) == IF Mine(w, p) THEN FinishZoom(w) ELSE w

PictureFails ==
  /\ Fails /\ UNCHANGED <<server, lane>>
  /\ \E p \in wall.pictures :
       wall' = NoPicture([wall EXCEPT !.pictures = @ \ {p}], p)

ZoomRan == wall.zoomDone.what = "run" /\ Page(FinishZoom(wall))

LineFades == wall.fades /\ Page(FinishFade(wall))

RingsFade == wall.rings = "fading" /\ Page([wall EXCEPT !.rings = "none"])

Frame == wall.dirty /\ Page(Painted(wall))

\* The map's script loads late, or not at all.
MapMounts ==
  /\ wall.map = "loading"
  /\ Page(SyncMap([wall EXCEPT !.map = "live"]))

MapFails ==
  /\ wall.map = "loading" /\ Fails
  /\ wall' = [wall EXCEPT !.map = "failed"]
  /\ UNCHANGED <<server, lane>>

----------------------------------------------------------------------------

FreshPage ==
  [seen |-> FALSE, mode |-> "scan", breakIn |-> FALSE, map |-> "loading",
   cbOn |-> FALSE, cbTimer |-> FALSE, cbLive |-> FALSE, cbHit |-> FALSE,
   rings |-> "none",
   hfOn |-> FALSE, hfStage |-> FALSE, hfWait |-> FALSE, hfZoom |-> FALSE, greyTimer |-> FALSE,
   zoomDone |-> NoZoom, pictures |-> {},
   plays |-> NoStation, error |-> FALSE, log |-> {}, logLoaded |-> FALSE, heardDue |-> TRUE,
   known |-> FALSE, hit |-> NoStation, fading |-> NoStation, lost |-> NoStation, under |-> FALSE,
   key |-> <<>>, traces |-> {}, line |-> NoStation, fades |-> FALSE, dirty |-> TRUE]

\* The map's retry, or a reload the server asks of its pages.
PageReloads ==
  /\ wall.map = "failed" \/ (left.changes > 0 /\ wall.map # "loading")
  /\ left' = IF wall.map = "failed" THEN left ELSE [left EXCEPT !.changes = @ - 1]
  /\ wall' = FreshPage /\ lane' = Idle
  /\ UNCHANGED server

WallInit ==
  /\ server \in [mode : WallModes, breakIn : {FALSE}, plays : {NoStation}, log : {{}, Stations}]
  /\ lane = Idle /\ wall = FreshPage
  /\ left = [changes |-> MaxChanges, fails |-> MaxFails]

WallNext ==
  \/ \E m \in WallModes : ModeSet(m)
  \/ \E s \in Stations \cup {NoStation} : Plays(s)
  \/ BreakIn \/ ErrorEvent \/ CbEvent
  \/ AskStatus \/ AskHeard \/ Lands \/ Lost
  \/ PictureReady \/ PictureFails \/ ZoomRan \/ LineFades \/ RingsFade
  \/ Frame \/ MapMounts \/ MapFails \/ PageReloads

\* The poller's timer; animations, decoding, the wait for the map (it has a timeout) and frames.
WallFairness ==
  /\ WF_wallVars(AskStatus) /\ WF_wallVars(AskHeard) /\ WF_wallVars(Lands)
  /\ WF_wallVars(PictureReady) /\ WF_wallVars(ZoomRan) /\ WF_wallVars(LineFades) /\ WF_wallVars(Frame)

WallSpec == WallInit /\ [][WallNext]_wallVars /\ WallFairness

----------------------------------------------------------------------------
(* Properties. *)

WallTypeOK ==
  /\ server \in [mode : WallModes, breakIn : BOOLEAN, plays : Stations \cup {NoStation}, log : SUBSET Stations]
  /\ lane = Idle \/ lane.what \in {"status", "heard"}
  /\ wall.pictures \subseteq Zooms /\ wall.zoomDone \in Zooms \cup {NoZoom}
  /\ wall.map \in {"loading", "live", "paused", "failed"}
  /\ {wall.hit, wall.fading, wall.lost, wall.line, wall.plays} \subseteq Stations \cup {NoStation}

\* Whatever changes the wall's mind in the middle of a zoom, what is in view is
\* drawn: the map runs while it can be seen, a stage and the picture are up only
\* while a mode or a zoom under way asks for them, and at rest the map runs
\* exactly when no stage covers it.
MapInView == ~wall.cbOn /\ (~wall.hfStage \/ wall.hfWait \/ wall.hfZoom)
NeverBlank ==
  LET z == wall.zoomDone IN
  /\ wall.map = "paused" => ~MapInView
  /\ wall.map = "live" /\ z = NoZoom => MapInView
  /\ wall.hfStage <=> wall.hfOn \/ z.dir = "in"
  /\ wall.hfWait <=> z.dir = "out"
  /\ wall.hfZoom <=> z.what = "run"
  /\ ~(wall.cbOn /\ wall.hfStage)
  /\ (wall.cbTimer <=> wall.cbOn) /\ (wall.greyTimer <=> wall.hfOn)

\* On a painted Atlas the line is the station that plays, or the last one fading
\* out, and every logged station is on the wall as a trace or as the line: both
\* at once only where the trace was there before the line. On a painted dial
\* the rings stand while its channel plays and no error covers it.
EachStationOnce ==
  /\ wall.hfOn /\ ~wall.dirty =>
       /\ wall.line = IF wall.hit # NoStation THEN wall.hit ELSE wall.fading
       /\ wall.log = wall.traces \cup ({wall.line} \cap wall.log)
       /\ wall.line \in wall.traces => wall.under
  /\ wall.cbOn /\ ~wall.dirty => (wall.rings = "on" <=> wall.cbLive /\ ~wall.error)

\* At every moment of a change of mind, a stage is in view and what it shows is drawn once.
StageSound == NeverBlank /\ EachStationOnce

\* However zooms, failed polls, a late map and reloads fall, the wall ends on the
\* server's mode, with nothing under way.
WallFollowsServer ==
  <>[](/\ wall.mode = server.mode /\ wall.zoomDone = NoZoom
       /\ wall.cbOn = (server.mode = "cb") /\ wall.hfStage = (server.mode = "hf")
       /\ (wall.hfOn /\ ~wall.error => wall.line = server.plays))
=============================================================================
