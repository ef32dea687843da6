------------------------------ MODULE Scanner ------------------------------
(***************************************************************************)
(* The squelch and the speaker of the native helper: native/src/scanner.cpp *)
(* (class Scanner), driven by native/src/engine.cpp.  A Scanner owns a      *)
(* fixed number of lanes.  A tune command fills them with the channels of   *)
(* one group; every 10 ms poll() decides which lanes open and close; at     *)
(* most one lane is audible.  skip, alert_unmute and assign_cc arrive       *)
(* between two polls, on the same thread.                                   *)
(*                                                                          *)
(* poll() is a loop over the lanes that carries the audible lane from one   *)
(* iteration to the next.  Here an iteration is a step, and `cursor' is the *)
(* lane it is at; nothing else runs until the loop is over (cursor = 0).    *)
(*                                                                          *)
(* What a lane measures in one poll is one Reading: the slow power against  *)
(* the open and the close threshold of the lane, and the answers of the     *)
(* fast power gate, the quieting detector and the sub-audible detector,     *)
(* hysteresis and noise floor included.  Deadlines (skip_until,             *)
(* alert_until, below_since, tone_seen) are kept as the number of polls     *)
(* left or gone, so the clock itself is not part of the state.              *)
(***************************************************************************)
EXTENDS Integers, FiniteSets, Sequences

CONSTANTS
  LaneCount,      \* lane slots (EngineOptions::lanes)
  Channels,       \* ids of the configured channels
  Priority,       \* channels with the priority flag
  SeeOnly,        \* channels configured not audible
  Background,     \* the SAME channel: decoded, never squelched
  SubGated,       \* channels with a CTCSS tone or a DCS code
  Discoveries,    \* ids Close Call may give a lane ("cc_<freq>")
  NoId,           \* the id of a parked lane
  TuneCmds,       \* the tune commands that may arrive
  Readings,       \* what a lane can measure in one poll
  OpenPolls,      \* OPEN_POLLS
  Warmup,         \* WARMUP_MS / POLL_MS
  Hang,           \* the hang time, in polls
  ToneLoss,       \* CTCSS_LOSS_MS or DCS_LOSS_MS, in polls
  Holdoffs,       \* holdoffs a skip may ask for, in polls
  AlertHolds      \* holds an alert_unmute may ask for, in polls

Ids == Channels \cup Discoveries
Lanes == 1..LaneCount

ReadingType == [level: {"above", "mid", "below"}, quiet: BOOLEAN,
                carrier: BOOLEAN, tone: BOOLEAN]

TuneType == [channels: Seq(Channels), monitor: BOOLEAN,
             ccAudible: SUBSET Discoveries]

ASSUME CountAssumption == LaneCount \in Nat \ {0}
ASSUME IdAssumption == NoId \notin Ids /\ Channels \cap Discoveries = {}
ASSUME FlagAssumption ==
  Priority \subseteq Channels /\ SeeOnly \subseteq Channels
  /\ Background \subseteq Channels /\ SubGated \subseteq Channels \ Background
\* Every channel has an id of its own, so a group never names one twice.
ASSUME TuneAssumption ==
  /\ TuneCmds \subseteq TuneType
  /\ \A cmd \in TuneCmds : \A p, q \in DOMAIN cmd.channels :
       cmd.channels[p] = cmd.channels[q] => p = q
ASSUME ReadingAssumption == Readings \subseteq ReadingType
ASSUME TimeAssumption ==
  /\ OpenPolls \in Nat \ {0} /\ Warmup \in Nat /\ Hang \in Nat /\ ToneLoss \in Nat
  /\ Holdoffs \subseteq Nat \ {0} /\ AlertHolds \subseteq Nat \ {0}

VARIABLES
  lanes,      \* lanes_: one LaneState per slot
  speaker,    \* audible_ (0 = nobody) and gate_
  monitor,    \* monitor_: weather-only, no squelch
  ccAudible,  \* cc_audible_: the discoveries that may speak
  holdoff,    \* skip_until_by_id_: polls left per id, 0 = no entry
  cursor,     \* the lane poll() is at, 0 = between two polls
  told,       \* what a client that applied every event sent so far believes
  lockout     \* history: polls left of the last skip of each id

vars == <<lanes, speaker, monitor, ccAudible, holdoff, cursor, told, lockout>>

NoAlert == -1
Never == -1

\* A LaneState with nothing measured yet.
FreshLane(id, priority, audible, background, gated, warmup, skip) ==
  [id |-> id, priority |-> priority, allowAudio |-> audible, audibleCfg |-> audible,
   background |-> background, gated |-> gated, open |-> FALSE, carrier |-> FALSE,
   quiet |-> FALSE, toneOk |-> TRUE, toneAge |-> Never, tx |-> FALSE,
   above |-> 0, below |-> Never, warmup |-> warmup, skip |-> skip, alert |-> NoAlert]

Parked == FreshLane(NoId, FALSE, TRUE, FALSE, FALSE, 0, 0)

IsParked(L) == L.id = NoId

\* Mutant: assign() forgets the holdoff the channel still owes.
AssignedForgetful(id, priority, audible, background, gated) ==
  FreshLane(id, priority, audible, background, gated, Warmup, 0)

\* assign(): a channel in a slot; a holdoff it still owes comes with it.
Assigned(id, priority, audible, background, gated) ==
  FreshLane(id, priority, audible, background, gated, Warmup, holdoff[id])

AssignedChannel(id) ==
  Assigned(id, id \in Priority, id \notin SeeOnly, id \in Background, id \in SubGated)

-----------------------------------------------------------------------------
(* The slots a tune fills: the first background channel keeps the last      *)
(* slot, the others fill the rest in order, extras are dropped.             *)

RegularAt(chs, i) ==
  {p \in DOMAIN chs : /\ chs[p] \notin Background
                      /\ Cardinality({q \in 1..p : chs[q] \notin Background}) = i}
BackgroundAt(chs) ==
  {p \in DOMAIN chs : /\ chs[p] \in Background
                      /\ \A q \in 1..(p - 1) : chs[q] \notin Background}

SlotsAt(chs, i) ==
  IF i = LaneCount /\ BackgroundAt(chs) # {} THEN BackgroundAt(chs) ELSE RegularAt(chs, i)

Filled(chs) ==
  [i \in Lanes |-> IF SlotsAt(chs, i) = {} THEN Parked
                   ELSE AssignedChannel(chs[CHOOSE p \in SlotsAt(chs, i) : TRUE])]

-----------------------------------------------------------------------------
(* The speaker and the events that describe it.                             *)

Silent == [lane |-> 0, gate |-> FALSE]

IdAt(ls, i) == IF i = 0 THEN NoId ELSE ls[i].id

\* Mutant: the gate goes up with the handover, carrier or not.
SetAudibleGateUp(sp, ls, i) == IF sp.lane = i THEN sp ELSE [lane |-> i, gate |-> i # 0]

\* set_audible(): the gate of the new lane follows its carrier and its tone.
SetAudible(sp, ls, i) ==
  IF sp.lane = i THEN sp
  ELSE [lane |-> i, gate |-> i # 0 /\ ls[i].carrier /\ ls[i].toneOk]

\* The "audible" event set_audible() sends when the lane changes.
TellAudible(t, sp, ls, i) ==
  IF sp.lane = i THEN t ELSE [t EXCEPT !.audible = IdAt(ls, i)]
TellOpen(t, id) == [t EXCEPT !.open = @ \cup {id}]
TellClose(t, id) == [t EXCEPT !.open = @ \ {id}]
\* Mutant: a retune closes its lanes without saying so.
TellCloseNone(t, ls) == t
TellCloseAll(t, ls) == [t EXCEPT !.open = @ \ {ls[i].id : i \in {j \in Lanes : ls[j].open}}]

MaySpeak(L) == ~IsParked(L) /\ L.open /\ L.allowAudio

First(S) == CHOOSE i \in S : \A j \in S : i <= j

\* Mutant: next_open() ignores priority.
NextOpenFirst(ls) ==
  LET may == {i \in Lanes : MaySpeak(ls[i])} IN IF may # {} THEN First(may) ELSE 0

\* next_open(): the first priority lane that may speak, else the first one.
NextOpen(ls) ==
  LET may == {i \in Lanes : MaySpeak(ls[i])}
      pri == {i \in may : ls[i].priority}
  IN  IF pri # {} THEN First(pri) ELSE IF may # {} THEN First(may) ELSE 0

-----------------------------------------------------------------------------
(* Time.                                                                    *)

CountDown(n) == IF n > 0 THEN n - 1 ELSE n
CountUp(n, cap) == IF n >= 0 /\ n < cap THEN n + 1 ELSE n

Aged(L) == [L EXCEPT !.skip = CountDown(@), !.alert = CountDown(@),
                     !.below = CountUp(@, Hang), !.toneAge = CountUp(@, ToneLoss + 1)]

PollTime ==
  /\ lanes' = [i \in Lanes |-> Aged(lanes[i])]
  /\ holdoff' = [id \in Ids |-> CountDown(holdoff[id])]
  /\ lockout' = [id \in Ids |-> CountDown(lockout[id])]
  /\ UNCHANGED <<speaker, monitor, ccAudible, told>>

\* Time without a decision: an IQ gap, or poll() returning at once in monitor mode.
Gap == cursor = 0 /\ PollTime /\ UNCHANGED cursor

BeginPoll == cursor = 0 /\ ~monitor /\ PollTime /\ cursor' = 1

-----------------------------------------------------------------------------
(* One iteration of poll(), on lane i.                                      *)

\* Mutant: the loop runs one lane too far.
CursorPastEnd(i) == IF i > LaneCount THEN 0 ELSE i + 1
CursorAfter(i) == IF i = LaneCount THEN 0 ELSE i + 1

\* A parked lane, a lane still settling and the SAME lane decide nothing.
PollPasses(i) ==
  /\ cursor = i
  /\ IsParked(lanes[i]) \/ lanes[i].warmup > 0 \/ lanes[i].background
  /\ lanes' = [lanes EXCEPT ![i].warmup = CountDown(@)]
  /\ cursor' = CursorAfter(i)
  /\ UNCHANGED <<speaker, monitor, ccAudible, holdoff, told, lockout>>

\* Mutant: the hold runs out but the lane is not muted again.
AlertEndedUnmuted(L) == IF L.alert = 0 THEN [L EXCEPT !.alert = NoAlert] ELSE L

\* An alert hold that has run out gives the lane its configured muting back,
\* and the speaker to another lane if that mutes it.
AlertEnded(L) ==
  IF L.alert = 0 THEN [L EXCEPT !.alert = NoAlert, !.allowAudio = L.audibleCfg] ELSE L

AlertedLanes(i) == [lanes EXCEPT ![i] = AlertEnded(@)]

LosesSpeaker(i) == lanes[i].alert = 0 /\ ~lanes[i].audibleCfg /\ speaker.lane = i

SpeakerAfterAlert(i) ==
  IF LosesSpeaker(i)
  THEN SetAudible([speaker EXCEPT !.gate = FALSE], AlertedLanes(i), NextOpen(AlertedLanes(i)))
  ELSE speaker

ToldAfterAlert(i) ==
  IF LosesSpeaker(i)
  THEN TellAudible(told, speaker, AlertedLanes(i), NextOpen(AlertedLanes(i)))
  ELSE told

\* The carrier episode, then the sub-audible squelch, the fast gate and the quieting.
InEpisode(L, r) == IF L.tx THEN r.level # "below" ELSE r.level = "above" /\ L.skip = 0

ToneAge(L, r) ==
  IF L.gated /\ r.tone THEN 0 ELSE IF L.open \/ InEpisode(L, r) THEN L.toneAge ELSE Never

ToneHeld(L, age) == ~L.gated \/ (age # Never /\ age <= ToneLoss)

Measured(L, r) ==
  [L EXCEPT !.tx = InEpisode(L, r), !.toneAge = ToneAge(L, r),
            !.toneOk = ToneHeld(L, ToneAge(L, r)),
            !.carrier = r.carrier, !.quiet = r.quiet]

GateOf(L) == L.carrier /\ L.quiet /\ L.toneOk

MeasuredLanes(i, r) == [lanes EXCEPT ![i] = Measured(AlertEnded(@), r)]

SpeakerMeasured(i, r) ==
  LET sp == SpeakerAfterAlert(i)
  IN  IF sp.lane = i THEN [sp EXCEPT !.gate = GateOf(MeasuredLanes(i, r)[i])] ELSE sp

Wants(L, r) == ~L.open /\ r.level = "above" /\ L.quiet /\ L.toneOk /\ L.skip = 0
Fades(L, r) == L.open /\ (r.level = "below" \/ ~L.quiet)
OpensNow(L, r) == Wants(L, r) /\ L.above + 1 >= OpenPolls
ClosesNow(L, r) == Fades(L, r) /\ L.below # Never /\ L.below >= Hang

Opened(L) == [L EXCEPT !.open = TRUE, !.above = @ + 1, !.below = Never]
Closed(L) == [L EXCEPT !.open = FALSE, !.above = 0, !.below = Never]

\* A lane that neither opens nor closes: the polls above, or the time below.
Counted(L, r) ==
  IF L.open
  THEN [L EXCEPT !.below = IF ~Fades(L, r) THEN Never ELSE IF @ = Never THEN 0 ELSE @]
  ELSE [L EXCEPT !.above = IF Wants(L, r) THEN @ + 1 ELSE 0]

\* Past warm-up, lane i decides on what it measured.
Decides(i) ==
  /\ cursor = i
  /\ ~IsParked(lanes[i]) /\ lanes[i].warmup = 0 /\ ~lanes[i].background
  /\ cursor' = CursorAfter(i)
  /\ UNCHANGED <<monitor, ccAudible, holdoff, lockout>>

PollStays(i, r) ==
  LET L == MeasuredLanes(i, r)[i]
  IN  /\ Decides(i)
      /\ ~OpensNow(L, r) /\ ~ClosesNow(L, r)
      /\ lanes' = [lanes EXCEPT ![i] = Counted(L, r)]
      /\ speaker' = SpeakerMeasured(i, r)
      /\ told' = ToldAfterAlert(i)

\* A lane that opens speaks if nobody does, or if it pre-empts.
Takes(L, sp, ls) ==
  L.allowAudio /\ (sp.lane = 0 \/ (L.priority /\ ~ls[sp.lane].priority))

PollOpens(i, r) ==
  LET L == MeasuredLanes(i, r)[i]
      ls == [lanes EXCEPT ![i] = Opened(L)]
      sp == SpeakerMeasured(i, r)
      t == TellOpen(ToldAfterAlert(i), L.id)
  IN  /\ Decides(i)
      /\ OpensNow(L, r)
      /\ lanes' = ls
      /\ speaker' = IF Takes(L, sp, ls) THEN SetAudible(sp, ls, i) ELSE sp
      /\ told' = IF Takes(L, sp, ls) THEN TellAudible(t, sp, ls, i) ELSE t

\* Mutant: a discovery keeps its slot after its close.
VacatedNever(L) == L

\* The slot a closed lane leaves: a discovery is over, a channel keeps its lane.
Vacated(L) == IF L.id \in Discoveries THEN Parked ELSE L

\* Mutants: a close leaves the speaker where it was, or silences it.
HandoverStuck(sp, ls, i) == sp
HandoverSilent(sp, ls, i) == IF sp.lane = i THEN SetAudible(sp, ls, 0) ELSE sp

\* Giving the speaker away when lane i, just closed in ls, had it.
Handover(sp, ls, i) == IF sp.lane = i THEN SetAudible(sp, ls, NextOpen(ls)) ELSE sp
TellHandover(t, sp, ls, i) ==
  IF sp.lane = i THEN TellAudible(t, sp, ls, NextOpen(ls)) ELSE t

PollCloses(i, r) ==
  LET L == MeasuredLanes(i, r)[i]
      ls == [lanes EXCEPT ![i] = Closed(L)]
      sp == SpeakerMeasured(i, r)
  IN  /\ Decides(i)
      /\ ClosesNow(L, r)
      /\ lanes' = [ls EXCEPT ![i] = Vacated(@)]
      /\ speaker' = Handover(sp, ls, i)
      /\ told' = TellHandover(TellClose(ToldAfterAlert(i), L.id), sp, ls, i)

-----------------------------------------------------------------------------
(* Commands, between two polls.                                             *)

\* tune(): every open lane is reported closed before any slot is reassigned;
\* in monitor mode the first channel is held open and audible, gate up.
Tune(cmd) ==
  LET ls == Filled(cmd.channels)
      used == {i \in Lanes : ~IsParked(ls[i])}
      w == First(used)
      t == TellAudible(TellCloseAll(told, lanes), speaker, lanes, 0)
      held == [ls EXCEPT ![w] = [@ EXCEPT !.open = TRUE, !.carrier = TRUE, !.quiet = TRUE]]
      hold == cmd.monitor /\ used # {}
  IN  /\ cursor = 0
      /\ monitor' = cmd.monitor
      /\ ccAudible' = cmd.ccAudible
      /\ lanes' = IF hold THEN held ELSE ls
      /\ speaker' = IF hold THEN [lane |-> w, gate |-> TRUE] ELSE SetAudible(speaker, lanes, 0)
      /\ told' = IF hold THEN TellAudible(TellOpen(t, ls[w].id), Silent, ls, w) ELSE t
      /\ UNCHANGED <<holdoff, cursor, lockout>>

\* skip(): the audible lane closes at once, and keeps quiet for the holdoff.
Skip(h) ==
  LET i == speaker.lane
      id == lanes[i].id
      ls == [lanes EXCEPT ![i] = Closed([@ EXCEPT !.tx = FALSE])]
  IN  /\ cursor = 0
      /\ i # 0
      /\ speaker' = SetAudible(speaker, ls, NextOpen(ls))
      /\ told' = TellAudible(TellClose(told, id), speaker, ls, NextOpen(ls))
      /\ IF id \in Discoveries
         THEN lanes' = [ls EXCEPT ![i] = Parked] /\ UNCHANGED <<holdoff, lockout>>
         ELSE /\ lanes' = [ls EXCEPT ![i].skip = h]
              /\ holdoff' = [holdoff EXCEPT ![id] = h]
              /\ lockout' = [lockout EXCEPT ![id] = h]
      /\ UNCHANGED <<monitor, ccAudible, cursor>>

\* alert_unmute(): the channel may speak for h polls, and speaks if it is open.
AlertUnmute(id, h) ==
  LET at == {i \in Lanes : lanes[i].id = id}
      i == First(at)
      ls == [lanes EXCEPT ![i] = [@ EXCEPT !.allowAudio = TRUE, !.alert = h]]
      speaks == lanes[i].open
  IN  /\ cursor = 0
      /\ at # {}
      /\ lanes' = ls
      /\ speaker' = IF speaks THEN SetAudible(speaker, ls, i) ELSE speaker
      /\ told' = IF speaks THEN TellAudible(told, speaker, ls, i) ELSE told
      /\ UNCHANGED <<monitor, ccAudible, holdoff, cursor, lockout>>

\* Engine::poll gives a Close Call hit the first free slot.  The detector masks
\* every frequency a lane is already on, and is off in monitor mode.
AssignCc(id) ==
  LET free == {i \in Lanes : IsParked(lanes[i])}
      audible == id \in ccAudible
  IN  /\ cursor = 0 /\ ~monitor
      /\ free # {}
      /\ \A i \in Lanes : lanes[i].id # id
      /\ lanes' = [lanes EXCEPT ![First(free)] = Assigned(id, audible, audible, FALSE, FALSE)]
      /\ UNCHANGED <<speaker, monitor, ccAudible, holdoff, cursor, told, lockout>>

-----------------------------------------------------------------------------
Init ==
  /\ lanes = [i \in Lanes |-> Parked]
  /\ speaker = Silent
  /\ monitor = FALSE
  /\ ccAudible = Discoveries
  /\ holdoff = [id \in Ids |-> 0]
  /\ cursor = 0
  /\ told = [open |-> {}, audible |-> NoId]
  /\ lockout = [id \in Ids |-> 0]

PollStep ==
  \/ BeginPoll
  \/ \E i \in Lanes : PollPasses(i)
  \/ \E i \in Lanes, r \in Readings : PollStays(i, r) \/ PollOpens(i, r) \/ PollCloses(i, r)

CommandStep ==
  \/ \E cmd \in TuneCmds : Tune(cmd)
  \/ \E h \in Holdoffs : Skip(h)
  \/ \E id \in Ids, h \in AlertHolds : AlertUnmute(id, h)
  \/ \E id \in Discoveries : AssignCc(id)

Next == PollStep \/ CommandStep \/ Gap

Spec == Init /\ [][Next]_vars

-----------------------------------------------------------------------------
(* Properties.                                                              *)

LaneType ==
  [id : Ids \cup {NoId}, priority : BOOLEAN, allowAudio : BOOLEAN, audibleCfg : BOOLEAN,
   background : BOOLEAN, gated : BOOLEAN, open : BOOLEAN, carrier : BOOLEAN,
   quiet : BOOLEAN, toneOk : BOOLEAN, toneAge : Int, tx : BOOLEAN,
   above : Nat, below : Int, warmup : Nat, skip : Nat, alert : Int]
SpeakerType == [lane : Lanes \cup {0}, gate : BOOLEAN]
ToldType == [open : SUBSET Ids, audible : Ids \cup {NoId}]

\* Every variable has its type: in particular audible_ is a slot or nobody, and
\* the loop of poll() stays inside the lanes.
TypeOK ==
  /\ lanes \in [Lanes -> LaneType]
  /\ speaker \in SpeakerType
  /\ monitor \in BOOLEAN
  /\ ccAudible \subseteq Discoveries
  /\ holdoff \in [Ids -> Nat]
  /\ cursor \in Lanes \cup {0}
  /\ told \in ToldType
  /\ lockout \in [Ids -> Nat]

\* The audible lane is open and allowed to speak (the weather channel of monitor
\* mode speaks whatever its flag): audible_ never stays on a lane that closed, was
\* parked, was muted again when its alert ended, or was given another channel.
SpeakerOnOpenLane ==
  speaker.lane # 0 =>
    LET L == lanes[speaker.lane] IN ~IsParked(L) /\ L.open /\ (L.allowAudio \/ monitor)

\* No transmission is lost for want of an owner: while any open lane may speak,
\* someone has the speaker, whichever close, skip, alert or park came before.
SpeakerNeverIdle ==
  ~monitor /\ (\E i \in Lanes : MaySpeak(lanes[i])) => speaker.lane # 0

\* The events are the truth: a client that applied every open, close and audible
\* event sent so far knows exactly the open lanes and the audible one, across
\* retunes that reassign every slot and skips that park one.
FeedFaithful ==
  /\ told.open = {lanes[i].id : i \in {j \in Lanes : lanes[j].open}}
  /\ told.audible = IdAt(lanes, speaker.lane)

\* The gate is up only on an audible lane with carrier and tone, so a lane that gets
\* the speaker while it rides out its hang time stays muted (scanner.cpp:126).
GateNeedsCarrier ==
  speaker.gate => /\ speaker.lane # 0
                  /\ lanes[speaker.lane].carrier /\ lanes[speaker.lane].toneOk

\* A skipped channel stays closed until its holdoff has run out, even when hops
\* reassign its slot in between: the lane's own deadline dies with the lane.
LockoutHolds ==
  ~monitor => \A i \in Lanes : lanes[i].open => lockout[lanes[i].id] = 0

\* A see-only channel is heard only while an alert hold is pending on its lane.
SeeOnlyNeedsAlert ==
  ~monitor /\ speaker.lane # 0 /\ ~lanes[speaker.lane].audibleCfg
    => lanes[speaker.lane].alert # NoAlert

\* The speaker is where it may be, whenever it may be: on an open lane, never idle
\* while a lane waits for it, muted without carrier and tone, and on a see-only lane
\* for the time of an alert only.
SpeakerSound == SpeakerOnOpenLane /\ SpeakerNeverIdle /\ GateNeedsCarrier /\ SeeOnlyNeedsAlert

\* What the backend knows of the lanes from their events is so, and what it has
\* skipped stays shut, across the hops that give a lane to another channel.
LanesAsTold == FeedFaithful /\ LockoutHolds
\* The speaker never moves to an ordinary lane while a priority lane could have it,
\* unless an alert claims it: whoever opens, closes, is skipped or muted.
PriorityFirst ==
  [][ speaker'.lane \notin {0, speaker.lane}
        => LET L == lanes'[speaker'.lane]
           IN  \/ L.priority \/ L.alert # NoAlert \/ monitor'
               \/ ~\E i \in Lanes : MaySpeak(lanes'[i]) /\ lanes'[i].priority ]_vars

\* A Close Call lane that was open and closes gives its slot back in the same step;
\* otherwise each discovery would use up a lane until the next retune.
DiscoveryFreed ==
  [][ \A i \in Lanes : lanes[i].id \in Discoveries /\ lanes[i].open /\ ~lanes'[i].open
        => lanes'[i].id # lanes[i].id ]_vars

\* Whichever path takes the speaker or a lane from its channel gives it to whom it
\* belongs: the speaker to a waiting priority lane, a discovery's lane to the next.
HandedOn == PriorityFirst /\ DiscoveryFreed
\* What tune() says of monitor mode: "the operator chose this channel; hold it open
\* and audible with no squelch" (scanner.cpp:110).  Refuted by Skip.
MonitorHeld ==
  monitor /\ (\E i \in Lanes : ~IsParked(lanes[i])) => speaker.lane # 0

=============================================================================
