------------------------------ MODULE Rotation ------------------------------
(***************************************************************************)
(* The group hop of class WidebandEngine (backend/engine/WidebandEngine.ts): *)
(* the dwell timer, hold-through and its cap, sweep stops and priority      *)
(* looks, with the helper at the other end of two pipes.  A tune that Node   *)
(* has written and an event that the helper has written are both under way   *)
(* for a while, so each side acts on what the other was doing.               *)
(*                                                                          *)
(* Time passes at the ticks of the hop timer and is counted in them.  The    *)
(* helper is native/src/scanner.cpp seen from outside: which lanes are open  *)
(* and which one speaks (see Scanner).  How an exit comes about and how it   *)
(* is repaired is in HelperSupervisor.                                       *)
(***************************************************************************)
EXTENDS Integers, Sequences, FiniteSets, SequencesExt

CONSTANTS
  Channels,            \* configured channels
  CC,                  \* the lane of a Close Call hit
  None,
  Audible,             \* lanes that are not see-only
  Priority,            \* channels that call for priority looks
  Plans,               \* the configurations the server may pass
  Dwell,               \* groupDwellMs, the length of a sweep stop
  MinDwell, MaxDwell,  \* bounds of a group's effective dwell
  Look, Every,         \* lookMs and everyMs of the priority revisit
  MaxHold,             \* maxHoldMs
  AlertHold,           \* the hold of an alert pull-in
  Deltas,              \* how much time passes between two ticks
  MaxPipe,             \* lines under way in a pipe, at most
  MaxCalls, MaxFaults  \* calls of the server and exits of the helper, at most

Lanes == Channels \cup {CC}
PlanType == [groups: Seq(SUBSET Channels) \ {<<>>}, sweeps: Nat,
             monitor: BOOLEAN, closeCall: BOOLEAN, spy: BOOLEAN]

ASSUME LaneAssumption == CC \notin Channels /\ None \notin Lanes
ASSUME ChannelAssumption == Audible \subseteq Lanes /\ Priority \subseteq Channels
ASSUME PlanAssumption == Plans \subseteq PlanType
ASSUME TimeAssumption ==
  /\ {Dwell, MinDwell, MaxDwell, Look, Every, MaxHold, AlertHold} \subseteq Nat \ {0}
  /\ MinDwell <= MaxDwell
  /\ Deltas \subseteq Nat \ {0} /\ \E d \in Deltas : \A e \in Deltas : e <= d
ASSUME BoundAssumption == {MaxPipe, MaxCalls, MaxFaults} \subseteq Nat

VARIABLES
  plan,        \* config and groups
  sweeps,      \* how many stops are in sweeps
  groupIndex, sweeping, sweepIndex,
  openIds, audibleId,
  since,       \* time since groupStartedAt, up to Longest
  hold,        \* time since holdStartedAt, or NotHolding
  revisit,     \* the look under way: where it returns to, and the time spent there
  credit,      \* revisitCreditMs
  cursor,      \* revisitCursor
  looks,       \* config.priorityRevisit.enabled
  alert,       \* what is left of alertUntil
  armed,       \* dwellTimer
  helper,      \* down, booting or up
  window,      \* the window the helper is tuned to
  open,        \* the lanes it has open
  speaker,     \* the one it plays
  cmds,        \* tune commands on their way to the helper
  events,      \* events on their way to Node
  calls, faults,
  silence,     \* history: time without an audible lane open, both pipes quiet, on this
               \* window and since the last alert
  busy         \* history: time for which every tick found an audible lane open on this window

node == <<plan, sweeps, groupIndex, sweeping, sweepIndex, openIds, audibleId, since, hold,
          revisit, credit, cursor, looks, alert, armed>>
radio == <<helper, window, open, speaker>>
vars == <<plan, sweeps, groupIndex, sweeping, sweepIndex, openIds, audibleId, since, hold,
          revisit, credit, cursor, looks, alert, armed, helper, window, open, speaker,
          cmds, events, calls, faults, silence, busy>>

NotHolding == -1
Longest == CHOOSE t \in {Dwell, MaxDwell, Look} : \A u \in {Dwell, MaxDwell, Look} : u <= t
UpTo(bound, t) == IF t < bound THEN t ELSE bound
Ticks == CHOOSE d \in Deltas : \A e \in Deltas : e <= d

----------------------------------------------------------------------------
(* Windows.                                                                 *)

NoWindow == [at |-> <<"none", 0>>, lanes |-> {}, monitor |-> FALSE, closeCall |-> FALSE]

\* The tune command of group i of plan p; only a scan hunts with Close Call.
GroupWindow(p, i) ==
  [at |-> <<"group", i>>, lanes |-> p.groups[i], monitor |-> p.monitor,
   closeCall |-> p.closeCall /\ ~p.monitor]

\* The tune command of a sweep stop: no lanes but those of Close Call.
SweepWindow(p, i) == [at |-> <<"sweep", i>>, lanes |-> {}, monitor |-> FALSE,
                      closeCall |-> p.closeCall]

\* sendTune() and sendSweepTune(): what was open is released, and the command is sent.
\* Defect: the tune does not end a hold.
SendKeepsHold(w) ==
  /\ openIds' = {} /\ audibleId' = None /\ hold' = hold
  /\ cmds' = Append(cmds, w)

Send(w) ==
  /\ openIds' = {} /\ audibleId' = None /\ hold' = NotHolding
  /\ cmds' = Append(cmds, w)

Timed(p, n) == Len(p.groups) > 1 \/ n > 0

\* findChannel()
Found(id) == id = CC \/ id \in plan.groups[groupIndex]

\* isAudibleNow(), given what is left of the alerts.
IsAudibleNow(id, left) == id \in Audible \/ (id \in DOMAIN left /\ left[id] > 0)

\* hasAudibleOpen()
HasAudibleOpen(left) == \E id \in openIds : ~Found(id) \/ IsAudibleNow(id, left)

\* priorityGroups()
Ascending(S) ==
  CHOOSE s \in [1..Cardinality(S) -> S] : \A i, j \in DOMAIN s : i < j => s[i] < s[j]
PriorityGroups(p) ==
  Ascending({i \in 1..Len(p.groups) : p.groups[i] \cap Priority \cap Audible # {}})

----------------------------------------------------------------------------
(* The hop timer.                                                           *)

Left(d) == [c \in DOMAIN alert |-> IF alert[c] > d THEN alert[c] - d ELSE 0]

\* A window with an audible open is not left until maxHoldMs is over.
Holding(h) == h < MaxHold
Hold(h) ==
  /\ hold' = h /\ since' = 0
  /\ UNCHANGED <<groupIndex, sweeping, sweepIndex, openIds, audibleId, revisit, credit,
                 cursor, cmds>>

EndSweep ==
  /\ sweeping' = FALSE /\ groupIndex' = 1 /\ since' = 0
  /\ Send(GroupWindow(plan, 1))
  /\ UNCHANGED <<sweepIndex, revisit, credit, cursor>>

\* Defect: the interrupted group starts its dwell over.
Restarted(r) == 0
Resumed(r) == r.spent

\* endRevisit(): the interrupted group keeps what was left of its dwell.
EndLook ==
  /\ revisit' = None /\ groupIndex' = revisit.from
  /\ since' = Resumed(revisit)
  /\ Send(GroupWindow(plan, revisit.from))
  /\ UNCHANGED <<sweeping, sweepIndex, credit, cursor>>

\* After the last group one stop of the sweep.
StartSweep ==
  /\ groupIndex = Len(plan.groups) /\ sweeps > 0
  /\ sweeping' = TRUE /\ sweepIndex' = (sweepIndex + 1) % sweeps
  /\ since' = 0
  /\ Send(SweepWindow(plan, sweepIndex))
  /\ UNCHANGED <<groupIndex, revisit, credit, cursor>>

NextGroup ==
  /\ groupIndex < Len(plan.groups) \/ sweeps = 0
  /\ groupIndex' = (groupIndex % Len(plan.groups)) + 1
  /\ since' = 0
  /\ Send(GroupWindow(plan, groupIndex'))
  /\ UNCHANGED <<sweeping, sweepIndex, revisit, credit, cursor>>

\* maybeStartRevisit(): whether a look is due, and where it goes.
MayLook == looks /\ ~plan.monitor /\ PriorityGroups(plan) # <<>>
\* Defect: the group being heard may be a priority group.
HeardNever == FALSE
Heard == Contains(PriorityGroups(plan), groupIndex)

StartLook(t) ==
  LET targets == PriorityGroups(plan)
      pick == cursor % Len(targets)
  IN /\ cursor' = (pick + 1) % Len(targets)
     /\ credit' = 0
     /\ revisit' = [from |-> groupIndex, spent |-> t]
     /\ groupIndex' = targets[pick + 1]
     /\ since' = 0
     /\ Send(GroupWindow(plan, groupIndex'))
     /\ UNCHANGED <<sweeping, sweepIndex>>

Stay(h, t, c) ==
  /\ hold' = h /\ since' = t /\ credit' = c
  /\ UNCHANGED <<groupIndex, sweeping, sweepIndex, openIds, audibleId, revisit, cursor, cmds>>

Quiet(t, d) ==
  \/ MayLook /\ ~Heard /\ credit + d >= Every /\ StartLook(t)
  \/ MayLook /\ ~Heard /\ credit + d < Every /\ Stay(NotHolding, t, credit + d)
  \/ MayLook /\ Heard /\ Stay(NotHolding, t, 0)
  \/ ~MayLook /\ Stay(NotHolding, t, credit)

\* effectiveDwellMs(): the bank's weight, scaled by the recent activity of the group.
EffectiveDwells == MinDwell..MaxDwell

\* The radio leaves the window if its time, t, is up.
Advance(t, d) ==
  \/ sweeping /\ t >= Dwell /\ EndSweep
  \/ sweeping /\ t < Dwell /\ Stay(NotHolding, t, credit)
  \/ ~sweeping /\ revisit # None /\ t >= Look /\ EndLook
  \/ ~sweeping /\ revisit # None /\ t < Look /\ Stay(NotHolding, t, credit)
  \/ /\ ~sweeping /\ revisit = None
     /\ \E dwell \in EffectiveDwells :
          \/ t >= dwell /\ (StartSweep \/ NextGroup)
          \/ t < dwell /\ Quiet(t, d)

\* What the radio does meanwhile, seen by nobody: it decides nothing.
Observed(d, left) ==
  /\ silence' = IF cmds' # cmds THEN 0
                ELSE IF /\ helper = "up" /\ cmds = <<>> /\ events = <<>>
                        /\ \A id \in open : ~IsAudibleNow(id, left)
                     THEN UpTo(Longest, silence + d) ELSE 0
  /\ busy' = IF cmds' = cmds /\ HasAudibleOpen(left) THEN UpTo(MaxHold, busy + d) ELSE 0

Tick ==
  /\ armed /\ Len(cmds) < MaxPipe
  /\ \E d \in Deltas :
       LET left == Left(d)
           h == IF hold = NotHolding THEN 0 ELSE hold + d
           t == UpTo(Longest, since + d)
       IN /\ alert' = left
          /\ \/ HasAudibleOpen(left) /\ Holding(h) /\ Hold(h)
             \/ HasAudibleOpen(left) /\ ~Holding(h) /\ Advance(Longest, d)
             \/ ~HasAudibleOpen(left) /\ Advance(t, d)
          /\ Observed(d, left)
  /\ UNCHANGED <<plan, sweeps, looks, armed, radio, events, calls, faults>>
----------------------------------------------------------------------------
(* What the helper's events do.                                             *)

NodeReads(ev, id) ==
  /\ helper # "down" /\ events # <<>> /\ Head(events) = <<ev, id>>
  /\ events' = Tail(events)

\* "ready": the radio is re-pointed at the current group, and the hop timer starts.
NodeReady ==
  /\ NodeReads("ready", None)
  /\ revisit' = None /\ credit' = 0
  /\ since' = 0
  /\ Send(GroupWindow(plan, groupIndex))
  /\ armed' = Timed(plan, sweeps)
  /\ silence' = 0 /\ busy' = 0
  /\ UNCHANGED <<plan, sweeps, groupIndex, sweeping, sweepIndex, cursor, looks, alert, radio,
                 calls, faults>>

\* An open of a lane that is not of this group is stale.
NodeOpen(id) ==
  /\ NodeReads("open", id)
  /\ openIds' = IF Found(id) THEN openIds \cup {id} ELSE openIds
  /\ UNCHANGED <<plan, sweeps, groupIndex, sweeping, sweepIndex, audibleId, since, hold, revisit,
                 credit, cursor, looks, alert, armed, radio, cmds, calls, faults, silence, busy>>

\* Defect: every close re-arms the dwell, a silent one too.
AnyRearms(id) == TRUE

\* A silent close gives the window no scan time.
Rearms(id) == ~Found(id) \/ IsAudibleNow(id, alert)

\* A close of a lane that a hop has released is stale; the last one ends the hold.
NodeClose(id) ==
  /\ NodeReads("close", id)
  /\ openIds' = openIds \ {id}
  /\ IF id \in openIds /\ openIds' = {}
       THEN hold' = NotHolding /\ since' = IF Rearms(id) THEN 0 ELSE since
       ELSE UNCHANGED <<hold, since>>
  /\ UNCHANGED <<plan, sweeps, groupIndex, sweeping, sweepIndex, audibleId, revisit,
                 credit, cursor, looks, alert, armed, radio, cmds, calls, faults, silence, busy>>

NodeAudible(id) ==
  /\ NodeReads("audible", id)
  /\ audibleId' = id
  /\ UNCHANGED <<plan, sweeps, groupIndex, sweeping, sweepIndex, openIds, since, hold, revisit,
                 credit, cursor, looks, alert, armed, radio, cmds, calls, faults, silence, busy>>

NodeStep ==
  \/ NodeReady
  \/ \E id \in Lanes : NodeOpen(id) \/ NodeClose(id)
  \/ \E id \in Lanes \cup {None} : NodeAudible(id)

----------------------------------------------------------------------------
(* Calls of the server.                                                     *)

NoAlerts == [c \in Channels \ Audible |-> 0]

\* Defect: the rotation goes on where it was.
FreshSameGroup(p) ==
  /\ plan' = p /\ sweeps' = p.sweeps
  /\ UNCHANGED groupIndex /\ sweepIndex' = 0 /\ sweeping' = FALSE
  /\ revisit' = None /\ credit' = 0

\* A plan from its beginning, in start(), retune() and respawnForSource().
Fresh(p) ==
  /\ plan' = p /\ sweeps' = p.sweeps
  /\ groupIndex' = 1 /\ sweepIndex' = 0 /\ sweeping' = FALSE
  /\ revisit' = None /\ credit' = 0

\* A helper that boots has neither window nor lanes; killChild() stops the hop timer.
NoHelper ==
  /\ window' = NoWindow /\ open' = {} /\ speaker' = None
  /\ cmds' = <<>> /\ events' = <<>>
  /\ armed' = FALSE

Spawned ==
  /\ helper' = "boot"
  /\ openIds' = {} /\ audibleId' = None /\ hold' = NotHolding
  /\ NoHelper

\* start(p), and a retune that respawns: another source, or no live helper.
Restart(p) ==
  /\ Fresh(p) /\ Spawned
  /\ alert' = NoAlerts
  /\ silence' = 0 /\ busy' = 0
  /\ UNCHANGED <<since, cursor, looks, faults>>

\* retune(p) of a live helper.
Repoint(p) ==
  /\ helper # "down" /\ p.spy = plan.spy /\ Len(cmds) < MaxPipe
  /\ Fresh(p)
  /\ since' = 0
  /\ Send(GroupWindow(p, 1))
  /\ armed' = Timed(p, p.sweeps)
  /\ silence' = 0 /\ busy' = 0
  /\ UNCHANGED <<cursor, looks, alert, radio, events, faults>>

\* retune(p) while a SpyServer is down: the helper that is coming is aimed at p.
AimNext(p) ==
  /\ helper = "down" /\ p.spy /\ plan.spy
  /\ plan' = p /\ groupIndex' = 1
  /\ UNCHANGED <<sweeps, sweeping, sweepIndex, openIds, audibleId, since, hold, revisit, credit,
                 cursor, looks, alert, armed, radio, cmds, events, faults, silence, busy>>

UpdateScheduling ==
  /\ looks' = ~looks
  /\ UNCHANGED <<plan, sweeps, groupIndex, sweeping, sweepIndex, openIds, audibleId, since, hold,
                 revisit, credit, cursor, alert, armed, radio, cmds, events, faults, silence, busy>>

\* alertUnmute(c): a see-only channel counts as audible for the hold; if Node still
\* believes it open, its close will re-arm the dwell.
AlertUnmute(c) ==
  /\ alert' = [alert EXCEPT ![c] = AlertHold]
  /\ silence' = 0
  /\ UNCHANGED <<plan, sweeps, groupIndex, sweeping, sweepIndex, openIds, audibleId, since, hold,
                 revisit, credit, cursor, looks, armed, radio, cmds, events, faults, busy>>

Call ==
  /\ calls > 0 /\ calls' = calls - 1
  /\ \/ \E p \in Plans : Restart(p) \/ Repoint(p) \/ AimNext(p)
     \/ UpdateScheduling
     \/ \E c \in DOMAIN alert : AlertUnmute(c)

----------------------------------------------------------------------------
(* The helper.                                                              *)

Tells(evs) == events' = events \o evs
Room == Len(events) < MaxPipe

\* It boots and says so; it dies, and whatever was under way is lost; it is restarted.
HelperReady ==
  /\ helper = "boot"
  /\ helper' = "up"
  /\ Tells(<< <<"ready", None>> >>)
  /\ UNCHANGED <<node, window, open, speaker, cmds, calls, faults, silence, busy>>

HelperDies ==
  /\ helper # "down" /\ faults > 0 /\ faults' = faults - 1
  /\ helper' = "down"
  /\ NoHelper
  /\ silence' = 0 /\ busy' = 0
  /\ UNCHANGED <<plan, sweeps, groupIndex, sweeping, sweepIndex, openIds, audibleId, since, hold,
                 revisit, credit, cursor, looks, alert, calls>>

HelperRespawns ==
  /\ helper = "down" /\ Spawned
  /\ UNCHANGED <<plan, sweeps, groupIndex, sweeping, sweepIndex, since, revisit, credit, cursor,
                 looks, alert, calls, faults, silence, busy>>

\* Defect: a tune forgets to close the lanes of the window it leaves.
ClosesNothing == <<>>

\* Every open lane is closed before anything of the new window is said.
ClosesAll == SetToSeq({ <<"close", id>> : id \in open })

Speaks(id) == IF id = speaker THEN <<>> ELSE << <<"audible", id>> >>

\* A window that is monitored holds its one channel open and audible.
HelperTunes ==
  /\ helper = "up" /\ Room /\ cmds # <<>>
  /\ cmds' = Tail(cmds)
  /\ window' = Head(cmds)
  /\ LET w == Head(cmds) IN
       \/ /\ ~w.monitor
          /\ open' = {} /\ speaker' = None
          /\ Tells(ClosesAll \o Speaks(None))
       \/ \E id \in w.lanes :
            /\ w.monitor
            /\ open' = {id} /\ speaker' = id
            /\ Tells(ClosesAll \o Speaks(None) \o << <<"open", id>>, <<"audible", id>> >>)
  /\ UNCHANGED <<node, helper, calls, faults, silence, busy>>

\* A carrier comes up on a lane; the speaker may go to it.
HelperOpens(id) ==
  /\ helper = "up" /\ Room /\ ~window.monitor /\ id \notin open
  /\ id \in window.lanes \/ (id = CC /\ window.closeCall)
  /\ open' = open \cup {id}
  /\ speaker' \in {speaker, id}
  /\ Tells(<< <<"open", id>> >> \o Speaks(speaker'))
  /\ silence' = IF IsAudibleNow(id, alert) THEN 0 ELSE silence
  /\ UNCHANGED <<node, helper, window, cmds, calls, faults, busy>>

\* A carrier goes, or is skipped; its speaker goes to another lane or to none.
HelperCloses(id) ==
  /\ helper = "up" /\ Room /\ id \in open
  /\ open' = open \ {id}
  /\ IF id = speaker THEN speaker' \in open' \cup {None} ELSE UNCHANGED speaker
  /\ Tells(<< <<"close", id>> >> \o Speaks(speaker'))
  /\ silence' = IF IsAudibleNow(id, alert) THEN 0 ELSE silence
  /\ UNCHANGED <<node, helper, window, cmds, calls, faults, busy>>

\* An alert or a priority lane takes the speaker, or a see-only one loses it.
HelperSpeaks(id) ==
  /\ helper = "up" /\ Room /\ id \in open \cup {None} /\ id # speaker
  /\ speaker' = id
  /\ Tells(Speaks(id))
  /\ UNCHANGED <<node, helper, window, open, cmds, calls, faults, silence, busy>>

HelperStep ==
  \/ HelperReady \/ HelperDies \/ HelperRespawns \/ HelperTunes
  \/ \E id \in Lanes : HelperOpens(id) \/ HelperCloses(id)
  \/ \E id \in Lanes \cup {None} : HelperSpeaks(id)

----------------------------------------------------------------------------
Init ==
  /\ plan \in Plans /\ sweeps = plan.sweeps
  /\ groupIndex = 1 /\ sweepIndex = 0 /\ sweeping = FALSE
  /\ openIds = {} /\ audibleId = None
  /\ since = 0 /\ hold = NotHolding
  /\ revisit = None /\ credit = 0 /\ cursor = 0
  /\ looks = TRUE /\ alert = NoAlerts
  /\ armed = FALSE
  /\ helper = "boot" /\ window = NoWindow /\ open = {} /\ speaker = None
  /\ cmds = <<>> /\ events = <<>>
  /\ calls = MaxCalls /\ faults = MaxFaults
  /\ silence = 0 /\ busy = 0

Next == Tick \/ NodeStep \/ Call \/ HelperStep

Spec == Init /\ [][Next]_vars

\* The timer ticks, both sides read their pipes, a helper boots and is restarted.
\* Nothing makes a carrier come or go, the server call, or a helper die.  Time passes and
\* the helper reads its stdin however fast lanes open and close: the bound on the pipes
\* may hold these two up for a while, hence SF.
FairSpec ==
  /\ Spec
  /\ SF_vars(Tick) /\ SF_vars(HelperTunes)
  /\ WF_vars(NodeStep) /\ WF_vars(HelperReady) /\ WF_vars(HelperRespawns)

----------------------------------------------------------------------------
(* Properties.                                                              *)

\* Every variable has its type; an index names a group, a cursor a priority group.
TypeOK ==
  /\ plan \in Plans /\ sweeps \in Nat
  /\ groupIndex \in 1..Len(plan.groups)
  /\ sweeping \in BOOLEAN /\ sweepIndex \in 0..sweeps
  /\ openIds \subseteq Lanes /\ audibleId \in Lanes \cup {None}
  /\ since \in 0..Longest
  /\ hold \in {NotHolding} \cup 0..MaxHold
  /\ revisit = None \/ revisit \in [from: 1..Len(plan.groups), spent: 0..MaxDwell]
  /\ credit \in 0..(Every - 1) /\ cursor \in Nat
  /\ looks \in BOOLEAN /\ armed \in BOOLEAN
  /\ alert \in [Channels \ Audible -> 0..AlertHold]
  /\ helper \in {"down", "boot", "up"}
  /\ window.lanes \subseteq Channels /\ open \subseteq window.lanes \cup {CC}
  /\ speaker \in open \cup {None}
  /\ cmds \in Seq([at: {"group", "sweep"} \X Nat, lanes: SUBSET Channels,
                    monitor: BOOLEAN, closeCall: BOOLEAN])
  /\ events \in Seq({"ready", "open", "close", "audible"} \X (Lanes \cup {None}))
  /\ calls \in 0..MaxCalls /\ faults \in 0..MaxFaults

Settled == helper = "up" /\ cmds = <<>> /\ events = <<>>

\* Whatever tunes and events crossed in the pipes, once both are empty Node knows what
\* the helper has open and plays, and the helper is where Node believes it is.
EngineSeesHelper ==
  Settled =>
    /\ openIds = open /\ audibleId = speaker
    /\ ~sweeping => window = GroupWindow(plan, groupIndex)

\* The rotation does not sit on a window in silence: no open that cannot be heard, and
\* none that is only believed to be open, keeps it longer than the longest dwell, unless
\* an alert asks for a channel meanwhile.
SilenceBounded == armed => silence < Longest

\* A look goes from a group without priority to one with it, never in monitor mode and
\* never from a sweep stop, and returns to a group of the same plan.
LookSound ==
  armed /\ revisit # None =>
    /\ ~sweeping /\ ~plan.monitor
    /\ Contains(PriorityGroups(plan), groupIndex)
    /\ ~Contains(PriorityGroups(plan), revisit.from)
    /\ revisit.spent < MaxDwell

\* Node's picture of the helper is right once the pipes are empty; by it neither a
\* silent window nor a look that began wrongly keeps the radio.
RotationSound == EngineSeesHelper /\ SilenceBounded /\ LookSound
\* The timer leaves a channel that is being heard only when it has held the window for
\* maxHoldMs: no hold is charged with the time of an earlier one.
NeverCutOff ==
  [][Tick /\ Settled /\ cmds' # cmds /\ HasAudibleOpen(alert')
       => busy + Ticks >= MaxHold]_vars

At(kind, i) == helper = "up" /\ window.at = <<kind, i>>

NewAudibleOpen == \E id \in Lanes : HelperOpens(id) /\ (id \in Audible \/ alert[id] > 0)

\* If carriers that can be heard cease to come up, every group and every sweep stop is
\* visited again and again, whatever see-only channels do, with priority looks between,
\* and a lane that stays open does not stop it.
RotationCompletes ==
  <>[][~NewAudibleOpen]_vars =>
    /\ \A i \in 1..Max({Len(p.groups) : p \in Plans}) :
         []<>(i <= Len(plan.groups) => At("group", i))
    /\ \A i \in 1..Max({p.sweeps : p \in Plans}) :
         []<>(i <= plan.sweeps /\ plan.sweeps = sweeps => At("sweep", i - 1))

\* "in monitor mode (weather break-in / direct tune -- also a single group, so the hop
\* timer is parked anyway)" (WidebandEngine.ts:995-996).
MonitorParked == Settled /\ plan.monitor => window.at[1] # "sweep"

\* "CB mode listens to its own window only: no band sweep, no Close Call" (server.ts:210).
OwnWindowOnly == Settled /\ plan.sweeps = 0 => window.at[1] # "sweep"

=============================================================================
