----------------------------- MODULE CcRecorder -----------------------------
(***************************************************************************)
(* The close call recorder: it turns the span in which a close call's lane *)
(* owns the speaker into a clip, from two streams of the helper that reach *)
(* it each in its own time: the mixed speaker audio, and the events that   *)
(* say whose audio it is. Hops, sweeps and respawns take the speaker away  *)
(* without an event of its own. Clips are written later, one at a time,    *)
(* into a store that a delayed sweep holds under its budget, while the     *)
(* operator files, removes and locks out the frequencies they belong to.   *)
(*                                                                         *)
(* Audio is counted in chunks of the length of the grace the head of a     *)
(* clip is given (a quarter of a second).                                  *)
(***************************************************************************)
EXTENDS Naturals, Sequences, FiniteSets, SequencesExt, FiniteSetsExt

CONSTANTS
    Freq,       \* frequencies of close calls
    Channel,    \* lanes of the operator's own channels
    Ring,       \* chunks of pre-roll kept (8 in the code)
    Cap,        \* chunks of a clip at most
    MinClip,    \* chunks a clip must have to be kept (0.35 s: 2)
    Flap,       \* chunks during which a capped lane that comes back is ignored (12)
    Budget,     \* clips the store may hold
    Lag,        \* bound: chunks by which an event or the audio may come late
    MaxTime,    \* bound: chunks of audio
    MaxTurns,   \* bound: times the speaker changes hands
    MaxDeeds    \* bound: operator's deeds

Nobody  == "nobody"
Epsilon == 1

ASSUME LaneAssumption ==
    /\ Freq \cap Channel = {} /\ Nobody \notin Freq \cup Channel
    /\ {Ring, Cap, MinClip, Flap, Budget, Lag, MaxTime, MaxTurns, MaxDeeds} \subseteq Nat

VARIABLES
    now,       \* chunks the helper has sent, times the speaker changed hands
    carries,   \* helper: whose audio the speaker carries
    feed,      \* audio on its way: per chunk, whose it is
    events,    \* events on their way, each with its age
    enabled,   \* recordCloseCalls
    ring,      \* chunks of the pre-roll, oldest first
    unowned,   \* chunks of it that came while nobody owned the speaker
    owner,     \* currentId
    rec,       \* freqHz and clip: the frequency recorded and its chunks
    capped,    \* cappedId, and for how many chunks it still counts
    queue,     \* writeQueue
    draining,  \* a write is scheduled
    sweep,     \* a sweep is scheduled
    disk,      \* frequencies that have a clip in the store, oldest clip first
    filed,     \* frequencies of the discoveries
    banned,    \* frequencies of channels and lockouts
    deeds      \* operator's deeds so far

recorderVars == <<now, carries, feed, events, enabled, ring, unowned, owner, rec, capped,
                  queue, draining, sweep, disk, filed, banned, deeds>>

helperVars == <<now, carries, feed, events>>
clipVars   == <<ring, unowned, owner, rec, capped>>
storeVars  == <<sweep, disk>>

Idle  == [f |-> Nobody, clip |-> << >>]
NoCap == [id |-> Nobody, left |-> 0]

Lane == Freq \cup Channel
Least(a, b) == IF a < b THEN a ELSE b
LastOf(s, n) == SubSeq(s, Len(s) - Least(n, Len(s)) + 1, Len(s))

RecorderInit ==
    /\ now = [chunks |-> 0, turns |-> 0] /\ carries = Nobody /\ feed = << >> /\ events = << >>
    /\ enabled \in BOOLEAN
    /\ ring = << >> /\ unowned = Ring /\ owner = Nobody
    /\ rec = Idle /\ capped = NoCap
    /\ queue = << >> /\ draining = FALSE /\ sweep = FALSE
    /\ disk = << >> /\ filed \in SUBSET Freq /\ banned = {} /\ deeds = 0

-----------------------------------------------------------------------------
(* The helper. *)

\* One more chunk of audio; neither stream may fall behind further than Lag.
Speak ==
    /\ now.chunks < MaxTime
    /\ Len(feed) < Lag /\ \A i \in DOMAIN events : events[i].age < Lag
    /\ now' = [now EXCEPT !.chunks = @ + 1]
    /\ feed' = Append(feed, carries)
    /\ events' = [i \in DOMAIN events |-> [events[i] EXCEPT !.age = @ + 1]]
    /\ capped' = [capped EXCEPT !.left = IF @ > 0 THEN @ - 1 ELSE 0]
    /\ UNCHANGED <<carries, enabled, ring, unowned, owner, rec, queue, draining, storeVars, filed, banned, deeds>>

Turned == /\ now.turns < MaxTurns /\ now' = [now EXCEPT !.turns = @ + 1]
          /\ Len(events) < Lag

\* The speaker goes to another lane, or to nobody, with an event.
Turn(l) ==
    /\ Turned
    /\ l # carries
    /\ carries' = l
    /\ events' = Append(events, [what |-> "audible", id |-> l, age |-> 0])
    /\ UNCHANGED <<feed, enabled, clipVars, queue, draining, storeVars, filed, banned, deeds>>

\* A tune, or the end of the helper, takes the speaker from its lane; only the
\* tune, or the end, is told. Node tells it when it writes the tune, before the
\* helper has it: the model leaves out the way of the tune to the helper, by
\* which a clip may hold that much more of the lane the tune took it from.
HopUntold ==
    /\ Turned
    /\ carries # Nobody
    /\ carries' = Nobody
    /\ events' = Append(events, [what |-> "tuned", id |-> Nobody, age |-> 0])
    /\ UNCHANGED <<feed, enabled, clipVars, queue, draining, storeVars, filed, banned, deeds>>

-----------------------------------------------------------------------------
(* The recorder. *)

\* What is in flight ends and is queued, unless it is too short; a write is
\* scheduled when none is.
LongEnough(clip) == Len(clip) >= MinClip
Flushed(r) == IF r.f # Nobody /\ LongEnough(r.clip) THEN Append(queue, r) ELSE queue
Queued(r) == queue' = Flushed(r) /\ draining' = (draining \/ Flushed(r) # queue)

Disabled ==
    /\ rec' = Idle /\ ring' = << >> /\ unowned' = 0
    /\ UNCHANGED <<owner, capped, queue, draining>>

\* Nothing is recorded: the chunk goes to the pre-roll.
Preroll(c) ==
    /\ ring' = LastOf(Append(ring, c), Ring)
    /\ unowned' = IF owner = Nobody THEN Least(Ring, unowned + 1) ELSE 0
    /\ UNCHANGED <<owner, rec, capped, queue, draining>>

\* The chunk goes to the clip, which ends when it is full.
Record(c) ==
    LET r == [rec EXCEPT !.clip = IF Len(@) < Cap THEN Append(@, c) ELSE @] IN
    /\ IF Len(r.clip) >= Cap
       THEN rec' = Idle /\ capped' = [id |-> owner, left |-> Flap] /\ Queued(r)
       ELSE rec' = r /\ UNCHANGED <<capped, queue, draining>>
    /\ UNCHANGED <<ring, unowned, owner>>

OnPcm ==
    /\ feed # << >>
    /\ feed' = Tail(feed)
    /\ IF ~enabled THEN Disabled
       ELSE IF rec.f = Nobody THEN Preroll(Head(feed)) ELSE Record(Head(feed))
    /\ UNCHANGED <<now, carries, events, enabled, storeVars, filed, banned, deeds>>

\* How much of the pre-roll opens a clip: what came after the last owner let
\* go, and a beat more.
WholeRing(gap) == Cap
SeedLimit(gap) == Least(Cap, gap + Epsilon)

\* A lane that was capped a moment ago is still the same transmission.
StillCapped(id) == capped.id = id /\ capped.left > 0

OwnerChanges(id) ==
    IF id = owner THEN UNCHANGED <<clipVars, queue, draining>>
    ELSE
    /\ owner' = id
    /\ unowned' = IF id # Nobody THEN 0 ELSE unowned
    /\ Queued(rec)
    /\ ring' = ring
    /\ IF ~enabled \/ id = Nobody \/ StillCapped(id)
       THEN rec' = Idle /\ UNCHANGED capped
       ELSE /\ capped' = NoCap
            /\ rec' = IF id \in Freq \ banned
                      THEN [f |-> id, clip |-> LastOf(ring, SeedLimit(unowned))]
                      ELSE Idle

\* The engine moved on without saying whose the speaker is.
Reset ==
    /\ Queued(rec) /\ rec' = Idle
    /\ owner' = Nobody /\ capped' = NoCap /\ ring' = << >> /\ unowned' = 0

OnEvent ==
    /\ events # << >>
    /\ events' = Tail(events)
    /\ IF Head(events).what = "audible" THEN OwnerChanges(Head(events).id) ELSE Reset
    /\ UNCHANGED <<now, carries, feed, enabled, storeVars, filed, banned, deeds>>

-----------------------------------------------------------------------------
(* The store. *)

\* One clip per tick, oldest first; a write may fail, and then only the clip
\* is lost. After the last write a sweep is scheduled, once.
Without(d, F) ==
    LET left == {i \in DOMAIN d : d[i] \notin F}
        nth(n) == CHOOSE i \in left : Cardinality({j \in left : j <= i}) = n
    IN  [n \in 1 .. Cardinality(left) |-> d[nth(n)]]
Written(r) == Append(Without(disk, {r.f}), r.f)

Drain ==
    /\ draining
    /\ IF queue = << >> THEN draining' = FALSE /\ UNCHANGED <<queue, disk, sweep>>
       ELSE /\ queue' = Tail(queue)
            /\ disk' \in {disk, Written(Head(queue))}
            /\ draining' = (Tail(queue) # << >>)
            /\ sweep' = (sweep \/ Tail(queue) = << >>)
    /\ UNCHANGED <<helperVars, enabled, clipVars, filed, banned, deeds>>

\* Clips nobody has claimed for an hour go first, then the oldest until the
\* rest fits.
Orphans(d) == SUBSET (ToSet(d) \ filed)
OrphansOnly(d) == {Without(d, F) : F \in Orphans(d)}
Swept(d) == {LastOf(Without(d, F), Budget) : F \in Orphans(d)}

Sweep ==
    /\ sweep
    /\ sweep' = FALSE
    /\ disk' \in Swept(disk)
    /\ UNCHANGED <<helperVars, enabled, clipVars, queue, draining, filed, banned, deeds>>

-----------------------------------------------------------------------------
(* The operator and the filing of discoveries. *)

Deed == deeds < MaxDeeds /\ deeds' = deeds + 1

Toggle ==
    /\ Deed
    /\ enabled' = ~enabled
    /\ UNCHANGED <<helperVars, clipVars, queue, draining, storeVars, filed, banned>>

File(f) ==
    /\ Deed
    /\ f \notin filed \cup banned
    /\ filed' = filed \cup {f}
    /\ UNCHANGED <<helperVars, enabled, clipVars, queue, draining, storeVars, banned>>

\* A discovery leaves the list: dismissed, or locked out, or made a channel.
\* Its clip goes with it.
Retire(f, ban) ==
    /\ Deed
    /\ f \in filed
    /\ filed' = filed \ {f}
    /\ banned' = IF ban THEN banned \cup {f} ELSE banned
    /\ disk' = Without(disk, {f})
    /\ UNCHANGED <<helperVars, enabled, clipVars, queue, draining, sweep>>

DeleteSample(f) ==
    /\ Deed
    /\ f \in filed \cap ToSet(disk)
    /\ disk' = Without(disk, {f})
    /\ UNCHANGED <<helperVars, enabled, clipVars, queue, draining, sweep, filed, banned>>

RecorderNext ==
    \/ Speak \/ HopUntold \/ \E l \in Lane \cup {Nobody} : Turn(l)
    \/ OnPcm \/ OnEvent
    \/ Drain \/ Sweep
    \/ Toggle
    \/ \E f \in Freq : File(f) \/ DeleteSample(f) \/ \E ban \in BOOLEAN : Retire(f, ban)

RecorderSpec == RecorderInit /\ [][RecorderNext]_recorderVars

-----------------------------------------------------------------------------
(* Properties. *)

Clips == {rec} \cup ToSet(queue)
Foreign(c) == {i \in DOMAIN c.clip : c.clip[i] \notin {c.f, Nobody}}

\* A clip holds its own lane's audio: of another lane at most the beat its
\* head is allowed, the audio that was late when that lane let go, and what
\* comes before the recorder has heard that its own lane did; however the
\* speaker changes hands, is taken by a hop, or the recording is switched off
\* and on.
ClipPure == \A c \in Clips : Cardinality(Foreign(c)) <= Epsilon + 2 * Lag /\ Len(c.clip) <= Cap

\* Nothing that was recorded waits for a write nobody has scheduled, and when
\* neither a write nor a sweep is pending the store is within its budget,
\* also when writes fail and clips come in bursts.
StoreSettles ==
    /\ queue # << >> => draining
    /\ ~draining /\ ~sweep => Len(disk) <= Budget

\* A clip is its own lane's, and the store of clips is looked after.
ClipsSound == ClipPure /\ StoreSettles

\* "the operator's own channels and locked-out frequencies are not discoveries
\* and never get a clip" (server.ts:855).
NeverAClip == ToSet(disk) \cap banned = {}
=============================================================================
