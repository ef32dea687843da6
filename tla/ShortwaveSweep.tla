--------------------------- MODULE ShortwaveSweep ---------------------------
(***************************************************************************)
(* The shortwave sweep: it sets which window of the broadcast bands the    *)
(* network radio sits on and which station of the window is on the         *)
(* speaker, from surveys the helper sends of the window it is really on. A *)
(* break-in takes the radio away and gives it back, the operator leaves,   *)
(* enters again and skips, the helper dies and comes back while the sweep  *)
(* moves on, and what was heard is logged, one row per station and night.  *)
(*                                                                         *)
(* A frequency is its channel of the 5 kHz raster. Time is counted in      *)
(* ticks of the controller; the code's instants are ages here.             *)
(***************************************************************************)
EXTENDS Naturals, Sequences, FiniteSets, SequencesExt, FiniteSetsExt

CONSTANTS
    Windows,   \* number of windows
    Sees,      \* channels of the raster each window sees, a sequence
    Band,      \* channels of the band each window is part of, a sequence
    Name,      \* stations of the schedules
    Listed,    \* channels they list
    Window,    \* windowMs
    Empty,     \* emptyWindowMs
    Fade,      \* fadeMs
    Cooldown,  \* cooldownMs
    MaxAsked   \* bound: tunes on their way to the helper

ASSUME SweepAssumption ==
    /\ Windows \in Nat \ {0}
    /\ Sees \in [1 .. Windows -> SUBSET (Nat \ {0})] /\ Band \in [1 .. Windows -> SUBSET Nat]
    /\ {Window, Empty, Fade, Cooldown} \subseteq Nat \ {0}

None == "none"
Away == [at |-> 0, listen |-> 0]           \* the radio is not the sweep's

VARIABLES
    hf,      \* the controller: "off" no sweep, "live" timer armed, "paused" disarmed
    sweep,   \* HfSweep: index, listen (0: nothing), age since windowAt, quiet since listenSeenAt, surveyed
    cool,    \* ticks until a channel may play again (playedAt)
    engine,  \* the engine: "running" or "stopped"
    aim,     \* the tune of the engine's configuration
    helper,  \* it is up
    asked,   \* tunes on their way to the helper
    radio,   \* the tune the helper is on
    fresh,   \* a survey of it is due
    name,    \* the schedules' likeliest station of each channel, now
    rows     \* the reception log tonight, per channel, the row last heard last

vars == <<hf, sweep, cool, engine, aim, helper, asked, radio, fresh, name, rows>>
radioVars == <<engine, aim, helper, asked, radio>>

Channel == UNION {Sees[w] : w \in 1 .. Windows}

\* What a survey says of a channel: nothing, a carrier too faint to play, a
\* strong signal with no steady carrier on the raster, or a strong carrier.
Level == {"nothing", "faint", "voice", "carrier"}
Strong == {"voice", "carrier"}
HasCarrier == {"faint", "carrier"}

First == [index |-> 1, listen |-> 0, age |-> 0, quiet |-> 0, surveyed |-> FALSE]
Current(s) == [at |-> s.index, listen |-> s.listen]
Schedules == {n \in [Channel -> Name \cup {None}] : \A c \in Channel \ Listed : n[c] = None}
Fresh == [c \in Channel |-> 0]

Init ==
    /\ hf = "off" /\ sweep = First /\ cool = Fresh
    /\ engine = "running" /\ aim = Away /\ helper = TRUE /\ asked = << >>
    /\ radio = Away /\ fresh = FALSE
    /\ name \in Schedules /\ rows = [c \in Channel |-> << >>]

-----------------------------------------------------------------------------
(* The engine. *)

\* retune: a live helper is told at once; one that is in backoff is aimed.
Retune(t) ==
    /\ engine' = "running"
    /\ aim' = t
    /\ \/ helper /\ Len(asked) < MaxAsked /\ asked' = Append(asked, t)
       \/ ~helper /\ asked' = asked
    /\ UNCHANGED <<helper, radio>>

\* What is decided while the operator keeps the engine stopped is not tuned.
Apply(t) == IF engine = "running" THEN Retune(t) ELSE UNCHANGED radioVars

Tuned ==
    /\ asked # << >>
    /\ radio' = Head(asked) /\ asked' = Tail(asked) /\ fresh' = FALSE
    /\ UNCHANGED <<hf, sweep, cool, engine, aim, helper, name, rows>>

HelperDies ==
    /\ helper
    /\ helper' = FALSE /\ asked' = << >> /\ radio' = Away /\ fresh' = FALSE
    /\ UNCHANGED <<hf, sweep, cool, engine, aim, name, rows>>

HelperBack ==
    /\ ~helper /\ engine = "running"
    /\ helper' = TRUE /\ radio' = aim
    /\ UNCHANGED <<hf, sweep, cool, engine, aim, asked, fresh, name, rows>>

EngineStop ==
    /\ engine = "running"
    /\ engine' = "stopped" /\ helper' = FALSE /\ asked' = << >> /\ radio' = Away /\ fresh' = FALSE
    /\ UNCHANGED <<hf, sweep, cool, aim, name, rows>>

Wanted == IF hf = "live" THEN Current(sweep) ELSE Away

EngineStart ==
    /\ engine = "stopped"
    /\ engine' = "running" /\ aim' = Wanted
    /\ UNCHANGED <<hf, sweep, cool, helper, asked, radio, fresh, name, rows>>

-----------------------------------------------------------------------------
(* The reception log. *)

\* A named signal joins the row of its station, or of no station when the
\* schedules know none; one without a name joins whatever row is there.
RowOfName(log, station, named) == {i \in DOMAIN log : log[i].station = station}

RowOf(log, station, named) == {i \in DOMAIN log : named => log[i].station = station}

Heard(log, station, named) ==
    LET mine == RowOf(log, station, named)
        i == Max(mine)
    IN  IF mine = {}
        THEN Append(log, [station |-> IF named THEN station ELSE None, played |-> FALSE])
        ELSE Append(RemoveAt(log, i), log[i])

\* What plays, plays from the row of its channel heard last.
Marked(log) == IF log = << >> THEN log ELSE [log EXCEPT ![Len(log)].played = TRUE]
MarkListen(all, s) == IF s.listen = 0 THEN all ELSE [all EXCEPT ![s.listen] = Marked(@)]

\* One survey is one transaction.
Recorded(seen) ==
    [c \in Channel |->
        IF c \in DOMAIN seen /\ seen[c] # "nothing"
        THEN Heard(rows[c], name[c], seen[c] \in HasCarrier)
        ELSE rows[c]]

-----------------------------------------------------------------------------
(* The sweep. *)

Near(c) == {d \in Channel : d <= c + 1 /\ c <= d + 1}

\* The stations that may play, and of them the likeliest to be a broadcast.
Ready(seen) == {c \in DOMAIN seen : seen[c] \in Strong /\ cool[c] = 0}
Rank(seen, c) == CASE seen[c] = "voice" -> 0 [] name[c] = None -> 1 [] OTHER -> 2
Best(seen) == {c \in Ready(seen) : \A d \in Ready(seen) : Rank(seen, d) <= Rank(seen, c)}

\* A window sees past the edges of its band.
InWindow(seen) == [c \in Band[sweep.index] \cap DOMAIN seen |-> seen[c]]

Keeps(seen) ==
    LET heard == \E c \in Near(sweep.listen) \cap DOMAIN seen : seen[c] \in Strong
    IN  /\ sweep.listen # 0
        /\ heard \/ sweep.quiet < Fade
        /\ sweep' = [sweep EXCEPT !.surveyed = TRUE, !.quiet = IF heard THEN 0 ELSE @]

\* The station has faded, or there is none: the next one, or none.
MayChange(seen) ==
    sweep.listen # 0 =>
        /\ sweep.quiet >= Fade
        /\ \A c \in Near(sweep.listen) \cap DOMAIN seen : seen[c] \notin Strong

NotNoted(c) ==
    /\ sweep' = [sweep EXCEPT !.surveyed = TRUE, !.listen = c,
                              !.quiet = IF c \notin {0, sweep.listen} THEN 0 ELSE @]
    /\ cool' = cool

Chosen(c) ==
    /\ sweep' = [sweep EXCEPT !.surveyed = TRUE, !.listen = c,
                              !.quiet = IF c \notin {0, sweep.listen} THEN 0 ELSE @]
    /\ cool' = IF c \in {0, sweep.listen} THEN cool ELSE [cool EXCEPT ![c] = Cooldown]

\* A survey is of the window the radio was on, which may not be the sweep's.
AnyWindow(at) == TRUE

OfLiveWindow(at) == at = sweep.index

\* The log has the survey before the sweep decides; a change is applied.
OnCarriers(seen) ==
    LET logged == MarkListen(Recorded(seen), sweep)
    IN  \/ Keeps(seen) /\ rows' = logged /\ UNCHANGED <<cool, radioVars>>
        \/ /\ MayChange(seen)
           /\ \E c \in IF Best(seen) = {} THEN {0} ELSE Best(seen) :
                 /\ Chosen(c)
                 /\ \/ c = sweep.listen /\ rows' = logged /\ UNCHANGED radioVars
                    \/ c # sweep.listen /\ rows' = MarkListen(logged, sweep') /\ Apply(Current(sweep'))

\* A survey reaches the controller; it is dropped unless the sweep is live.
Survey ==
    /\ fresh /\ fresh' = FALSE
    /\ \E seen \in [Sees[radio.at] -> Level] :
          IF hf = "live" /\ OfLiveWindow(radio.at)
          THEN OnCarriers(InWindow(seen))
          ELSE UNCHANGED <<sweep, cool, rows, radioVars>>
    /\ UNCHANGED <<hf, name>>

\* A stay ends: the next one counts from now.
Ended(s) == [s EXCEPT !.age = 0, !.surveyed = FALSE]
Next1(s) == [Ended(s) EXCEPT !.listen = 0, !.index = (@ % Windows) + 1]

\* Nothing playable for a while, and a survey said so.
Dead(s) ==
    /\ s.surveyed /\ s.listen = 0
    /\ s.age >= Empty /\ s.quiet >= Empty

\* As if a station kept its window.
DeadOnly(s) == Dead(s)

Over(s) == s.age >= Window \/ Dead(s)

Aged(s) == [s EXCEPT !.age = IF @ < Window THEN @ + 1 ELSE @,
                     !.quiet = IF @ < Fade \/ @ < Empty THEN @ + 1 ELSE @]

\* A second of the controller's timer, which a paused sweep does not have.
Tick ==
    /\ cool' = [c \in Channel |-> IF cool[c] > 0 THEN cool[c] - 1 ELSE 0]
    /\ fresh' = (radio.at # 0)
    /\ IF hf = "live" /\ Over(Aged(sweep))
       THEN sweep' = Next1(Aged(sweep)) /\ Apply(Current(sweep'))
       ELSE sweep' = Aged(sweep) /\ UNCHANGED radioVars
    /\ UNCHANGED <<hf, name, rows>>

Skip ==
    /\ hf = "live"
    /\ sweep' = Next1(sweep) /\ Apply(Current(sweep'))
    /\ UNCHANGED <<hf, cool, fresh, name, rows>>

\* The operator enters the mode, again or anew, and leaves it.
Start ==
    /\ hf' = "live" /\ sweep' = First /\ cool' = Fresh
    /\ Retune(Current(First))
    /\ UNCHANGED <<fresh, name, rows>>

Stop ==
    /\ hf # "off"
    /\ hf' = "off" /\ Retune(Away)
    /\ UNCHANGED <<sweep, cool, fresh, name, rows>>

\* A break-in takes the radio, and gives it back to the same window.
Pause ==
    /\ hf = "live"
    /\ hf' = "paused" /\ sweep' = Ended(sweep) /\ Retune(Away)
    /\ UNCHANGED <<cool, fresh, name, rows>>

Resumed(s) == [Ended(s) EXCEPT !.quiet = 0]

Resume ==
    /\ hf = "paused"
    /\ hf' = "live" /\ sweep' = Resumed(sweep) /\ Retune(Current(sweep))
    /\ UNCHANGED <<cool, fresh, name, rows>>

-----------------------------------------------------------------------------
(* Outside. *)

\* A slot of the schedules begins or ends, or they are fetched again.
SlotTurns ==
    /\ \E c \in Listed, n \in Name \cup {None} : name' = [name EXCEPT ![c] = n]
    /\ UNCHANGED <<hf, sweep, cool, radioVars, fresh, rows>>

\* A listening night runs from noon to noon.
Noon ==
    /\ rows' = [c \in Channel |-> << >>]
    /\ UNCHANGED <<hf, sweep, cool, radioVars, fresh, name>>

Next ==
    \/ Tuned \/ HelperDies \/ HelperBack \/ EngineStop \/ EngineStart
    \/ Survey \/ Tick \/ Skip \/ Start \/ Stop \/ Pause \/ Resume
    \/ SlotTurns \/ Noon

\* The timer fires; the helper obeys its tunes.
Spec == Init /\ [][Next]_vars /\ WF_vars(Tick) /\ WF_vars(Tuned)

-----------------------------------------------------------------------------
(* Properties. *)

TypeOK ==
    /\ hf \in {"off", "live", "paused"}
    /\ sweep \in [index : 1 .. Windows, listen : Channel \cup {0}, age : 0 .. Window,
                  quiet : Nat, surveyed : BOOLEAN]
    /\ cool \in [Channel -> 0 .. Cooldown]
    /\ engine \in {"running", "stopped"} /\ helper \in BOOLEAN /\ fresh \in BOOLEAN
    /\ {aim, radio} \subseteq [at : 0 .. Windows, listen : Channel \cup {0}]
    /\ asked \in Seq([at : 0 .. Windows, listen : Channel \cup {0}])
    /\ name \in Schedules
    /\ rows \in [Channel -> Seq([station : Name \cup {None}, played : BOOLEAN])]

\* Through dying helpers, tunes still on their way and surveys of windows the
\* sweep has left: a station is only ever on the speaker in a window that sees
\* it and whose band it is in, and while the engine runs it is told what the
\* sweep decided last.
Audible(t) == t.listen # 0 => t.listen \in Sees[t.at] \cap Band[t.at]
SpeakerFollowsSweep ==
    /\ \A t \in Range(asked) \cup {aim, radio} : Audible(t)
    /\ hf = "live" /\ engine = "running" => aim = Current(sweep)
    /\ helper => (IF asked = << >> THEN radio ELSE Last(asked)) = aim

\* One row per station and night, and the row heard last of what is on the
\* speaker says it was: a row that appears while its station plays (a schedule
\* slot turns over, noon) was on the speaker too.
LogSound ==
    /\ \A c \in Channel : \A i, j \in DOMAIN rows[c] :
          rows[c][i].station = rows[c][j].station => i = j
    /\ hf = "live" /\ sweep.listen # 0 /\ rows[sweep.listen] # << >>
          => Last(rows[sweep.listen]).played

\* The radio plays, and the log says, what the sweep decided.
StationSound == SpeakerFollowsSweep /\ LogSound

\* Once played, a station does not play again until its cooldown is over, in
\* whichever window sees it; only entering the mode anew forgets.
Plays(c) == sweep'.listen = c /\ (sweep.listen # c \/ sweep'.index # sweep.index)
CooldownKept ==
    [][\A c \in Channel : Plays(c) => cool[c] = 0 /\ cool'[c] = Cooldown]_vars

\* Left alone by break-ins and by the operator, the sweep goes round for ever.
SweepGoesRound ==
    \A w \in 1 .. Windows : []<>(sweep.index = w) \/ []<>(hf # "live") \/ []<><<Start>>_vars
=============================================================================
