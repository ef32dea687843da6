--------------------------- MODULE ShortwaveProofs ---------------------------
(***************************************************************************)
(* Proofs about the shortwave sweep, for any windows, bands, schedules and  *)
(* times: what plays is what the sweep decided and is logged as played, and *)
(* nothing plays again before its cooldown is over; and a listed slot is on *)
(* the air when its hours, its dates and its day of the week say so.        *)
(***************************************************************************)
EXTENDS ShortwaveSweep, ShortwaveSchedules, SequenceTheorems, TLAPS

Tune == [at : 0 .. Windows, listen : Channel \cup {0}]
Row == [station : Name \cup {None}, played : BOOLEAN]
Turn == [index : 1 .. Windows, listen : Channel \cup {0}, age : Nat, quiet : Nat, surveyed : BOOLEAN]

\* Types, as far as the proofs need them.
SweepTypes ==
    /\ hf \in {"off", "live", "paused"} /\ sweep \in Turn /\ cool \in [Channel -> Nat]
    /\ name \in [Channel -> Name \cup {None}] /\ rows \in [Channel -> Seq(Row)]
EngineTypes ==
    /\ engine \in {"running", "stopped"} /\ helper \in BOOLEAN
    /\ aim \in Tune /\ radio \in Tune /\ asked \in Seq(Tune)

\* What plays, or will when the tunes under way have been obeyed, may play where it does;
\* no tune is under way to a helper that is not there; the last one is the engine's aim.
TunesRight ==
    /\ Audible(aim) /\ Audible(radio) /\ \A i \in 1 .. Len(asked) : Audible(asked[i])
    /\ ~helper => asked = << >>
    /\ engine = "stopped" => ~helper
    /\ helper => (IF asked = << >> THEN radio ELSE asked[Len(asked)]) = aim

\* What the sweep decided may play in its window, and is what a running engine aims at.
SweepRight ==
    /\ Audible(Current(sweep))
    /\ hf = "live" /\ engine = "running" => aim = Current(sweep)

\* One row per station, and the last row of what the sweep plays was on the speaker,
\* in a break-in and after the sweep has ended too.
Distinct(log) == \A i, j \in DOMAIN log : log[i].station = log[j].station => i = j
LogRight ==
    /\ \A c \in Channel : Distinct(rows[c])
    /\ sweep.listen # 0 /\ rows[sweep.listen] # << >>
          => rows[sweep.listen][Len(rows[sweep.listen])].played

SweepInv == SweepTypes /\ EngineTypes /\ TunesRight /\ SweepRight /\ LogRight

-----------------------------------------------------------------------------
(* The reception log. *)

\* A row taken out of its place and put at the end.
LEMMA ToTheEnd ==
    ASSUME NEW log \in Seq(Row), Distinct(log), NEW i \in 1 .. Len(log)
    PROVE  LET new == Append(RemoveAt(log, i), log[i])
           IN  new \in Seq(Row) /\ Distinct(new) /\ new # << >>
<1> DEFINE n == Len(log)
<1> DEFINE a == SubSeq(log, 1, i - 1)
<1> DEFINE b == SubSeq(log, i + 1, n)
<1> DEFINE new == Append(RemoveAt(log, i), log[i])
<1>1. n \in Nat /\ i \in Nat /\ i >= 1 /\ i <= n /\ log[i] \in Row
    OBVIOUS
<1>2. a \in Seq(Row) /\ Len(a) = i - 1 /\ \A k \in 1 .. (i - 1) : a[k] = log[k]
    <2>1. 1 \in 1 .. n + 1 /\ i - 1 \in 1 - 1 .. n /\ \A k \in 1 .. (i - 1) : 1 + k - 1 = k
        BY <1>1
    <2> QED BY <1>1, <2>1, SubSeqProperties
<1>3. b \in Seq(Row) /\ Len(b) = n - i /\ \A k \in 1 .. (n - i) : b[k] = log[i + k]
    <2>1. i + 1 \in 1 .. n + 1 /\ n \in (i + 1) - 1 .. n
          /\ \A k \in 1 .. (n - i) : (i + 1) + k - 1 = i + k
        BY <1>1
    <2> QED BY <1>1, <2>1, SubSeqProperties
<1>4. new = Append(a \o b, log[i])
    BY DEF RemoveAt
<1> HIDE DEF a, b, n, new
<1>10. a \o b \in Seq(Row) /\ Len(a \o b) = n - 1
    <2>1. a \o b \in Seq(Row) /\ Len(a \o b) = Len(a) + Len(b)
        BY <1>2, <1>3, ConcatProperties
    <2>2. (i - 1) + (n - i) = n - 1
        BY <1>1
    <2> QED BY <1>2, <1>3, <2>1, <2>2
<1>5. new \in Seq(Row) /\ Len(new) = n
    BY <1>1, <1>4, <1>10
<1> DEFINE from == [k \in 1 .. n |-> IF k < i THEN k ELSE IF k < n THEN k + 1 ELSE i]
<1>6. \A k \in 1 .. n : from[k] \in 1 .. n /\ new[k] = log[from[k]]
    <2> TAKE k \in 1 .. n
    <2>1. CASE k < i
        BY <1>1, <1>2, <1>3, <1>4, <2>1
    <2>2. CASE k >= i /\ k < n
        <3>1. k - (i - 1) \in 1 .. (n - i) /\ i + (k - (i - 1)) = k + 1
            BY <1>1, <2>2
        <3>2. new[k] = b[k - (i - 1)]
            BY <1>1, <1>2, <1>3, <1>4, <2>2, SMTT(30)
        <3> QED BY <1>1, <1>3, <2>2, <3>1, <3>2
    <2>3. CASE k = n
        BY <1>1, <1>2, <1>3, <1>4, <2>3
    <2> QED BY <1>1, <2>1, <2>2, <2>3
<1>7. \A k, l \in 1 .. n : from[k] = from[l] => k = l
    BY <1>1
<1> HIDE DEF from
<1>8. Distinct(new)
    <2>1. DOMAIN new = 1 .. n /\ DOMAIN log = 1 .. n
        BY <1>1, <1>5 DEF n
    <2> QED BY <1>6, <1>7, <2>1 DEF Distinct
<1>9. new # << >>
    BY <1>1, <1>5
<1> QED BY <1>5, <1>8, <1>9 DEF new

\* A sighting keeps one row per station.
LEMMA HeardKeeps ==
    ASSUME NEW log \in Seq(Row), Distinct(log), NEW station \in Name \cup {None}, NEW named \in BOOLEAN
    PROVE  Heard(log, station, named) \in Seq(Row) /\ Distinct(Heard(log, station, named))
<1> DEFINE mine == RowOf(log, station, named)
<1>1. mine = {i \in 1 .. Len(log) : named => log[i].station = station} /\ Len(log) \in Nat
    BY DEF RowOf
<1>2. CASE mine = {}
    <2> DEFINE row == [station |-> IF named THEN station ELSE None, played |-> FALSE]
    <2>1. row \in Row /\ row.station = IF named THEN station ELSE None
        BY DEF Row
    <2>2. Heard(log, station, named) = Append(log, row)
        BY <1>2 DEF Heard
    <2>3. \A i \in 1 .. Len(log) : log[i].station # row.station
        <3>1. CASE named
            BY <1>1, <1>2, <2>1, <3>1
        <3>2. CASE ~named
            BY <1>1, <1>2, <3>2
        <3> QED BY <3>1, <3>2
    <2> HIDE DEF row
    <2>4. Append(log, row) \in Seq(Row) /\ Len(Append(log, row)) = Len(log) + 1
          /\ Append(log, row)[Len(log) + 1] = row /\ \A i \in 1 .. Len(log) : Append(log, row)[i] = log[i]
        BY <1>1, <2>1
    <2>5. Distinct(Append(log, row))
        <3>1. DOMAIN Append(log, row) = 1 .. Len(log) + 1 /\ DOMAIN log = 1 .. Len(log)
            BY <2>4
        <3>2. \A i \in 1 .. Len(log) + 1 : i \in 1 .. Len(log) \/ i = Len(log) + 1
            BY <1>1
        <3> QED BY <2>3, <2>4, <3>1, <3>2 DEF Distinct
    <2> QED BY <2>2, <2>4, <2>5
<1>3. CASE mine # {}
    <2>1. \E i \in mine : \A j \in mine : i >= j
        <3>1. CASE named
            <4>1. PICK i \in mine : TRUE
                BY <1>3
            <4>2. \A j \in mine : j = i
                BY <1>1, <3>1, <4>1 DEF Distinct
            <4> QED BY <1>1, <4>1, <4>2
        <3>2. CASE ~named
            <4>1. mine = 1 .. Len(log)
                BY <1>1, <3>2
            <4>2. Len(log) \in mine
                BY <1>1, <1>3, <4>1
            <4> QED BY <1>1, <4>1, <4>2
        <3> QED BY <3>1, <3>2
    <2>2. Max(mine) \in mine
        BY <2>1, Zenon DEF Max
    <2>3. PICK i \in 1 .. Len(log) : i = Max(mine)
        BY <1>1, <2>2
    <2>4. Heard(log, station, named) = Append(RemoveAt(log, i), log[i])
        BY <1>3, <2>3 DEF Heard
    <2> QED BY <2>4, ToTheEnd
<1> QED BY <1>2, <1>3

\* So does marking the row heard last.
LEMMA MarkedKeeps ==
    ASSUME NEW log \in Seq(Row), Distinct(log)
    PROVE  /\ Marked(log) \in Seq(Row) /\ Distinct(Marked(log))
           /\ Marked(log) # << >> => Marked(log)[Len(Marked(log))].played
<1>1. CASE log = << >>
    BY <1>1 DEF Marked
<1>2. CASE log # << >>
    <2> DEFINE n == Len(log)
    <2>1. n \in Nat \ {0} /\ log[n] \in Row /\ log \in [1 .. n -> Row]
        BY <1>2
    <2>2. Marked(log) = [log EXCEPT ![n] = [log[n] EXCEPT !.played = TRUE]]
        BY <1>2 DEF Marked
    <2>8. PICK last \in Row : last = log[n]
        BY <2>1
    <2>9. [last EXCEPT !.played = TRUE] \in Row
        BY DEF Row
    <2>3. PICK row \in Row : row = [log[n] EXCEPT !.played = TRUE] /\ row.station = log[n].station /\ row.played = TRUE
        BY <2>8, <2>9 DEF Row
    <2>4. Marked(log) = [log EXCEPT ![n] = row]
        BY <2>2, <2>3
    <2> HIDE DEF n
    <2>10. n \in 1 .. n
        BY <2>1
    <2>5. Marked(log) \in [1 .. n -> Row] /\ Marked(log)[n] = row
          /\ \A i \in 1 .. n : Marked(log)[i].station = log[i].station
        BY <2>1, <2>3, <2>4, <2>10
    <2>6. Marked(log) \in Seq(Row) /\ Len(Marked(log)) = n
        BY <2>1, <2>5
    <2>11. DOMAIN Marked(log) = 1 .. n /\ DOMAIN log = 1 .. n
        BY <2>1, <2>5
    <2>7. Distinct(Marked(log))
        BY <2>5, <2>11 DEF Distinct
    <2> QED BY <2>3, <2>5, <2>6, <2>7
<1> QED BY <1>1, <1>2

\* One survey keeps one row per station in every log.
LEMMA RecordedKeeps ==
    ASSUME NEW seen, name \in [Channel -> Name \cup {None}], rows \in [Channel -> Seq(Row)],
           \A c \in Channel : Distinct(rows[c])
    PROVE  /\ Recorded(seen) \in [Channel -> Seq(Row)]
           /\ \A c \in Channel : Distinct(Recorded(seen)[c])
<1> SUFFICES ASSUME NEW c \in Channel
             PROVE  Recorded(seen)[c] \in Seq(Row) /\ Distinct(Recorded(seen)[c])
    BY DEF Recorded
<1>1. Recorded(seen)[c] = IF c \in DOMAIN seen /\ seen[c] # "nothing"
                          THEN Heard(rows[c], name[c], seen[c] \in HasCarrier) ELSE rows[c]
    BY DEF Recorded
<1>2. PICK named \in BOOLEAN : named = (seen[c] \in HasCarrier)
    <2>1. (seen[c] \in HasCarrier) \in BOOLEAN
        OBVIOUS
    <2> QED BY <2>1, Zenon
<1>3. Heard(rows[c], name[c], named) \in Seq(Row) /\ Distinct(Heard(rows[c], name[c], named))
    BY HeardKeeps
<1> QED BY <1>1, <1>2, <1>3

\* What is listened to is marked in its log; the logs of the others stay.
LEMMA ListenMarked ==
    ASSUME NEW all \in [Channel -> Seq(Row)], \A c \in Channel : Distinct(all[c]), NEW s \in Turn
    PROVE  LET new == MarkListen(all, s)
           IN  /\ new \in [Channel -> Seq(Row)]
               /\ \A c \in Channel : Distinct(new[c])
               /\ s.listen # 0 /\ new[s.listen] # << >> => new[s.listen][Len(new[s.listen])].played
<1>1. CASE s.listen = 0
    BY <1>1 DEF MarkListen
<1>2. CASE s.listen # 0
    <2>1. s.listen \in Channel
        BY <1>2 DEF Turn
    <2>2. PICK l \in Channel : l = s.listen
        BY <2>1
    <2>3. MarkListen(all, s) = [all EXCEPT ![l] = Marked(all[l])]
        BY <1>2, <2>2 DEF MarkListen
    <2>4. /\ Marked(all[l]) \in Seq(Row) /\ Distinct(Marked(all[l]))
          /\ Marked(all[l]) # << >> => Marked(all[l])[Len(Marked(all[l]))].played
        BY MarkedKeeps
    <2> QED BY <2>2, <2>3, <2>4
<1> QED BY <1>1, <1>2

-----------------------------------------------------------------------------
(* The engine. *)

\* A tune that may be heard where it goes is aimed at and written last.
LEMMA RetuneKeeps ==
    ASSUME EngineTypes, TunesRight, NEW t \in Tune, Audible(t), Retune(t)
    PROVE  EngineTypes' /\ TunesRight' /\ engine' = "running" /\ aim' = t
<1>1. /\ engine' = "running" /\ aim' = t /\ helper' = helper /\ radio' = radio
      /\ (helper /\ asked' = Append(asked, t)) \/ (~helper /\ asked' = asked)
    BY DEF Retune
<1>2. asked \in Seq(Tune)
    BY DEF EngineTypes
<1>3. CASE helper /\ asked' = Append(asked, t)
    <2>1. /\ asked' \in Seq(Tune) /\ Len(asked') = Len(asked) + 1 /\ asked'[Len(asked')] = t
          /\ asked' # << >> /\ Len(asked) \in Nat /\ \A i \in 1 .. Len(asked) : asked'[i] = asked[i]
        BY <1>2, <1>3
    <2>2. \A i \in 1 .. Len(asked') : i \in 1 .. Len(asked) \/ i = Len(asked')
        BY <2>1
    <2>3. \A i \in 1 .. Len(asked') : Audible(asked'[i])
        BY <2>1, <2>2 DEF TunesRight
    <2>4. EngineTypes'
        BY <1>1, <2>1 DEF EngineTypes
    <2>5. TunesRight'
        BY <1>1, <1>3, <2>1, <2>3 DEF TunesRight, Audible
    <2> QED BY <1>1, <2>4, <2>5
<1>4. CASE ~helper /\ asked' = asked
    BY <1>1, <1>4 DEF EngineTypes, TunesRight, Audible
<1> QED BY <1>1, <1>3, <1>4

LEMMA ApplyKeeps ==
    ASSUME EngineTypes, TunesRight, NEW t \in Tune, Audible(t), Apply(t)
    PROVE  EngineTypes' /\ TunesRight' /\ engine' = engine /\ (engine = "running" => aim' = t)
<1>1. CASE engine = "running"
    BY <1>1, RetuneKeeps DEF Apply
<1>2. CASE engine # "running"
    <2>1. UNCHANGED <<engine, aim, helper, asked, radio>>
        BY <1>2 DEF Apply, radioVars
    <2> QED BY <1>2, <2>1 DEF EngineTypes, TunesRight, Audible
<1> QED BY <1>1, <1>2

\* The helper obeys the oldest tune.
LEMMA TunedKeeps ==
    ASSUME SweepInv, Tuned
    PROVE  SweepInv'
<1>1. /\ asked # << >> /\ radio' = Head(asked) /\ asked' = Tail(asked)
      /\ UNCHANGED <<hf, sweep, cool, engine, aim, helper, name, rows>>
    BY DEF Tuned
<1>2. /\ asked \in Seq(Tune) /\ helper /\ asked[Len(asked)] = aim /\ \A i \in 1 .. Len(asked) : Audible(asked[i])
      /\ helper \in BOOLEAN
    BY <1>1 DEF SweepInv, EngineTypes, TunesRight
<1>3. /\ asked' \in Seq(Tune) /\ radio' \in Tune /\ radio' = asked[1] /\ 1 \in 1 .. Len(asked)
      /\ Len(asked') = Len(asked) - 1 /\ Len(asked) \in Nat /\ \A i \in 1 .. Len(asked') : asked'[i] = asked[i + 1]
    BY <1>1, <1>2
<1>4. \A i \in 1 .. Len(asked') : i + 1 \in 1 .. Len(asked)
    BY <1>3
<1>5. (IF asked' = << >> THEN radio' ELSE asked'[Len(asked')]) = aim
    <2>1. CASE Len(asked') = 0
        <3>1. asked' = << >> /\ Len(asked) = 1
            BY <1>3, <2>1
        <3> QED BY <1>2, <1>3, <3>1
    <2>2. CASE Len(asked') # 0
        <3>1. Len(asked') \in 1 .. Len(asked') /\ Len(asked') + 1 = Len(asked) /\ asked' # << >>
            BY <1>3, <2>2
        <3> QED BY <1>2, <1>3, <3>1
    <2> QED BY <2>1, <2>2
<1>6. TunesRight'
    BY <1>1, <1>2, <1>3, <1>4, <1>5 DEF SweepInv, TunesRight, Audible
<1>7. EngineTypes' /\ SweepTypes' /\ SweepRight' /\ LogRight'
    BY <1>1, <1>3 DEF SweepInv, EngineTypes, SweepTypes, SweepRight, LogRight, Distinct, Audible, Current
<1> QED BY <1>6, <1>7 DEF SweepInv

\* It dies, comes back at the engine's aim; the operator stops the engine and starts it.
LEMMA EngineKeeps ==
    ASSUME SweepInv, HelperDies \/ HelperBack \/ EngineStop \/ EngineStart
    PROVE  SweepInv'
<1>1. UNCHANGED <<hf, sweep, cool, name, rows>>
    BY DEF HelperDies, HelperBack, EngineStop, EngineStart
<1>2. Away \in Tune /\ Audible(Away)
    BY SweepAssumption DEF Away, Tune, Audible
<1>3. SweepTypes' /\ LogRight' /\ EngineTypes /\ TunesRight
    BY <1>1 DEF SweepInv, SweepTypes, LogRight, Distinct
<1>4. Current(sweep) \in Tune /\ Audible(Current(sweep))
    <2>1. sweep.index \in 0 .. Windows /\ sweep.listen \in Channel \cup {0}
        BY SweepAssumption DEF SweepInv, SweepTypes, Turn
    <2> QED BY <2>1 DEF SweepInv, SweepRight, Current, Tune
<1>5. CASE HelperDies
    <2>1. /\ helper' = FALSE /\ asked' = << >> /\ radio' = Away /\ aim' = aim
          /\ (engine' = engine \/ engine' = "stopped")
        BY <1>5 DEF HelperDies
    <2>2. EngineTypes' /\ TunesRight'
        <3>1. asked' \in Seq(Tune) /\ Len(asked') = 0 /\ 1 .. Len(asked') = {}
            BY <2>1
        <3>2. EngineTypes'
            BY <1>2, <1>3, <2>1, <3>1 DEF EngineTypes
        <3>3. Audible(aim') /\ Audible(radio')
            BY <1>2, <1>3, <2>1 DEF TunesRight
        <3> QED BY <2>1, <3>1, <3>2, <3>3 DEF TunesRight, Audible
    <2>3. SweepRight'
        BY <1>1, <1>4, <2>1 DEF SweepInv, SweepRight, Audible, Current
    <2> QED BY <1>3, <2>2, <2>3 DEF SweepInv
<1>6. CASE HelperBack
    BY <1>1, <1>3, <1>6 DEF HelperBack, EngineTypes, TunesRight, SweepInv, SweepRight, Audible, Current
<1>7. CASE EngineStop
    <2>1. /\ helper' = FALSE /\ asked' = << >> /\ radio' = Away /\ aim' = aim
          /\ (engine' = engine \/ engine' = "stopped")
        BY <1>7 DEF EngineStop
    <2>2. EngineTypes' /\ TunesRight'
        <3>1. asked' \in Seq(Tune) /\ Len(asked') = 0 /\ 1 .. Len(asked') = {}
            BY <2>1
        <3>2. EngineTypes'
            BY <1>2, <1>3, <2>1, <3>1 DEF EngineTypes
        <3>3. Audible(aim') /\ Audible(radio')
            BY <1>2, <1>3, <2>1 DEF TunesRight
        <3> QED BY <2>1, <3>1, <3>2, <3>3 DEF TunesRight, Audible
    <2>3. SweepRight'
        BY <1>1, <1>4, <2>1 DEF SweepInv, SweepRight, Audible, Current
    <2> QED BY <1>3, <2>2, <2>3 DEF SweepInv
<1>8. CASE EngineStart
    <2>1. Wanted \in Tune /\ Audible(Wanted) /\ (hf = "live" => Wanted = Current(sweep))
        BY <1>2, <1>4 DEF Wanted
    <2>2. engine' = "running" /\ aim' = Wanted /\ ~helper /\ helper' = helper /\ asked' = asked /\ radio' = radio
        BY <1>3, <1>8 DEF EngineStart, TunesRight
    <2>3. TunesRight' /\ EngineTypes'
        BY <1>3, <2>1, <2>2 DEF TunesRight, EngineTypes, Audible
    <2>4. SweepRight'
        BY <1>1, <1>4, <2>1, <2>2 DEF SweepRight, Audible, Current
    <2> QED BY <1>3, <2>3, <2>4 DEF SweepInv
<1> QED BY <1>5, <1>6, <1>7, <1>8

-----------------------------------------------------------------------------
(* The sweep. *)

\* Numbers of ticks are what they are called.
LEMMA SweepTimes ==
    /\ Window \in Nat /\ Empty \in Nat /\ Fade \in Nat /\ Cooldown \in Nat /\ Windows \in Nat \ {0}
    /\ 1 \in 1 .. Windows /\ 0 \notin Channel /\ \A w \in 1 .. Windows : Sees[w] \subseteq Channel
BY SweepAssumption DEF Channel

\* What the sweep decides is a tune.
LEMMA CurrentIsTune ==
    ASSUME NEW s \in Turn
    PROVE  Current(s) \in Tune
BY SweepTimes DEF Turn, Current, Tune

\* The next window, heard by nobody yet; its stay begins.
LEMMA NextWindow ==
    ASSUME NEW s \in Turn
    PROVE  Next1(s) \in Turn /\ Next1(s).listen = 0 /\ Audible(Current(Next1(s)))
<1>1. PICK n \in Nat \ {0} : n = Windows
    BY SweepTimes
<1>2. PICK i \in Nat : i = s.index
    BY SweepTimes DEF Turn
<1>3. (i % n) + 1 \in 1 .. n
    <2>1. i % n \in 0 .. (n - 1)
        OBVIOUS
    <2> QED BY <2>1
<1>4. PICK j \in 1 .. Windows : j = (s.index % Windows) + 1
    BY <1>1, <1>2, <1>3
<1>5. [s EXCEPT !.age = 0, !.surveyed = FALSE] \in Turn
    BY DEF Turn
<1>6. PICK e \in Turn : e = Ended(s) /\ e.index = s.index
    BY <1>5 DEF Ended, Turn
<1>7. Next1(s) = [e EXCEPT !.listen = 0, !.index = j]
    BY <1>4, <1>6 DEF Next1
<1>8. Next1(s) \in Turn /\ Next1(s).listen = 0
    BY <1>7 DEF Turn
<1> QED BY <1>8 DEF Audible, Current

\* A stay that goes on, or ends and begins again, plays what it played.
LEMMA SameStation ==
    ASSUME NEW s \in Turn
    PROVE  /\ Aged(s) \in Turn /\ Aged(s).index = s.index /\ Aged(s).listen = s.listen
           /\ Ended(s) \in Turn /\ Ended(s).index = s.index /\ Ended(s).listen = s.listen
           /\ Resumed(s) \in Turn /\ Resumed(s).index = s.index /\ Resumed(s).listen = s.listen
           /\ First \in Turn /\ First.listen = 0
<1>1. First \in Turn /\ First.listen = 0
    BY SweepTimes DEF First, Turn
<1>2. Ended(s) \in Turn /\ Ended(s).index = s.index /\ Ended(s).listen = s.listen
    BY DEF Ended, Turn
<1>3. Resumed(s) \in Turn /\ Resumed(s).index = s.index /\ Resumed(s).listen = s.listen
    BY <1>2 DEF Resumed, Turn
<1>4. Aged(s) \in Turn /\ Aged(s).index = s.index /\ Aged(s).listen = s.listen
    <2>1. PICK a \in Nat : a = IF s.age < Window THEN s.age + 1 ELSE s.age
        BY SweepTimes DEF Turn
    <2>2. PICK q \in Nat : q = IF s.quiet < Fade \/ s.quiet < Empty THEN s.quiet + 1 ELSE s.quiet
        BY SweepTimes DEF Turn
    <2>3. Aged(s) = [s EXCEPT !.age = a, !.quiet = q]
        BY <2>1, <2>2 DEF Aged
    <2> QED BY <2>3 DEF Turn
<1> QED BY <1>1, <1>2, <1>3, <1>4

\* The controller goes on with what it plays, or ends its window, or stops and starts;
\* no log changes.
LEMMA WindowKeeps ==
    ASSUME SweepInv, NEW s \in Turn, sweep' = s, Audible(Current(s)), rows' = rows, name' = name,
           s.listen = 0 \/ s.listen = sweep.listen,
           hf' \in {"off", "live", "paused"}, cool' \in [Channel -> Nat],
           EngineTypes', TunesRight', hf' = "live" /\ engine' = "running" => aim' = Current(s)
    PROVE  SweepInv'
<1>1. SweepTypes'
    BY DEF SweepInv, SweepTypes
<1>2. SweepRight'
    BY DEF SweepRight, Audible, Current
<1>3. LogRight'
    BY DEF SweepInv, LogRight, Distinct
<1> QED BY <1>1, <1>2, <1>3 DEF SweepInv

LEMMA ControllerKeeps ==
    ASSUME SweepInv, Tick \/ Skip \/ Start \/ Stop \/ Pause \/ Resume
    PROVE  SweepInv'
<1>1. /\ SweepTypes /\ EngineTypes /\ TunesRight /\ SweepRight /\ sweep \in Turn /\ cool \in [Channel -> Nat]
      /\ hf \in {"off", "live", "paused"}
    BY DEF SweepInv, SweepTypes
<1>2. /\ Aged(sweep) \in Turn /\ Aged(sweep).index = sweep.index /\ Aged(sweep).listen = sweep.listen
      /\ Ended(sweep) \in Turn /\ Ended(sweep).index = sweep.index /\ Ended(sweep).listen = sweep.listen
      /\ Resumed(sweep) \in Turn /\ Resumed(sweep).index = sweep.index /\ Resumed(sweep).listen = sweep.listen
      /\ First \in Turn /\ First.listen = 0
    BY <1>1, SameStation
<1>3. /\ Current(Aged(sweep)) = Current(sweep) /\ Current(Ended(sweep)) = Current(sweep)
      /\ Current(Resumed(sweep)) = Current(sweep)
    BY <1>2 DEF Current
<1>4. Audible(Current(sweep)) /\ Audible(Current(First)) /\ Audible(Away) /\ Away \in Tune
    BY <1>1, <1>2, SweepTimes DEF SweepRight, Audible, Current, Away, Tune
<1>5. CASE Tick
    <2>1. cool' \in [Channel -> Nat]
        <3>1. \A c \in Channel : (IF cool[c] > 0 THEN cool[c] - 1 ELSE 0) \in Nat
            BY <1>1
        <3> QED BY <1>5, <3>1 DEF Tick
    <2>2. hf' = hf /\ name' = name /\ rows' = rows
        BY <1>5 DEF Tick
    <2>3. CASE hf = "live" /\ Over(Aged(sweep))
        <3>1. PICK s \in Turn : s = Next1(Aged(sweep)) /\ s.listen = 0 /\ Audible(Current(s)) /\ Current(s) \in Tune
            BY <1>2, NextWindow, CurrentIsTune
        <3>2. sweep' = s /\ Apply(Current(s))
            BY <1>5, <2>3, <3>1 DEF Tick
        <3>3. EngineTypes' /\ TunesRight' /\ (engine' = "running" => aim' = Current(s))
            BY <1>1, <3>1, <3>2, ApplyKeeps
        <3> QED BY <1>1, <2>1, <2>2, <3>1, <3>2, <3>3, WindowKeeps
    <2>4. CASE ~(hf = "live" /\ Over(Aged(sweep)))
        <3>1. sweep' = Aged(sweep) /\ UNCHANGED <<engine, aim, helper, asked, radio>>
            BY <1>5, <2>4 DEF Tick, radioVars
        <3>2. EngineTypes' /\ TunesRight'
            BY <1>1, <3>1 DEF EngineTypes, TunesRight, Audible
        <3>3. hf' = "live" /\ engine' = "running" => aim' = Current(Aged(sweep))
            BY <1>1, <1>3, <2>2, <3>1 DEF SweepRight
        <3> QED BY <1>1, <1>2, <1>3, <1>4, <2>1, <2>2, <3>1, <3>2, <3>3, WindowKeeps
    <2> QED BY <2>3, <2>4
<1>6. CASE Skip
    <2>1. PICK s \in Turn : s = Next1(sweep) /\ s.listen = 0 /\ Audible(Current(s)) /\ Current(s) \in Tune
        BY <1>1, NextWindow, CurrentIsTune
    <2>2. sweep' = s /\ Apply(Current(s)) /\ hf' = hf /\ cool' = cool /\ name' = name /\ rows' = rows
        BY <1>6, <2>1 DEF Skip
    <2>3. EngineTypes' /\ TunesRight' /\ (engine' = "running" => aim' = Current(s))
        BY <1>1, <2>1, <2>2, ApplyKeeps
    <2> QED BY <1>1, <2>1, <2>2, <2>3, WindowKeeps
<1>7. CASE Start
    <2>1. sweep' = First /\ Retune(Current(First)) /\ hf' = "live" /\ cool' = Fresh /\ name' = name /\ rows' = rows
        BY <1>7 DEF Start
    <2>2. Current(First) \in Tune /\ cool' \in [Channel -> Nat]
        BY <1>2, <2>1, CurrentIsTune DEF Fresh
    <2>3. EngineTypes' /\ TunesRight' /\ aim' = Current(First)
        BY <1>1, <1>4, <2>1, <2>2, RetuneKeeps
    <2> QED BY <1>2, <1>4, <2>1, <2>2, <2>3, WindowKeeps
<1>8. CASE Stop
    <2>1. sweep' = sweep /\ Retune(Away) /\ hf' = "off" /\ cool' = cool /\ name' = name /\ rows' = rows
        BY <1>8 DEF Stop
    <2>2. EngineTypes' /\ TunesRight'
        BY <1>1, <1>4, <2>1, RetuneKeeps
    <2> QED BY <1>1, <1>4, <2>1, <2>2, WindowKeeps
<1>9. CASE Pause
    <2>1. sweep' = Ended(sweep) /\ Retune(Away) /\ hf' = "paused" /\ cool' = cool /\ name' = name /\ rows' = rows
        BY <1>9 DEF Pause
    <2>2. EngineTypes' /\ TunesRight'
        BY <1>1, <1>4, <2>1, RetuneKeeps
    <2> QED BY <1>1, <1>2, <1>3, <1>4, <2>1, <2>2, WindowKeeps
<1>10. CASE Resume
    <2>1. /\ sweep' = Resumed(sweep) /\ Retune(Current(sweep)) /\ hf' = "live" /\ cool' = cool
          /\ name' = name /\ rows' = rows
        BY <1>10 DEF Resume
    <2>2. Current(sweep) \in Tune
        BY <1>1, CurrentIsTune
    <2>3. EngineTypes' /\ TunesRight' /\ aim' = Current(sweep)
        BY <1>1, <1>4, <2>1, <2>2, RetuneKeeps
    <2> QED BY <1>1, <1>2, <1>3, <1>4, <2>1, <2>3, WindowKeeps
<1> QED BY <1>5, <1>6, <1>7, <1>8, <1>9, <1>10

\* What a survey of the live window chooses is of that window and band, and may play.
LEMMA ChosenRight ==
    ASSUME SweepInv, NEW seen, DOMAIN seen \subseteq Sees[sweep.index] \cap Band[sweep.index],
           NEW c, c \in IF Best(seen) = {} THEN {0} ELSE Best(seen), Chosen(c)
    PROVE  /\ sweep' \in Turn /\ sweep'.index = sweep.index /\ sweep'.listen = c /\ Audible(Current(sweep'))
           /\ cool' \in [Channel -> Nat]
           /\ c # 0 => c \in Channel /\ cool[c] = 0
           /\ c \notin {0, sweep.listen} => cool'[c] = Cooldown
<1>1. sweep \in Turn /\ sweep.index \in 1 .. Windows /\ cool \in [Channel -> Nat]
    BY DEF SweepInv, SweepTypes, Turn
<1>2. c # 0 => c \in DOMAIN seen /\ cool[c] = 0
    BY DEF Best, Ready
<1>3. c # 0 => c \in Sees[sweep.index] \cap Band[sweep.index] /\ c \in Channel
    BY <1>1, <1>2, SweepTimes
<1>4. PICK q \in Nat : q = IF c \notin {0, sweep.listen} THEN 0 ELSE sweep.quiet
    BY <1>1 DEF Turn
<1>5. sweep' = [sweep EXCEPT !.surveyed = TRUE, !.listen = c, !.quiet = q]
    BY <1>4 DEF Chosen
<1>6. c \in Channel \cup {0}
    BY <1>3
<1>7. sweep' \in Turn /\ sweep'.index = sweep.index /\ sweep'.listen = c
    BY <1>1, <1>5, <1>6 DEF Turn
<1>8. Audible(Current(sweep'))
    BY <1>3, <1>7 DEF Audible, Current
<1>9. cool' = IF c \in {0, sweep.listen} THEN cool ELSE [cool EXCEPT ![c] = Cooldown]
    BY DEF Chosen
<1>10. cool' \in [Channel -> Nat] /\ (c \notin {0, sweep.listen} => cool'[c] = Cooldown)
    BY <1>1, <1>3, <1>9, SweepTimes
<1> QED BY <1>2, <1>3, <1>7, <1>8, <1>10

LEMMA CarriersKeep ==
    ASSUME SweepInv, hf = "live", hf' = hf, name' = name, NEW seen,
           DOMAIN seen \subseteq Sees[sweep.index] \cap Band[sweep.index], OnCarriers(seen)
    PROVE  SweepInv'
<1>1. /\ SweepTypes /\ EngineTypes /\ TunesRight /\ SweepRight /\ sweep \in Turn /\ cool \in [Channel -> Nat]
      /\ name \in [Channel -> Name \cup {None}] /\ rows \in [Channel -> Seq(Row)]
      /\ \A c \in Channel : Distinct(rows[c])
    BY DEF SweepInv, SweepTypes, LogRight
<1> DEFINE all == Recorded(seen)
<1> DEFINE logged == MarkListen(all, sweep)
<1>2. all \in [Channel -> Seq(Row)] /\ \A c \in Channel : Distinct(all[c])
    BY <1>1, RecordedKeeps
<1> HIDE DEF all
<1>3. /\ logged \in [Channel -> Seq(Row)] /\ \A c \in Channel : Distinct(logged[c])
      /\ sweep.listen # 0 /\ logged[sweep.listen] # << >> => logged[sweep.listen][Len(logged[sweep.listen])].played
    BY <1>1, <1>2, ListenMarked
<1> HIDE DEF logged
<1>4. \/ Keeps(seen) /\ rows' = logged /\ UNCHANGED <<cool, radioVars>>
      \/ \E c \in IF Best(seen) = {} THEN {0} ELSE Best(seen) :
            /\ Chosen(c)
            /\ \/ c = sweep.listen /\ rows' = logged /\ UNCHANGED radioVars
               \/ c # sweep.listen /\ rows' = MarkListen(logged, sweep') /\ Apply(Current(sweep'))
    BY DEF OnCarriers, logged, all
\* The same station plays on.
<1>5. ASSUME sweep' \in Turn, sweep'.index = sweep.index, sweep'.listen = sweep.listen,
             cool' \in [Channel -> Nat], rows' = logged, UNCHANGED radioVars
      PROVE  SweepInv'
    <2>1. engine' = engine /\ aim' = aim /\ helper' = helper /\ asked' = asked /\ radio' = radio
        BY <1>5 DEF radioVars
    <2>2. EngineTypes' /\ TunesRight' /\ SweepTypes'
        BY <1>1, <1>3, <1>5, <2>1 DEF EngineTypes, TunesRight, Audible, SweepTypes
    <2>3. SweepRight'
        BY <1>1, <1>5, <2>1 DEF SweepRight, Audible, Current
    <2>4. LogRight'
        BY <1>3, <1>5 DEF LogRight, Distinct
    <2> QED BY <2>2, <2>3, <2>4 DEF SweepInv
<1>6. CASE Keeps(seen) /\ rows' = logged /\ UNCHANGED <<cool, radioVars>>
    <2>1. PICK q \in Nat : sweep' = [sweep EXCEPT !.surveyed = TRUE, !.quiet = q]
        BY ZenonT(60), <1>1, <1>6 DEF Keeps, Turn
    <2>2. sweep' \in Turn /\ sweep'.index = sweep.index /\ sweep'.listen = sweep.listen
        BY <1>1, <2>1 DEF Turn
    <2> QED BY <1>1, <1>5, <1>6, <2>2
<1>7. ASSUME NEW c \in IF Best(seen) = {} THEN {0} ELSE Best(seen), Chosen(c),
             c = sweep.listen, rows' = logged, UNCHANGED radioVars
      PROVE  SweepInv'
    <2>1. /\ sweep' \in Turn /\ sweep'.index = sweep.index /\ sweep'.listen = c /\ cool' \in [Channel -> Nat]
        BY <1>7, ChosenRight
    <2> QED BY <1>5, <1>7, <2>1
<1>8. ASSUME NEW c \in IF Best(seen) = {} THEN {0} ELSE Best(seen), Chosen(c),
             rows' = MarkListen(logged, sweep'), Apply(Current(sweep'))
      PROVE  SweepInv'
    <2>1. PICK s \in Turn : sweep' = s /\ s.listen = c /\ Audible(Current(s)) /\ cool' \in [Channel -> Nat]
        BY <1>8, ChosenRight
    <2>2. Current(s) \in Tune
        BY CurrentIsTune
    <2>3. EngineTypes' /\ TunesRight' /\ engine' = engine /\ (engine = "running" => aim' = Current(s))
        BY <1>1, <1>8, <2>1, <2>2, ApplyKeeps
    <2>4. /\ rows' \in [Channel -> Seq(Row)] /\ \A x \in Channel : Distinct(rows'[x])
          /\ s.listen # 0 /\ rows'[s.listen] # << >> => rows'[s.listen][Len(rows'[s.listen])].played
        BY <1>3, <1>8, <2>1, ListenMarked
    <2>5. SweepTypes'
        BY <1>1, <2>1, <2>4 DEF SweepTypes
    <2>6. SweepRight' /\ LogRight'
        BY <2>1, <2>3, <2>4 DEF SweepRight, Audible, Current, LogRight, Distinct
    <2> QED BY <2>3, <2>5, <2>6 DEF SweepInv
<1> QED BY <1>4, <1>6, <1>7, <1>8

LEMMA SurveyKeeps ==
    ASSUME SweepInv, Survey
    PROVE  SweepInv'
<1>1. PICK seen \in [Sees[radio.at] -> Level] :
            IF hf = "live" /\ OfLiveWindow(radio.at)
            THEN OnCarriers(InWindow(seen))
            ELSE UNCHANGED <<sweep, cool, rows, radioVars>>
    BY DEF Survey
<1>2. hf' = hf /\ name' = name
    BY DEF Survey
<1>3. CASE hf = "live" /\ OfLiveWindow(radio.at)
    <2>1. DOMAIN InWindow(seen) \subseteq Sees[sweep.index] \cap Band[sweep.index]
        BY <1>3 DEF InWindow, OfLiveWindow
    <2> QED BY <1>1, <1>2, <1>3, <2>1, CarriersKeep
<1>4. CASE ~(hf = "live" /\ OfLiveWindow(radio.at))
    <2>1. UNCHANGED <<hf, sweep, cool, rows, name, engine, aim, helper, asked, radio>>
        BY <1>1, <1>2, <1>4 DEF radioVars
    <2> QED BY <2>1 DEF SweepInv, SweepTypes, EngineTypes, TunesRight, SweepRight, LogRight, Distinct, Audible, Current
<1> QED BY <1>3, <1>4

\* The schedules turn over; the night ends.
LEMMA OutsideKeeps ==
    ASSUME SweepInv, SlotTurns \/ Noon
    PROVE  SweepInv'
<1>1. UNCHANGED <<hf, sweep, cool, engine, aim, helper, asked, radio>>
    BY DEF SlotTurns, Noon, radioVars
<1>2. EngineTypes' /\ TunesRight' /\ SweepRight'
    BY <1>1 DEF SweepInv, EngineTypes, TunesRight, SweepRight, Audible, Current
<1>3. CASE SlotTurns
    <2>1. name' \in [Channel -> Name \cup {None}] /\ rows' = rows
        BY <1>3 DEF SlotTurns, SweepInv, SweepTypes
    <2> QED BY <1>1, <1>2, <2>1 DEF SweepInv, SweepTypes, LogRight, Distinct
<1>4. CASE Noon
    <2>1. name' = name /\ rows' = [c \in Channel |-> << >>]
        BY <1>4 DEF Noon
    <2>2. rows' \in [Channel -> Seq(Row)]
        BY <2>1
    <2>3. SweepTypes'
        BY <1>1, <2>1, <2>2 DEF SweepInv, SweepTypes
    <2>4. LogRight'
        <3>1. sweep.listen # 0 => sweep.listen \in Channel
            BY DEF SweepInv, SweepTypes, Turn
        <3> QED BY <1>1, <2>1, <3>1 DEF LogRight, Distinct
    <2> QED BY <1>2, <2>3, <2>4 DEF SweepInv
<1> QED BY <1>3, <1>4

LEMMA SweepInit ==
    ASSUME Init
    PROVE  SweepInv
<1>1. /\ hf = "off" /\ sweep = First /\ cool = Fresh /\ engine = "running" /\ aim = Away /\ helper = TRUE
      /\ asked = << >> /\ radio = Away /\ name \in Schedules /\ rows = [c \in Channel |-> << >>]
    BY DEF Init
<1>2. First \in Turn /\ First.listen = 0 /\ Away \in Tune /\ Away.listen = 0
    BY SweepTimes DEF First, Turn, Away, Tune
<1>3. SweepTypes
    BY <1>1, <1>2 DEF SweepTypes, Fresh, Schedules
<1>4. EngineTypes
    BY <1>1, <1>2 DEF EngineTypes
<1>5. TunesRight
    BY <1>1, <1>2 DEF TunesRight, Audible
<1>6. SweepRight
    BY <1>1, <1>2 DEF SweepRight, Audible, Current
<1>7. LogRight
    BY <1>1, <1>2 DEF LogRight, Distinct
<1> QED BY <1>3, <1>4, <1>5, <1>6, <1>7 DEF SweepInv

LEMMA SweepNext ==
    ASSUME SweepInv, [Next]_vars
    PROVE  SweepInv'
<1>1. CASE UNCHANGED vars
    BY <1>1 DEF vars, SweepInv, SweepTypes, EngineTypes, TunesRight, SweepRight, LogRight, Distinct, Audible, Current
<1> QED BY <1>1, TunedKeeps, EngineKeeps, ControllerKeeps, SurveyKeeps, OutsideKeeps DEF Next

LEMMA SweepAlways == Spec => []SweepInv
<1>1. Init => SweepInv
    BY SweepInit
<1>2. SweepInv /\ [Next]_vars => SweepInv'
    BY SweepNext
<1> QED BY <1>1, <1>2, PTL DEF Spec

\* The shortwave sweep puts a station on the speaker only in a window that sees it and whose band
\* it is in, whatever tunes and surveys cross; the engine is told what was decided last; and the
\* log has one row per station, that of the station on the speaker marked as played.
THEOREM StationTheorem == Spec => []StationSound
<1>1. SweepInv => StationSound
    <2> SUFFICES ASSUME SweepInv PROVE StationSound
        OBVIOUS
    <2>1. asked \in Seq(Tune) /\ DOMAIN asked = 1 .. Len(asked) /\ Range(asked) = {asked[i] : i \in 1 .. Len(asked)}
        BY DEF SweepInv, EngineTypes, Range
    <2>2. SpeakerFollowsSweep
        BY <2>1 DEF SweepInv, TunesRight, SweepRight, SpeakerFollowsSweep, Last
    <2>3. LogSound
        BY DEF SweepInv, LogRight, LogSound, Distinct, Last
    <2> QED BY <2>2, <2>3 DEF StationSound
<1> QED BY <1>1, SweepAlways, PTL

\* What HfSweep puts on the speaker anew has its cooldown over, and it begins again.
THEOREM CooldownTheorem == Spec => CooldownKept
<1>1. ASSUME SweepInv, [Next]_vars, NEW c \in Channel, Plays(c)
      PROVE  cool[c] = 0 /\ cool'[c] = Cooldown
    <2>1. sweep \in Turn /\ c # 0 /\ sweep'.listen = c /\ (sweep.listen # c \/ sweep'.index # sweep.index)
        BY <1>1, SweepTimes DEF SweepInv, SweepTypes, Plays
    <2>2. /\ Aged(sweep).index = sweep.index /\ Aged(sweep).listen = sweep.listen /\ Aged(sweep) \in Turn
          /\ Ended(sweep).index = sweep.index /\ Ended(sweep).listen = sweep.listen
          /\ Resumed(sweep).index = sweep.index /\ Resumed(sweep).listen = sweep.listen
          /\ First.listen = 0
        BY <2>1, SameStation
    <2>3. Next1(sweep).listen = 0 /\ Next1(Aged(sweep)).listen = 0
        BY <2>1, <2>2, NextWindow
    <2>4. ~(Tick \/ Skip \/ Start \/ Stop \/ Pause \/ Resume)
        BY <2>1, <2>2, <2>3 DEF Tick, Skip, Start, Stop, Pause, Resume
    <2>5. sweep' # sweep
        BY <2>1
    <2>6. Survey
        BY <1>1, <2>4, <2>5 DEF Next, vars, Tuned, HelperDies, HelperBack, EngineStop, EngineStart, SlotTurns, Noon
    <2>7. PICK seen \in [Sees[radio.at] -> Level] :
                hf = "live" /\ OfLiveWindow(radio.at) /\ OnCarriers(InWindow(seen))
        BY <2>5, <2>6 DEF Survey
    <2>8. DOMAIN InWindow(seen) \subseteq Sees[sweep.index] \cap Band[sweep.index]
        BY <2>7 DEF InWindow, OfLiveWindow
    <2>9. ~Keeps(InWindow(seen))
        <3>1. ASSUME Keeps(InWindow(seen)) PROVE sweep'.listen = sweep.listen /\ sweep'.index = sweep.index
            BY <2>1, <3>1 DEF Keeps, Turn
        <3> QED BY <2>1, <3>1
    <2>10. PICK x \in IF Best(InWindow(seen)) = {} THEN {0} ELSE Best(InWindow(seen)) : Chosen(x)
        BY <2>7, <2>9 DEF OnCarriers
    <2>11. /\ sweep'.listen = x /\ sweep'.index = sweep.index
           /\ x # 0 => cool[x] = 0
           /\ x \notin {0, sweep.listen} => cool'[x] = Cooldown
        BY <1>1, <2>8, <2>10, ChosenRight
    <2> QED BY <2>1, <2>11
<1>2. ASSUME SweepInv, [Next]_vars
      PROVE  [\A c \in Channel : Plays(c) => cool[c] = 0 /\ cool'[c] = Cooldown]_vars
    BY <1>1, <1>2
<1> QED BY <1>2, SweepAlways, PTL DEF Spec, CooldownKept

-----------------------------------------------------------------------------
(* Who is on the air. *)

\* A later day begins after a whole earlier one.
LEMMA DaysApart ==
    ASSUME NEW m \in Nat, NEW a \in Nat, NEW b \in Nat, a < b
    PROVE  a * m + m <= b * m
<1>1. PICK k \in Nat : b = a + 1 + k
    <2>1. b - a - 1 \in Nat /\ b = a + 1 + (b - a - 1)
        OBVIOUS
    <2> QED BY <2>1
<1>2. b * m = a * m + m + k * m /\ k * m \in Nat
    BY <1>1
<1> QED BY <1>2

\* A minute of the calendar is a minute of one of its days.
LEMMA MinuteOfDay ==
    ASSUME NEW m \in Nat \ {0}, NEW n \in Nat, NEW t \in 0 .. n * m - 1
    PROVE  \E d \in 0 .. n - 1, r \in 0 .. m - 1 : d = t \div m /\ r = t % m /\ t = d * m + r
<1>1. PICK d \in Nat, r \in Nat : d = t \div m /\ r = t % m /\ t = d * m + r /\ r < m
    <2>1. t \in Nat /\ n * m \in Nat
        OBVIOUS
    <2> QED BY <2>1
<1>2. d < n
    <2>1. CASE n < d
        <3>1. n * m + m <= d * m
            BY <2>1, DaysApart
        <3> QED BY <3>1, <1>1
    <2>2. CASE n = d
        BY <2>2, <1>1
    <2> QED BY <2>1, <2>2, <1>1
<1>3. d \in 0 .. n - 1 /\ r \in 0 .. m - 1 /\ t = d * m + r
    BY <1>1, <1>2
<1> WITNESS d \in 0 .. n - 1, r \in 0 .. m - 1
<1> QED BY <1>1

LEMMA CalendarTurns == Calendar \in Nat \ {0}
<1>1. PICK y \in Nat \ {0}, d \in Nat \ {0} : y = Years /\ d = YearDays
    BY SMTT(60), SchedulesAssumption DEF SchedulesAssumption, YearDays
<1>2. y * d \in Nat \ {0}
    <2>1. 0 * d + d <= y * d
        BY DaysApart
    <2> QED BY <2>1
<1> QED BY <1>1, <1>2 DEF Calendar

LEMMA TheDayBefore ==
    ASSUME NEW n \in Nat \ {0}, NEW day \in 0 .. n - 1
    PROVE  (day + n - 1) % n = IF day = 0 THEN n - 1 ELSE day - 1
<1>1. CASE day = 0
    <2>1. n - 1 \in Nat /\ n - 1 < n
        OBVIOUS
    <2>2. (n - 1) % n = n - 1
        BY <2>1
    <2> QED BY <1>1, <2>2
<1>2. CASE day # 0
    <2>1. PICK k \in Nat : k = day - 1 /\ k < n /\ day + n - 1 = k + n
        BY <1>2
    <2>2. (k + n) % n = k
        BY <2>1
    <2> QED BY <1>2, <2>1, <2>2
<1> QED BY <1>1, <1>2

\* Where the days of a calendar begin.
LEMMA Daybreaks ==
    ASSUME NEW m \in Nat \ {0}, NEW n \in Nat \ {0}, NEW day \in 0 .. n - 1, NEW d \in 0 .. n - 1
    PROVE  \E dm \in Nat, km \in Nat, nm \in Nat :
              /\ dm = d * m /\ km = day * m /\ nm = n * m
              /\ dm + m <= nm /\ (d < day => dm + m <= km) /\ (day < d => km + m <= dm) /\ (d = day => dm = km)
              /\ (d < day - 1 => dm + m + m <= km) /\ (d = day - 1 => dm + m = km)
              /\ (d < n - 1 => dm + m + m <= nm) /\ (d = n - 1 => dm + m = nm)
              /\ (day = 0 => km = 0) /\ (day > 0 => m <= km)
<1>1. PICK dm \in Nat, km \in Nat, nm \in Nat : dm = d * m /\ km = day * m /\ nm = n * m
    OBVIOUS
<1>2. dm + m <= nm
    BY <1>1, DaysApart
<1>3. d < day => dm + m <= km
    BY <1>1, DaysApart
<1>4. day < d => km + m <= dm
    BY <1>1, DaysApart
<1>5. d = day => dm = km
    BY <1>1
<1>6. (d + 1) * m = dm + m
    BY <1>1
<1>7. d < day - 1 => dm + m + m <= km
    <2>1. CASE d + 1 < day
        <3>1. (d + 1) * m + m <= km
            BY <2>1, <1>1, DaysApart
        <3> QED BY <3>1, <1>6
    <2> QED BY <2>1
<1>8. d = day - 1 => dm + m = km
    <2>1. CASE day = d + 1
        BY <2>1, <1>1, <1>6
    <2> QED BY <2>1
<1>9. d < n - 1 => dm + m + m <= nm
    <2>1. CASE d + 1 < n
        <3>1. (d + 1) * m + m <= nm
            BY <2>1, <1>1, DaysApart
        <3> QED BY <3>1, <1>6
    <2> QED BY <2>1
<1>10. d = n - 1 => dm + m = nm
    <2>1. CASE n = d + 1
        BY <2>1, <1>1, <1>6
    <2> QED BY <2>1
<1>11. day = 0 => km = 0
    BY <1>1
<1>12. day > 0 => m <= km
    <2>1. CASE day > 0
        <3>1. 0 * m + m <= km
            BY <2>1, <1>1, DaysApart
        <3> QED BY <3>1
    <2> QED BY <2>1
<1> WITNESS dm \in Nat, km \in Nat, nm \in Nat
<1> QED BY <1>1, <1>2, <1>3, <1>4, <1>5, <1>7, <1>8, <1>9, <1>10, <1>11, <1>12, Zenon

\* onAir() and inDates() together tell whether a broadcast that began on one of the slot's days goes on.
LEMMA OnNowAirs ==
    ASSUME NEW s, s.start \in 0 .. DayMinutes, s.end \in 0 .. DayMinutes,
           NEW t \in 0 .. Calendar * DayMinutes - 1
    PROVE  OnNow(s, t) <=> Airs(s, t)
<1> DEFINE Right(d) == d % WeekDays \in s.days /\ Dated(s, d)
<1> DEFINE Hit(d) == {t, t + Calendar * DayMinutes} \intersect Airtime(s, d) # {}
<1>0. PICK m \in Nat \ {0}, n \in Nat \ {0} : m = DayMinutes /\ n = Calendar
    BY CalendarTurns, SchedulesAssumption DEF SchedulesAssumption
<1>z. PICK nm : nm = n * m
    OBVIOUS
<1>1. m = DayMinutes /\ n = Calendar /\ nm = n * m
    BY <1>0, <1>z
<1>a. t \in 0 .. n * m - 1
    BY <1>1
<1>b. \E d \in 0 .. n - 1, r \in 0 .. m - 1 : d = t \div m /\ r = t % m /\ t = d * m + r
    BY <1>a, MinuteOfDay
<1>2. PICK day \in 0 .. n - 1, min \in 0 .. m - 1 : day = t \div m /\ min = t % m /\ t = day * m + min
    BY <1>b
<1>c. PICK km : km = day * m
    OBVIOUS
<1> DEFINE Daybreak(d, dm) ==
        /\ km \in Nat /\ nm \in Nat
        /\ dm + m <= nm /\ (d < day => dm + m <= km) /\ (day < d => km + m <= dm) /\ (d = day => dm = km)
        /\ (d < day - 1 => dm + m + m <= km) /\ (d = day - 1 => dm + m = km)
        /\ (d < n - 1 => dm + m + m <= nm) /\ (d = n - 1 => dm + m = nm)
        /\ (day = 0 => km = 0) /\ (day > 0 => m <= km)
<1>f. \A d \in 0 .. n - 1 : \E dm \in Nat : dm = d * m /\ Daybreak(d, dm)
    <2> TAKE d \in 0 .. n - 1
    <2>1. PICK a \in Nat, b \in Nat, c \in Nat :
              /\ a = d * m /\ b = day * m /\ c = n * m
              /\ a + m <= c /\ (d < day => a + m <= b) /\ (day < d => b + m <= a) /\ (d = day => a = b)
              /\ (d < day - 1 => a + m + m <= b) /\ (d = day - 1 => a + m = b)
              /\ (d < n - 1 => a + m + m <= c) /\ (d = n - 1 => a + m = c)
              /\ (day = 0 => b = 0) /\ (day > 0 => m <= b)
        BY Daybreaks
    <2>2. b = km /\ c = nm
        BY <2>1, <1>1, <1>c
    <2> WITNESS a \in Nat
    <2> QED BY <2>1, <2>2
<1>d. \A d : Hit(d) <=> {km + min, km + min + nm} \intersect Airtime(s, d) # {}
    BY <1>1, <1>2, <1>c
<1>3. DayBefore(day) = (IF day = 0 THEN n - 1 ELSE day - 1) /\ DayBefore(day) \in 0 .. n - 1
    BY <1>1, TheDayBefore DEF DayBefore
<1>4. Airs(s, t) <=> \E d \in 0 .. n - 1 : Right(d) /\ Hit(d)
    BY <1>1 DEF Airs
<1>5. OnNow(s, t) <=> OnAir(s, day, min) /\ InDates(s, day, min)
    BY <1>1, <1>2 DEF OnNow
<1>e. s.start \in 0 .. m /\ s.end \in 0 .. m
    BY <1>1
<1>6. CASE s.end > s.start
    <2>1. \A d \in 0 .. n - 1 : Hit(d) <=> d = day /\ s.start <= min /\ min <= s.end - 1
        <3> TAKE d \in 0 .. n - 1
        <3>0. PICK dm \in Nat : dm = d * m /\ Daybreak(d, dm)
            BY <1>f
        <3>1. Airtime(s, d) = (dm + s.start) .. (dm + (s.end - 1))
            BY <1>6, <1>1, <1>e, <3>0 DEF Airtime
        <3>2. s.end - 1 \in Int /\ s.end - 1 < m /\ s.start \in Nat
            BY <1>e
        <3>3. {km + min, km + min + nm} \intersect Airtime(s, d) # {} <=> d = day /\ s.start <= min /\ min <= s.end - 1
            <4>1. km + min \in Airtime(s, d) <=> d = day /\ s.start <= min /\ min <= s.end - 1
                <5>1. CASE d < day
                    BY <1>e, <3>0, <3>1, <3>2, <5>1
                <5>2. CASE d = day
                    BY <1>e, <3>0, <3>1, <3>2, <5>2, SMTT(30)
                <5>3. CASE day < d
                    BY <1>e, <3>0, <3>1, <3>2, <5>3
                <5> QED BY <5>1, <5>2, <5>3
            <4>2. km + min + nm \notin Airtime(s, d)
                BY <1>e, <3>0, <3>1, <3>2
            <4> QED BY <4>1, <4>2
        <3> QED BY <1>d, <3>3
    <2>2. min <= s.end - 1 <=> min < s.end
        BY <1>e
    <2>3. OnNow(s, t) <=> Right(day) /\ s.start <= min /\ min < s.end
        <3>1. ~(s.end < s.start)
            BY <1>6, <1>e
        <3>2. OnAir(s, day, min) <=> day % WeekDays \in s.days /\ s.start <= min /\ min < s.end
            BY <1>6 DEF OnAir
        <3>3. InDates(s, day, min) <=> Dated(s, day)
            BY <3>1 DEF InDates
        <3> QED BY <1>5, <3>2, <3>3
    <2> HIDE DEF Right, Hit
    <2> QED BY <1>2, <1>4, <2>1, <2>2, <2>3
<1>7. CASE s.end = s.start
    <2>1. \A d \in 0 .. n - 1 : Hit(d) <=> d = day /\ 0 <= min /\ min <= m - 1
        <3> TAKE d \in 0 .. n - 1
        <3>0. PICK dm \in Nat : dm = d * m /\ Daybreak(d, dm)
            BY <1>f
        <3>1. Airtime(s, d) = (dm + 0) .. (dm + (m - 1))
            BY <1>7, <1>1, <1>e, <3>0 DEF Airtime
        <3>2. m - 1 \in Int /\ m - 1 < m /\ 0 \in Nat
            BY <1>1
        <3>3. {km + min, km + min + nm} \intersect Airtime(s, d) # {} <=> d = day /\ 0 <= min /\ min <= m - 1
            <4>1. km + min \in Airtime(s, d) <=> d = day /\ 0 <= min /\ min <= m - 1
                BY <1>e, <3>0, <3>1, <3>2
            <4>2. km + min + nm \notin Airtime(s, d)
                BY <1>e, <3>0, <3>1, <3>2
            <4> QED BY <4>1, <4>2
        <3> QED BY <1>d, <3>3
    <2>2. 0 <= min /\ min <= m - 1
        BY <1>e
    <2>3. OnNow(s, t) <=> Right(day)
        <3>1. ~(s.end < s.start) /\ ~(s.end > s.start)
            BY <1>7, <1>e
        <3>2. OnAir(s, day, min) <=> day % WeekDays \in s.days
            BY <1>7, <3>1 DEF OnAir
        <3>3. InDates(s, day, min) <=> Dated(s, day)
            BY <3>1 DEF InDates
        <3> QED BY <1>5, <3>2, <3>3
    <2> HIDE DEF Right, Hit
    <2> QED BY <1>2, <1>4, <2>1, <2>2, <2>3
<1>8. CASE s.end < s.start
    <2>1. \A d \in 0 .. n - 1 :
             Hit(d) <=> (d = day /\ s.start <= min) \/ (d = DayBefore(day) /\ min < s.end)
        <3> TAKE d \in 0 .. n - 1
        <3>0. PICK dm \in Nat : dm = d * m /\ Daybreak(d, dm)
            BY <1>f
        <3>1. Airtime(s, d) = (dm + s.start) .. (dm + m + s.end - 1)
            BY <1>8, <1>1, <1>e, <3>0 DEF Airtime
        <3>2. s.end \in Nat /\ s.start \in Nat /\ s.start <= m
            BY <1>e
        <3>3. {km + min, km + min + nm} \intersect Airtime(s, d) # {}
                 <=> (d = day /\ s.start <= min) \/ (d = (IF day = 0 THEN n - 1 ELSE day - 1) /\ min < s.end)
            <4>1. km + min \in Airtime(s, d) <=> (d = day /\ s.start <= min) \/ (d = day - 1 /\ min < s.end)
                BY <1>e, <1>8, <3>0, <3>1, <3>2, SMTT(30)
            <4>2. km + min + nm \in Airtime(s, d) <=> day = 0 /\ d = n - 1 /\ min < s.end
                BY SMTT(60), <1>e, <1>8, <3>0, <3>1, <3>2
            <4> QED BY <4>1, <4>2
        <3> QED BY <1>d, <1>3, <3>3
    <2>2. min < s.end => ~(s.start <= min)
        BY <1>e, <1>8
    <2>3. OnNow(s, t) <=> (Right(day) /\ s.start <= min) \/ (Right(DayBefore(day)) /\ min < s.end)
        <3>1. ~(s.end > s.start) /\ s.end # s.start /\ (min >= s.start <=> s.start <= min)
            BY <1>8, <1>e
        <3>2. OnAir(s, day, min) <=> \/ day % WeekDays \in s.days /\ s.start <= min
                                     \/ DayBefore(day) % WeekDays \in s.days /\ min < s.end
            BY <3>1 DEF OnAir
        <3>3. InDates(s, day, min) <=> Dated(s, IF min < s.end THEN DayBefore(day) ELSE day)
            BY <1>8 DEF InDates
        <3>4. CASE min < s.end
            BY <1>5, <3>2, <3>3, <3>4, <2>2
        <3>5. CASE ~(min < s.end)
            BY <1>5, <3>2, <3>3, <3>5
        <3> QED BY <3>4, <3>5
    <2> HIDE DEF Right, Hit
    <2> QED BY <1>2, <1>3, <1>4, <2>1, <2>3
<1> QED BY <1>6, <1>7, <1>8, <1>e

AirInv == listing \in Listings /\ minute \in 0 .. Calendar * DayMinutes - 1

LEMMA AirKept ==
    /\ SchedulesInit => AirInv
    /\ AirInv /\ [SchedulesNext]_schedulesVars => AirInv'
<1>1. PICK n \in Nat \ {0} : n = Calendar * DayMinutes
    <2>1. PICK c \in Nat \ {0}, m \in Nat \ {0} : c = Calendar /\ m = DayMinutes
        BY CalendarTurns, SchedulesAssumption DEF SchedulesAssumption
    <2>2. 0 * m + m <= c * m
        BY DaysApart
    <2>3. c * m \in Nat \ {0}
        BY <2>2
    <2> QED BY <2>1, <2>3
<1>2. SchedulesInit => AirInv
    BY <1>1 DEF SchedulesInit, AirInv
<1>3. ASSUME AirInv, [SchedulesNext]_schedulesVars PROVE AirInv'
    <2>1. CASE MinutePasses
        <3>1. (minute + 1) % n \in 0 .. n - 1
            BY <1>1, <1>3 DEF AirInv
        <3> QED BY <1>1, <1>3, <2>1, <3>1 DEF AirInv, MinutePasses
    <2>2. CASE UNCHANGED airVars
        BY <1>3, <2>2 DEF AirInv, airVars
    <2>3. CASE StoreNext
        <3>1. UNCHANGED airVars
            BY <2>3 DEF StoreNext, Rings, Fetches, RefreshEnds, HourPasses, StoreDies, SeasonTurns, airVars
        <3> QED BY <2>2, <3>1
    <2>4. CASE UNCHANGED schedulesVars
        BY <2>2, <2>4 DEF schedulesVars, airVars
    <2> QED BY <1>3, <2>1, <2>3, <2>4 DEF SchedulesNext
<1> QED BY <1>2, <1>3

\* Whatever the lists say and however long the calendar's months, a station is named exactly while a
\* broadcast that began on one of its days goes on, past midnight, the end of a month and of the year
\* (candidates(), onAir(), inDates()).
THEOREM OnAirTheorem == SchedulesSpec => []OnAirAsListed
<1>1. AirInv => OnAirAsListed
    <2> SUFFICES ASSUME AirInv PROVE OnAirAsListed
        OBVIOUS
    <2>1. /\ OnNow(listing.eibi, minute) <=> Airs(listing.eibi, minute)
          /\ OnNow(listing.aoki, minute) <=> Airs(listing.aoki, minute)
          /\ OnNow(listing.hfcc, minute) <=> Airs(listing.hfcc, minute)
        BY ListingsAssumption, OnNowAirs DEF AirInv, ListingsAssumption
    <2>2. listing.same \in BOOLEAN
        BY ListingsAssumption DEF AirInv, ListingsAssumption
    <2> HIDE DEF AirInv
    <2>3. CASE listing.same
        BY <2>1, <2>3 DEF OnAirAsListed, Candidates
    <2>4. CASE ~listing.same
        BY <2>1, <2>4 DEF OnAirAsListed, Candidates
    <2> QED BY <2>3, <2>4
<1> QED BY AirKept, <1>1, PTL DEF SchedulesSpec
=============================================================================
