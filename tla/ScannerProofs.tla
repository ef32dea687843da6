--------------------------- MODULE ScannerProofs ---------------------------
(***************************************************************************)
(* What Scanner guarantees for any number of lanes, any channels, any tune  *)
(* commands and any timing constants; and what CcRecorder, which records    *)
(* its discoveries, guarantees however late audio and events come.          *)
(***************************************************************************)
EXTENDS Scanner, CcRecorder, TLAPS, WellFoundedInduction, FiniteSetTheorems

(***************************************************************************)
(* The first element of a non-empty set of naturals: the loops of           *)
(* scanner.cpp that look for the first lane with some property find one     *)
(* when there is one, and it is the first.                                  *)
(***************************************************************************)
LEMMA FirstIsFirst ==
  ASSUME NEW S, S \subseteq Nat, S # {}
  PROVE  First(S) \in S /\ \A j \in S : First(S) <= j
<1> DEFINE R == {ss \in Nat \X Nat : ss[1] < ss[2]}
<1>1. IsWellFoundedOn(R, Nat)  BY NatLessThanWellFounded, Zenon DEF OpToRel
<1>2. PICK x \in S : \A y \in S : ~(<<y, x>> \in R)
  <2> HIDE DEF R
  <2> QED  BY <1>1, WFMin
<1>3. ASSUME NEW y \in S PROVE x <= y
  <2>1. x \in Nat /\ y \in Nat  OBVIOUS
  <2>2. ~(<<y, x>> \in R)  BY <1>2
  <2> QED  BY <2>1, <2>2
<1> QED  BY <1>3 DEF First

LEMMA LanesAreNatural == Lanes \subseteq Nat /\ 0 \notin Lanes
BY CountAssumption DEF Lanes

(* next_open() returns nobody, or a lane that may speak; nobody only when    *)
(* no lane may.                                                              *)
LEMMA NextOpenSpeaks ==
  ASSUME NEW ls
  PROVE  /\ NextOpen(ls) # 0 => NextOpen(ls) \in Lanes /\ MaySpeak(ls[NextOpen(ls)])
         /\ NextOpen(ls) = 0 => \A i \in Lanes : ~MaySpeak(ls[i])
         /\ NextOpen(ls) \in Lanes \cup {0}
<1> DEFINE may == {i \in Lanes : MaySpeak(ls[i])}
           pri == {i \in may : ls[i].priority}
<1>1. may \subseteq Nat /\ pri \subseteq may /\ 0 \notin may  BY LanesAreNatural
<1>2. pri # {} => First(pri) \in pri  BY <1>1, FirstIsFirst
<1>3. may # {} => First(may) \in may  BY <1>1, FirstIsFirst
<1>4. NextOpen(ls) = IF pri # {} THEN First(pri) ELSE IF may # {} THEN First(may) ELSE 0
  BY DEF NextOpen
<1> HIDE DEF pri
<1>5. CASE pri # {}  BY <1>1, <1>2, <1>4, <1>5
<1>6. CASE pri = {} /\ may # {}  BY <1>1, <1>3, <1>4, <1>6
<1>7. CASE pri = {} /\ may = {}  BY <1>1, <1>4, <1>7
<1> QED  BY <1>5, <1>6, <1>7

-----------------------------------------------------------------------------
(* Types: what each helper on a lane returns is a lane.                      *)

LEMMA ParkedType == Parked \in LaneType /\ IsParked(Parked) /\ ~Parked.open
BY DEF Parked, FreshLane, LaneType, NoAlert, Never, IsParked

(* Field updates, stated for any value of the field's type.                  *)
LEMMA UpdateOpen ==
  ASSUME NEW L \in LaneType, NEW o \in BOOLEAN, NEW a \in Nat, NEW b \in Int
  PROVE  [L EXCEPT !.open = o, !.above = a, !.below = b] \in LaneType
BY DEF LaneType

LEMMA UpdateAlert ==
  ASSUME NEW L \in LaneType, NEW z \in Int, NEW b \in BOOLEAN
  PROVE  /\ [L EXCEPT !.alert = z, !.allowAudio = b] \in LaneType
         /\ [L EXCEPT !.allowAudio = b, !.alert = z] \in LaneType
BY DEF LaneType

LEMMA UpdateCount ==
  ASSUME NEW L \in LaneType, NEW n \in Nat
  PROVE  /\ [L EXCEPT !.above = n] \in LaneType
         /\ [L EXCEPT !.warmup = n] \in LaneType
         /\ [L EXCEPT !.skip = n] \in LaneType
BY DEF LaneType

LEMMA UpdateBelow ==
  ASSUME NEW L \in LaneType, NEW z \in Int PROVE [L EXCEPT !.below = z] \in LaneType
BY DEF LaneType

LEMMA UpdateTx ==
  ASSUME NEW L \in LaneType, NEW b \in BOOLEAN PROVE [L EXCEPT !.tx = b] \in LaneType
BY DEF LaneType

LEMMA UpdateHeld ==
  ASSUME NEW L \in LaneType, NEW o \in BOOLEAN, NEW c \in BOOLEAN, NEW q \in BOOLEAN
  PROVE  [L EXCEPT !.open = o, !.carrier = c, !.quiet = q] \in LaneType
BY DEF LaneType

LEMMA AssignedType ==
  ASSUME TypeOK, NEW id \in Ids, NEW p \in BOOLEAN, NEW a \in BOOLEAN,
         NEW b \in BOOLEAN, NEW g \in BOOLEAN
  PROVE  Assigned(id, p, a, b, g) \in LaneType
<1>1. holdoff[id] \in Nat /\ Warmup \in Nat  BY TimeAssumption DEF TypeOK
<1> QED  BY <1>1 DEF Assigned, FreshLane, LaneType, Never, NoAlert

LEMMA AssignedChannelType ==
  ASSUME TypeOK, NEW id \in Channels PROVE AssignedChannel(id) \in LaneType
<1>1. id \in Ids  BY DEF Ids
<1>2. /\ (id \in Priority) \in BOOLEAN /\ (id \notin SeeOnly) \in BOOLEAN
      /\ (id \in Background) \in BOOLEAN /\ (id \in SubGated) \in BOOLEAN
  OBVIOUS
<1> QED  BY <1>1, <1>2, AssignedType, Zenon DEF AssignedChannel

LEMMA FilledType ==
  ASSUME TypeOK, NEW cmd \in TuneCmds
  PROVE  Filled(cmd.channels) \in [Lanes -> LaneType]
<1> DEFINE chs == cmd.channels
<1>1. chs \in Seq(Channels)  BY TuneAssumption DEF TuneType
<1>2. ASSUME NEW i \in Lanes PROVE Filled(chs)[i] \in LaneType
  <2>1. CASE SlotsAt(chs, i) = {}  BY <2>1, ParkedType DEF Filled
  <2>2. CASE SlotsAt(chs, i) # {}
    <3> DEFINE p == CHOOSE q \in SlotsAt(chs, i) : TRUE
    <3>1. p \in DOMAIN chs  BY <2>2 DEF SlotsAt, RegularAt, BackgroundAt
    <3> HIDE DEF p
    <3>2. chs[p] \in Channels  BY <1>1, <3>1
    <3>3. AssignedChannel(chs[p]) \in LaneType  BY <3>2, AssignedChannelType
    <3> QED  BY <2>2, <3>3 DEF Filled, p
  <2> QED  BY <2>1, <2>2
<1> QED  BY <1>2 DEF Filled

LEMMA AgedType == ASSUME NEW L \in LaneType PROVE Aged(L) \in LaneType
<1>1. CountDown(L.skip) \in Nat /\ CountDown(L.alert) \in Int
  BY DEF CountDown, LaneType
<1>2. CountUp(L.below, Hang) \in Int /\ CountUp(L.toneAge, ToneLoss + 1) \in Int
  <2>1. L.below \in Int /\ L.toneAge \in Int  BY DEF LaneType
  <2> QED  BY <2>1 DEF CountUp
<1> QED  BY <1>1, <1>2 DEF Aged, LaneType

LEMMA MeasuredType ==
  ASSUME NEW L \in LaneType, NEW r \in Readings
  PROVE  AlertEnded(L) \in LaneType /\ Measured(AlertEnded(L), r) \in LaneType
<1>1. AlertEnded(L) \in LaneType
  <2>1. NoAlert \in Int /\ L.audibleCfg \in BOOLEAN  BY DEF NoAlert, LaneType
  <2> QED  BY <2>1, UpdateAlert, Zenon DEF AlertEnded
<1> DEFINE A == AlertEnded(L)
<1>2. r.tone \in BOOLEAN /\ r.carrier \in BOOLEAN /\ r.quiet \in BOOLEAN
  BY ReadingAssumption DEF ReadingType
<1>3. A.toneAge \in Int  BY <1>1 DEF LaneType
<1> HIDE DEF A
<1>4. InEpisode(A, r) \in BOOLEAN
  <2>1. CASE A.tx  BY <2>1 DEF InEpisode
  <2>2. CASE ~A.tx  BY <2>2 DEF InEpisode
  <2> QED  BY <2>1, <2>2
<1>5. ToneAge(A, r) \in Int  BY <1>3, <1>4 DEF ToneAge, Never
<1>6. ToneHeld(A, ToneAge(A, r)) \in BOOLEAN  BY DEF ToneHeld
<1>7. A \in LaneType  BY <1>1 DEF A
<1>8. Measured(A, r) \in LaneType  BY <1>2, <1>4, <1>5, <1>6, <1>7 DEF Measured, LaneType
<1> QED  BY <1>1, <1>8 DEF A

LEMMA ClosedType == ASSUME NEW L \in LaneType PROVE Closed(L) \in LaneType
<1>1. Never \in Int /\ 0 \in Nat /\ FALSE \in BOOLEAN  BY DEF Never
<1> QED  BY <1>1, UpdateOpen, Zenon DEF Closed

LEMMA DecidedType ==
  ASSUME NEW L \in LaneType, NEW r \in Readings
  PROVE  Opened(L) \in LaneType /\ Closed(L) \in LaneType /\ Counted(L, r) \in LaneType
<1>1. L.above + 1 \in Nat /\ L.below \in Int  BY DEF LaneType
<1>2. Never \in Int /\ 0 \in Nat /\ 0 \in Int /\ TRUE \in BOOLEAN /\ FALSE \in BOOLEAN
  BY DEF Never
<1>3. Opened(L) \in LaneType  BY <1>1, <1>2, UpdateOpen, Zenon DEF Opened
<1>4. Closed(L) \in LaneType  BY ClosedType
<1>5. Counted(L, r) \in LaneType
  BY <1>1, <1>2, UpdateBelow, UpdateCount, Zenon DEF Counted
<1> QED  BY <1>3, <1>4, <1>5

LEMMA SpeakerTypes ==
  ASSUME NEW sp \in SpeakerType, NEW ls \in [Lanes -> LaneType], NEW i \in Lanes \cup {0}
  PROVE  SetAudible(sp, ls, i) \in SpeakerType
BY DEF SetAudible, SpeakerType, LaneType

LEMMA ToldTypes ==
  ASSUME NEW t \in ToldType, NEW sp, NEW ls \in [Lanes -> LaneType],
         NEW i \in Lanes \cup {0}, NEW id \in Ids
  PROVE  /\ TellAudible(t, sp, ls, i) \in ToldType
         /\ TellOpen(t, id) \in ToldType
         /\ TellClose(t, id) \in ToldType
         /\ TellCloseAll(t, ls) \in ToldType
<1>1. IdAt(ls, i) \in Ids \cup {NoId}  BY DEF IdAt, LaneType
<1>2. t.open \in SUBSET Ids /\ t.audible \in Ids \cup {NoId}  BY DEF ToldType
<1>3. TellAudible(t, sp, ls, i) \in ToldType  BY <1>1 DEF TellAudible, ToldType
<1>4. TellOpen(t, id) \in ToldType  BY <1>2 DEF TellOpen, ToldType
<1>5. ASSUME NEW S PROVE [t EXCEPT !.open = @ \ S] \in ToldType  BY <1>2 DEF ToldType
<1>6. TellClose(t, id) \in ToldType  BY <1>5 DEF TellClose
<1>7. TellCloseAll(t, ls) \in ToldType  BY <1>5 DEF TellCloseAll
<1> QED  BY <1>3, <1>4, <1>6, <1>7

(* The lane, the speaker and the client when iteration i reaches its decision. *)
LEMMA DecisionTypes ==
  ASSUME TypeOK, NEW i \in Lanes, NEW r \in Readings, Decides(i)
  PROVE  /\ AlertedLanes(i) \in [Lanes -> LaneType]
         /\ MeasuredLanes(i, r) \in [Lanes -> LaneType]
         /\ MeasuredLanes(i, r)[i] = Measured(AlertEnded(lanes[i]), r)
         /\ MeasuredLanes(i, r)[i] \in LaneType
         /\ MeasuredLanes(i, r)[i].id = lanes[i].id /\ lanes[i].id \in Ids
         /\ SpeakerAfterAlert(i) \in SpeakerType
         /\ SpeakerMeasured(i, r) \in SpeakerType
         /\ ToldAfterAlert(i) \in ToldType
         /\ cursor' \in Lanes \cup {0}
<1>1. lanes \in [Lanes -> LaneType] /\ lanes[i] \in LaneType  BY DEF TypeOK
<1>2. AlertEnded(lanes[i]) \in LaneType /\ Measured(AlertEnded(lanes[i]), r) \in LaneType
  BY <1>1, MeasuredType
<1>3. AlertedLanes(i) \in [Lanes -> LaneType]  BY <1>1, <1>2 DEF AlertedLanes
<1>4. /\ MeasuredLanes(i, r) \in [Lanes -> LaneType]
      /\ MeasuredLanes(i, r)[i] = Measured(AlertEnded(lanes[i]), r)
  BY <1>1, <1>2 DEF MeasuredLanes
<1>5. Measured(AlertEnded(lanes[i]), r).id = lanes[i].id
  BY <1>1 DEF Measured, AlertEnded, LaneType
<1>6. lanes[i].id \in Ids  BY <1>1 DEF Decides, IsParked, LaneType
<1>7. NextOpen(AlertedLanes(i)) \in Lanes \cup {0}  BY NextOpenSpeaks
<1>8. SpeakerAfterAlert(i) \in SpeakerType
  <2>1. speaker \in SpeakerType /\ [speaker EXCEPT !.gate = FALSE] \in SpeakerType
    BY DEF TypeOK, SpeakerType
  <2> QED  BY <2>1, <1>3, <1>7, SpeakerTypes DEF SpeakerAfterAlert
<1>9. SpeakerMeasured(i, r) \in SpeakerType
  <2>1. GateOf(MeasuredLanes(i, r)[i]) \in BOOLEAN  BY DEF GateOf
  <2> QED  BY <1>8, <2>1 DEF SpeakerMeasured, SpeakerType
<1>10. ToldAfterAlert(i) \in ToldType
  BY <1>3, <1>6, <1>7, ToldTypes DEF ToldAfterAlert, TypeOK
<1>11. cursor' \in Lanes \cup {0}
  BY CountAssumption DEF Decides, CursorAfter, Lanes
<1> QED  BY <1>2, <1>3, <1>4, <1>5, <1>6, <1>8, <1>9, <1>10, <1>11

-----------------------------------------------------------------------------
(* Type correctness: one lemma per action.                                   *)

LEMMA PollTimeType ==
  ASSUME TypeOK, PollTime, cursor' \in Lanes \cup {0} PROVE TypeOK'
<1>1. lanes' \in [Lanes -> LaneType]  BY AgedType DEF TypeOK, PollTime
<1>2. holdoff' \in [Ids -> Nat] /\ lockout' \in [Ids -> Nat]
  BY DEF TypeOK, PollTime, CountDown
<1> QED  BY <1>1, <1>2 DEF TypeOK, PollTime

LEMMA PollPassesType == ASSUME TypeOK, NEW i \in Lanes, PollPasses(i) PROVE TypeOK'
<1>1. CountDown(lanes[i].warmup) \in Nat /\ lanes[i] \in LaneType
  BY DEF TypeOK, LaneType, CountDown
<1>2. lanes' = [lanes EXCEPT ![i] = [lanes[i] EXCEPT !.warmup = CountDown(lanes[i].warmup)]]
  BY DEF PollPasses, TypeOK
<1>3. lanes' \in [Lanes -> LaneType]
  <2>1. [lanes[i] EXCEPT !.warmup = CountDown(lanes[i].warmup)] \in LaneType
    BY <1>1, UpdateCount
  <2> QED  BY <1>2, <2>1 DEF TypeOK
<1>4. cursor' \in Lanes \cup {0}
  BY CountAssumption DEF PollPasses, CursorAfter, Lanes
<1> QED  BY <1>3, <1>4 DEF TypeOK, PollPasses

LEMMA PollStaysType ==
  ASSUME TypeOK, NEW i \in Lanes, NEW r \in Readings, PollStays(i, r) PROVE TypeOK'
<1>1. Decides(i)  BY DEF PollStays
<1>2. lanes' \in [Lanes -> LaneType]
  BY <1>1, DecisionTypes, DecidedType DEF PollStays, TypeOK
<1> QED  BY <1>1, <1>2, DecisionTypes DEF PollStays, TypeOK, Decides

LEMMA PollOpensType ==
  ASSUME TypeOK, NEW i \in Lanes, NEW r \in Readings, PollOpens(i, r) PROVE TypeOK'
<1> DEFINE L == MeasuredLanes(i, r)[i]
           ls == [lanes EXCEPT ![i] = Opened(L)]
           sp == SpeakerMeasured(i, r)
           t == TellOpen(ToldAfterAlert(i), L.id)
<1>1. Decides(i) /\ lanes' = ls  BY DEF PollOpens
<1>2. ls \in [Lanes -> LaneType]  BY <1>1, DecisionTypes, DecidedType DEF TypeOK
<1>3. sp \in SpeakerType /\ t \in ToldType  BY <1>1, <1>2, DecisionTypes, ToldTypes
<1>4. SetAudible(sp, ls, i) \in SpeakerType /\ TellAudible(t, sp, ls, i) \in ToldType
  <2> HIDE DEF ls, sp, t
  <2>1. SetAudible(sp, ls, i) \in SpeakerType  BY <1>2, <1>3, SpeakerTypes
  <2>2. PICK id : id \in Ids  BY <1>1, DecisionTypes
  <2> QED  BY <1>2, <1>3, <2>1, <2>2, ToldTypes
<1>5. speaker' \in SpeakerType /\ told' \in ToldType  BY <1>3, <1>4 DEF PollOpens
<1> QED  BY <1>1, <1>2, <1>5, DecisionTypes DEF TypeOK, Decides

LEMMA PollClosesType ==
  ASSUME TypeOK, NEW i \in Lanes, NEW r \in Readings, PollCloses(i, r) PROVE TypeOK'
<1> DEFINE L == MeasuredLanes(i, r)[i]
           ls == [lanes EXCEPT ![i] = Closed(L)]
           sp == SpeakerMeasured(i, r)
           t == TellClose(ToldAfterAlert(i), L.id)
<1>1. Decides(i) /\ lanes' = [ls EXCEPT ![i] = Vacated(@)]  BY DEF PollCloses
<1>2. ls \in [Lanes -> LaneType]  BY <1>1, DecisionTypes, DecidedType DEF TypeOK
<1>3. lanes' \in [Lanes -> LaneType]  BY <1>1, <1>2, ParkedType DEF Vacated
<1>4. sp \in SpeakerType /\ t \in ToldType  BY <1>1, <1>2, DecisionTypes, ToldTypes
<1>5. Handover(sp, ls, i) \in SpeakerType /\ TellHandover(t, sp, ls, i) \in ToldType
  <2>1. PICK id : id \in Ids  BY <1>1, DecisionTypes
  <2>2. NextOpen(ls) \in Lanes \cup {0}  BY NextOpenSpeaks
  <2> HIDE DEF ls, sp, t
  <2> QED  BY <1>2, <1>4, <2>1, <2>2, SpeakerTypes, ToldTypes DEF Handover, TellHandover
<1>6. speaker' \in SpeakerType /\ told' \in ToldType  BY <1>5 DEF PollCloses
<1> QED  BY <1>1, <1>3, <1>6, DecisionTypes DEF TypeOK, Decides

LEMMA TuneStepType ==
  ASSUME TypeOK, NEW cmd \in TuneCmds, Tune(cmd) PROVE TypeOK'
<1> DEFINE ls == Filled(cmd.channels)
           used == {i \in Lanes : ~IsParked(ls[i])}
           w == First(used)
           t == TellAudible(TellCloseAll(told, lanes), speaker, lanes, 0)
           held == [ls EXCEPT ![w] = [@ EXCEPT !.open = TRUE, !.carrier = TRUE, !.quiet = TRUE]]
           hold == cmd.monitor /\ used # {}
<1>1. ls \in [Lanes -> LaneType]  BY FilledType
<1>2. cmd.monitor \in BOOLEAN /\ cmd.ccAudible \subseteq Discoveries
  BY TuneAssumption DEF TuneType
<1>3. /\ lanes' = IF hold THEN held ELSE ls
      /\ speaker' = IF hold THEN [lane |-> w, gate |-> TRUE] ELSE SetAudible(speaker, lanes, 0)
      /\ told' = IF hold THEN TellAudible(TellOpen(t, ls[w].id), Silent, ls, w) ELSE t
      /\ monitor' = cmd.monitor /\ ccAudible' = cmd.ccAudible
      /\ UNCHANGED <<holdoff, cursor, lockout>>
  BY DEF Tune
<1>4. SetAudible(speaker, lanes, 0) \in SpeakerType  BY SpeakerTypes DEF TypeOK
<1>5. t \in ToldType
  <2>1. TellCloseAll(told, lanes) \in ToldType
    <3>1. told.open \in SUBSET Ids  BY DEF TypeOK, ToldType
    <3> QED  BY <3>1 DEF TellCloseAll, TypeOK, ToldType
  <2>2. IdAt(lanes, 0) = NoId  BY DEF IdAt
  <2> QED  BY <2>1, <2>2 DEF TellAudible, ToldType
<1> HIDE DEF ls, t
<1>6. CASE hold
  <2>1. w \in used  BY <1>6, FirstIsFirst, LanesAreNatural
  <2>2. w \in Lanes /\ ls[w] \in LaneType /\ ls[w].id \in Ids
    BY <1>1, <2>1 DEF IsParked, LaneType
  <2>3. held \in [Lanes -> LaneType]
    <3>1. TRUE \in BOOLEAN  OBVIOUS
    <3>2. [ls[w] EXCEPT !.open = TRUE, !.carrier = TRUE, !.quiet = TRUE] \in LaneType
      BY <2>2, <3>1, UpdateHeld, Zenon
    <3> QED  BY <1>1, <2>2, <3>2
  <2>4. [lane |-> w, gate |-> TRUE] \in SpeakerType  BY <2>2 DEF SpeakerType
  <2>5. TellAudible(TellOpen(t, ls[w].id), Silent, ls, w) \in ToldType
    <3>1. TellOpen(t, ls[w].id) \in ToldType  BY <1>1, <1>5, <2>2, ToldTypes
    <3> QED  BY <1>1, <2>2, <3>1, ToldTypes
  <2> HIDE DEF w, used, held
  <2> QED  BY <1>2, <1>3, <1>6, <2>3, <2>4, <2>5 DEF TypeOK
<1>7. CASE ~hold  BY <1>1, <1>2, <1>3, <1>4, <1>5, <1>7 DEF TypeOK
<1> QED  BY <1>6, <1>7

LEMMA SkipType == ASSUME TypeOK, NEW h \in Holdoffs, Skip(h) PROVE TypeOK'
<1> DEFINE i == speaker.lane
           id == lanes[i].id
           ls == [lanes EXCEPT ![i] = Closed([@ EXCEPT !.tx = FALSE])]
           next == NextOpen(ls)
<1>1. i \in Lanes /\ lanes[i] \in LaneType  BY DEF Skip, TypeOK, SpeakerType
<1>2. Closed([lanes[i] EXCEPT !.tx = FALSE]) \in LaneType
  <2>1. FALSE \in BOOLEAN  OBVIOUS
  <2>2. [lanes[i] EXCEPT !.tx = FALSE] \in LaneType  BY <1>1, <2>1, UpdateTx, Zenon
  <2> QED  BY <2>2, ClosedType
<1>3. ls \in [Lanes -> LaneType] /\ ls[i] \in LaneType  BY <1>1, <1>2 DEF TypeOK
<1>4. next \in Lanes \cup {0}  BY NextOpenSpeaks
<1>5. h \in Nat  BY TimeAssumption
<1>6. speaker' = SetAudible(speaker, ls, next) /\ speaker' \in SpeakerType
  <2>1. speaker' = SetAudible(speaker, ls, next)  BY DEF Skip
  <2> HIDE DEF ls, next
  <2> QED  BY <1>3, <1>4, <2>1, SpeakerTypes DEF TypeOK
<1>7. told' \in ToldType
  <2>1. told' = TellAudible(TellClose(told, id), speaker, ls, next)  BY DEF Skip
  <2>2. TellClose(told, id) \in ToldType
    <3>1. told.open \in SUBSET Ids  BY DEF TypeOK, ToldType
    <3> QED  BY <3>1 DEF TellClose, TypeOK, ToldType
  <2>3. IdAt(ls, next) \in Ids \cup {NoId}
    <3> HIDE DEF ls, next
    <3> QED  BY <1>3, <1>4 DEF IdAt, LaneType
  <2> HIDE DEF ls, next
  <2> QED  BY <2>1, <2>2, <2>3 DEF TellAudible, ToldType
<1>8. lanes' \in [Lanes -> LaneType]
  <2>1. [ls EXCEPT ![i] = Parked] \in [Lanes -> LaneType]  BY <1>3, ParkedType
  <2>2. [ls[i] EXCEPT !.skip = h] \in LaneType  BY <1>3, <1>5, UpdateCount
  <2>3. [ls EXCEPT ![i].skip = h] \in [Lanes -> LaneType]  BY <1>3, <2>2
  <2>4. lanes' = [ls EXCEPT ![i] = Parked] \/ lanes' = [ls EXCEPT ![i].skip = h]  BY DEF Skip
  <2> QED  BY <2>1, <2>3, <2>4
<1>9. holdoff' \in [Ids -> Nat] /\ lockout' \in [Ids -> Nat]  BY <1>5 DEF Skip, TypeOK
<1> QED  BY <1>6, <1>7, <1>8, <1>9 DEF Skip, TypeOK

LEMMA AlertUnmuteType ==
  ASSUME TypeOK, NEW id \in Ids, NEW h \in AlertHolds, AlertUnmute(id, h) PROVE TypeOK'
<1> DEFINE at == {j \in Lanes : lanes[j].id = id}
           i == First(at)
           ls == [lanes EXCEPT ![i] = [@ EXCEPT !.allowAudio = TRUE, !.alert = h]]
<1>1. i \in at  BY FirstIsFirst, LanesAreNatural DEF AlertUnmute
<1>2. i \in Lanes /\ lanes[i] \in LaneType  BY <1>1 DEF TypeOK
<1>3. lanes' = ls /\ ls \in [Lanes -> LaneType]
  <2>1. TRUE \in BOOLEAN /\ h \in Int  BY TimeAssumption
  <2>2. [lanes[i] EXCEPT !.allowAudio = TRUE, !.alert = h] \in LaneType
    BY <1>2, <2>1, UpdateAlert, Zenon
  <2>3. ls \in [Lanes -> LaneType]  BY <1>2, <2>2 DEF TypeOK
  <2> QED  BY <2>3 DEF AlertUnmute
<1>4. /\ speaker' \in {speaker, SetAudible(speaker, ls, i)}
      /\ told' \in {told, TellAudible(told, speaker, ls, i)}
  BY DEF AlertUnmute
<1> HIDE DEF ls, i, at
<1>5. SetAudible(speaker, ls, i) \in SpeakerType  BY <1>2, <1>3, SpeakerTypes DEF TypeOK
<1>6. TellAudible(told, speaker, ls, i) \in ToldType  BY <1>2, <1>3, ToldTypes DEF TypeOK
<1> QED  BY <1>3, <1>4, <1>5, <1>6 DEF AlertUnmute, TypeOK

LEMMA AssignCcType ==
  ASSUME TypeOK, NEW id \in Discoveries, AssignCc(id) PROVE TypeOK'
<1> DEFINE free == {i \in Lanes : IsParked(lanes[i])}
           audible == id \in ccAudible
<1>1. First(free) \in Lanes  BY FirstIsFirst, LanesAreNatural DEF AssignCc
<1>2. id \in Ids /\ audible \in BOOLEAN /\ FALSE \in BOOLEAN  BY DEF Ids
<1>3. Assigned(id, audible, audible, FALSE, FALSE) \in LaneType
  <2> HIDE DEF audible
  <2> QED  BY <1>2, AssignedType, Zenon
<1>4. lanes' \in [Lanes -> LaneType]  BY <1>1, <1>3 DEF AssignCc, TypeOK
<1> QED  BY <1>4 DEF AssignCc, TypeOK

LEMMA TypeInit == Init => TypeOK
<1> SUFFICES ASSUME Init PROVE TypeOK  OBVIOUS
<1>1. lanes \in [Lanes -> LaneType]  BY ParkedType DEF Init
<1>2. speaker \in SpeakerType  BY DEF Init, Silent, SpeakerType
<1>3. told \in ToldType  BY DEF Init, ToldType
<1>4. holdoff \in [Ids -> Nat] /\ lockout \in [Ids -> Nat]  BY DEF Init
<1>5. monitor \in BOOLEAN /\ ccAudible \subseteq Discoveries /\ cursor \in Lanes \cup {0}
  BY DEF Init
<1> QED  BY <1>1, <1>2, <1>3, <1>4, <1>5 DEF TypeOK

LEMMA TypeStep == TypeOK /\ [Next]_vars => TypeOK'
<1> SUFFICES ASSUME TypeOK, [Next]_vars PROVE TypeOK'  OBVIOUS
<1>1. CASE BeginPoll
  <2>1. cursor' \in Lanes \cup {0}  BY <1>1, CountAssumption DEF BeginPoll, Lanes
  <2> QED  BY <1>1, <2>1, PollTimeType DEF BeginPoll
<1>2. CASE Gap  BY <1>2, PollTimeType DEF Gap, TypeOK
<1>3. CASE \E i \in Lanes : PollPasses(i)  BY <1>3, PollPassesType
<1>4. CASE \E i \in Lanes, r \in Readings :
             PollStays(i, r) \/ PollOpens(i, r) \/ PollCloses(i, r)
  BY <1>4, PollStaysType, PollOpensType, PollClosesType
<1>5. CASE \E cmd \in TuneCmds : Tune(cmd)  BY <1>5, TuneStepType
<1>6. CASE \E h \in Holdoffs : Skip(h)  BY <1>6, SkipType
<1>7. CASE \E id \in Ids, h \in AlertHolds : AlertUnmute(id, h)  BY <1>7, AlertUnmuteType
<1>8. CASE \E id \in Discoveries : AssignCc(id)  BY <1>8, AssignCcType
<1>9. CASE UNCHANGED vars  BY <1>9 DEF vars, TypeOK
<1> QED  BY <1>1, <1>2, <1>3, <1>4, <1>5, <1>6, <1>7, <1>8, <1>9
         DEF Next, PollStep, CommandStep

(* Every reachable state is well typed: audible_ is a slot or nobody, poll() *)
(* stays inside the lanes, and no deadline leaves its domain.                *)
THEOREM TypeCorrect == Spec => []TypeOK
<1>1. Init => TypeOK  BY TypeInit
<1>2. TypeOK /\ [Next]_vars => TypeOK'  BY TypeStep
<1> QED  BY <1>1, <1>2, PTL DEF Spec

-----------------------------------------------------------------------------
(***************************************************************************)
(* The arbitration of the speaker.  SpeakerOnOpenLane is not inductive      *)
(* alone: whether a lane may speak again after its alert depends on the     *)
(* muting its channel was configured with, so the strengthening relates the *)
(* flags of each lane, and says that poll() only runs outside monitor mode. *)
(***************************************************************************)
LaneSane(L) ==
  /\ IsParked(L) => ~L.open
  /\ L.audibleCfg => L.allowAudio
  /\ L.allowAudio /\ ~L.audibleCfg => L.alert # NoAlert

Owned(ls, sp, mon) ==
  sp.lane # 0 => ~IsParked(ls[sp.lane]) /\ ls[sp.lane].open /\ (ls[sp.lane].allowAudio \/ mon)
NotIdle(ls, sp) == (\E i \in Lanes : MaySpeak(ls[i])) => sp.lane # 0
GateOk(ls, sp) ==
  sp.gate => sp.lane # 0 /\ ls[sp.lane].carrier /\ ls[sp.lane].toneOk

AllSane(ls) == \A i \in Lanes : LaneSane(ls[i])

Arbitrated(ls, sp, mon) ==
  AllSane(ls) /\ Owned(ls, sp, mon) /\ (mon \/ NotIdle(ls, sp)) /\ GateOk(ls, sp)

IInv == TypeOK /\ Arbitrated(lanes, speaker, monitor) /\ (cursor # 0 => ~monitor)

USE DEF SpeakerType

(* A speaker taken from a lane that may not speak goes to the right lane.    *)
LEMMA NextOwner ==
  ASSUME NEW ls \in [Lanes -> LaneType], AllSane(ls), NEW sp \in SpeakerType, NEW mon \in BOOLEAN,
         sp.lane # 0, ~MaySpeak(ls[sp.lane])
  PROVE  Arbitrated(ls, SetAudible(sp, ls, NextOpen(ls)), mon)
<1> DEFINE n == NextOpen(ls)
           s == SetAudible(sp, ls, n)
<1>1. /\ n # 0 => n \in Lanes /\ MaySpeak(ls[n])
      /\ n = 0 => \A i \in Lanes : ~MaySpeak(ls[i])
  BY NextOpenSpeaks
<1>2. sp.lane # n  BY <1>1
<1> HIDE DEF n
<1>3. s.lane = n /\ s.gate = (n # 0 /\ ls[n].carrier /\ ls[n].toneOk)
  BY <1>2 DEF SetAudible
<1> HIDE DEF s
<1>4. Owned(ls, s, mon)  BY <1>1, <1>3 DEF Owned, MaySpeak
<1>5. NotIdle(ls, s)  BY <1>1, <1>3 DEF NotIdle
<1>6. GateOk(ls, s)  BY <1>3 DEF GateOk
<1> QED  BY <1>4, <1>5, <1>6 DEF Arbitrated, s, n

(* Changing one lane in a way its owner-relevant fields do not notice.       *)
LEMMA SameOwner ==
  ASSUME NEW ls \in [Lanes -> LaneType], NEW ls2 \in [Lanes -> LaneType],
         NEW sp \in SpeakerType, NEW mon \in BOOLEAN,
         Arbitrated(ls, sp, mon), AllSane(ls2),
         \A j \in Lanes : /\ ls2[j].id = ls[j].id /\ ls2[j].open = ls[j].open
                          /\ ls2[j].allowAudio = ls[j].allowAudio
                          /\ ls2[j].carrier = ls[j].carrier /\ ls2[j].toneOk = ls[j].toneOk
  PROVE  Arbitrated(ls2, sp, mon)
<1>1. \A j \in Lanes : MaySpeak(ls2[j]) <=> MaySpeak(ls[j])  BY DEF MaySpeak, IsParked
<1>2. sp.lane # 0 => sp.lane \in Lanes  OBVIOUS
<1>3. Owned(ls2, sp, mon)  BY <1>2 DEF Arbitrated, Owned, IsParked
<1>4. NotIdle(ls, sp) => NotIdle(ls2, sp)  BY <1>1 DEF NotIdle
<1>5. GateOk(ls2, sp)  BY <1>2 DEF Arbitrated, GateOk
<1> QED  BY <1>3, <1>4, <1>5 DEF Arbitrated

(* A lane that is not audible may change freely, as long as it may not speak.*)
LEMMA OtherLane ==
  ASSUME NEW ls \in [Lanes -> LaneType], NEW i \in Lanes, NEW L \in LaneType, LaneSane(L),
         NEW sp \in SpeakerType, NEW mon \in BOOLEAN, Arbitrated(ls, sp, mon), sp.lane # i,
         MaySpeak(L) => MaySpeak(ls[i])
  PROVE  Arbitrated([ls EXCEPT ![i] = L], sp, mon)
<1> DEFINE ls2 == [ls EXCEPT ![i] = L]
<1>1. \A j \in Lanes : ls2[j] = IF j = i THEN L ELSE ls[j]  OBVIOUS
<1>2. sp.lane # 0 => sp.lane \in Lanes /\ ls2[sp.lane] = ls[sp.lane]  OBVIOUS
<1> HIDE DEF ls2
<1>3. AllSane(ls2)  BY <1>1 DEF Arbitrated, AllSane
<1>4. Owned(ls2, sp, mon)  BY <1>2 DEF Arbitrated, Owned
<1>5. NotIdle(ls, sp) => NotIdle(ls2, sp)  BY <1>1 DEF NotIdle
<1>6. GateOk(ls2, sp)  BY <1>2 DEF Arbitrated, GateOk
<1> QED  BY <1>3, <1>4, <1>5, <1>6 DEF Arbitrated, ls2

(* What an alert that ends and a measurement change of a lane.               *)
LEMMA MeasuredFields ==
  ASSUME NEW L \in LaneType, NEW r \in Readings, LaneSane(L)
  PROVE  LET A == AlertEnded(L)
             M == Measured(A, r)
         IN  /\ A \in LaneType /\ M \in LaneType /\ LaneSane(A) /\ LaneSane(M)
             /\ A.id = L.id /\ A.open = L.open /\ M.id = L.id /\ M.open = L.open
             /\ M.allowAudio = A.allowAudio
             /\ A.allowAudio => L.allowAudio
             /\ L.alert = 0 => A.allowAudio = L.audibleCfg
             /\ L.alert # 0 => A = L
<1> DEFINE A == AlertEnded(L)
           M == Measured(A, r)
<1>1. A \in LaneType /\ M \in LaneType  BY MeasuredType
<1>2. /\ A.id = L.id /\ A.open = L.open /\ A.audibleCfg = L.audibleCfg
      /\ L.alert = 0 => A.allowAudio = L.audibleCfg
      /\ L.alert # 0 => A = L
  BY DEF AlertEnded, LaneType
<1>3. LaneSane(A) /\ (A.allowAudio => L.allowAudio)
  BY <1>2 DEF LaneSane, IsParked
<1> HIDE DEF A
<1>4. /\ M.id = A.id /\ M.open = A.open /\ M.allowAudio = A.allowAudio
      /\ M.audibleCfg = A.audibleCfg /\ M.alert = A.alert
  BY <1>1 DEF Measured, LaneType
<1>5. LaneSane(M)  BY <1>3, <1>4 DEF LaneSane, IsParked
<1> QED  BY <1>1, <1>2, <1>3, <1>4, <1>5 DEF A

(* Up to its decision, iteration i keeps the arbitration.                    *)
LEMMA DecisionKeeps ==
  ASSUME TypeOK, NEW i \in Lanes, NEW r \in Readings, Decides(i),
         Arbitrated(lanes, speaker, FALSE)
  PROVE  /\ Arbitrated(MeasuredLanes(i, r), SpeakerMeasured(i, r), FALSE)
         /\ SpeakerMeasured(i, r).lane = i => MaySpeak(MeasuredLanes(i, r)[i])
<1> DEFINE A == AlertEnded(lanes[i])
           M == Measured(A, r)
           ls1 == AlertedLanes(i)
           ls2 == MeasuredLanes(i, r)
           sp1 == SpeakerAfterAlert(i)
           sp2 == SpeakerMeasured(i, r)
<1>1. lanes \in [Lanes -> LaneType] /\ lanes[i] \in LaneType /\ LaneSane(lanes[i])
  BY DEF TypeOK, Arbitrated, AllSane
<1>2. /\ A \in LaneType /\ M \in LaneType /\ LaneSane(A) /\ LaneSane(M)
      /\ A.id = lanes[i].id /\ A.open = lanes[i].open
      /\ M.id = lanes[i].id /\ M.open = lanes[i].open /\ M.allowAudio = A.allowAudio
      /\ A.allowAudio => lanes[i].allowAudio
      /\ lanes[i].alert = 0 => A.allowAudio = lanes[i].audibleCfg
      /\ lanes[i].alert # 0 => A = lanes[i]
  BY <1>1, MeasuredFields
<1>3. ls1 = [lanes EXCEPT ![i] = A] /\ ls2 = [lanes EXCEPT ![i] = M]
  BY <1>1 DEF AlertedLanes, MeasuredLanes
<1>4. /\ ls1 \in [Lanes -> LaneType] /\ ls2 \in [Lanes -> LaneType]
      /\ ls1[i] = A /\ ls2[i] = M /\ ls2 = [ls1 EXCEPT ![i] = M]
      /\ AllSane(ls1) /\ AllSane(ls2)
  BY ZenonT(60), <1>1, <1>2, <1>3 DEF Arbitrated, AllSane
<1>5. speaker \in SpeakerType /\ sp1 \in SpeakerType  BY DecisionTypes DEF TypeOK
<1>6. sp2 = IF sp1.lane = i THEN [sp1 EXCEPT !.gate = GateOf(ls2[i])] ELSE sp1
  BY DEF SpeakerMeasured
<1>7. /\ MaySpeak(A) => MaySpeak(lanes[i])
      /\ MaySpeak(M) <=> MaySpeak(A)
  BY <1>2 DEF MaySpeak, IsParked
<1>8. sp1 = IF LosesSpeaker(i)
            THEN SetAudible([speaker EXCEPT !.gate = FALSE], ls1, NextOpen(ls1)) ELSE speaker
  BY DEF SpeakerAfterAlert
<1> HIDE DEF A, M, ls1, ls2, sp1, sp2
<1>9. CASE LosesSpeaker(i)
  <2> DEFINE q == [speaker EXCEPT !.gate = FALSE]
  <2>1. q \in SpeakerType /\ q.lane = i /\ i # 0  BY <1>5, <1>9, LanesAreNatural DEF LosesSpeaker
  <2>2. ~MaySpeak(ls1[i])  BY <1>2, <1>4, <1>9 DEF LosesSpeaker, MaySpeak
  <2>3. sp1 = SetAudible(q, ls1, NextOpen(ls1))  BY <1>8, <1>9
  <2> HIDE DEF q
  <2>4. Arbitrated(ls1, sp1, FALSE)  BY <1>4, <2>1, <2>2, <2>3, NextOwner
  <2>5. sp1.lane # i  BY <2>2, <2>4, <2>1 DEF Arbitrated, Owned, MaySpeak
  <2>6. Arbitrated(ls2, sp1, FALSE)
    <3>1. MaySpeak(M) => MaySpeak(ls1[i])  BY <1>4, <1>7
    <3>2. ls1 \in [Lanes -> LaneType] /\ M \in LaneType /\ LaneSane(M) /\ sp1 \in SpeakerType
      BY <1>2, <1>4, <1>5
    <3>3. Arbitrated([ls1 EXCEPT ![i] = M], sp1, FALSE)  BY <2>4, <2>5, <3>1, <3>2, OtherLane
    <3> QED  BY <1>4, <3>3
  <2> QED  BY <1>6, <2>5, <2>6 DEF sp2, ls2
<1>10. CASE ~LosesSpeaker(i) /\ speaker.lane # i
  <2>1. sp2 = speaker  BY <1>6, <1>8, <1>10
  <2>2. MaySpeak(M) => MaySpeak(lanes[i])  BY <1>7
  <2>3. Arbitrated(ls2, speaker, FALSE)
    BY <1>1, <1>2, <1>3, <1>5, <1>10, <2>2, OtherLane
  <2> QED  BY <1>10, <2>1, <2>3 DEF sp2, ls2
<1>11. CASE ~LosesSpeaker(i) /\ speaker.lane = i
  <2>1. sp2 = [speaker EXCEPT !.gate = GateOf(M)]  BY <1>4, <1>6, <1>8, <1>11
  <2>2. GateOf(M) \in BOOLEAN  BY DEF GateOf
  <2>3. sp2.lane = i /\ sp2.gate = GateOf(M) /\ i # 0
    BY <1>5, <1>11, <2>1, <2>2, LanesAreNatural
  <2>4. MaySpeak(lanes[i])  BY <1>11, <2>3 DEF Arbitrated, Owned, MaySpeak
  <2>5. MaySpeak(M)
    BY <1>2, <1>11, <2>4 DEF LosesSpeaker, MaySpeak, IsParked
  <2>6. Owned(ls2, sp2, FALSE) /\ NotIdle(ls2, sp2) /\ GateOk(ls2, sp2)
    BY <1>4, <2>3, <2>5 DEF Owned, NotIdle, GateOk, MaySpeak, GateOf
  <2> QED  BY <1>4, <2>5, <2>6 DEF Arbitrated, sp2, ls2
<1> QED  BY <1>9, <1>10, <1>11

LEMMA PollTimeKeeps ==
  ASSUME TypeOK, PollTime, Arbitrated(lanes, speaker, monitor)
  PROVE  Arbitrated(lanes', speaker', monitor')
<1>1. /\ lanes \in [Lanes -> LaneType] /\ lanes' \in [Lanes -> LaneType]
      /\ speaker \in SpeakerType /\ monitor \in BOOLEAN
  BY AgedType DEF TypeOK, PollTime
<1>2. ASSUME NEW j \in Lanes
      PROVE  /\ lanes'[j].id = lanes[j].id /\ lanes'[j].open = lanes[j].open
             /\ lanes'[j].allowAudio = lanes[j].allowAudio
             /\ lanes'[j].audibleCfg = lanes[j].audibleCfg
             /\ lanes'[j].carrier = lanes[j].carrier /\ lanes'[j].toneOk = lanes[j].toneOk
             /\ lanes'[j].alert = CountDown(lanes[j].alert)
  <2>1. lanes'[j] = Aged(lanes[j]) /\ lanes[j] \in LaneType  BY <1>1 DEF PollTime
  <2> QED  BY <2>1 DEF Aged, LaneType
<1>3. ASSUME NEW j \in Lanes, LaneSane(lanes[j]) PROVE LaneSane(lanes'[j])
  <2>1. lanes[j].alert \in Int  BY <1>1 DEF LaneType
  <2>2. lanes[j].alert # NoAlert => CountDown(lanes[j].alert) # NoAlert
    BY <2>1 DEF CountDown, NoAlert
  <2> QED  BY <1>2, <1>3, <2>2 DEF LaneSane, IsParked
<1>4. AllSane(lanes')  BY <1>3 DEF Arbitrated, AllSane
<1>5. Arbitrated(lanes', speaker, monitor)  BY <1>1, <1>2, <1>4, SameOwner
<1> QED  BY <1>5 DEF PollTime

LEMMA PollPassesKeeps ==
  ASSUME TypeOK, NEW i \in Lanes, PollPasses(i), Arbitrated(lanes, speaker, monitor)
  PROVE  Arbitrated(lanes', speaker', monitor')
<1>1. /\ lanes \in [Lanes -> LaneType] /\ lanes' \in [Lanes -> LaneType]
      /\ speaker \in SpeakerType /\ monitor \in BOOLEAN
  BY PollPassesType DEF TypeOK
<1>2. ASSUME NEW j \in Lanes
      PROVE  /\ lanes'[j].id = lanes[j].id /\ lanes'[j].open = lanes[j].open
             /\ lanes'[j].allowAudio = lanes[j].allowAudio
             /\ lanes'[j].audibleCfg = lanes[j].audibleCfg
             /\ lanes'[j].carrier = lanes[j].carrier /\ lanes'[j].toneOk = lanes[j].toneOk
             /\ lanes'[j].alert = lanes[j].alert
  <2>1. lanes[j] \in LaneType  BY <1>1
  <2>2. lanes' = [lanes EXCEPT ![i].warmup = CountDown(@)]  BY DEF PollPasses
  <2> QED  BY <1>1, <2>1, <2>2 DEF LaneType
<1>3. AllSane(lanes')  BY <1>2 DEF Arbitrated, AllSane, LaneSane, IsParked
<1>4. Arbitrated(lanes', speaker, monitor)  BY <1>1, <1>2, <1>3, SameOwner
<1> QED  BY <1>4 DEF PollPasses

LEMMA PollStaysKeeps ==
  ASSUME TypeOK, NEW i \in Lanes, NEW r \in Readings, PollStays(i, r),
         Arbitrated(lanes, speaker, FALSE)
  PROVE  Arbitrated(lanes', speaker', FALSE)
<1> DEFINE ls == MeasuredLanes(i, r)
           L == ls[i]
           sp == SpeakerMeasured(i, r)
<1>1. Decides(i) /\ lanes' = [lanes EXCEPT ![i] = Counted(L, r)] /\ speaker' = sp
  BY DEF PollStays
<1>2. ls \in [Lanes -> LaneType] /\ L \in LaneType /\ sp \in SpeakerType  BY <1>1, DecisionTypes
<1>3. Arbitrated(ls, sp, FALSE)  BY <1>1, DecisionKeeps
<1>4. lanes' = [ls EXCEPT ![i] = Counted(L, r)]  BY ZenonT(60), <1>1 DEF MeasuredLanes, TypeOK
<1> HIDE DEF ls, sp
<1>5. Counted(L, r) \in LaneType  BY <1>2, DecidedType
<1>6. /\ Counted(L, r).id = L.id /\ Counted(L, r).open = L.open
      /\ Counted(L, r).allowAudio = L.allowAudio /\ Counted(L, r).audibleCfg = L.audibleCfg
      /\ Counted(L, r).carrier = L.carrier /\ Counted(L, r).toneOk = L.toneOk
      /\ Counted(L, r).alert = L.alert
  BY <1>2 DEF Counted, LaneType
<1>7. lanes' \in [Lanes -> LaneType]  BY <1>2, <1>4, <1>5
<1>8. AllSane(lanes')  BY <1>2, <1>3, <1>4, <1>6 DEF Arbitrated, AllSane, LaneSane, IsParked
<1>9. Arbitrated(lanes', sp, FALSE)  BY <1>2, <1>3, <1>4, <1>6, <1>7, <1>8, SameOwner
<1> QED  BY <1>1, <1>9

LEMMA PollOpensKeeps ==
  ASSUME TypeOK, NEW i \in Lanes, NEW r \in Readings, PollOpens(i, r),
         Arbitrated(lanes, speaker, FALSE)
  PROVE  Arbitrated(lanes', speaker', FALSE)
<1> DEFINE ms == MeasuredLanes(i, r)
           L == ms[i]
           O == Opened(L)
           ls == [lanes EXCEPT ![i] = O]
           sp == SpeakerMeasured(i, r)
           takes == Takes(L, sp, ls)
<1>1. /\ Decides(i) /\ OpensNow(L, r) /\ lanes' = ls
      /\ speaker' = IF takes THEN SetAudible(sp, ls, i) ELSE sp
  BY DEF PollOpens
<1>2. /\ ms \in [Lanes -> LaneType] /\ L \in LaneType /\ sp \in SpeakerType
      /\ L.id \in Ids
  BY <1>1, DecisionTypes
<1>3. Arbitrated(ms, sp, FALSE)  BY <1>1, DecisionKeeps
<1>4. ls = [ms EXCEPT ![i] = O]  BY ZenonT(60) DEF MeasuredLanes, TypeOK
<1>5. ~L.open  BY <1>1 DEF OpensNow, Wants
<1> HIDE DEF ms, sp, takes
<1>6. /\ O \in LaneType
      /\ O.id = L.id /\ O.open = TRUE /\ O.allowAudio = L.allowAudio
      /\ O.audibleCfg = L.audibleCfg /\ O.alert = L.alert
  <2>1. O \in LaneType  BY <1>2, DecidedType
  <2> QED  BY <1>2, <2>1 DEF Opened, LaneType
<1>7. LaneSane(L)  BY <1>3 DEF Arbitrated, AllSane
<1>8. ~IsParked(O) /\ LaneSane(O)  BY <1>2, <1>6, <1>7, IdAssumption DEF LaneSane, IsParked
<1>9. sp.lane # i  BY <1>3, <1>5, LanesAreNatural DEF Arbitrated, Owned
<1>10. /\ ls \in [Lanes -> LaneType] /\ ls[i] = O
       /\ \A j \in Lanes : j # i => ls[j] = ms[j]
  BY <1>2, <1>4, <1>6
<1> HIDE DEF ls, O
<1>11. AllSane(ls)  BY <1>3, <1>8, <1>10 DEF Arbitrated, AllSane
<1>12. CASE takes
  <2> DEFINE s == SetAudible(sp, ls, i)
  <2>1. s.lane = i /\ s.gate = (i # 0 /\ O.carrier /\ O.toneOk)
    BY <1>9, <1>10 DEF SetAudible
  <2>2. O.allowAudio  BY <1>6, <1>12 DEF takes, Takes
  <2> HIDE DEF s
  <2>3. Owned(ls, s, FALSE) /\ NotIdle(ls, s) /\ GateOk(ls, s)
    BY <1>6, <1>8, <1>10, <2>1, <2>2, LanesAreNatural DEF Owned, NotIdle, GateOk
  <2> QED  BY <1>1, <1>11, <1>12, <2>3 DEF Arbitrated, s
<1>13. CASE ~takes
  <2>1. sp.lane = 0 => ~O.allowAudio  BY <1>6, <1>13 DEF takes, Takes
  <2>2. sp.lane # 0 => ls[sp.lane] = ms[sp.lane]  BY <1>2, <1>9, <1>10
  <2>3. Owned(ls, sp, FALSE) /\ GateOk(ls, sp)
    BY <1>3, <2>2 DEF Arbitrated, Owned, GateOk
  <2>4. NotIdle(ls, sp)
    BY <1>3, <1>10, <2>1 DEF Arbitrated, NotIdle, MaySpeak
  <2> QED  BY <1>1, <1>11, <1>13, <2>3, <2>4 DEF Arbitrated
<1> QED  BY <1>12, <1>13

(* Closing lane i and handing the speaker over if it had it.                  *)
LEMMA CloseHandsOver ==
  ASSUME NEW ls \in [Lanes -> LaneType], NEW i \in Lanes, NEW sp \in SpeakerType,
         NEW mon \in BOOLEAN, Arbitrated(ls, sp, mon), NEW C \in LaneType,
         C.open = FALSE, LaneSane(C)
  PROVE  LET cs == [ls EXCEPT ![i] = C]
         IN  /\ Arbitrated(cs, Handover(sp, cs, i), mon)
             /\ Handover(sp, cs, i).lane # i
<1> DEFINE cs == [ls EXCEPT ![i] = C]
<1>1. cs \in [Lanes -> LaneType] /\ cs[i] = C /\ \A j \in Lanes : j # i => cs[j] = ls[j]
  OBVIOUS
<1>2. ~MaySpeak(C) /\ i # 0  BY LanesAreNatural DEF MaySpeak
<1>3. CASE sp.lane = i
  <2>1. AllSane(cs)  BY <1>1 DEF Arbitrated, AllSane
  <2>2. Handover(sp, cs, i) = SetAudible(sp, cs, NextOpen(cs))  BY <1>3 DEF Handover
  <2>3. NextOpen(cs) # i  BY <1>1, <1>2, NextOpenSpeaks
  <2> HIDE DEF cs
  <2>4. Arbitrated(cs, Handover(sp, cs, i), mon)
    BY <1>1, <1>2, <1>3, <2>1, <2>2, NextOwner
  <2>5. Handover(sp, cs, i).lane # i  BY <1>3, <2>2, <2>3 DEF SetAudible
  <2> QED  BY <2>4, <2>5 DEF cs
<1>4. CASE sp.lane # i
  <2>1. Handover(sp, cs, i) = sp  BY <1>4 DEF Handover
  <2>2. Arbitrated(cs, sp, mon)  BY <1>2, <1>4, OtherLane
  <2> QED  BY <1>4, <2>1, <2>2
<1> QED  BY <1>3, <1>4

LEMMA ClosedFields ==
  ASSUME NEW L \in LaneType, LaneSane(L)
  PROVE  /\ Closed(L) \in LaneType /\ Closed(L).open = FALSE /\ LaneSane(Closed(L))
         /\ Closed(L).id = L.id
<1>1. Closed(L) \in LaneType  BY ClosedType
<1>2. /\ Closed(L).open = FALSE /\ Closed(L).id = L.id
      /\ Closed(L).audibleCfg = L.audibleCfg /\ Closed(L).allowAudio = L.allowAudio
      /\ Closed(L).alert = L.alert
  BY DEF Closed, LaneType
<1> QED  BY <1>1, <1>2 DEF LaneSane

LEMMA ParkedSane == LaneSane(Parked) /\ ~MaySpeak(Parked)
BY DEF LaneSane, Parked, FreshLane, IsParked, MaySpeak

LEMMA PollClosesKeeps ==
  ASSUME TypeOK, NEW i \in Lanes, NEW r \in Readings, PollCloses(i, r),
         Arbitrated(lanes, speaker, FALSE)
  PROVE  Arbitrated(lanes', speaker', FALSE)
<1> DEFINE ms == MeasuredLanes(i, r)
           L == ms[i]
           C == Closed(L)
           ls == [lanes EXCEPT ![i] = C]
           sp == SpeakerMeasured(i, r)
           V == Vacated(C)
<1>1. /\ Decides(i) /\ lanes' = [ls EXCEPT ![i] = Vacated(@)]
      /\ speaker' = Handover(sp, ls, i)
  BY DEF PollCloses
<1>2. ms \in [Lanes -> LaneType] /\ L \in LaneType /\ sp \in SpeakerType
  BY <1>1, DecisionTypes
<1>3. Arbitrated(ms, sp, FALSE)  BY <1>1, DecisionKeeps
<1>4. ls = [ms EXCEPT ![i] = C]  BY ZenonT(60) DEF MeasuredLanes, TypeOK
<1>5. LaneSane(L)  BY <1>3 DEF Arbitrated, AllSane
<1> HIDE DEF ms, sp
<1>6. C \in LaneType /\ C.open = FALSE /\ LaneSane(C)  BY <1>2, <1>5, ClosedFields
<1>7. ls \in [Lanes -> LaneType] /\ ls[i] = C  BY <1>2, <1>4, <1>6
<1>8. lanes' = [ls EXCEPT ![i] = V]  BY <1>1, <1>7
<1>9. V \in LaneType /\ LaneSane(V) /\ ~MaySpeak(V)
  <2>1. ~MaySpeak(C)  BY <1>6 DEF MaySpeak
  <2> QED  BY <1>6, <2>1, ParkedType, ParkedSane DEF Vacated
<1> HIDE DEF C, V
<1>10. Arbitrated(ls, speaker', FALSE) /\ speaker'.lane # i
  <2> DEFINE cs == [ms EXCEPT ![i] = C]
  <2>1. Arbitrated(cs, Handover(sp, cs, i), FALSE) /\ Handover(sp, cs, i).lane # i
    BY <1>2, <1>3, <1>6, CloseHandsOver
  <2>2. ls = cs /\ speaker' = Handover(sp, ls, i)  BY <1>1, <1>4
  <2> HIDE DEF cs, ls
  <2> QED  BY <2>1, <2>2
<1>11. speaker' \in SpeakerType
  <2> HIDE DEF ls
  <2> QED  BY <1>1, <1>2, <1>7, NextOpenSpeaks, SpeakerTypes DEF Handover
<1> HIDE DEF ls
<1> QED  BY <1>7, <1>8, <1>9, <1>10, <1>11, OtherLane

LEMMA FilledFields ==
  ASSUME TypeOK, NEW cmd \in TuneCmds, NEW i \in Lanes
  PROVE  /\ ~Filled(cmd.channels)[i].open /\ LaneSane(Filled(cmd.channels)[i])
         /\ Filled(cmd.channels)[i].toneOk
<1> DEFINE F == Filled(cmd.channels)[i]
<1>1. F = Parked \/ \E id : F = AssignedChannel(id)  BY DEF Filled
<1>2. CASE F = Parked
  BY <1>2, ParkedSane DEF Parked, FreshLane
<1>3. CASE \E id : F = AssignedChannel(id)
  <2>1. PICK id : F = AssignedChannel(id)  BY <1>3
  <2>2. /\ F.open = FALSE /\ F.toneOk = TRUE
        /\ F.audibleCfg = (id \notin SeeOnly) /\ F.allowAudio = (id \notin SeeOnly)
    BY <2>1 DEF AssignedChannel, Assigned, FreshLane
  <2> QED  BY <2>2 DEF LaneSane
<1> QED  BY <1>1, <1>2, <1>3

LEMMA TuneKeeps ==
  ASSUME TypeOK, NEW cmd \in TuneCmds, Tune(cmd), Arbitrated(lanes, speaker, monitor)
  PROVE  Arbitrated(lanes', speaker', monitor')
<1> DEFINE ls == Filled(cmd.channels)
           used == {i \in Lanes : ~IsParked(ls[i])}
           w == First(used)
           H == [ls[w] EXCEPT !.open = TRUE, !.carrier = TRUE, !.quiet = TRUE]
           hold == cmd.monitor /\ used # {}
<1>1. ls \in [Lanes -> LaneType] /\ cmd.monitor \in BOOLEAN
  BY FilledType, TuneAssumption DEF TuneType
<1>2. \A i \in Lanes : ~ls[i].open /\ LaneSane(ls[i]) /\ ls[i].toneOk  BY FilledFields
<1>3. /\ hold => lanes' = [ls EXCEPT ![w] = H] /\ speaker' = [lane |-> w, gate |-> TRUE]
      /\ ~hold => lanes' = ls /\ speaker' = SetAudible(speaker, lanes, 0)
      /\ monitor' = cmd.monitor
  BY DEF Tune
<1> HIDE DEF ls
<1>4. CASE hold
  <2>1. w \in used  BY <1>4, FirstIsFirst, LanesAreNatural
  <2>2. w \in Lanes /\ ls[w] \in LaneType /\ ~IsParked(ls[w]) /\ w # 0
    BY <1>1, <2>1, LanesAreNatural
  <2> HIDE DEF w, used
  <2>3. /\ H.open = TRUE /\ H.carrier = TRUE /\ H.toneOk = ls[w].toneOk /\ H.id = ls[w].id
        /\ H.audibleCfg = ls[w].audibleCfg /\ H.allowAudio = ls[w].allowAudio
        /\ H.alert = ls[w].alert
    BY <2>2 DEF LaneType
  <2>4. LaneSane(ls[w]) /\ ls[w].toneOk  BY <1>2, <2>2
  <2> HIDE DEF H
  <2>5. ~IsParked(H) /\ LaneSane(H) /\ H.toneOk  BY <2>2, <2>3, <2>4 DEF LaneSane, IsParked
  <2>6. lanes'[w] = H /\ \A j \in Lanes : j # w => lanes'[j] = ls[j]
    BY <1>1, <1>3, <1>4, <2>2
  <2>7. AllSane(lanes')  BY <1>2, <2>5, <2>6 DEF AllSane
  <2>8. speaker'.lane = w /\ speaker'.gate = TRUE /\ monitor' = TRUE  BY <1>3, <1>4
  <2>9. Owned(lanes', speaker', monitor') /\ GateOk(lanes', speaker')
    BY <2>2, <2>3, <2>5, <2>6, <2>8 DEF Owned, GateOk
  <2> QED  BY <2>7, <2>8, <2>9 DEF Arbitrated
<1>5. CASE ~hold
  <2>1. AllSane(ls) /\ \A i \in Lanes : ~MaySpeak(ls[i])  BY <1>2 DEF AllSane, MaySpeak
  <2>2. speaker'.lane = 0 /\ ~speaker'.gate
    <3>1. speaker' = SetAudible(speaker, lanes, 0)  BY <1>3, <1>5
    <3>2. CASE speaker.lane = 0
      BY <3>1, <3>2 DEF SetAudible, Arbitrated, GateOk
    <3>3. CASE speaker.lane # 0
      BY <3>1, <3>3 DEF SetAudible
    <3> QED  BY <3>2, <3>3
  <2> QED  BY <1>3, <1>5, <2>1, <2>2 DEF Arbitrated, Owned, NotIdle, GateOk
<1> QED  BY <1>4, <1>5

LEMMA SkipKeeps ==
  ASSUME TypeOK, NEW h \in Holdoffs, Skip(h), Arbitrated(lanes, speaker, monitor)
  PROVE  Arbitrated(lanes', speaker', monitor')
<1> DEFINE i == speaker.lane
           X == [lanes[i] EXCEPT !.tx = FALSE]
           C == Closed(X)
           ls == [lanes EXCEPT ![i] = C]
<1>1. /\ i \in Lanes /\ lanes \in [Lanes -> LaneType] /\ lanes[i] \in LaneType
      /\ monitor \in BOOLEAN /\ speaker \in SpeakerType /\ LaneSane(lanes[i]) /\ h \in Nat
  BY TimeAssumption DEF Skip, TypeOK, Arbitrated, AllSane
<1>2. X \in LaneType /\ LaneSane(X)
  <2>1. FALSE \in BOOLEAN  OBVIOUS
  <2>2. X \in LaneType  BY <1>1, <2>1, UpdateTx, Zenon
  <2>3. /\ X.id = lanes[i].id /\ X.open = lanes[i].open /\ X.audibleCfg = lanes[i].audibleCfg
        /\ X.allowAudio = lanes[i].allowAudio /\ X.alert = lanes[i].alert
    BY <1>1 DEF LaneType
  <2> QED  BY <1>1, <2>2, <2>3 DEF LaneSane, IsParked
<1> HIDE DEF X
<1>3. C \in LaneType /\ C.open = FALSE /\ LaneSane(C)  BY <1>2, ClosedFields
<1>4. /\ speaker' = SetAudible(speaker, ls, NextOpen(ls))
      /\ lanes' = [ls EXCEPT ![i] = Parked] \/ lanes' = [ls EXCEPT ![i].skip = h]
      /\ monitor' = monitor
  BY DEF Skip, X
<1>5. speaker' = Handover(speaker, ls, i)  BY <1>4 DEF Handover
<1> HIDE DEF C
<1>6. Arbitrated(ls, speaker', monitor) /\ speaker'.lane # i
  <2>1. Arbitrated(ls, Handover(speaker, ls, i), monitor) /\ Handover(speaker, ls, i).lane # i
    BY ZenonT(60), <1>1, <1>3, CloseHandsOver
  <2> HIDE DEF ls
  <2> QED  BY <1>5, <2>1
<1>7. ls \in [Lanes -> LaneType] /\ ls[i] = C  BY <1>1, <1>3
<1> HIDE DEF ls
<1>8. speaker' \in SpeakerType  BY <1>1, <1>4, <1>7, NextOpenSpeaks, SpeakerTypes
<1>9. CASE lanes' = [ls EXCEPT ![i] = Parked]
  <2>1. MaySpeak(Parked) => MaySpeak(ls[i])  BY ParkedSane
  <2>2. Parked \in LaneType /\ LaneSane(Parked)  BY ParkedType, ParkedSane
  <2> HIDE DEF i
  <2>3. Arbitrated([ls EXCEPT ![i] = Parked], speaker', monitor)
    <3>1. ls \in [Lanes -> LaneType]  BY <1>7
    <3>2. i \in Lanes  BY <1>1
    <3>3. speaker' \in SpeakerType  BY <1>8
    <3>4. monitor \in BOOLEAN  BY <1>1
    <3>5. Arbitrated(ls, speaker', monitor)  BY <1>6
    <3>6. speaker'.lane # i  BY <1>6
    <3> HIDE DEF SpeakerType
    <3> QED  BY <3>1, <3>2, <3>3, <3>4, <3>5, <3>6, <2>1, <2>2, OtherLane
  <2> QED  BY <1>4, <1>9, <2>3
<1>10. CASE lanes' = [ls EXCEPT ![i].skip = h]
  <2> DEFINE S == [C EXCEPT !.skip = h]
  <2>1. S \in LaneType  BY <1>1, <1>3, UpdateCount
  <2>2. /\ S.id = C.id /\ S.open = C.open /\ S.audibleCfg = C.audibleCfg
        /\ S.allowAudio = C.allowAudio /\ S.alert = C.alert
    BY <1>3 DEF LaneType
  <2>3. LaneSane(S) /\ ~MaySpeak(S)  BY <1>3, <2>2 DEF LaneSane, IsParked, MaySpeak
  <2>4. lanes' = [ls EXCEPT ![i] = S]  BY <1>7, <1>10
  <2>5. MaySpeak(S) => MaySpeak(ls[i])  BY <2>3
  <2> HIDE DEF S, i
  <2>6. Arbitrated([ls EXCEPT ![i] = S], speaker', monitor)
    <3>1. ls \in [Lanes -> LaneType]  BY <1>7
    <3>2. i \in Lanes  BY <1>1
    <3>3. speaker' \in SpeakerType  BY <1>8
    <3>4. monitor \in BOOLEAN  BY <1>1
    <3>5. Arbitrated(ls, speaker', monitor)  BY <1>6
    <3>6. speaker'.lane # i  BY <1>6
    <3> HIDE DEF SpeakerType
    <3> QED  BY <3>1, <3>2, <3>3, <3>4, <3>5, <3>6, <2>1, <2>3, <2>5, OtherLane
  <2> QED  BY <1>4, <2>4, <2>6
<1> QED  BY <1>4, <1>9, <1>10

LEMMA AlertUnmuteKeeps ==
  ASSUME TypeOK, NEW id \in Ids, NEW h \in AlertHolds, AlertUnmute(id, h),
         Arbitrated(lanes, speaker, monitor)
  PROVE  Arbitrated(lanes', speaker', monitor')
<1> DEFINE at == {j \in Lanes : lanes[j].id = id}
           i == First(at)
           U == [lanes[i] EXCEPT !.allowAudio = TRUE, !.alert = h]
           ls == [lanes EXCEPT ![i] = U]
<1>1. i \in at  BY FirstIsFirst, LanesAreNatural DEF AlertUnmute
<1>2. /\ i \in Lanes /\ lanes \in [Lanes -> LaneType] /\ lanes[i] \in LaneType /\ i # 0
      /\ lanes[i].id = id /\ monitor \in BOOLEAN /\ speaker \in SpeakerType
      /\ LaneSane(lanes[i]) /\ h \in Nat \ {0}
  BY <1>1, LanesAreNatural, TimeAssumption DEF TypeOK, Arbitrated, AllSane
<1>3. /\ lanes' = ls /\ monitor' = monitor
      /\ speaker' = IF lanes[i].open THEN SetAudible(speaker, ls, i) ELSE speaker
  BY DEF AlertUnmute
<1> HIDE DEF i, at
<1>4. U \in LaneType
  <2>1. TRUE \in BOOLEAN /\ h \in Int  BY <1>2
  <2> QED  BY <1>2, <2>1, UpdateAlert, Zenon
<1>5. /\ U.id = id /\ U.open = lanes[i].open /\ U.allowAudio = TRUE /\ U.alert = h
      /\ U.carrier = lanes[i].carrier /\ U.toneOk = lanes[i].toneOk
  BY <1>2 DEF LaneType
<1>6. ~IsParked(U) /\ LaneSane(U)
  BY <1>2, <1>5, IdAssumption DEF IsParked, LaneSane, NoAlert
<1> HIDE DEF U
<1>7. ls \in [Lanes -> LaneType] /\ ls[i] = U /\ \A j \in Lanes : j # i => ls[j] = lanes[j]
  BY <1>2, <1>4
<1>8. AllSane(ls)  BY <1>6, <1>7 DEF Arbitrated, AllSane
<1>9. CASE lanes[i].open /\ speaker.lane # i
  <2> DEFINE s == SetAudible(speaker, ls, i)
  <2>1. s.lane = i /\ s.gate = (i # 0 /\ U.carrier /\ U.toneOk)
    BY <1>7, <1>9 DEF SetAudible
  <2>2. speaker' = s  BY <1>3, <1>9
  <2> HIDE DEF s, ls
  <2>3. Owned(ls, s, monitor) /\ NotIdle(ls, s) /\ GateOk(ls, s)
    BY <1>2, <1>5, <1>6, <1>7, <1>9, <2>1 DEF Owned, NotIdle, GateOk
  <2> QED  BY <1>3, <1>8, <2>2, <2>3 DEF Arbitrated
<1>10. CASE ~lanes[i].open \/ speaker.lane = i
  <2>1. speaker' = speaker  BY <1>3, <1>10 DEF SetAudible
  <2>2. speaker.lane = i => lanes[i].open  BY <1>2 DEF Arbitrated, Owned
  <2> HIDE DEF ls
  <2>3. Owned(ls, speaker, monitor)
    BY <1>2, <1>5, <1>6, <1>7 DEF Arbitrated, Owned
  <2>4. NotIdle(lanes, speaker) => NotIdle(ls, speaker)
    BY <1>2, <1>5, <1>7, <1>10 DEF NotIdle, MaySpeak
  <2>5. GateOk(ls, speaker)  BY <1>2, <1>5, <1>7 DEF Arbitrated, GateOk
  <2> QED  BY <1>3, <1>8, <2>1, <2>3, <2>4, <2>5 DEF Arbitrated
<1> QED  BY <1>9, <1>10

LEMMA AssignCcKeeps ==
  ASSUME TypeOK, NEW id \in Discoveries, AssignCc(id), Arbitrated(lanes, speaker, monitor)
  PROVE  Arbitrated(lanes', speaker', monitor')
<1> DEFINE free == {i \in Lanes : IsParked(lanes[i])}
           i == First(free)
           audible == id \in ccAudible
           N == Assigned(id, audible, audible, FALSE, FALSE)
<1>1. i \in free  BY FirstIsFirst, LanesAreNatural DEF AssignCc
<1>2. /\ lanes' = [lanes EXCEPT ![i] = N] /\ speaker' = speaker /\ monitor' = monitor
      /\ speaker \in SpeakerType /\ monitor \in BOOLEAN /\ lanes \in [Lanes -> LaneType]
  BY DEF AssignCc, TypeOK
<1>3. N \in LaneType
  <2>1. id \in Ids /\ audible \in BOOLEAN /\ FALSE \in BOOLEAN  BY DEF Ids
  <2> HIDE DEF audible
  <2> QED  BY <2>1, AssignedType, Zenon
<1>4. LaneSane(N) /\ ~MaySpeak(N)
  BY DEF Assigned, FreshLane, LaneSane, MaySpeak
<1>5. i \in Lanes /\ speaker.lane # i
  BY <1>1, LanesAreNatural DEF Arbitrated, Owned
<1> HIDE DEF i, N, free
<1> QED  BY ZenonT(60), <1>2, <1>3, <1>4, <1>5, OtherLane

LEMMA InvInit == Init => IInv
<1> SUFFICES ASSUME Init PROVE IInv  OBVIOUS
<1>1. AllSane(lanes) /\ \A i \in Lanes : ~MaySpeak(lanes[i])
  BY ParkedSane DEF Init, AllSane
<1>2. speaker.lane = 0 /\ speaker.gate = FALSE  BY DEF Init, Silent
<1>3. Arbitrated(lanes, speaker, monitor)
  BY <1>1, <1>2 DEF Arbitrated, Owned, NotIdle, GateOk
<1> QED  BY <1>3, TypeInit DEF IInv, Init

LEMMA InvStep == IInv /\ [Next]_vars => IInv'
<1> SUFFICES ASSUME IInv, [Next]_vars PROVE IInv'  OBVIOUS
<1>1. TypeOK' /\ TypeOK  BY TypeStep DEF IInv
<1>2. Arbitrated(lanes, speaker, monitor)  BY DEF IInv
<1>3. ASSUME NEW i \in Lanes, cursor = i PROVE monitor = FALSE
  BY <1>1, <1>3, LanesAreNatural DEF IInv, TypeOK
<1>4. CASE BeginPoll
  BY <1>1, <1>2, <1>4, PollTimeKeeps DEF BeginPoll, PollTime, IInv
<1>5. CASE Gap
  BY <1>1, <1>2, <1>5, PollTimeKeeps DEF Gap, PollTime, IInv
<1>6. CASE \E i \in Lanes : PollPasses(i)
  <2>1. PICK i \in Lanes : PollPasses(i)  BY <1>6
  <2>2. monitor = FALSE /\ monitor' = monitor  BY <1>3, <2>1 DEF PollPasses
  <2>3. Arbitrated(lanes', speaker', monitor')  BY <1>1, <1>2, <2>1, PollPassesKeeps
  <2> QED  BY <1>1, <2>2, <2>3 DEF IInv
<1>7. CASE \E i \in Lanes, r \in Readings :
             PollStays(i, r) \/ PollOpens(i, r) \/ PollCloses(i, r)
  <2>1. PICK i \in Lanes, r \in Readings :
          PollStays(i, r) \/ PollOpens(i, r) \/ PollCloses(i, r)
    BY <1>7
  <2>2. Decides(i)  BY <2>1 DEF PollStays, PollOpens, PollCloses
  <2>3. monitor = FALSE /\ monitor' = FALSE  BY <1>3, <2>2 DEF Decides
  <2>4. Arbitrated(lanes', speaker', FALSE)
    BY <1>1, <1>2, <2>1, <2>3, PollStaysKeeps, PollOpensKeeps, PollClosesKeeps
  <2> QED  BY <1>1, <2>3, <2>4 DEF IInv
<1>8. CASE \E cmd \in TuneCmds : Tune(cmd)
  BY ZenonT(60), <1>1, <1>2, <1>8, TuneKeeps DEF Tune, IInv
<1>9. CASE \E h \in Holdoffs : Skip(h)
  BY <1>1, <1>2, <1>9, SkipKeeps DEF Skip, IInv
<1>10. CASE \E id \in Ids, h \in AlertHolds : AlertUnmute(id, h)
  BY ZenonT(60), <1>1, <1>2, <1>10, AlertUnmuteKeeps DEF AlertUnmute, IInv
<1>11. CASE \E id \in Discoveries : AssignCc(id)
  BY <1>1, <1>2, <1>11, AssignCcKeeps DEF AssignCc, IInv
<1>12. CASE UNCHANGED vars
  <2>1. lanes' = lanes /\ speaker' = speaker /\ monitor' = monitor /\ cursor' = cursor
    BY <1>12 DEF vars
  <2> QED  BY <1>1, <1>2, <2>1 DEF IInv
<1> QED  BY <1>4, <1>5, <1>6, <1>7, <1>8, <1>9, <1>10, <1>11, <1>12
         DEF Next, PollStep, CommandStep

LEMMA InvImplies ==
  IInv => SpeakerOnOpenLane /\ SpeakerNeverIdle /\ GateNeedsCarrier /\ SeeOnlyNeedsAlert
<1> SUFFICES ASSUME IInv
    PROVE SpeakerOnOpenLane /\ SpeakerNeverIdle /\ GateNeedsCarrier /\ SeeOnlyNeedsAlert
  OBVIOUS
<1>1. speaker.lane # 0 => speaker.lane \in Lanes  BY DEF IInv, TypeOK
<1> QED  BY <1>1 DEF IInv, Arbitrated, AllSane, LaneSane, Owned, NotIdle, GateOk,
             SpeakerOnOpenLane, SpeakerNeverIdle, GateNeedsCarrier, SeeOnlyNeedsAlert

LEMMA SpecInv == Spec => []IInv
<1> QED  BY InvInit, InvStep, PTL DEF Spec

(* audible_ is always an open lane that is allowed to speak, for any number  *)
(* of lanes and any order of polls, hops, skips, alerts and discoveries.     *)
THEOREM SpeakerSafe == Spec => []SpeakerOnOpenLane
<1> QED  BY SpecInv, InvImplies, PTL

(* While a lane is open and allowed to speak, somebody has the speaker.      *)
THEOREM SpeakerLive == Spec => []SpeakerNeverIdle
<1> QED  BY SpecInv, InvImplies, PTL

(* The gate is up only over carrier and tone (scanner.cpp:126).              *)
THEOREM GateSafe == Spec => []GateNeedsCarrier
<1> QED  BY SpecInv, InvImplies, PTL

(* A see-only channel is heard only under a pending alert hold.              *)
THEOREM SeeOnlySafe == Spec => []SeeOnlyNeedsAlert
<1> QED  BY SpecInv, InvImplies, PTL

(* All four: the speaker is where it may be, whenever it may be.             *)
THEOREM SpeakerTheorem == Spec => []SpeakerSound
<1>1. IInv => SpeakerSound  BY InvImplies DEF SpeakerSound
<1> QED  BY SpecInv, <1>1, PTL

-----------------------------------------------------------------------------
(***************************************************************************)
(* What the backend knows of the lanes.  An event names a channel, not a    *)
(* lane, so the client's picture is right only because no two lanes hold    *)
(* one channel; and a skip outlives the lane it was asked of because the    *)
(* holdoff of a channel and the one of its lane run down together.          *)
(***************************************************************************)
OpenIds(ls) == {ls[i].id : i \in {j \in Lanes : ls[j].open}}

\* No two lanes hold one channel.
Apart(ls) == \A i, j \in Lanes : ~IsParked(ls[i]) /\ ls[i].id = ls[j].id => i = j

\* A client that was told t knows the open lanes and the audible one.
Knows(t, ls, sp) == t.open = OpenIds(ls) /\ t.audible = IdAt(ls, sp.lane)

\* A lane owes the holdoff of its channel, and is shut while it owes any.
Owing(ls, owed, mon) ==
  \A i \in Lanes : ~IsParked(ls[i]) => /\ ls[i].skip = owed[ls[i].id]
                                       /\ ls[i].open /\ ~mon => ls[i].skip = 0

KnownInv ==
  /\ Apart(lanes) /\ Knows(told, lanes, speaker)
  /\ Owing(lanes, holdoff, monitor) /\ holdoff = lockout

\* Lanes that keep their channels and stay open or shut are known as before.
LEMMA SameKnown ==
  ASSUME NEW ls, NEW ls2, \A j \in Lanes : ls2[j].id = ls[j].id /\ ls2[j].open = ls[j].open
  PROVE  /\ Apart(ls) => Apart(ls2)
         /\ OpenIds(ls2) = OpenIds(ls)
         /\ \A k \in Lanes \cup {0} : IdAt(ls2, k) = IdAt(ls, k)
<1>1. Apart(ls) => Apart(ls2)  BY DEF Apart, IsParked
<1>2. OpenIds(ls2) = OpenIds(ls)  BY DEF OpenIds
<1>3. \A k \in Lanes \cup {0} : IdAt(ls2, k) = IdAt(ls, k)  BY DEF IdAt
<1> QED  BY <1>1, <1>2, <1>3

\* The audible event names the lane the speaker goes to.
LEMMA TellsLane ==
  ASSUME NEW t \in ToldType, NEW sp, NEW ls, NEW k, t.audible = IdAt(ls, sp.lane)
  PROVE  /\ TellAudible(t, sp, ls, k).audible = IdAt(ls, SetAudible(sp, ls, k).lane)
         /\ TellAudible(t, sp, ls, k).open = t.open
         /\ SetAudible(sp, ls, k).lane = k
BY DEF TellAudible, SetAudible, ToldType

\* Opening lane i adds its channel to what is open.
LEMMA OpensOne ==
  ASSUME NEW ls \in [Lanes -> LaneType], NEW i \in Lanes, NEW N \in LaneType,
         N.id = ls[i].id, N.open
  PROVE  OpenIds([ls EXCEPT ![i] = N]) = OpenIds(ls) \cup {ls[i].id}
<1> DEFINE ls2 == [ls EXCEPT ![i] = N]
<1>1. \A j \in Lanes : ls2[j] = IF j = i THEN N ELSE ls[j]  OBVIOUS
<1> HIDE DEF ls2
<1>2. OpenIds(ls2) = OpenIds(ls) \cup {ls[i].id}  BY <1>1 DEF OpenIds
<1> QED  BY <1>2 DEF ls2

\* Closing it takes that channel out, and no other lane's.
LEMMA ClosesOne ==
  ASSUME NEW ls \in [Lanes -> LaneType], NEW i \in Lanes, NEW N \in LaneType,
         N.id = ls[i].id, ~N.open, ~IsParked(ls[i]), Apart(ls)
  PROVE  OpenIds([ls EXCEPT ![i] = N]) = OpenIds(ls) \ {ls[i].id}
<1> DEFINE ls2 == [ls EXCEPT ![i] = N]
<1>1. \A j \in Lanes : ls2[j] = IF j = i THEN N ELSE ls[j]  OBVIOUS
<1>2. \A j \in Lanes : j # i => ls[j].id # ls[i].id  BY DEF Apart
<1> HIDE DEF ls2
<1>3. OpenIds(ls2) = OpenIds(ls) \ {ls[i].id}  BY <1>1, <1>2 DEF OpenIds
<1> QED  BY <1>3 DEF ls2

\* A shut lane may be parked, or get a channel no lane holds, and nobody is told.
LEMMA ShutLane ==
  ASSUME NEW ls \in [Lanes -> LaneType], NEW i \in Lanes, NEW N \in LaneType,
         ~ls[i].open, ~N.open, Apart(ls),
         N.id = ls[i].id \/ IsParked(N) \/ \A j \in Lanes : ls[j].id # N.id
  PROVE  /\ OpenIds([ls EXCEPT ![i] = N]) = OpenIds(ls)
         /\ Apart([ls EXCEPT ![i] = N])
         /\ \A k \in Lanes \cup {0} : k # i => IdAt([ls EXCEPT ![i] = N], k) = IdAt(ls, k)
<1> DEFINE ls2 == [ls EXCEPT ![i] = N]
<1>1. \A j \in Lanes : ls2[j] = IF j = i THEN N ELSE ls[j]  OBVIOUS
<1> HIDE DEF ls2
<1>2. OpenIds(ls2) = OpenIds(ls)  BY <1>1 DEF OpenIds
<1>3. Apart(ls2)
  <2> SUFFICES ASSUME NEW j \in Lanes, NEW k \in Lanes, ~IsParked(ls2[j]), ls2[j].id = ls2[k].id
               PROVE  j = k
    BY DEF Apart
  <2> QED  BY <1>1 DEF Apart, IsParked
<1>4. \A k \in Lanes \cup {0} : k # i => IdAt(ls2, k) = IdAt(ls, k)  BY <1>1 DEF IdAt
<1> QED  BY <1>2, <1>3, <1>4 DEF ls2

\* A lane that keeps its channel and its holdoff, and opens only without one, owes as before.
LEMMA OwesStill ==
  ASSUME NEW ls \in [Lanes -> LaneType], NEW i \in Lanes, NEW N \in LaneType, NEW owed,
         NEW mon \in BOOLEAN, Owing(ls, owed, mon), N.id = ls[i].id, N.skip = ls[i].skip,
         N.open => ls[i].open \/ N.skip = 0
  PROVE  Owing([ls EXCEPT ![i] = N], owed, mon)
<1> DEFINE ls2 == [ls EXCEPT ![i] = N]
<1>1. \A j \in Lanes : ls2[j] = IF j = i THEN N ELSE ls[j]  OBVIOUS
<1> HIDE DEF ls2
<1>2. Owing(ls2, owed, mon)  BY <1>1 DEF Owing, IsParked
<1> QED  BY <1>2 DEF ls2

-----------------------------------------------------------------------------
(* Who is next: next_open() passes no priority lane over.                    *)

\* Lane k is a priority lane, or no priority lane may speak.
PassesNone(ls, k) == ls[k].priority \/ ~\E j \in Lanes : MaySpeak(ls[j]) /\ ls[j].priority

LEMMA NextIsFirst == ASSUME NEW ls PROVE NextOpen(ls) # 0 => PassesNone(ls, NextOpen(ls))
<1> DEFINE may == {i \in Lanes : MaySpeak(ls[i])}
           pri == {i \in may : ls[i].priority}
<1>1. pri \subseteq Nat  BY LanesAreNatural
<1>2. CASE pri # {}
  <2>1. First(pri) \in pri  BY <1>1, <1>2, FirstIsFirst
  <2>2. NextOpen(ls) = First(pri)  BY <1>2 DEF NextOpen
  <2> QED  BY <2>1, <2>2 DEF PassesNone
<1>3. CASE pri = {}  BY <1>3 DEF PassesNone
<1> QED  BY <1>2, <1>3

LEMMA StaysFirst ==
  ASSUME NEW ls, NEW ls2, NEW k \in Lanes, PassesNone(ls, k),
         \A j \in Lanes : ls2[j].priority = ls[j].priority /\ (MaySpeak(ls2[j]) => MaySpeak(ls[j]))
  PROVE  PassesNone(ls2, k)
BY DEF PassesNone

\* Priority and holdoff of a lane through an iteration of poll().
LEMMA DecidedFields ==
  ASSUME NEW L \in LaneType, NEW r \in Readings
  PROVE  /\ AlertEnded(L).priority = L.priority /\ AlertEnded(L).skip = L.skip
         /\ Measured(L, r).priority = L.priority /\ Measured(L, r).skip = L.skip
         /\ Counted(L, r).priority = L.priority /\ Counted(L, r).skip = L.skip
         /\ Counted(L, r).id = L.id /\ Counted(L, r).open = L.open
         /\ Counted(L, r).allowAudio = L.allowAudio
         /\ Opened(L).priority = L.priority /\ Opened(L).skip = L.skip
         /\ Opened(L).id = L.id /\ Opened(L).open /\ Opened(L).allowAudio = L.allowAudio
         /\ Closed(L).priority = L.priority /\ Closed(L).skip = L.skip
         /\ Closed(L).id = L.id /\ ~Closed(L).open
<1>1. AlertEnded(L).priority = L.priority /\ AlertEnded(L).skip = L.skip
  BY DEF AlertEnded, LaneType
<1>2. Measured(L, r).priority = L.priority /\ Measured(L, r).skip = L.skip
  BY DEF Measured, LaneType
<1>3. /\ Counted(L, r).priority = L.priority /\ Counted(L, r).skip = L.skip
      /\ Counted(L, r).id = L.id /\ Counted(L, r).open = L.open
      /\ Counted(L, r).allowAudio = L.allowAudio
  BY DEF Counted, LaneType
<1>4. /\ Opened(L).priority = L.priority /\ Opened(L).skip = L.skip
      /\ Opened(L).id = L.id /\ Opened(L).open /\ Opened(L).allowAudio = L.allowAudio
  BY DEF Opened, LaneType
<1>5. /\ Closed(L).priority = L.priority /\ Closed(L).skip = L.skip
      /\ Closed(L).id = L.id /\ ~Closed(L).open
  BY DEF Closed, LaneType
<1> QED  BY <1>1, <1>2, <1>3, <1>4, <1>5

\* When iteration i reaches its decision the client knows the lanes, the holdoffs stand, and
\* a speaker that moved because an alert ran out went to the lane it belongs to.
LEMMA DecisionKnows ==
  ASSUME TypeOK, NEW i \in Lanes, NEW r \in Readings, Decides(i), monitor = FALSE,
         Arbitrated(lanes, speaker, FALSE), KnownInv
  PROVE  LET ms == MeasuredLanes(i, r)
             sp == SpeakerMeasured(i, r)
         IN  /\ Apart(ms) /\ Knows(ToldAfterAlert(i), ms, sp) /\ Owing(ms, holdoff, FALSE)
             /\ \A j \in Lanes : /\ ms[j].id = lanes[j].id /\ ms[j].open = lanes[j].open
                                 /\ ms[j].priority = lanes[j].priority
             /\ sp.lane \notin {0, speaker.lane} => PassesNone(ms, sp.lane)
<1> DEFINE A == AlertEnded(lanes[i])
           M == Measured(A, r)
           ls1 == AlertedLanes(i)
           ms == MeasuredLanes(i, r)
           sp1 == SpeakerAfterAlert(i)
           sp == SpeakerMeasured(i, r)
<1>1. lanes \in [Lanes -> LaneType] /\ lanes[i] \in LaneType /\ LaneSane(lanes[i])
  BY DEF TypeOK, Arbitrated, AllSane
<1>2. /\ A \in LaneType /\ M \in LaneType
      /\ A.id = lanes[i].id /\ A.open = lanes[i].open
      /\ M.id = lanes[i].id /\ M.open = lanes[i].open /\ M.allowAudio = A.allowAudio
  BY <1>1, MeasuredFields
<1>3. /\ A.priority = lanes[i].priority /\ A.skip = lanes[i].skip
      /\ M.priority = lanes[i].priority /\ M.skip = lanes[i].skip
  BY <1>1, <1>2, DecidedFields
<1>4. ls1 = [lanes EXCEPT ![i] = A] /\ ms = [lanes EXCEPT ![i] = M]
  BY <1>1 DEF AlertedLanes, MeasuredLanes
<1>5. sp.lane = sp1.lane /\ sp1 \in SpeakerType /\ ToldAfterAlert(i) \in ToldType
  <2>1. sp1 \in SpeakerType /\ ToldAfterAlert(i) \in ToldType  BY DecisionTypes
  <2>2. sp = IF sp1.lane = i THEN [sp1 EXCEPT !.gate = GateOf(ms[i])] ELSE sp1
    BY DEF SpeakerMeasured
  <2> HIDE DEF ms, sp1, sp
  <2> QED  BY <2>1, <2>2
<1>6. Owing(ms, holdoff, FALSE)
  <2>1. Owing(lanes, holdoff, FALSE)  BY DEF KnownInv
  <2> HIDE DEF ms, M
  <2> QED  BY <1>1, <1>2, <1>3, <1>4, <2>1, OwesStill
<1>7. /\ sp1 = IF LosesSpeaker(i)
               THEN SetAudible([speaker EXCEPT !.gate = FALSE], ls1, NextOpen(ls1)) ELSE speaker
      /\ ToldAfterAlert(i) = IF LosesSpeaker(i)
                             THEN TellAudible(told, speaker, ls1, NextOpen(ls1)) ELSE told
  BY DEF SpeakerAfterAlert, ToldAfterAlert
<1>8. \A j \in Lanes : /\ ms[j] = IF j = i THEN M ELSE lanes[j]
                       /\ ls1[j] = IF j = i THEN A ELSE lanes[j]
  BY <1>1, <1>4
<1>9. Apart(lanes) /\ Knows(told, lanes, speaker) /\ told \in ToldType /\ speaker \in SpeakerType
  BY DEF KnownInv, TypeOK
<1> HIDE DEF A, M, ls1, ms, sp1, sp
<1>10. \A j \in Lanes : /\ ms[j].id = lanes[j].id /\ ms[j].open = lanes[j].open
                        /\ ls1[j].id = lanes[j].id /\ ls1[j].open = lanes[j].open
                        /\ ms[j].priority = lanes[j].priority /\ ls1[j].priority = lanes[j].priority
                        /\ (MaySpeak(ms[j]) => MaySpeak(ls1[j]))
  BY <1>2, <1>3, <1>8 DEF MaySpeak, IsParked
<1>11. /\ Apart(ms) /\ OpenIds(ms) = OpenIds(lanes)
       /\ \A k \in Lanes \cup {0} : IdAt(ms, k) = IdAt(lanes, k) /\ IdAt(ls1, k) = IdAt(lanes, k)
  BY <1>9, <1>10, SameKnown
<1>12. CASE LosesSpeaker(i)
  <2> DEFINE q == [speaker EXCEPT !.gate = FALSE]
             n == NextOpen(ls1)
  <2>1. q.lane = speaker.lane /\ n \in Lanes \cup {0}  BY <1>9, NextOpenSpeaks
  <2>2. sp1 = SetAudible(q, ls1, n) /\ ToldAfterAlert(i) = TellAudible(told, speaker, ls1, n)
    BY <1>7, <1>12
  <2>3. sp1.lane = n  BY <2>2 DEF SetAudible
  <2>4. told.audible = IdAt(ls1, speaker.lane)
    BY <1>9, <1>11 DEF Knows
  <2>5. ToldAfterAlert(i).audible = IdAt(ls1, n) /\ ToldAfterAlert(i).open = told.open
    BY <1>9, <2>2, <2>4, TellsLane
  <2>6. Knows(ToldAfterAlert(i), ms, sp)
    BY <1>5, <1>9, <1>11, <2>1, <2>3, <2>5 DEF Knows
  <2>7. n # 0 => PassesNone(ls1, n)  BY NextIsFirst
  <2>8. sp.lane \notin {0, speaker.lane} => PassesNone(ms, sp.lane)
    BY <1>5, <1>10, <2>1, <2>3, <2>7, StaysFirst
  <2> QED  BY <1>6, <1>10, <1>11, <2>6, <2>8 DEF ms, sp
<1>13. CASE ~LosesSpeaker(i)
  <2>1. sp1 = speaker /\ ToldAfterAlert(i) = told  BY <1>7, <1>13
  <2>2. Knows(told, ms, sp)  BY <1>5, <1>9, <1>11, <2>1 DEF Knows
  <2> QED  BY <1>5, <1>6, <1>10, <1>11, <2>1, <2>2 DEF ms, sp
<1> QED  BY <1>12, <1>13

-----------------------------------------------------------------------------
(* One lemma per action: what is known stays so, and what is taken from a    *)
(* channel goes to whom it belongs.                                          *)

SpeakerPassesNone ==
  speaker'.lane \notin {0, speaker.lane}
    => \/ PassesNone(lanes', speaker'.lane) \/ lanes'[speaker'.lane].alert # NoAlert \/ monitor'

DiscoveryGoes ==
  \A i \in Lanes : lanes[i].id \in Discoveries /\ lanes[i].open /\ ~lanes'[i].open
                     => lanes'[i].id # lanes[i].id

Goes == KnownInv' /\ SpeakerPassesNone /\ DiscoveryGoes

\* Time alone moves nothing.
LEMMA PollTimeGoes == ASSUME TypeOK, PollTime, KnownInv PROVE Goes
<1>1. lanes \in [Lanes -> LaneType] /\ speaker \in SpeakerType /\ told \in ToldType
      /\ holdoff \in [Ids -> Nat]
  BY DEF TypeOK
<1>2. /\ speaker' = speaker /\ monitor' = monitor /\ told' = told
      /\ holdoff' = [id \in Ids |-> CountDown(holdoff[id])]
      /\ lockout' = [id \in Ids |-> CountDown(lockout[id])]
  BY DEF PollTime
<1>3. ASSUME NEW j \in Lanes
      PROVE  /\ lanes'[j].id = lanes[j].id /\ lanes'[j].open = lanes[j].open
             /\ lanes'[j].skip = CountDown(lanes[j].skip)
  <2>1. lanes'[j] = Aged(lanes[j]) /\ lanes[j] \in LaneType  BY <1>1 DEF PollTime
  <2> QED  BY <2>1 DEF Aged, LaneType
<1>4. Apart(lanes') /\ Knows(told', lanes', speaker')
  BY <1>1, <1>2, <1>3, SameKnown DEF KnownInv, Knows
<1>5. Owing(lanes', holdoff', monitor')
  <2>1. ASSUME NEW j \in Lanes, ~IsParked(lanes[j]) PROVE lanes[j].id \in Ids
    BY <1>1, <2>1 DEF IsParked, LaneType
  <2>2. CountDown(0) = 0  BY DEF CountDown
  <2> QED  BY <1>2, <1>3, <2>1, <2>2 DEF KnownInv, Owing, IsParked
<1>6. holdoff' = lockout'  BY <1>2 DEF KnownInv
<1> QED  BY <1>2, <1>3, <1>4, <1>5, <1>6 DEF Goes, KnownInv, SpeakerPassesNone, DiscoveryGoes

\* Nor does a lane that decides nothing.
LEMMA PollPassesGoes == ASSUME TypeOK, NEW i \in Lanes, PollPasses(i), KnownInv PROVE Goes
<1>1. lanes \in [Lanes -> LaneType] /\ speaker \in SpeakerType
  BY DEF TypeOK
<1>2. lanes' = [lanes EXCEPT ![i].warmup = CountDown(@)]
      /\ UNCHANGED <<speaker, monitor, holdoff, told, lockout>>
  BY DEF PollPasses
<1>3. ASSUME NEW j \in Lanes
      PROVE  /\ lanes'[j].id = lanes[j].id /\ lanes'[j].open = lanes[j].open
             /\ lanes'[j].skip = lanes[j].skip
  <2>1. lanes[j] \in LaneType  BY <1>1
  <2> QED  BY <1>1, <1>2, <2>1 DEF LaneType
<1>4. Apart(lanes') /\ Knows(told', lanes', speaker')
  <2>1. /\ Apart(lanes') /\ OpenIds(lanes') = OpenIds(lanes)
        /\ \A k \in Lanes \cup {0} : IdAt(lanes', k) = IdAt(lanes, k)
    BY <1>3, SameKnown DEF KnownInv
  <2>2. told' = told /\ speaker' = speaker /\ speaker.lane \in Lanes \cup {0}
    BY <1>1, <1>2
  <2> QED  BY <2>1, <2>2 DEF KnownInv, Knows
<1>5. Owing(lanes', holdoff', monitor')
  BY <1>2, <1>3 DEF KnownInv, Owing, IsParked
<1> QED  BY <1>2, <1>3, <1>4, <1>5 DEF Goes, KnownInv, SpeakerPassesNone, DiscoveryGoes

LEMMA PollStaysGoes ==
  ASSUME TypeOK, NEW i \in Lanes, NEW r \in Readings, PollStays(i, r), monitor = FALSE,
         Arbitrated(lanes, speaker, FALSE), KnownInv
  PROVE  Goes
<1> DEFINE ms == MeasuredLanes(i, r)
           sp == SpeakerMeasured(i, r)
           N == Counted(ms[i], r)
<1>1. /\ Decides(i) /\ lanes' = [lanes EXCEPT ![i] = N] /\ speaker' = sp
      /\ told' = ToldAfterAlert(i) /\ UNCHANGED <<monitor, holdoff, lockout>>
  BY DEF PollStays, Decides
<1>2. ms \in [Lanes -> LaneType] /\ ms[i] \in LaneType /\ sp \in SpeakerType  BY SMTT(60), <1>1, DecisionTypes
<1>3. lanes' = [ms EXCEPT ![i] = N]  BY ZenonT(60), <1>1 DEF MeasuredLanes, TypeOK
<1>4. /\ Apart(ms) /\ Knows(ToldAfterAlert(i), ms, sp) /\ Owing(ms, holdoff, FALSE)
      /\ \A j \in Lanes : /\ ms[j].id = lanes[j].id /\ ms[j].open = lanes[j].open
                          /\ ms[j].priority = lanes[j].priority
      /\ sp.lane \notin {0, speaker.lane} => PassesNone(ms, sp.lane)
  BY <1>1, DecisionKnows
<1> HIDE DEF ms, sp
<1>5. /\ N \in LaneType /\ N.id = ms[i].id /\ N.open = ms[i].open /\ N.skip = ms[i].skip
      /\ N.priority = ms[i].priority /\ N.allowAudio = ms[i].allowAudio
  BY <1>2, DecidedType, DecidedFields
<1> HIDE DEF N
<1>6. \A j \in Lanes : lanes'[j] = IF j = i THEN N ELSE ms[j]  BY <1>2, <1>3
<1>7. Apart(lanes') /\ OpenIds(lanes') = OpenIds(ms)
      /\ \A k \in Lanes \cup {0} : IdAt(lanes', k) = IdAt(ms, k)
  BY <1>4, <1>5, <1>6, SameKnown
<1>8. Knows(told', lanes', speaker')  BY <1>1, <1>2, <1>4, <1>7 DEF Knows
<1>9. Owing(lanes', holdoff', monitor')
  <2>1. Owing([ms EXCEPT ![i] = N], holdoff, FALSE)  BY <1>2, <1>4, <1>5, OwesStill
  <2> QED  BY <1>1, <1>3, <2>1
<1>10. SpeakerPassesNone
  <2>1. \A j \in Lanes : /\ lanes'[j].priority = ms[j].priority
                         /\ MaySpeak(lanes'[j]) => MaySpeak(ms[j])
    BY <1>5, <1>6 DEF MaySpeak, IsParked
  <2>2. ASSUME sp.lane \notin {0, speaker.lane} PROVE PassesNone(lanes', sp.lane)
    <3>1. sp.lane \in Lanes /\ PassesNone(ms, sp.lane)  BY <1>2, <1>4, <2>2
    <3> QED  BY <2>1, <3>1, StaysFirst
  <2> QED  BY <1>1, <2>2 DEF SpeakerPassesNone
<1>11. DiscoveryGoes  BY <1>4, <1>5, <1>6 DEF DiscoveryGoes
<1> QED  BY <1>1, <1>7, <1>8, <1>9, <1>10, <1>11 DEF Goes, KnownInv

LEMMA PollOpensGoes ==
  ASSUME TypeOK, NEW i \in Lanes, NEW r \in Readings, PollOpens(i, r), monitor = FALSE,
         Arbitrated(lanes, speaker, FALSE), KnownInv
  PROVE  Goes
<1> DEFINE ms == MeasuredLanes(i, r)
           L == ms[i]
           N == Opened(L)
           ls == [lanes EXCEPT ![i] = N]
           sp == SpeakerMeasured(i, r)
           t == TellOpen(ToldAfterAlert(i), L.id)
           takes == Takes(L, sp, ls)
<1>1. /\ Decides(i) /\ OpensNow(L, r) /\ lanes' = ls
      /\ speaker' = IF takes THEN SetAudible(sp, ls, i) ELSE sp
      /\ told' = IF takes THEN TellAudible(t, sp, ls, i) ELSE t
      /\ UNCHANGED <<monitor, holdoff, lockout>>
  BY DEF PollOpens, Decides
<1>2. /\ ms \in [Lanes -> LaneType] /\ L \in LaneType /\ sp \in SpeakerType /\ L.id \in Ids
      /\ ToldAfterAlert(i) \in ToldType
  BY SMTT(60), <1>1, DecisionTypes
<1>3. ls = [ms EXCEPT ![i] = N]  BY ZenonT(60) DEF MeasuredLanes, TypeOK
<1>4. /\ Apart(ms) /\ Knows(ToldAfterAlert(i), ms, sp) /\ Owing(ms, holdoff, FALSE)
      /\ \A j \in Lanes : /\ ms[j].id = lanes[j].id /\ ms[j].open = lanes[j].open
                          /\ ms[j].priority = lanes[j].priority
      /\ sp.lane \notin {0, speaker.lane} => PassesNone(ms, sp.lane)
  BY <1>1, DecisionKnows
<1>5. Arbitrated(ms, sp, FALSE)  BY <1>1, DecisionKeeps
<1>6. ~L.open /\ L.skip = 0  BY <1>1 DEF OpensNow, Wants
<1> HIDE DEF ms, sp
<1>7. /\ N \in LaneType /\ N.id = L.id /\ N.open /\ N.skip = L.skip
      /\ N.priority = L.priority /\ N.allowAudio = L.allowAudio
  BY <1>2, DecidedType, DecidedFields
<1>8. t \in ToldType /\ t.open = ToldAfterAlert(i).open \cup {L.id} /\ t.audible = ToldAfterAlert(i).audible
  BY <1>2 DEF TellOpen, ToldType
<1> HIDE DEF N, ls
<1>9. OpenIds(ls) = OpenIds(ms) \cup {L.id}
  BY <1>2, <1>3, <1>7, OpensOne
<1>10. sp.lane # i  BY <1>5, <1>6, LanesAreNatural DEF Arbitrated, Owned
<1>11. Owing(ls, holdoff, FALSE)
  BY <1>2, <1>3, <1>4, <1>6, <1>7, OwesStill
<1>12. \A j \in Lanes : ls[j] = IF j = i THEN N ELSE ms[j]  BY <1>2, <1>3
<1> HIDE DEF t
<1>13. Apart(ls)  BY <1>4, <1>7, <1>12 DEF Apart, IsParked
<1>14. \A k \in Lanes \cup {0} : IdAt(ls, k) = IdAt(ms, k)  BY <1>7, <1>12 DEF IdAt
<1>15. t.audible = IdAt(ls, sp.lane)  BY <1>2, <1>4, <1>8, <1>14 DEF Knows
<1>16. DiscoveryGoes  BY <1>1, <1>4, <1>7, <1>12 DEF DiscoveryGoes
<1>17. CASE takes
  <2>1. Knows(told', lanes', speaker')
    BY <1>1, <1>4, <1>8, <1>9, <1>15, <1>17, TellsLane DEF Knows
  <2>2. PassesNone(ls, i)
    <3>1. L.allowAudio /\ (sp.lane = 0 \/ L.priority)  BY <1>17 DEF Takes
    <3>2. CASE L.priority  BY <1>7, <1>12, <3>2 DEF PassesNone
    <3>3. CASE sp.lane = 0 /\ ~L.priority
      <4>1. \A j \in Lanes : ~MaySpeak(ms[j])  BY <1>5, <3>3 DEF Arbitrated, NotIdle
      <4> QED  BY <1>7, <1>12, <3>3, <4>1 DEF PassesNone
    <3> QED  BY <3>1, <3>2, <3>3
  <2>3. speaker'.lane = i  BY <1>1, <1>17 DEF SetAudible
  <2> QED
    BY <1>1, <1>11, <1>13, <1>16, <2>1, <2>2, <2>3 DEF Goes, KnownInv, SpeakerPassesNone
<1>18. CASE ~takes
  <2>1. Knows(told', lanes', speaker')  BY <1>1, <1>4, <1>8, <1>9, <1>15, <1>18 DEF Knows
  <2>2. ASSUME sp.lane \notin {0, speaker.lane} PROVE PassesNone(ls, sp.lane)
    <3>1. PassesNone(ms, sp.lane) /\ sp.lane \in Lanes  BY <1>2, <1>4, <2>2
    <3>2. ls[sp.lane] = ms[sp.lane]  BY <1>10, <1>12, <3>1
    <3>3. MaySpeak(N) /\ N.priority => ls[sp.lane].priority
      BY <1>7, <1>18, <2>2, <3>2 DEF Takes, MaySpeak
    <3> QED  BY <1>12, <3>1, <3>2, <3>3 DEF PassesNone
  <2> QED
    BY <1>1, <1>11, <1>13, <1>16, <1>18, <2>1, <2>2 DEF Goes, KnownInv, SpeakerPassesNone
<1> QED  BY <1>17, <1>18

\* Closing lane i, known as ms, in cs; the speaker is handed over if it had it.
LEMMA ClosingKnows ==
  ASSUME NEW ms \in [Lanes -> LaneType], NEW i \in Lanes, NEW C \in LaneType,
         NEW sp \in SpeakerType, NEW t \in ToldType, Apart(ms), Knows(t, ms, sp), ~IsParked(ms[i]),
         C.id = ms[i].id, ~C.open
  PROVE  LET cs == [ms EXCEPT ![i] = C]
         IN  /\ Knows(TellHandover(TellClose(t, ms[i].id), sp, cs, i), cs, Handover(sp, cs, i))
             /\ Apart(cs)
             /\ Handover(sp, cs, i).lane \notin {0, sp.lane} => PassesNone(cs, Handover(sp, cs, i).lane)
<1> DEFINE cs == [ms EXCEPT ![i] = C]
           u == TellClose(t, ms[i].id)
<1>1. OpenIds(cs) = OpenIds(ms) \ {ms[i].id}  BY ClosesOne
<1>2. ms[i].id \in Ids  BY DEF LaneType, IsParked
<1>3. u \in ToldType /\ u.open = t.open \ {ms[i].id} /\ u.audible = t.audible
  BY <1>2 DEF TellClose, ToldType
<1>4. \A j \in Lanes : cs[j] = IF j = i THEN C ELSE ms[j]  OBVIOUS
<1> HIDE DEF cs, u
<1>5. Apart(cs)  BY <1>4 DEF Apart, IsParked
<1>6. \A k \in Lanes \cup {0} : IdAt(cs, k) = IdAt(ms, k)  BY <1>4 DEF IdAt
<1>7. u.audible = IdAt(cs, sp.lane)  BY <1>3, <1>6 DEF Knows
<1>8. CASE sp.lane = i
  <2>1. Handover(sp, cs, i) = SetAudible(sp, cs, NextOpen(cs))
        /\ TellHandover(u, sp, cs, i) = TellAudible(u, sp, cs, NextOpen(cs))
    BY <1>8 DEF Handover, TellHandover
  <2>2. Knows(TellHandover(u, sp, cs, i), cs, Handover(sp, cs, i))
    BY <1>1, <1>3, <1>7, <2>1, TellsLane DEF Knows
  <2>3. Handover(sp, cs, i).lane = NextOpen(cs)  BY <2>1 DEF SetAudible
  <2> QED  BY <1>5, <2>2, <2>3, NextIsFirst DEF cs, u
<1>9. CASE sp.lane # i
  <2>1. Handover(sp, cs, i) = sp /\ TellHandover(u, sp, cs, i) = u
    BY <1>9 DEF Handover, TellHandover
  <2>2. Knows(u, cs, sp)  BY <1>1, <1>3, <1>7 DEF Knows
  <2> QED  BY <1>5, <2>1, <2>2 DEF cs, u
<1> QED  BY <1>8, <1>9

LEMMA PollClosesGoes ==
  ASSUME TypeOK, NEW i \in Lanes, NEW r \in Readings, PollCloses(i, r), monitor = FALSE,
         Arbitrated(lanes, speaker, FALSE), KnownInv
  PROVE  Goes
<1> DEFINE ms == MeasuredLanes(i, r)
           L == ms[i]
           C == Closed(L)
           ls == [lanes EXCEPT ![i] = C]
           sp == SpeakerMeasured(i, r)
           t == ToldAfterAlert(i)
           V == Vacated(C)
<1>1. /\ Decides(i) /\ lanes' = [ls EXCEPT ![i] = Vacated(@)]
      /\ speaker' = Handover(sp, ls, i) /\ told' = TellHandover(TellClose(t, L.id), sp, ls, i)
      /\ UNCHANGED <<monitor, holdoff, lockout>>
  BY DEF PollCloses, Decides
<1>2. /\ ms \in [Lanes -> LaneType] /\ L \in LaneType /\ sp \in SpeakerType /\ L.id \in Ids
      /\ t \in ToldType
  BY <1>1, DecisionTypes
<1>3. ls = [ms EXCEPT ![i] = C]  BY ZenonT(60) DEF MeasuredLanes, TypeOK
<1>4. /\ Apart(ms) /\ Knows(t, ms, sp) /\ Owing(ms, holdoff, FALSE)
      /\ \A j \in Lanes : /\ ms[j].id = lanes[j].id /\ ms[j].open = lanes[j].open
                          /\ ms[j].priority = lanes[j].priority
      /\ sp.lane \notin {0, speaker.lane} => PassesNone(ms, sp.lane)
  BY <1>1, DecisionKnows
<1>5. Arbitrated(ms, sp, FALSE)  BY <1>1, DecisionKeeps
<1>6. LaneSane(L) /\ ~IsParked(L)  BY <1>2, <1>5, IdAssumption DEF Arbitrated, AllSane, IsParked
<1> HIDE DEF ms, sp, t
<1>7. /\ C \in LaneType /\ C.open = FALSE /\ LaneSane(C) /\ C.id = L.id
      /\ C.skip = L.skip /\ C.priority = L.priority
  BY <1>2, <1>6, ClosedFields, DecidedFields
<1>8. ls \in [Lanes -> LaneType] /\ ls[i] = C /\ lanes' = [ls EXCEPT ![i] = V]
      /\ \A j \in Lanes : j # i => ls[j] = ms[j]
  BY <1>1, <1>2, <1>3, <1>7
<1>9. V \in LaneType /\ ~V.open /\ (V = C \/ (V = Parked /\ IsParked(V)))
      /\ (C.id \in Discoveries => IsParked(V))
  BY <1>7, ParkedType DEF Vacated
<1> HIDE DEF C, V, ls
<1>10. /\ Knows(told', ls, speaker') /\ Apart(ls)
       /\ speaker'.lane \notin {0, sp.lane} => PassesNone(ls, speaker'.lane)
  BY ZenonT(60), <1>1, <1>2, <1>3, <1>4, <1>6, <1>7, ClosingKnows
<1>11. speaker'.lane # i /\ speaker'.lane \in Lanes \cup {0}
  <2>1. speaker'.lane # i  BY ZenonT(60), <1>1, <1>2, <1>3, <1>5, <1>7, CloseHandsOver
  <2>2. Handover(sp, ls, i) \in SpeakerType
    <3>1. NextOpen(ls) \in Lanes \cup {0}  BY NextOpenSpeaks
    <3> HIDE DEF SpeakerType
    <3> QED  BY <1>2, <1>8, <3>1, SpeakerTypes DEF Handover
  <2> QED  BY SMTT(60), <1>1, <2>1, <2>2
<1>12. Apart(lanes') /\ Knows(told', lanes', speaker')
  <2>1. /\ OpenIds(lanes') = OpenIds(ls) /\ Apart(lanes')
        /\ \A k \in Lanes \cup {0} : k # i => IdAt(lanes', k) = IdAt(ls, k)
    BY <1>7, <1>8, <1>9, <1>10, ShutLane
  <2> QED  BY <1>10, <1>11, <2>1 DEF Knows
<1>13. \A j \in Lanes : lanes'[j] = IF j = i THEN V ELSE ms[j]  BY <1>8
<1>14. Owing(lanes', holdoff', monitor')
  BY <1>1, <1>4, <1>6, <1>7, <1>9, <1>13 DEF Owing, IsParked
<1>15. SpeakerPassesNone
  <2>1. ASSUME speaker'.lane \notin {0, speaker.lane} PROVE PassesNone(lanes', speaker'.lane)
    <3>1. PassesNone(ls, speaker'.lane)
      <4>1. CASE speaker'.lane # sp.lane  BY <1>10, <2>1, <4>1
      <4>2. CASE speaker'.lane = sp.lane
        <5>1. PassesNone(ms, sp.lane)  BY <1>4, <2>1, <4>2
        <5>2. \A j \in Lanes : ls[j].priority = ms[j].priority /\ (MaySpeak(ls[j]) => MaySpeak(ms[j]))
          BY <1>7, <1>8 DEF MaySpeak
        <5> QED  BY <1>11, <2>1, <4>2, <5>1, <5>2, StaysFirst
      <4> QED  BY <4>1, <4>2
    <3>2. lanes'[speaker'.lane] = ls[speaker'.lane] /\ ~MaySpeak(V)
      BY <1>8, <1>9, <1>11, <1>13, <2>1 DEF MaySpeak
    <3> QED  BY <1>8, <1>13, <3>1, <3>2 DEF PassesNone
  <2> QED  BY <2>1 DEF SpeakerPassesNone
<1>16. DiscoveryGoes
  <2>1. ASSUME NEW j \in Lanes, lanes[j].id \in Discoveries, lanes[j].open, ~lanes'[j].open
        PROVE  lanes'[j].id # lanes[j].id
    <3>1. j = i /\ lanes'[j] = V  BY <1>4, <1>13, <2>1
    <3>2. IsParked(V) /\ ~IsParked(L)  BY <1>4, <1>6, <1>7, <1>9, <2>1, <3>1
    <3> QED  BY <1>4, <3>1, <3>2 DEF IsParked
  <2> QED  BY <2>1 DEF DiscoveryGoes
<1> QED  BY <1>1, <1>12, <1>14, <1>15, <1>16 DEF Goes, KnownInv

-----------------------------------------------------------------------------
\* A tune gives each channel one lane, and each lane the holdoff its channel owes.
LEMMA FilledApart ==
  ASSUME TypeOK, NEW cmd \in TuneCmds
  PROVE  /\ Apart(Filled(cmd.channels)) /\ Owing(Filled(cmd.channels), holdoff, TRUE)
         /\ \A i \in Lanes : Filled(cmd.channels)[i].id \in Channels \cup {NoId}
<1> DEFINE chs == cmd.channels
           ls == Filled(chs)
           at(i) == CHOOSE p \in SlotsAt(chs, i) : TRUE
<1>1. /\ chs \in Seq(Channels)
      /\ \A p, q \in DOMAIN chs : chs[p] = chs[q] => p = q
  BY TuneAssumption DEF TuneType
<1>2. ASSUME NEW i \in Lanes, ~IsParked(ls[i])
      PROVE  /\ at(i) \in SlotsAt(chs, i) /\ at(i) \in DOMAIN chs
             /\ ls[i].id = chs[at(i)] /\ ls[i].skip = holdoff[chs[at(i)]]
  <2>1. SlotsAt(chs, i) # {}  BY <1>2, ParkedType DEF Filled
  <2>2. at(i) \in SlotsAt(chs, i)  BY <2>1
  <2>3. at(i) \in DOMAIN chs  BY <2>2 DEF SlotsAt, RegularAt, BackgroundAt
  <2>4. ls[i] = AssignedChannel(chs[at(i)])  BY <2>1 DEF Filled
  <2> HIDE DEF at, ls
  <2>5. ls[i].id = chs[at(i)] /\ ls[i].skip = holdoff[chs[at(i)]]
    BY <2>4 DEF AssignedChannel, Assigned, FreshLane
  <2> QED  BY <2>2, <2>3, <2>5
<1>3. ASSUME NEW i \in Lanes, NEW j \in Lanes, NEW p \in SlotsAt(chs, i), p \in SlotsAt(chs, j)
      PROVE  i = j
  BY <1>3 DEF SlotsAt, RegularAt, BackgroundAt
<1>4. ASSUME NEW i \in Lanes PROVE ls[i].id \in Channels \cup {NoId}
  <2>1. CASE IsParked(ls[i])  BY <2>1 DEF IsParked
  <2>2. CASE ~IsParked(ls[i])
    <3>1. ls[i].id = chs[at(i)] /\ at(i) \in DOMAIN chs  BY <1>2, <2>2
    <3> HIDE DEF at, ls
    <3> QED  BY <1>1, <3>1
  <2> QED  BY <2>1, <2>2
<1>5. Apart(ls)
  <2> SUFFICES ASSUME NEW i \in Lanes, NEW j \in Lanes, ~IsParked(ls[i]), ls[i].id = ls[j].id
               PROVE  i = j
    BY DEF Apart
  <2>1. ~IsParked(ls[j])  BY DEF IsParked
  <2>2. /\ at(i) \in SlotsAt(chs, i) /\ at(i) \in DOMAIN chs /\ ls[i].id = chs[at(i)]
        /\ at(j) \in SlotsAt(chs, j) /\ at(j) \in DOMAIN chs /\ ls[j].id = chs[at(j)]
    BY <1>2, <2>1
  <2> HIDE DEF at, ls, chs
  <2>3. at(i) = at(j)  BY <1>1, <2>2
  <2> QED  BY <1>3, <2>2, <2>3
<1>6. Owing(ls, holdoff, TRUE)
  <2>1. ASSUME NEW i \in Lanes, ~IsParked(ls[i]) PROVE ls[i].skip = holdoff[ls[i].id]
    BY <1>2, <2>1
  <2> HIDE DEF ls
  <2> QED  BY <2>1 DEF Owing
<1> QED  BY <1>4, <1>5, <1>6

LEMMA TuneGoes ==
  ASSUME TypeOK, NEW cmd \in TuneCmds, Tune(cmd), KnownInv
  PROVE  Goes
<1> DEFINE ls == Filled(cmd.channels)
           used == {i \in Lanes : ~IsParked(ls[i])}
           w == First(used)
           H == [ls[w] EXCEPT !.open = TRUE, !.carrier = TRUE, !.quiet = TRUE]
           t == TellAudible(TellCloseAll(told, lanes), speaker, lanes, 0)
           hold == cmd.monitor /\ used # {}
<1>1. /\ ls \in [Lanes -> LaneType] /\ cmd.monitor \in BOOLEAN /\ told \in ToldType
      /\ lanes \in [Lanes -> LaneType]
  BY FilledType, TuneAssumption DEF TuneType, TypeOK
<1>2. /\ Apart(ls) /\ Owing(ls, holdoff, TRUE)
      /\ \A i \in Lanes : ls[i].id \in Channels \cup {NoId}
  BY FilledApart
<1>3. \A i \in Lanes : ~ls[i].open  BY FilledFields
<1>4. /\ hold => /\ lanes' = [ls EXCEPT ![w] = H] /\ speaker' = [lane |-> w, gate |-> TRUE]
                 /\ told' = TellAudible(TellOpen(t, ls[w].id), Silent, ls, w)
      /\ ~hold => lanes' = ls /\ speaker' = SetAudible(speaker, lanes, 0) /\ told' = t
      /\ monitor' = cmd.monitor /\ UNCHANGED <<holdoff, lockout>>
  BY DEF Tune
<1>5. OpenIds(ls) = {}  BY <1>3 DEF OpenIds
<1>6. t \in ToldType /\ t.open = {} /\ t.audible = NoId
  <2>1. TellCloseAll(told, lanes) \in ToldType
    BY <1>1 DEF TellCloseAll, ToldType
  <2>2. TellCloseAll(told, lanes).open = told.open \ OpenIds(lanes)
        /\ TellCloseAll(told, lanes).audible = told.audible
    BY <1>1 DEF TellCloseAll, ToldType, OpenIds
  <2>3. told.open = OpenIds(lanes) /\ told.audible = IdAt(lanes, speaker.lane)
    BY DEF KnownInv, Knows
  <2>4. IdAt(lanes, 0) = NoId  BY DEF IdAt
  <2>5. t.audible = IdAt(lanes, SetAudible(speaker, lanes, 0).lane) /\ t.open = {}
        /\ SetAudible(speaker, lanes, 0).lane = 0
    BY <2>1, <2>2, <2>3, TellsLane
  <2>6. t \in ToldType
    BY <2>1, <2>4 DEF TellAudible, ToldType
  <2> QED  BY <2>4, <2>5, <2>6
<1>7. \A i \in Lanes : lanes[i].id \in Discoveries => lanes[i].id \notin Channels \cup {NoId}
  BY IdAssumption DEF Ids
<1> HIDE DEF ls, t
<1>8. CASE hold
  <2>1. w \in used  BY <1>8, FirstIsFirst, LanesAreNatural
  <2>2. w \in Lanes /\ ls[w] \in LaneType /\ ~IsParked(ls[w]) /\ w # 0
    BY <1>1, <2>1, LanesAreNatural
  <2> HIDE DEF w, used
  <2>3. H \in LaneType /\ H.open = TRUE /\ H.id = ls[w].id /\ H.skip = ls[w].skip
    BY <2>2 DEF LaneType
  <2> HIDE DEF H
  <2>4. \A j \in Lanes : lanes'[j] = IF j = w THEN H ELSE ls[j]
    BY <1>1, <1>4, <1>8, <2>2
  <2>5. OpenIds(lanes') = {ls[w].id}
    BY <1>1, <1>4, <1>5, <1>8, <2>2, <2>3, OpensOne
  <2>6. ls[w].id \in Ids  BY <2>2 DEF LaneType, IsParked
  <2>7. told'.open = {ls[w].id} /\ told'.audible = ls[w].id
    <3>1. TellOpen(t, ls[w].id) \in ToldType /\ TellOpen(t, ls[w].id).open = {ls[w].id}
      BY <1>6, <2>6 DEF TellOpen, ToldType
    <3>2. told' = [TellOpen(t, ls[w].id) EXCEPT !.audible = ls[w].id]
      BY <1>4, <1>8, <2>2 DEF TellAudible, Silent, IdAt
    <3> QED  BY <3>1, <3>2 DEF ToldType
  <2>8. speaker'.lane = w /\ monitor' = TRUE  BY <1>4, <1>8
  <2>9. Knows(told', lanes', speaker')
    BY <2>2, <2>3, <2>4, <2>5, <2>7, <2>8 DEF Knows, IdAt
  <2>10. Apart(lanes')  BY <1>2, <2>3, <2>4 DEF Apart, IsParked
  <2>11. Owing(lanes', holdoff', monitor')
    BY <1>2, <1>4, <2>3, <2>4, <2>8 DEF Owing, IsParked
  <2>12. DiscoveryGoes
    BY <1>2, <1>7, <2>3, <2>4 DEF DiscoveryGoes
  <2> QED  BY <1>4, <2>8, <2>9, <2>10, <2>11, <2>12 DEF Goes, KnownInv, SpeakerPassesNone
<1>9. CASE ~hold
  <2>1. lanes' = ls /\ speaker' = SetAudible(speaker, lanes, 0) /\ told' = t  BY <1>4, <1>9
  <2>2. speaker'.lane = 0  BY <2>1 DEF SetAudible
  <2>3. Knows(told', lanes', speaker')
    BY <1>5, <1>6, <2>1, <2>2 DEF Knows, IdAt
  <2>4. Owing(lanes', holdoff', monitor')
    BY <1>2, <1>3, <1>4, <2>1 DEF Owing
  <2>5. DiscoveryGoes  BY <1>2, <1>7, <2>1 DEF DiscoveryGoes
  <2> QED  BY <1>2, <1>4, <2>1, <2>2, <2>3, <2>4, <2>5 DEF Goes, KnownInv, SpeakerPassesNone
<1> QED  BY <1>8, <1>9

LEMMA SkipGoes ==
  ASSUME TypeOK, NEW h \in Holdoffs, Skip(h), Arbitrated(lanes, speaker, monitor), KnownInv
  PROVE  Goes
<1> DEFINE i == speaker.lane
           id == lanes[i].id
           X == [lanes[i] EXCEPT !.tx = FALSE]
           C == Closed(X)
           ls == [lanes EXCEPT ![i] = C]
<1>1. /\ i \in Lanes /\ lanes \in [Lanes -> LaneType] /\ lanes[i] \in LaneType
      /\ speaker \in SpeakerType /\ told \in ToldType /\ h \in Nat /\ ~IsParked(lanes[i])
      /\ LaneSane(lanes[i]) /\ id \in Ids /\ holdoff \in [Ids -> Nat] /\ monitor \in BOOLEAN
  BY TimeAssumption DEF Skip, TypeOK, Arbitrated, AllSane, Owned, IsParked, LaneType
<1>2. /\ X \in LaneType /\ X.id = id /\ X.skip = lanes[i].skip /\ LaneSane(X)
  <2>1. FALSE \in BOOLEAN  OBVIOUS
  <2>2. X \in LaneType  BY <1>1, <2>1, UpdateTx, Zenon
  <2>3. /\ X.id = id /\ X.open = lanes[i].open /\ X.audibleCfg = lanes[i].audibleCfg
        /\ X.allowAudio = lanes[i].allowAudio /\ X.alert = lanes[i].alert
        /\ X.skip = lanes[i].skip
    BY <1>1 DEF LaneType
  <2> QED  BY <1>1, <2>2, <2>3 DEF LaneSane, IsParked
<1>3. /\ speaker' = SetAudible(speaker, ls, NextOpen(ls))
      /\ told' = TellAudible(TellClose(told, id), speaker, ls, NextOpen(ls))
      /\ monitor' = monitor
      /\ IF id \in Discoveries
         THEN lanes' = [ls EXCEPT ![i] = Parked] /\ UNCHANGED <<holdoff, lockout>>
         ELSE /\ lanes' = [ls EXCEPT ![i].skip = h]
              /\ holdoff' = [holdoff EXCEPT ![id] = h]
              /\ lockout' = [lockout EXCEPT ![id] = h]
  BY DEF Skip
<1> HIDE DEF X
<1>4. C \in LaneType /\ C.open = FALSE /\ C.id = id /\ C.skip = lanes[i].skip
  <2>1. C \in LaneType /\ C.open = FALSE /\ C.id = X.id  BY <1>2, ClosedFields
  <2>2. C.skip = X.skip  BY <1>2 DEF Closed, LaneType
  <2> QED  BY <1>2, <2>1, <2>2
<1> HIDE DEF C
<1>5. ls \in [Lanes -> LaneType] /\ ls[i] = C /\ \A j \in Lanes : j # i => ls[j] = lanes[j]
  BY <1>1, <1>4
<1>6. speaker' = Handover(speaker, ls, i) /\ told' = TellHandover(TellClose(told, id), speaker, ls, i)
  BY <1>3 DEF Handover, TellHandover
<1>7. Apart(lanes) /\ Knows(told, lanes, speaker) /\ Owing(lanes, holdoff, monitor) /\ holdoff = lockout
  BY DEF KnownInv
<1>8. /\ Knows(told', ls, speaker') /\ Apart(ls)
      /\ speaker'.lane \notin {0, speaker.lane} => PassesNone(ls, speaker'.lane)
  BY <1>1, <1>4, <1>6, <1>7, ClosingKnows
<1> HIDE DEF ls
<1>9. speaker'.lane = NextOpen(ls) /\ NextOpen(ls) # i /\ NextOpen(ls) \in Lanes \cup {0}
  BY <1>1, <1>3, <1>4, <1>5, NextOpenSpeaks, LanesAreNatural DEF SetAudible, MaySpeak
<1>10. PICK N \in LaneType : /\ lanes' = [ls EXCEPT ![i] = N] /\ ~N.open
                             /\ IF id \in Discoveries THEN IsParked(N) ELSE N.id = id /\ N.skip = h
  <2>1. CASE id \in Discoveries
    <3>1. lanes' = [ls EXCEPT ![i] = Parked]  BY <1>3, <2>1
    <3> QED  BY <2>1, <3>1, ParkedType
  <2>2. CASE id \notin Discoveries
    <3>1. lanes' = [ls EXCEPT ![i] = [C EXCEPT !.skip = h]]  BY <1>3, <1>5, <2>2
    <3>2. /\ [C EXCEPT !.skip = h] \in LaneType /\ ~[C EXCEPT !.skip = h].open
          /\ [C EXCEPT !.skip = h].id = id /\ [C EXCEPT !.skip = h].skip = h
      BY <1>1, <1>4 DEF LaneType
    <3> QED  BY <2>2, <3>1, <3>2
  <2> QED  BY <2>1, <2>2
<1>11. \A j \in Lanes : lanes'[j] = IF j = i THEN N ELSE lanes[j]  BY <1>1, <1>5, <1>10
<1>12. Apart(lanes') /\ Knows(told', lanes', speaker')
  <2>1. /\ OpenIds(lanes') = OpenIds(ls) /\ Apart(lanes')
        /\ \A k \in Lanes \cup {0} : k # i => IdAt(lanes', k) = IdAt(ls, k)
    <3>1. N.id = ls[i].id \/ IsParked(N)  BY <1>4, <1>5, <1>10
    <3>2. ~ls[i].open  BY <1>4, <1>5
    <3> HIDE DEF i
    <3>3. i \in Lanes  BY <1>1
    <3> QED  BY <1>5, <1>8, <1>10, <3>1, <3>2, <3>3, ShutLane
  <2> QED  BY <1>8, <1>9, <2>1 DEF Knows
<1>13. Owing(lanes', holdoff', monitor') /\ holdoff' = lockout'
  <2>1. CASE id \in Discoveries
    BY <1>3, <1>7, <1>10, <1>11, <2>1 DEF Owing
  <2>2. CASE id \notin Discoveries
    <3>1. holdoff' = [holdoff EXCEPT ![id] = h] /\ lockout' = holdoff'  BY <1>3, <1>7, <2>2
    <3>2. \A j \in Lanes : j # i /\ ~IsParked(lanes[j]) => lanes[j].id # id /\ lanes[j].id \in Ids
      BY <1>1, <1>7 DEF Apart, IsParked, LaneType
    <3>3. holdoff'[id] = h /\ \A x \in Ids : x # id => holdoff'[x] = holdoff[x]
      BY <1>1, <3>1
    <3>4. N.id = id /\ N.skip = h /\ ~N.open  BY <1>10, <2>2
    <3> HIDE DEF i, id
    <3> QED  BY <1>3, <1>7, <1>11, <3>1, <3>2, <3>3, <3>4 DEF Owing
  <2> QED  BY <2>1, <2>2
<1>14. SpeakerPassesNone
  <2>1. ASSUME speaker'.lane \notin {0, speaker.lane} PROVE PassesNone(lanes', speaker'.lane)
    <3>1. PassesNone(ls, speaker'.lane)  BY <1>8, <2>1
    <3>2. ~MaySpeak(N) /\ lanes'[speaker'.lane] = ls[speaker'.lane]
      BY <1>5, <1>9, <1>10, <1>11, <2>1 DEF MaySpeak
    <3> QED  BY <1>5, <1>11, <3>1, <3>2 DEF PassesNone
  <2> QED  BY <2>1 DEF SpeakerPassesNone
<1>15. DiscoveryGoes
  <2>1. ASSUME NEW j \in Lanes, lanes[j].id \in Discoveries, lanes[j].open, ~lanes'[j].open
        PROVE  lanes'[j].id # lanes[j].id
    <3>1. j = i /\ lanes'[j] = N  BY <1>11, <2>1
    <3> QED  BY <1>1, <1>10, <2>1, <3>1 DEF IsParked
  <2> QED  BY <2>1 DEF DiscoveryGoes
<1> QED  BY <1>12, <1>13, <1>14, <1>15 DEF Goes, KnownInv

LEMMA AlertUnmuteGoes ==
  ASSUME TypeOK, NEW id \in Ids, NEW h \in AlertHolds, AlertUnmute(id, h), KnownInv
  PROVE  Goes
<1> DEFINE at == {j \in Lanes : lanes[j].id = id}
           i == First(at)
           U == [lanes[i] EXCEPT !.allowAudio = TRUE, !.alert = h]
           ls == [lanes EXCEPT ![i] = U]
<1>1. i \in at  BY FirstIsFirst, LanesAreNatural DEF AlertUnmute
<1>2. /\ i \in Lanes /\ lanes \in [Lanes -> LaneType] /\ lanes[i] \in LaneType
      /\ speaker \in SpeakerType /\ told \in ToldType /\ h \in Nat \ {0} /\ monitor \in BOOLEAN
  BY <1>1, TimeAssumption DEF TypeOK
<1>3. /\ lanes' = ls /\ UNCHANGED <<monitor, holdoff, lockout>>
      /\ speaker' = IF lanes[i].open THEN SetAudible(speaker, ls, i) ELSE speaker
      /\ told' = IF lanes[i].open THEN TellAudible(told, speaker, ls, i) ELSE told
  BY DEF AlertUnmute
<1> HIDE DEF i, at
<1>4. U \in LaneType
  <2>1. TRUE \in BOOLEAN /\ h \in Int  BY <1>2
  <2> QED  BY <1>2, <2>1, UpdateAlert, Zenon
<1>5. U.id = lanes[i].id /\ U.open = lanes[i].open /\ U.skip = lanes[i].skip /\ U.alert = h
  BY <1>2 DEF LaneType
<1> HIDE DEF U
<1>6. \A j \in Lanes : ls[j] = IF j = i THEN U ELSE lanes[j]  BY <1>2
<1>7. Apart(lanes) /\ Knows(told, lanes, speaker) /\ Owing(lanes, holdoff, monitor) /\ holdoff = lockout
  BY DEF KnownInv
<1>8. Owing(ls, holdoff, monitor)
  <2> HIDE DEF ls
  <2> QED  BY <1>5, <1>6, <1>7 DEF Owing, IsParked
<1> HIDE DEF ls
<1>9. /\ Apart(ls) /\ OpenIds(ls) = OpenIds(lanes)
      /\ \A k \in Lanes \cup {0} : IdAt(ls, k) = IdAt(lanes, k)
  BY <1>5, <1>6, <1>7, SameKnown
<1>10. told.audible = IdAt(ls, speaker.lane) /\ told.open = OpenIds(ls)
  BY <1>2, <1>7, <1>9 DEF Knows
<1>11. Knows(told', lanes', speaker')
  <2>1. CASE lanes[i].open  BY <1>2, <1>3, <1>10, <2>1, TellsLane DEF Knows
  <2>2. CASE ~lanes[i].open  BY <1>3, <1>10, <2>2 DEF Knows
  <2> QED  BY <2>1, <2>2
<1>12. SpeakerPassesNone
  <2>1. speaker'.lane \in {speaker.lane, i}  BY <1>3 DEF SetAudible
  <2>2. lanes'[i].alert # NoAlert  BY <1>2, <1>3, <1>5, <1>6 DEF NoAlert
  <2> QED  BY <2>1, <2>2 DEF SpeakerPassesNone
<1>13. DiscoveryGoes  BY <1>3, <1>5, <1>6 DEF DiscoveryGoes
<1> QED  BY <1>3, <1>7, <1>8, <1>9, <1>11, <1>12, <1>13 DEF Goes, KnownInv

LEMMA AssignCcGoes ==
  ASSUME TypeOK, NEW id \in Discoveries, AssignCc(id), Arbitrated(lanes, speaker, monitor), KnownInv
  PROVE  Goes
<1> DEFINE free == {j \in Lanes : IsParked(lanes[j])}
           i == First(free)
           audible == id \in ccAudible
           N == Assigned(id, audible, audible, FALSE, FALSE)
<1>1. i \in free  BY FirstIsFirst, LanesAreNatural DEF AssignCc
<1>2. /\ lanes' = [lanes EXCEPT ![i] = N] /\ UNCHANGED <<speaker, monitor, holdoff, told, lockout>>
      /\ lanes \in [Lanes -> LaneType] /\ speaker \in SpeakerType
      /\ \A j \in Lanes : lanes[j].id # id
  BY DEF AssignCc, TypeOK
<1>3. N \in LaneType
  <2>1. id \in Ids /\ audible \in BOOLEAN /\ FALSE \in BOOLEAN  BY DEF Ids
  <2> HIDE DEF audible
  <2> QED  BY <2>1, AssignedType, Zenon
<1>4. N.id = id /\ ~N.open /\ N.skip = holdoff[id]
  BY DEF Assigned, FreshLane
<1>5. i \in Lanes /\ ~lanes[i].open /\ speaker.lane # i
  BY <1>1, LanesAreNatural DEF Arbitrated, Owned, AllSane, LaneSane
<1> HIDE DEF i, N, free
<1>6. Apart(lanes) /\ Knows(told, lanes, speaker) /\ Owing(lanes, holdoff, monitor) /\ holdoff = lockout
  BY DEF KnownInv
<1>7. \A j \in Lanes : lanes'[j] = IF j = i THEN N ELSE lanes[j]  BY <1>2, <1>5
<1>8. /\ OpenIds(lanes') = OpenIds(lanes) /\ Apart(lanes')
      /\ \A k \in Lanes \cup {0} : k # i => IdAt(lanes', k) = IdAt(lanes, k)
  BY <1>2, <1>3, <1>4, <1>5, <1>6, ShutLane
<1>9. Knows(told', lanes', speaker')  BY <1>2, <1>5, <1>6, <1>8 DEF Knows
<1>10. Owing(lanes', holdoff', monitor')
  BY <1>2, <1>4, <1>6, <1>7 DEF Owing
<1> QED
  BY <1>2, <1>5, <1>6, <1>7, <1>8, <1>9, <1>10 DEF Goes, KnownInv, SpeakerPassesNone, DiscoveryGoes

LEMMA NextGoes == IInv /\ KnownInv /\ [Next]_vars => Goes
<1> SUFFICES ASSUME IInv, KnownInv, [Next]_vars PROVE Goes  OBVIOUS
<1>1. TypeOK /\ Arbitrated(lanes, speaker, monitor)  BY DEF IInv
<1>2. CASE BeginPoll \/ Gap
  BY <1>1, <1>2, PollTimeGoes DEF BeginPoll, Gap
<1>3. CASE \E i \in Lanes : PollPasses(i)  BY <1>1, <1>3, PollPassesGoes
<1>4. CASE \E i \in Lanes, r \in Readings :
             PollStays(i, r) \/ PollOpens(i, r) \/ PollCloses(i, r)
  <2>1. PICK i \in Lanes, r \in Readings :
          PollStays(i, r) \/ PollOpens(i, r) \/ PollCloses(i, r)
    BY <1>4
  <2>2. cursor = i  BY <2>1 DEF PollStays, PollOpens, PollCloses, Decides
  <2>3. monitor = FALSE  BY <1>1, <2>2, LanesAreNatural DEF IInv, TypeOK
  <2> QED  BY <1>1, <2>1, <2>3, PollStaysGoes, PollOpensGoes, PollClosesGoes
<1>5. CASE \E cmd \in TuneCmds : Tune(cmd)  BY <1>1, <1>5, TuneGoes
<1>6. CASE \E h \in Holdoffs : Skip(h)  BY <1>1, <1>6, SkipGoes
<1>7. CASE \E id \in Ids, h \in AlertHolds : AlertUnmute(id, h)  BY <1>1, <1>7, AlertUnmuteGoes
<1>8. CASE \E id \in Discoveries : AssignCc(id)  BY <1>1, <1>8, AssignCcGoes
<1>9. CASE UNCHANGED vars
  BY <1>9 DEF vars, Goes, KnownInv, SpeakerPassesNone, DiscoveryGoes
<1> QED  BY <1>2, <1>3, <1>4, <1>5, <1>6, <1>7, <1>8, <1>9 DEF Next, PollStep, CommandStep

LEMMA KnownInit == Init => KnownInv
<1> SUFFICES ASSUME Init PROVE KnownInv  OBVIOUS
<1>1. \A i \in Lanes : lanes[i] = Parked  BY DEF Init
<1>2. Apart(lanes) /\ Owing(lanes, holdoff, monitor) /\ OpenIds(lanes) = {}
  BY <1>1, ParkedType DEF Apart, Owing, OpenIds
<1>3. Knows(told, lanes, speaker)  BY <1>2 DEF Init, Knows, IdAt, Silent
<1> QED  BY <1>2, <1>3 DEF Init, KnownInv

LEMMA KnownAlways == Spec => []KnownInv
<1>1. IInv /\ KnownInv /\ [Next]_vars => KnownInv'  BY NextGoes DEF Goes
<1> QED  BY <1>1, KnownInit, SpecInv, PTL DEF Spec

(* A client that applied every event knows exactly the open lanes and the    *)
(* audible one, across retunes and parked discoveries; and what was skipped  *)
(* stays shut for its holdoff whichever lane its channel is on.              *)
THEOREM LanesTheorem == Spec => []LanesAsTold
<1>1. IInv /\ KnownInv => LanesAsTold
  <2> SUFFICES ASSUME IInv, KnownInv PROVE LanesAsTold  OBVIOUS
  <2>1. FeedFaithful  BY DEF KnownInv, Knows, OpenIds, FeedFaithful
  <2>2. LockoutHolds
    BY DEF KnownInv, Owing, LockoutHolds, IInv, Arbitrated, AllSane, LaneSane
  <2> QED  BY <2>1, <2>2 DEF LanesAsTold
<1> QED  BY <1>1, KnownAlways, SpecInv, PTL

(* The speaker goes to a priority lane while one waits, unless an alert      *)
(* claims it; and a discovery that ends leaves its lane.                     *)
THEOREM HandingTheorem == Spec => HandedOn
<1>1. IInv /\ KnownInv /\ [Next]_vars
        => /\ (speaker'.lane \notin {0, speaker.lane}
                 => LET L == lanes'[speaker'.lane]
                    IN  \/ L.priority \/ L.alert # NoAlert \/ monitor'
                        \/ ~\E i \in Lanes : MaySpeak(lanes'[i]) /\ lanes'[i].priority)
           /\ \A i \in Lanes : lanes[i].id \in Discoveries /\ lanes[i].open /\ ~lanes'[i].open
                                 => lanes'[i].id # lanes[i].id
  BY NextGoes DEF Goes, SpeakerPassesNone, PassesNone, DiscoveryGoes
<1> QED  BY <1>1, KnownAlways, SpecInv, PTL DEF Spec, HandedOn, PriorityFirst, DiscoveryFreed


-----------------------------------------------------------------------------
(***************************************************************************)
(* Proofs about the close call recorder, for any lag of audio and events,   *)
(* any pre-roll, cap and budget, and any deeds of the operator.             *)
(*                                                                          *)
(* What the recorder holds, followed by the audio on its way to it, is one  *)
(* stretch of the helper's audio.  An event's age says where in it the      *)
(* speaker changed hands: before the first pending change it is the         *)
(* owner's, but for what was late when that owner came, and between two     *)
(* changes it is the lane's that the earlier one names.                     *)
(***************************************************************************)

Chunks == Lane \cup {Nobody}
Signals == [what : {"audible", "tuned"}, id : Chunks, age : 0 .. Lag]
Recordings == [f : Freq \cup {Nobody}, clip : Seq(Chunks)]

\* v is how w ends.
Ends(v, w) == Len(v) <= Len(w) /\ \A p \in 1 .. Len(v) : v[p] = w[p + (Len(w) - Len(v))]

\* The chunks sent since the i-th of the pending changes.
Since(ev, i) == IF i \in 1 .. Len(ev) THEN ev[i].age ELSE 0

\* The stretch w is owner o's, then those the pending changes name; of its first e chunks nothing is known.
Follows(w, e, o, ev) ==
  /\ \A p \in 1 .. Len(w) : Lag + e < p /\ p <= Len(w) - Since(ev, 1) => w[p] \in {o, Nobody}
  /\ \A i \in 1 .. Len(ev) : \A p \in 1 .. Len(w) :
       e < p /\ Len(w) - ev[i].age < p /\ p <= Len(w) - Since(ev, i + 1) => w[p] = ev[i].id

\* What the recorder holds: a clip under way, or the pre-roll since its last owner let go.
Holds(r, pre, gap) == IF r.f # Nobody THEN r.clip ELSE LastOf(pre, gap)
Unsure(r) == IF r.f # Nobody /\ r.clip # << >> THEN 1 ELSE 0

\* A clip's own audio, but for its head and its tail.
OwnAudio(c) ==
  /\ Len(c.clip) <= Cap
  /\ \A p \in 1 .. Len(c.clip) : \/ c.clip[p] \in {c.f, Nobody} \/ p <= Lag + Epsilon \/ p > Len(c.clip) - Lag

StreamsTyped ==
  /\ feed \in Seq(Chunks) /\ Len(feed) <= Lag /\ events \in Seq(Signals)
  /\ carries \in Chunks /\ owner \in Chunks /\ ring \in Seq(Chunks) /\ unowned \in Nat
  /\ rec \in Recordings /\ Len(rec.clip) <= Cap /\ enabled \in BOOLEAN

\* The changes pending lead from the owner to the lane that is on the speaker.
ChangesLead ==
  /\ IF events = << >> THEN owner = carries ELSE events[Len(events)].id = carries
  /\ events # << >> => events[1].id # owner
  /\ \A i \in 1 .. Len(events) - 1 : events[i + 1].id # events[i].id
  /\ \A i \in 1 .. Len(events) : events[i].what = "tuned" => events[i].id = Nobody

OwnerRecorded ==
  /\ IF rec.f = Nobody THEN rec.clip = << >> ELSE rec.f = owner
  /\ owner # Nobody => unowned = 0

QueueOwn == queue \in Seq(Recordings) /\ \A i \in 1 .. Len(queue) : OwnAudio(queue[i])

ClipInv ==
  /\ StreamsTyped /\ ChangesLead /\ OwnerRecorded /\ QueueOwn
  /\ Follows(Holds(rec, ring, unowned) \o feed, Unsure(rec), owner, events)

-----------------------------------------------------------------------------
(* Stretches of audio. *)

LEMMA LaneFacts ==
  /\ Lag \in Nat /\ Cap \in Nat /\ Ring \in Nat /\ Budget \in Nat /\ Nobody \notin Freq /\ Nobody \notin Lane
BY LaneAssumption DEF Lane

\* A chunk of the end of a stretch is one of the stretch's.
LEMMA EndsAt ==
  ASSUME NEW v, NEW w, Len(v) \in Nat, Len(w) \in Nat, Ends(v, w), NEW p \in 1 .. Len(v)
  PROVE  p + (Len(w) - Len(v)) \in 1 .. Len(w) /\ v[p] = w[p + (Len(w) - Len(v))]
BY DEF Ends

\* A sequence without its first chunks.
LEMMA CutFront ==
  ASSUME NEW S, NEW s \in Seq(S), NEW a \in Nat, a <= Len(s)
  PROVE  LET v == SubSeq(s, a + 1, Len(s)) IN v \in Seq(S) /\ Len(v) = Len(s) - a /\ \A p \in 1 .. Len(s) - a : v[p] = s[p + a]
OBVIOUS

\* LastOf().
LEMMA LastOfEnds ==
  ASSUME NEW S, NEW s \in Seq(S), NEW n \in Nat
  PROVE  /\ LastOf(s, n) \in Seq(S) /\ Len(LastOf(s, n)) = (IF n < Len(s) THEN n ELSE Len(s)) /\ Ends(LastOf(s, n), s)
<1> DEFINE k == Least(n, Len(s))
<1>1. k \in Nat /\ k <= Len(s) /\ k = (IF n < Len(s) THEN n ELSE Len(s)) /\ Len(s) \in Nat
  BY DEF Least
<1>2. LastOf(s, n) = SubSeq(s, Len(s) - k + 1, Len(s))
  BY DEF LastOf
<1> HIDE DEF k
<1> DEFINE a == Len(s) - k
           v == SubSeq(s, a + 1, Len(s))
<1>4. a \in Nat /\ a <= Len(s) /\ Len(s) - a = k
  BY <1>1
<1>5. v \in Seq(S) /\ Len(v) = k /\ \A p \in 1 .. k : v[p] = s[p + a]
  BY <1>4, CutFront
<1>6. v = LastOf(s, n)
  BY <1>2
<1> HIDE DEF v
<1>7. Ends(v, s)
  BY <1>1, <1>5 DEF Ends
<1> QED BY <1>1, <1>5, <1>6, <1>7

LEMMA NoneLeft == ASSUME NEW S, NEW s \in Seq(S) PROVE LastOf(s, 0) = << >>
<1>1. LastOf(s, 0) \in Seq(S) /\ Len(LastOf(s, 0)) = 0
  BY LastOfEnds
<1> QED BY <1>1

\* The shorter of two ends of the same stretch ends the longer.
LEMMA EndsOfOne ==
  ASSUME NEW S, NEW s \in Seq(S), NEW v \in Seq(S), NEW w \in Seq(S), Ends(v, s), Ends(w, s), Len(v) <= Len(w)
  PROVE  Ends(v, w)
<1>1. Len(v) \in Nat /\ Len(w) \in Nat /\ Len(s) \in Nat
  OBVIOUS
<1>2. ASSUME NEW p \in 1 .. Len(v) PROVE v[p] = w[p + (Len(w) - Len(v))]
  <2> DEFINE q == p + (Len(w) - Len(v))
  <2>1. q \in 1 .. Len(w)
    BY <1>1
  <2>2. v[p] = s[p + (Len(s) - Len(v))]
    BY <1>1, EndsAt
  <2>3. p + (Len(s) - Len(v)) = q + (Len(s) - Len(w))
    BY <1>1, <2>1
  <2> HIDE DEF q
  <2>4. w[q] = s[q + (Len(s) - Len(w))]
    BY <1>1, <2>1, EndsAt
  <2>5. v[p] = w[q]
    BY <2>2, <2>3, <2>4
  <2> QED BY <2>5 DEF q
<1> QED BY <1>1, <1>2 DEF Ends

LEMMA EndsJoined ==
  ASSUME NEW S, NEW v \in Seq(S), NEW w \in Seq(S), NEW z \in Seq(S), Ends(v, w)
  PROVE  Ends(v \o z, w \o z) /\ Ends(z, w \o z)
<1> DEFINE a == v \o z
           b == w \o z
<1>1. Len(v) \in Nat /\ Len(w) \in Nat /\ Len(z) \in Nat /\ Len(v) <= Len(w)
  BY DEF Ends
<1>2. /\ Len(a) = Len(v) + Len(z) /\ \A p \in 1 .. Len(v) + Len(z) : a[p] = IF p <= Len(v) THEN v[p] ELSE z[p - Len(v)]
      /\ Len(b) = Len(w) + Len(z) /\ \A p \in 1 .. Len(w) + Len(z) : b[p] = IF p <= Len(w) THEN w[p] ELSE z[p - Len(w)]
  BY <1>1
<1> HIDE DEF a, b
<1>3. ASSUME NEW p \in 1 .. Len(a) PROVE a[p] = b[p + (Len(b) - Len(a))]
  <2> DEFINE q == p + (Len(w) - Len(v))
  <2>1. q \in 1 .. Len(w) + Len(z) /\ q = p + (Len(b) - Len(a)) /\ p \in 1 .. Len(v) + Len(z) /\ p \in Nat /\ q \in Nat
    BY <1>1, <1>2
  <2>2. CASE p <= Len(v)
    <3>1. v[p] = w[q]
      BY <1>1, <2>1, <2>2, EndsAt
    <3>2. q <= Len(w)
      BY <1>1, <2>1, <2>2
    <3> HIDE DEF q
    <3>3. a[p] = v[p] /\ b[q] = w[q]
      BY <1>2, <2>1, <2>2, <3>2
    <3>4. a[p] = b[q]
      BY <3>1, <3>3
    <3> QED BY <2>1, <3>4
  <2>3. CASE p > Len(v)
    <3>1. q > Len(w) /\ p - Len(v) = q - Len(w)
      BY <1>1, <2>1, <2>3
    <3>2. ~ (q <= Len(w)) /\ ~ (p <= Len(v))
      BY <1>1, <2>1, <2>3, <3>1
    <3> HIDE DEF q
    <3>3. a[p] = z[p - Len(v)] /\ b[q] = z[q - Len(w)]
      BY <1>2, <2>1, <3>2
    <3>4. a[p] = b[q]
      BY <3>1, <3>3
    <3> QED BY <2>1, <3>4
  <2> QED BY <1>1, <2>1, <2>2, <2>3
<1>4. ASSUME NEW p \in 1 .. Len(z) PROVE z[p] = b[p + (Len(b) - Len(z))]
  BY <1>1, <1>2
<1> QED BY <1>1, <1>2, <1>3, <1>4 DEF Ends, a, b

LEMMA AgesTyped == ASSUME NEW ev \in Seq(Signals), NEW i \in 1 .. Len(ev) PROVE ev[i].age \in Nat /\ ev[i].age <= Lag /\ ev[i].id \in Chunks
<1>1. ev[i] \in Signals
  OBVIOUS
<1>2. ev[i].age \in 0 .. Lag /\ ev[i].id \in Chunks
  BY <1>1 DEF Signals
<1> QED BY <1>2, LaneFacts

LEMMA SinceTyped == ASSUME NEW ev \in Seq(Signals), NEW i \in Nat PROVE Since(ev, i) \in Nat /\ Since(ev, i) <= Lag
<1>1. CASE i \in 1 .. Len(ev)
  BY <1>1, AgesTyped DEF Since
<1>2. CASE i \notin 1 .. Len(ev)
  BY <1>2, LaneFacts DEF Since
<1> QED BY <1>1, <1>2

\* The end of a stretch is as right as the whole: what is unsure of it is at its head.
LEMMA FollowsEnd ==
  ASSUME NEW w \in Seq(Chunks), NEW v \in Seq(Chunks), NEW e \in {0, 1}, NEW d \in {0, 1}, NEW o, NEW ev \in Seq(Signals),
         Follows(w, e, o, ev), Ends(v, w), Len(w) - Len(v) + d >= e
  PROVE  Follows(v, d, o, ev)
<1>1. Len(v) \in Nat /\ Len(w) \in Nat /\ Len(v) <= Len(w) /\ Lag \in Nat
  BY LaneFacts DEF Ends
<1>2. \A i \in Nat : Since(ev, i) \in Nat
  BY SinceTyped
<1>3. ASSUME NEW p \in 1 .. Len(v), Lag + d < p, p <= Len(v) - Since(ev, 1) PROVE v[p] \in {o, Nobody}
  <2> DEFINE q == p + (Len(w) - Len(v))
             g == Since(ev, 1)
  <2>1. q \in 1 .. Len(w) /\ v[p] = w[q] /\ g \in Nat
    BY <1>1, <1>2, EndsAt
  <2> HIDE DEF g
  <2>2. Lag + e < q /\ q <= Len(w) - g
    BY SMTT(60), <1>1, <1>3, <2>1 DEF g
  <2> HIDE DEF q
  <2>3. w[q] \in {o, Nobody}
    BY <2>1, <2>2 DEF Follows, g
  <2> QED BY <2>1, <2>3
<1>4. ASSUME NEW i \in 1 .. Len(ev), NEW p \in 1 .. Len(v), d < p, Len(v) - ev[i].age < p, p <= Len(v) - Since(ev, i + 1)
      PROVE  v[p] = ev[i].id
  <2> DEFINE q == p + (Len(w) - Len(v))
             g == Since(ev, i + 1)
             h == ev[i].age
  <2>1. q \in 1 .. Len(w) /\ v[p] = w[q]
    BY <1>1, EndsAt
  <2>2. g \in Nat /\ h \in Nat
    <3>1. i + 1 \in Nat
      OBVIOUS
    <3> QED BY <1>2, <3>1, AgesTyped
  <2>3. Len(v) - h < p /\ p <= Len(v) - g
    BY <1>4
  <2> HIDE DEF g, h
  <2>4. e < q /\ Len(w) - h < q /\ q <= Len(w) - g
    BY <1>1, <1>4, <2>1, <2>2, <2>3, SMTT(30)
  <2> HIDE DEF q
  <2>5. w[q] = ev[i].id
    BY <2>1, <2>4 DEF Follows, g, h
  <2> QED BY <2>1, <2>5
<1> QED BY <1>3, <1>4 DEF Follows

\* One chunk of which nothing is known, before it.
LEMMA FollowsBehind ==
  ASSUME NEW w \in Seq(Chunks), NEW v \in Seq(Chunks), NEW o, NEW ev \in Seq(Signals),
         Follows(v, 0, o, ev), Ends(v, w), Len(w) <= Len(v) + 1
  PROVE  Follows(w, 1, o, ev)
<1>1. Len(v) \in Nat /\ Len(w) \in Nat /\ Len(v) <= Len(w) /\ Lag \in Nat
  BY LaneFacts DEF Ends
<1>2. \A i \in Nat : Since(ev, i) \in Nat
  BY SinceTyped
<1>3. ASSUME NEW q \in 1 .. Len(w), q > 1 PROVE \E p \in 1 .. Len(v) : q = p + (Len(w) - Len(v)) /\ v[p] = w[q]
  <2> DEFINE p == q - (Len(w) - Len(v))
  <2>1. p \in 1 .. Len(v) /\ q = p + (Len(w) - Len(v))
    BY <1>1, <1>3
  <2> HIDE DEF p
  <2>2. v[p] = w[p + (Len(w) - Len(v))]
    BY <1>1, <2>1, EndsAt
  <2>3. v[p] = w[q]
    BY <2>1, <2>2
  <2> QED BY <2>1, <2>3
<1>4. ASSUME NEW q \in 1 .. Len(w), Lag + 1 < q, q <= Len(w) - Since(ev, 1) PROVE w[q] \in {o, Nobody}
  <2> DEFINE g == Since(ev, 1)
  <2>1. g \in Nat /\ q <= Len(w) - g
    BY <1>2, <1>4
  <2> HIDE DEF g
  <2>2. PICK p \in 1 .. Len(v) : q = p + (Len(w) - Len(v)) /\ v[p] = w[q]
    <3>1. q > 1
      BY <1>1, <1>4
    <3> QED BY <1>3, <3>1
  <2>3. Lag + 0 < p /\ p <= Len(v) - g
    BY SMTT(60), <1>1, <1>4, <2>1, <2>2
  <2>4. v[p] \in {o, Nobody}
    BY <2>3 DEF Follows, g
  <2> QED BY <2>2, <2>4
<1>5. ASSUME NEW i \in 1 .. Len(ev), NEW q \in 1 .. Len(w), 1 < q, Len(w) - ev[i].age < q, q <= Len(w) - Since(ev, i + 1)
      PROVE  w[q] = ev[i].id
  <2> DEFINE g == Since(ev, i + 1)
             h == ev[i].age
  <2>1. g \in Nat /\ h \in Nat /\ Len(w) - h < q /\ q <= Len(w) - g
    <3>1. i + 1 \in Nat
      OBVIOUS
    <3> QED BY <1>2, <1>5, <3>1, AgesTyped
  <2> HIDE DEF g, h
  <2>2. PICK p \in 1 .. Len(v) : q = p + (Len(w) - Len(v)) /\ v[p] = w[q]
    BY <1>1, <1>3, <1>5
  <2>3. 0 < p /\ Len(v) - h < p /\ p <= Len(v) - g
    BY SMTT(60), <1>1, <1>5, <2>1, <2>2
  <2>4. v[p] = ev[i].id
    BY <2>3 DEF Follows, g, h
  <2> QED BY <2>2, <2>4
<1> QED BY <1>4, <1>5 DEF Follows

\* One more chunk of the lane that is on the speaker: every change is a chunk older.
LEMMA FollowsSpoken ==
  ASSUME NEW w \in Seq(Chunks), NEW e \in {0, 1}, NEW o, NEW c \in Chunks, NEW ev \in Seq(Signals), NEW aged \in Seq(Signals),
         Len(aged) = Len(ev), \A i \in 1 .. Len(ev) : aged[i].id = ev[i].id /\ aged[i].age = ev[i].age + 1,
         c = (IF ev = << >> THEN o ELSE ev[Len(ev)].id), Follows(w, e, o, ev)
  PROVE  Follows(Append(w, c), e, o, aged)
<1> DEFINE W == Append(w, c)
           n == Len(w)
           m == Len(ev)
<1>1. n \in Nat /\ m \in Nat /\ Len(W) = n + 1 /\ W[n + 1] = c /\ (\A p \in 1 .. n : W[p] = w[p]) /\ Lag \in Nat
  BY LaneFacts
<1>2. ev = << >> <=> m = 0
  OBVIOUS
<1>3. \A i \in Nat : Since(ev, i) \in Nat /\ Since(aged, i) = IF i \in 1 .. m THEN Since(ev, i) + 1 ELSE 0
  <2>1. ASSUME NEW i \in Nat PROVE Since(ev, i) \in Nat /\ Since(aged, i) = IF i \in 1 .. m THEN Since(ev, i) + 1 ELSE 0
    BY SinceTyped DEF Since
  <2> QED BY <2>1
<1>4. \A i \in Nat : i \notin 1 .. m => Since(ev, i) = 0
  BY DEF Since
<1> HIDE DEF W
<1>5. ASSUME NEW p \in 1 .. Len(W), Lag + e < p, p <= Len(W) - Since(aged, 1) PROVE W[p] \in {o, Nobody}
  <2>1. CASE m = 0
    <3>1. Since(ev, 1) = 0 /\ c = o
      BY <1>2, <1>4, <2>1
    <3>2. CASE p = n + 1
      BY <1>1, <3>1, <3>2
    <3>3. CASE p <= n
      <4>1. p \in 1 .. n /\ p <= n - Since(ev, 1)
        BY <1>1, <3>1, <3>3
      <4>2. w[p] \in {o, Nobody}
        BY <1>5, <4>1 DEF Follows
      <4> QED BY <1>1, <4>1, <4>2
    <3> QED BY <1>1, <3>2, <3>3
  <2>2. CASE m # 0
    <3>1. Since(aged, 1) = Since(ev, 1) + 1 /\ Since(ev, 1) \in Nat
      BY <1>1, <1>3, <2>2
    <3>2. p \in 1 .. n /\ p <= n - Since(ev, 1)
      BY <1>1, <1>5, <3>1
    <3>3. w[p] \in {o, Nobody}
      BY <1>5, <3>2 DEF Follows
    <3> QED BY <1>1, <3>2, <3>3
  <2> QED BY <2>1, <2>2
<1>6. ASSUME NEW i \in 1 .. m, NEW p \in 1 .. Len(W), e < p, Len(W) - aged[i].age < p, p <= Len(W) - Since(aged, i + 1)
      PROVE  W[p] = aged[i].id
  <2> DEFINE h == ev[i].age
  <2>1. h \in Nat /\ aged[i].age = h + 1 /\ aged[i].id = ev[i].id
    BY AgesTyped
  <2> HIDE DEF h
  <2>2. n - h < p
    BY <1>1, <1>6, <2>1
  <2>3. CASE i = m
    <3>1. i + 1 \in Nat /\ i + 1 \notin 1 .. m
      BY <1>1, <2>3
    <3>2. Since(ev, i + 1) = 0 /\ c = ev[i].id
      BY <1>1, <1>2, <1>4, <2>3, <3>1
    <3>3. CASE p = n + 1
      BY <1>1, <2>1, <3>2, <3>3
    <3>4. CASE p <= n
      <4>1. p \in 1 .. n /\ p <= n - Since(ev, i + 1)
        BY <1>1, <3>2, <3>4
      <4>2. w[p] = ev[i].id
        BY <1>6, <2>2, <4>1 DEF Follows, h
      <4> QED BY <1>1, <2>1, <4>1, <4>2
    <3> QED BY <1>1, <3>3, <3>4
  <2>4. CASE i # m
    <3>1. i + 1 \in Nat /\ i + 1 \in 1 .. m
      BY <1>1, <2>4
    <3>2. Since(aged, i + 1) = Since(ev, i + 1) + 1 /\ Since(ev, i + 1) \in Nat
      BY <1>3, <3>1
    <3>3. p \in 1 .. n /\ p <= n - Since(ev, i + 1)
      BY <1>1, <1>6, <3>2
    <3>4. w[p] = ev[i].id
      BY <1>6, <2>2, <3>3 DEF Follows, h
    <3> QED BY <1>1, <2>1, <3>3, <3>4
  <2> QED BY <2>3, <2>4
<1>7. Len(aged) = m
  OBVIOUS
<1>8. Follows(W, e, o, aged)
  BY <1>5, <1>6, <1>7 DEF Follows
<1> QED BY <1>8 DEF W

\* The speaker changes hands now.
LEMMA FollowsTurned ==
  ASSUME NEW w \in Seq(Chunks), NEW e \in {0, 1}, NEW o, NEW ev \in Seq(Signals), NEW g \in Signals, g.age = 0, Follows(w, e, o, ev)
  PROVE  Follows(w, e, o, Append(ev, g))
<1> DEFINE E == Append(ev, g)
           n == Len(w)
           m == Len(ev)
<1>1. n \in Nat /\ m \in Nat /\ Len(E) = m + 1 /\ E[m + 1] = g /\ (\A i \in 1 .. m : E[i] = ev[i])
  OBVIOUS
<1> HIDE DEF E
<1>2. ASSUME NEW i \in Nat PROVE Since(E, i) = Since(ev, i)
  <2>1. CASE i \in 1 .. m
    BY <1>1, <2>1 DEF Since
  <2>2. CASE i = m + 1
    BY <1>1, <2>2 DEF Since
  <2>3. CASE i \notin 1 .. m + 1
    BY <1>1, <2>3 DEF Since
  <2> QED BY <1>1, <2>1, <2>2, <2>3
<1>3. ASSUME NEW p \in 1 .. n, Lag + e < p, p <= n - Since(E, 1) PROVE w[p] \in {o, Nobody}
  BY <1>2, <1>3 DEF Follows
<1>4. ASSUME NEW i \in 1 .. m + 1, NEW p \in 1 .. n, e < p, n - E[i].age < p, p <= n - Since(E, i + 1) PROVE w[p] = E[i].id
  <2>1. CASE i = m + 1
    <3>1. E[i].age = 0
      BY <1>1, <2>1
    <3>2. n - 0 < p
      BY <1>4, <3>1
    <3> QED BY <1>1, <3>2
  <2>2. CASE i \in 1 .. m
    <3>1. E[i] = ev[i] /\ i + 1 \in Nat
      BY <1>1, <2>2
    <3>2. Since(E, i + 1) = Since(ev, i + 1)
      BY <1>2, <3>1
    <3> QED BY <1>4, <2>2, <3>1, <3>2 DEF Follows
  <2> QED BY <1>1, <2>1, <2>2
<1>5. Follows(w, e, o, E)
  BY <1>1, <1>3, <1>4 DEF Follows
<1> QED BY <1>5 DEF E

\* The first change is heard of: what came before it must be nobody's, or short.
LEMMA FollowsTaken ==
  ASSUME NEW w \in Seq(Chunks), NEW e \in {0, 1}, NEW o, NEW ev \in Seq(Signals), ev # << >>, Follows(w, e, o, ev),
         o = Nobody \/ Len(w) <= Lag + e
  PROVE  Follows(w, e, ev[1].id, Tail(ev))
<1> DEFINE E == Tail(ev)
           n == Len(w)
           m == Len(ev)
<1>1. n \in Nat /\ m \in Nat /\ m > 0 /\ Len(E) = m - 1 /\ (\A i \in 1 .. m - 1 : E[i] = ev[i + 1]) /\ Lag \in Nat
  BY LaneFacts
<1> HIDE DEF E
<1>2. ASSUME NEW i \in Nat, i > 0 PROVE Since(E, i) = Since(ev, i + 1)
  <2>1. CASE i \in 1 .. m - 1
    BY <1>1, <2>1 DEF Since
  <2>2. CASE i \notin 1 .. m - 1
    <3>1. i + 1 \notin 1 .. m /\ i \notin 1 .. Len(E)
      BY <1>1, <1>2, <2>2
    <3> QED BY <3>1 DEF Since
  <2> QED BY <2>1, <2>2
<1>3. ASSUME NEW p \in 1 .. n, Lag + e < p, p <= n - Since(E, 1) PROVE w[p] \in {ev[1].id, Nobody}
  <2> DEFINE h == ev[1].age
  <2>1. h \in Nat /\ h = Since(ev, 1) /\ 1 \in 1 .. m
    BY SMTT(60), <1>1, AgesTyped DEF Since
  <2>2. p <= n - Since(ev, 1 + 1)
    BY <1>2, <1>3
  <2> HIDE DEF h
  <2>3. CASE n - h < p
    <3>1. e < p
      BY <1>1, <1>3
    <3>2. w[p] = ev[1].id
      BY <2>1, <2>2, <2>3, <3>1 DEF Follows, h
    <3> QED BY <3>2
  <2>4. CASE p <= n - h
    <3>1. w[p] \in {o, Nobody}
      BY <1>3, <2>1, <2>4 DEF Follows
    <3>2. o = Nobody
      BY <1>1, <1>3
    <3> QED BY <3>1, <3>2
  <2> QED BY <1>1, <2>1, <2>3, <2>4
<1>4. ASSUME NEW i \in 1 .. m - 1, NEW p \in 1 .. n, e < p, n - E[i].age < p, p <= n - Since(E, i + 1) PROVE w[p] = E[i].id
  <2>1. i + 1 \in 1 .. m /\ i + 1 \in Nat /\ i + 1 > 0 /\ E[i] = ev[i + 1]
    BY <1>1
  <2>2. Since(E, i + 1) = Since(ev, i + 1 + 1)
    BY <1>2, <2>1
  <2> QED BY <1>4, <2>1, <2>2 DEF Follows
<1>5. Follows(w, e, ev[1].id, E)
  BY <1>1, <1>3, <1>4 DEF Follows
<1> QED BY <1>5 DEF E

\* What a clip holds of a stretch is its owner's, but for its head and its tail.
LEMMA FollowsOwn ==
  ASSUME NEW w \in Seq(Chunks), NEW v \in Seq(Chunks), NEW e \in {0, 1}, NEW o, NEW ev \in Seq(Signals), Follows(w, e, o, ev),
         Len(v) <= Len(w), \A p \in 1 .. Len(v) : v[p] = w[p], NEW p \in 1 .. Len(v)
  PROVE  v[p] \in {o, Nobody} \/ p <= Lag + Epsilon \/ p > Len(v) - Lag
<1> SUFFICES ASSUME ~ (p <= Lag + Epsilon), ~ (p > Len(v) - Lag) PROVE v[p] \in {o, Nobody}
  OBVIOUS
<1> DEFINE g == Since(ev, 1)
<1>1. Len(v) \in Nat /\ Len(w) \in Nat /\ Lag \in Nat /\ g \in Nat /\ g <= Lag
  <2>1. g \in Nat /\ g <= Lag
    BY SinceTyped
  <2> QED BY <2>1, LaneFacts
<1> HIDE DEF g
<1>2. p \in 1 .. Len(w) /\ Lag + e < p /\ p <= Len(w) - g
  BY <1>1 DEF Epsilon
<1>3. w[p] \in {o, Nobody}
  BY <1>2 DEF Follows, g
<1> QED BY <1>3

-----------------------------------------------------------------------------
(* Each step of the helper and the recorder. *)

LEMMA HoldsTyped == ASSUME StreamsTyped PROVE Holds(rec, ring, unowned) \in Seq(Chunks) /\ Unsure(rec) \in {0, 1} /\ rec.clip \in Seq(Chunks)
<1>1. LastOf(ring, unowned) \in Seq(Chunks)
  BY LastOfEnds DEF StreamsTyped
<1>2. rec.clip \in Seq(Chunks)
  BY DEF StreamsTyped, Recordings
<1> QED BY <1>1, <1>2 DEF Holds, Unsure

LEMMA ClipStarts == RecorderInit => ClipInv
<1> SUFFICES ASSUME RecorderInit PROVE ClipInv
  OBVIOUS
<1>1. /\ feed = << >> /\ events = << >> /\ carries = Nobody /\ owner = Nobody /\ ring = << >> /\ unowned = Ring /\ rec = Idle
      /\ queue = << >> /\ enabled \in BOOLEAN
  BY DEF RecorderInit
<1>2. rec.f = Nobody /\ rec.clip = << >>
  BY <1>1 DEF Idle
<1>3. StreamsTyped
  <2>1. rec \in Recordings
    BY <1>1 DEF Idle, Recordings
  <2>2. Len(rec.clip) = 0 /\ Len(feed) = 0
    BY <1>1, <1>2
  <2>3. Len(rec.clip) <= Cap /\ Len(feed) <= Lag
    BY <2>2, LaneFacts
  <2> QED BY <1>1, <2>1, <2>3, LaneFacts DEF StreamsTyped, Chunks
<1>4. ChangesLead
  <2>1. Len(events) = 0
    BY <1>1
  <2> QED BY <1>1, <2>1 DEF ChangesLead
<1>5. OwnerRecorded /\ QueueOwn
  <2>1. Len(queue) = 0
    BY <1>1
  <2> QED BY <1>1, <1>2, <2>1 DEF OwnerRecorded, QueueOwn
<1> DEFINE w == Holds(rec, ring, unowned) \o feed
<1>6. Follows(w, Unsure(rec), owner, events)
  <2>1. Holds(rec, ring, unowned) = LastOf(ring, unowned)
    BY <1>2 DEF Holds
  <2>2. LastOf(ring, unowned) \in Seq(Chunks) /\ Len(LastOf(ring, unowned)) <= Len(ring)
    BY <1>3, LastOfEnds DEF StreamsTyped
  <2>3. Len(w) = 0 /\ Len(events) = 0
    BY <1>1, <2>1, <2>2
  <2> HIDE DEF w
  <2> QED BY <2>3 DEF Follows
<1> QED BY <1>3, <1>4, <1>5, <1>6 DEF ClipInv

LEMMA SpokenKeeps == ASSUME ClipInv, Speak PROVE ClipInv'
<1> DEFINE H == Holds(rec, ring, unowned)
           w == H \o feed
           e == Unsure(rec)
           aged == [i \in DOMAIN events |-> [events[i] EXCEPT !.age = @ + 1]]
<1>1. /\ Len(feed) < Lag /\ (\A i \in DOMAIN events : events[i].age < Lag)
      /\ feed' = Append(feed, carries) /\ events' = aged
      /\ UNCHANGED <<carries, enabled, ring, unowned, owner, rec, queue>>
  BY DEF Speak
<1>2. StreamsTyped /\ ChangesLead /\ OwnerRecorded /\ QueueOwn /\ Follows(w, e, owner, events)
  BY DEF ClipInv
<1>3. H \in Seq(Chunks) /\ e \in {0, 1} /\ feed \in Seq(Chunks) /\ events \in Seq(Signals) /\ carries \in Chunks
  BY <1>2, HoldsTyped DEF StreamsTyped
<1>4. H' = H /\ e' = e
  BY <1>1 DEF Holds, Unsure
<1>5. aged \in Seq(Signals) /\ Len(aged) = Len(events)
      /\ \A i \in 1 .. Len(events) : aged[i].id = events[i].id /\ aged[i].age = events[i].age + 1 /\ aged[i].what = events[i].what
  <2>1. ASSUME NEW i \in 1 .. Len(events)
        PROVE  /\ aged[i] \in Signals /\ aged[i].id = events[i].id /\ aged[i].age = events[i].age + 1 /\ aged[i].what = events[i].what
    <3>1. events[i] \in Signals /\ DOMAIN events = 1 .. Len(events)
      BY <1>3
    <3>2. events[i].age \in Nat /\ events[i].age < Lag
      BY <1>1, <1>3, <3>1, AgesTyped
    <3>3. events[i].age + 1 \in 0 .. Lag
      BY <3>2, LaneFacts
    <3>4. aged[i] = [events[i] EXCEPT !.age = events[i].age + 1]
      BY <3>1
    <3> QED BY <3>1, <3>3, <3>4 DEF Signals
  <2>2. DOMAIN aged = 1 .. Len(events) /\ Len(events) \in Nat
    BY <1>3
  <2> HIDE DEF aged
  <2>3. aged = [i \in 1 .. Len(events) |-> aged[i]]
    <3>1. aged = [i \in DOMAIN aged |-> aged[i]]
      BY DEF aged
    <3> QED BY <2>2, <3>1
  <2>4. aged \in Seq(Signals) /\ Len(aged) = Len(events)
    BY <2>1, <2>2, <2>3
  <2> QED BY <2>1, <2>4
<1> HIDE DEF aged, H, e
<1>6. StreamsTyped'
  <2>1. feed' \in Seq(Chunks) /\ Len(feed') <= Lag
    BY <1>1, <1>3, LaneFacts
  <2> QED BY <1>1, <1>2, <1>5, <2>1 DEF StreamsTyped
<1>7. ChangesLead'
  <2>1. Len(events) = Len(events') /\ Len(events) \in Nat
    BY <1>1, <1>3, <1>5
  <2>2. events = << >> <=> events' = << >>
    <3>1. \A s \in Seq(Signals) : (s = << >>) <=> (Len(s) = 0)
      OBVIOUS
    <3> QED BY <1>1, <1>3, <1>5, <2>1, <3>1
  <2>3. \A i \in 1 .. Len(events) : events'[i].id = events[i].id /\ events'[i].what = events[i].what
    BY <1>1, <1>5
  <2>4. events # << >> => Len(events) \in 1 .. Len(events) /\ 1 \in 1 .. Len(events)
    BY <1>3
  <2>5. IF events' = << >> THEN owner' = carries' ELSE events'[Len(events')].id = carries'
    BY <1>1, <1>2, <2>1, <2>2, <2>3, <2>4 DEF ChangesLead
  <2>6. events' # << >> => events'[1].id # owner'
    BY <1>1, <1>2, <2>2, <2>3, <2>4 DEF ChangesLead
  <2>7. ASSUME NEW i \in 1 .. Len(events) - 1 PROVE events'[i + 1].id # events'[i].id
    <3>1. i \in 1 .. Len(events) /\ i + 1 \in 1 .. Len(events)
      BY <2>1
    <3> QED BY <1>2, <2>3, <3>1 DEF ChangesLead
  <2>8. \A i \in 1 .. Len(events) : events'[i].what = "tuned" => events'[i].id = Nobody
    BY <1>2, <2>3 DEF ChangesLead
  <2> QED BY <2>1, <2>5, <2>6, <2>7, <2>8 DEF ChangesLead
<1>8. OwnerRecorded' /\ QueueOwn'
  BY <1>1, <1>2 DEF OwnerRecorded, QueueOwn, OwnAudio
<1>9. Follows(H' \o feed', e', owner', events')
  <2>1. w \in Seq(Chunks) /\ H \o Append(feed, carries) = Append(w, carries)
    BY <1>3
  <2>2. carries = (IF events = << >> THEN owner ELSE events[Len(events)].id)
    BY <1>2 DEF ChangesLead
  <2> HIDE DEF w
  <2>3. Follows(Append(w, carries), e, owner, aged)
    BY <1>2, <1>3, <1>5, <2>1, <2>2, FollowsSpoken
  <2> QED BY <1>1, <1>4, <2>1, <2>3
<1> QED BY <1>6, <1>7, <1>8, <1>9 DEF ClipInv, H, e

\* The speaker goes to l with an event g, or is taken.
LEMMA TurnedKeeps ==
  ASSUME ClipInv, NEW l \in Chunks, NEW g \in Signals, l # carries, g.age = 0, g.id = l, g.what = "tuned" => l = Nobody,
         carries' = l, events' = Append(events, g), UNCHANGED <<feed, enabled, ring, unowned, owner, rec, queue>>
  PROVE  ClipInv'
<1> DEFINE H == Holds(rec, ring, unowned)
           w == H \o feed
           e == Unsure(rec)
           m == Len(events)
<1>1. StreamsTyped /\ ChangesLead /\ OwnerRecorded /\ QueueOwn /\ Follows(w, e, owner, events)
  BY DEF ClipInv
<1>2. H \in Seq(Chunks) /\ e \in {0, 1} /\ feed \in Seq(Chunks) /\ events \in Seq(Signals)
  BY <1>1, HoldsTyped DEF StreamsTyped
<1>3. H' = H /\ e' = e
  BY DEF Holds, Unsure
<1>4. m \in Nat /\ Len(events') = m + 1 /\ events'[m + 1] = g /\ (\A i \in 1 .. m : events'[i] = events[i]) /\ events' \in Seq(Signals)
  BY <1>2
<1>5. events' # << >>
  BY <1>4
<1> HIDE DEF H, e
<1>6. StreamsTyped'
  BY <1>1, <1>4 DEF StreamsTyped
<1>7. ChangesLead'
  <2>1. events'[Len(events')].id = carries'
    BY <1>4
  <2>2. events'[1].id # owner'
    <3>1. CASE events = << >>
      <4>1. m = 0
        BY <3>1
      <4>2. events'[1] = g /\ owner = carries
        BY <1>1, <1>4, <3>1, <4>1 DEF ChangesLead
      <4> QED BY <4>2
    <3>2. CASE events # << >>
      <4>1. 1 \in 1 .. m
        BY <1>2, <3>2
      <4> QED BY <1>1, <1>4, <3>2, <4>1 DEF ChangesLead
    <3> QED BY <3>1, <3>2
  <2>3. ASSUME NEW i \in 1 .. m PROVE events'[i + 1].id # events'[i].id
    <3>1. CASE i = m
      <4>1. events # << >>
        BY <1>2, <3>1
      <4>2. events[i].id = carries
        BY <1>1, <3>1, <4>1 DEF ChangesLead
      <4> QED BY <1>4, <3>1, <4>2
    <3>2. CASE i # m
      <4>1. i \in 1 .. m - 1 /\ i + 1 \in 1 .. m
        BY <1>4, <3>2
      <4>2. events[i + 1].id # events[i].id
        BY <1>1, <4>1 DEF ChangesLead
      <4> QED BY <1>4, <4>1, <4>2
    <3> QED BY <3>1, <3>2
  <2>4. ASSUME NEW i \in 1 .. m + 1, events'[i].what = "tuned" PROVE events'[i].id = Nobody
    <3>1. CASE i = m + 1
      BY <1>4, <2>4, <3>1
    <3>2. CASE i \in 1 .. m
      BY <1>1, <1>4, <2>4, <3>2 DEF ChangesLead
    <3> QED BY <1>4, <3>1, <3>2
  <2>5. \A i \in 1 .. Len(events') - 1 : events'[i + 1].id # events'[i].id
    <3>1. Len(events') - 1 = m
      BY <1>4
    <3> QED BY <2>3, <3>1
  <2>6. \A i \in 1 .. Len(events') : events'[i].what = "tuned" => events'[i].id = Nobody
    BY <1>4, <2>4
  <2> QED BY <1>5, <2>1, <2>2, <2>5, <2>6 DEF ChangesLead
<1>8. OwnerRecorded' /\ QueueOwn'
  BY <1>1 DEF OwnerRecorded, QueueOwn, OwnAudio
<1>9. Follows(H' \o feed', e', owner', events')
  <2>1. w \in Seq(Chunks)
    BY <1>2
  <2> HIDE DEF w
  <2>2. Follows(w, e, owner, Append(events, g))
    BY <1>1, <1>2, <2>1, FollowsTurned
  <2> QED BY <1>3, <2>2 DEF w
<1> QED BY <1>6, <1>7, <1>8, <1>9 DEF ClipInv, H, e

LEMMA EndsItself == ASSUME NEW S, NEW v \in Seq(S) PROVE Ends(v, v)
<1>1. Len(v) \in Nat /\ \A p \in 1 .. Len(v) : p + (Len(v) - Len(v)) = p
  OBVIOUS
<1> QED BY <1>1 DEF Ends

LEMMA EndsTransitive ==
  ASSUME NEW S, NEW u \in Seq(S), NEW v \in Seq(S), NEW w \in Seq(S), Ends(u, v), Ends(v, w)
  PROVE  Ends(u, w)
<1>1. Len(u) \in Nat /\ Len(v) \in Nat /\ Len(w) \in Nat /\ Len(u) <= Len(v) /\ Len(v) <= Len(w)
  BY DEF Ends
<1>2. ASSUME NEW p \in 1 .. Len(u) PROVE u[p] = w[p + (Len(w) - Len(u))]
  <2> DEFINE q == p + (Len(v) - Len(u))
  <2>1. q \in 1 .. Len(v) /\ u[p] = v[q]
    BY <1>1, EndsAt
  <2>2. p + (Len(w) - Len(u)) = q + (Len(w) - Len(v))
    BY <1>1
  <2> HIDE DEF q
  <2>3. v[q] = w[q + (Len(w) - Len(v))]
    BY <1>1, <2>1, EndsAt
  <2> QED BY <2>1, <2>2, <2>3
<1> QED BY <1>1, <1>2 DEF Ends

\* The first chunk on its way joins what is held.
LEMMA FirstJoins ==
  ASSUME NEW S, NEW h \in Seq(S), NEW s \in Seq(S), s # << >>
  PROVE  /\ Head(s) \in S /\ Tail(s) \in Seq(S) /\ Len(Tail(s)) = Len(s) - 1
         /\ Append(h, Head(s)) \in Seq(S) /\ Len(Append(h, Head(s))) = Len(h) + 1
         /\ Append(h, Head(s)) \o Tail(s) = h \o s
<1>1. Head(s) \in S /\ Tail(s) \in Seq(S) /\ Len(Tail(s)) = Len(s) - 1 /\ Len(s) \in Nat /\ Len(s) > 0 /\ Len(h) \in Nat
  OBVIOUS
<1>2. Append(h, Head(s)) \in Seq(S) /\ Len(Append(h, Head(s))) = Len(h) + 1
  BY <1>1
<1>3. Append(h, Head(s)) \o Tail(s) = h \o s
  BY SMTT(60)
<1> QED BY <1>1, <1>2, <1>3

\* A recording that ends is queued when it is long enough.
LEMMA QueueKept == ASSUME QueueOwn, NEW r \in Recordings, OwnAudio(r), queue' = Flushed(r) PROVE QueueOwn'
<1>1. CASE queue' = queue
  BY <1>1 DEF QueueOwn, OwnAudio
<1>2. CASE queue' = Append(queue, r)
  <2>1. queue \in Seq(Recordings) /\ \A i \in 1 .. Len(queue) : OwnAudio(queue[i])
    BY DEF QueueOwn
  <2>2. queue' \in Seq(Recordings) /\ Len(queue') = Len(queue) + 1 /\ queue'[Len(queue) + 1] = r /\ Len(queue) \in Nat
        /\ \A i \in 1 .. Len(queue) : queue'[i] = queue[i]
    BY <1>2, <2>1
  <2>3. ASSUME NEW i \in 1 .. Len(queue) + 1 PROVE OwnAudio(queue'[i])
    <3>1. CASE i = Len(queue) + 1
      BY <2>2, <3>1
    <3>2. CASE i \in 1 .. Len(queue)
      BY <2>1, <2>2, <3>2
    <3> QED BY <2>2, <3>1, <3>2
  <2>4. \A i \in 1 .. Len(queue') : OwnAudio(queue'[i])
    BY <2>2, <2>3
  <2> QED BY <2>2, <2>4 DEF QueueOwn, OwnAudio
<1> QED BY <1>1, <1>2 DEF Flushed

LEMMA RecordingOwn == ASSUME ClipInv PROVE OwnAudio(rec)
<1> DEFINE H == Holds(rec, ring, unowned)
           w == H \o feed
           v == rec.clip
<1>1. StreamsTyped /\ OwnerRecorded /\ Follows(w, Unsure(rec), owner, events)
  BY DEF ClipInv
<1>2. H \in Seq(Chunks) /\ Unsure(rec) \in {0, 1} /\ v \in Seq(Chunks) /\ feed \in Seq(Chunks) /\ events \in Seq(Signals) /\ Len(v) <= Cap
  BY <1>1, HoldsTyped DEF StreamsTyped
<1>3. CASE rec.f = Nobody
  <2>1. rec.clip = << >>
    BY <1>1, <1>3 DEF OwnerRecorded
  <2>2. Len(rec.clip) = 0
    BY <2>1
  <2> QED BY <1>2, <2>2 DEF OwnAudio
<1>4. CASE rec.f # Nobody
  <2>1. H = v /\ rec.f = owner
    BY <1>1, <1>4 DEF Holds, OwnerRecorded
  <2> HIDE DEF v, H
  <2>2. w \in Seq(Chunks) /\ Len(v) <= Len(w) /\ \A p \in 1 .. Len(v) : v[p] = w[p]
    BY <1>2, <2>1
  <2> HIDE DEF w
  <2>3. \A p \in 1 .. Len(v) : v[p] \in {owner, Nobody} \/ p <= Lag + Epsilon \/ p > Len(v) - Lag
    BY <1>1, <1>2, <2>2, FollowsOwn
  <2> QED BY <1>2, <2>1, <2>3 DEF OwnAudio, v
<1> QED BY <1>3, <1>4

LEMMA HeardKeeps == ASSUME ClipInv, OnPcm PROVE ClipInv'
<1> DEFINE H == Holds(rec, ring, unowned)
           c == Head(feed)
           z == Tail(feed)
           J == Append(H, c)
           w == H \o feed
           e == Unsure(rec)
<1>1. feed # << >> /\ feed' = z /\ UNCHANGED <<carries, events, enabled>>
      /\ IF ~enabled THEN Disabled ELSE IF rec.f = Nobody THEN Preroll(c) ELSE Record(c)
  BY DEF OnPcm
<1>2. StreamsTyped /\ ChangesLead /\ OwnerRecorded /\ QueueOwn /\ Follows(w, e, owner, events)
  BY DEF ClipInv
<1>3. H \in Seq(Chunks) /\ e \in {0, 1} /\ feed \in Seq(Chunks) /\ events \in Seq(Signals) /\ rec.clip \in Seq(Chunks) /\ Len(feed) <= Lag
  BY <1>2, HoldsTyped DEF StreamsTyped
<1>4. /\ c \in Chunks /\ z \in Seq(Chunks) /\ Len(z) = Len(feed) - 1 /\ J \in Seq(Chunks) /\ Len(J) = Len(H) + 1 /\ J \o z = w
  BY SMTT(60), <1>1, <1>3, FirstJoins
<1>5. /\ Len(w) = Len(H) + 1 + Len(z) /\ w \in Seq(Chunks) /\ Len(H) \in Nat /\ Len(z) \in Nat /\ Len(z) <= Lag /\ Len(w) \in Nat
  BY <1>3, <1>4, LaneFacts
<1> HIDE DEF H, J, c, z, w, e
<1>6. Ends(z, w) /\ Ends(w, w)
  BY <1>4, <1>5, EndsItself, EndsJoined
<1>7. ASSUME OwnerRecorded', QueueOwn', ring' \in Seq(Chunks), unowned' \in Nat, rec' \in Recordings, Len(rec'.clip) <= Cap, owner' = owner,
             Follows(Holds(rec, ring, unowned)' \o z, Unsure(rec)', owner, events)
      PROVE  ClipInv'
  <2>1. StreamsTyped'
    BY <1>1, <1>2, <1>4, <1>5, <1>7 DEF StreamsTyped
  <2>2. ChangesLead'
    BY <1>1, <1>2, <1>7 DEF ChangesLead
  <2> QED BY <1>1, <1>7, <2>1, <2>2 DEF ClipInv
\* What is held is forgotten: the stretch is what is still on its way.
<1>8. ASSUME rec' = Idle, ring' \in Seq(Chunks), unowned' = 0
      PROVE  /\ Follows(Holds(rec, ring, unowned)' \o z, Unsure(rec)', owner, events)
             /\ rec' \in Recordings /\ Len(rec'.clip) <= Cap /\ rec'.f = Nobody /\ rec'.clip = << >>
  <2>1. rec'.f = Nobody /\ rec'.clip = << >> /\ rec' \in Recordings
    BY <1>8 DEF Idle, Recordings
  <2>2. Len(rec'.clip) = 0
    BY <2>1
  <2>3. Holds(rec, ring, unowned)' = << >>
    BY <1>8, <2>1, NoneLeft DEF Holds
  <2>4. << >> \o z = z
    BY <1>4
  <2>5. Unsure(rec)' = 0
    BY <2>1 DEF Unsure
  <2>6. Follows(z, 0, owner, events)
    <3>1. Len(w) - Len(z) + 0 >= e
      BY <1>3, <1>5
    <3> QED BY <1>2, <1>3, <1>4, <1>5, <1>6, <3>1, FollowsEnd
  <2> QED BY <2>1, <2>2, <2>3, <2>4, <2>5, <2>6, LaneFacts
<1>9. CASE ~enabled
  <2>1. rec' = Idle /\ ring' = << >> /\ unowned' = 0 /\ owner' = owner /\ queue' = queue
    BY <1>1, <1>9 DEF Disabled
  <2>2. ring' \in Seq(Chunks)
    BY <2>1
  <2>3. OwnerRecorded'
    BY <1>8, <2>1, <2>2 DEF OwnerRecorded
  <2>4. QueueOwn'
    BY <1>2, <2>1 DEF QueueOwn, OwnAudio
  <2> QED BY <1>7, <1>8, <2>1, <2>2, <2>3, <2>4
<1>10. CASE enabled /\ rec.f = Nobody
  <2> DEFINE more == Append(ring, c)
             kept == LastOf(more, Ring)
             held == LastOf(kept, unowned')
  <2>1. ring' = kept /\ unowned' = (IF owner = Nobody THEN Least(Ring, unowned + 1) ELSE 0) /\ UNCHANGED <<owner, rec, queue>>
    BY <1>1, <1>10 DEF Preroll
  <2>2. ring \in Seq(Chunks) /\ unowned \in Nat
    BY <1>2 DEF StreamsTyped
  <2>3. more \in Seq(Chunks) /\ Len(more) = Len(ring) + 1 /\ Len(ring) \in Nat
    BY <1>4, <2>2
  <2>4. unowned' \in Nat /\ unowned' <= unowned + 1
    BY <2>1, <2>2, LaneFacts DEF Least
  <2>5. kept \in Seq(Chunks) /\ Len(kept) <= Len(more) /\ Ends(kept, more) /\ Len(kept) \in Nat
    <3>1. kept \in Seq(Chunks) /\ Len(kept) = (IF Ring < Len(more) THEN Ring ELSE Len(more)) /\ Ends(kept, more)
      BY <2>3, LaneFacts, LastOfEnds
    <3> HIDE DEF kept
    <3> QED BY <2>3, <3>1, LaneFacts
  <2>6. held \in Seq(Chunks) /\ Len(held) <= unowned' /\ Len(held) <= Len(kept) /\ Ends(held, kept) /\ Len(held) \in Nat
    BY <2>4, <2>5, LastOfEnds
  <2>7. H = LastOf(ring, unowned)
    BY <1>10 DEF Holds, H
  <2>8. Ends(H, ring) /\ Len(H) = (IF unowned < Len(ring) THEN unowned ELSE Len(ring))
    BY <2>2, <2>7, LastOfEnds
  <2> HIDE DEF more, kept, held
  <2>9. Ends(J, more)
    <3>1. J = H \o <<c>> /\ more = ring \o <<c>> /\ <<c>> \in Seq(Chunks)
      BY SMTT(60), <1>3, <1>4, <2>2 DEF J, more
    <3> QED BY <1>3, <2>2, <2>8, <3>1, EndsJoined
  <2>10. Ends(held, more)
    BY <2>3, <2>5, <2>6, EndsTransitive
  <2>11. Len(held) <= Len(J)
    BY SMTT(60), <1>4, <2>2, <2>3, <2>4, <2>5, <2>6, <2>8
  <2>12. Ends(held, J)
    BY <1>4, <2>3, <2>6, <2>9, <2>10, <2>11, EndsOfOne
  <2>13. Ends(held \o z, w)
    BY <1>4, <2>6, <2>12, EndsJoined
  <2>14. e = 0 /\ Holds(rec, ring, unowned)' = held /\ Unsure(rec)' = 0
    BY <1>10, <2>1 DEF Holds, Unsure, e, held
  <2>15. Follows(held \o z, 0, owner, events)
    <3>1. held \o z \in Seq(Chunks) /\ Len(held \o z) \in Nat
      BY <1>4, <2>6
    <3>2. Len(w) - Len(held \o z) + 0 >= 0
      BY <1>5, <2>13, <3>1 DEF Ends
    <3> QED BY <1>2, <1>3, <1>5, <2>13, <2>14, <3>1, <3>2, FollowsEnd
  <2>16. OwnerRecorded'
    BY <1>2, <2>1 DEF OwnerRecorded
  <2>17. QueueOwn'
    BY <1>2, <2>1 DEF QueueOwn, OwnAudio
  <2>18. rec' \in Recordings /\ Len(rec'.clip) <= Cap
    BY <1>2, <2>1 DEF StreamsTyped
  <2> QED BY <1>7, <2>1, <2>4, <2>5, <2>14, <2>15, <2>16, <2>17, <2>18
<1>11. CASE enabled /\ rec.f # Nobody
  <2> DEFINE v == IF Len(rec.clip) < Cap THEN Append(rec.clip, c) ELSE rec.clip
             r == [rec EXCEPT !.clip = v]
  <2>1. /\ IF Len(r.clip) >= Cap THEN rec' = Idle /\ Queued(r) ELSE rec' = r /\ queue' = queue
        /\ UNCHANGED <<ring, unowned, owner>>
    BY <1>1, <1>11 DEF Record
  <2>2. /\ rec \in Recordings /\ Len(rec.clip) <= Cap /\ ring \in Seq(Chunks) /\ unowned \in Nat
        /\ owner = rec.f /\ unowned = 0 /\ Len(rec.clip) \in Nat
    BY <1>2, <1>3, <1>11 DEF StreamsTyped, OwnerRecorded
  <2>3. H = rec.clip
    BY <1>11 DEF Holds, H
  <2>4. v = J \/ v = H
    BY <2>3 DEF J
  <2>5. v \in Seq(Chunks) /\ Len(v) <= Cap /\ Len(v) <= Len(w) /\ \A p \in 1 .. Len(v) : v[p] = w[p]
    <3>1. CASE Len(rec.clip) < Cap
      <4>1. v = J
        BY <2>3, <3>1 DEF J
      <4>2. Len(J) <= Cap
        BY <1>4, <2>2, <2>3, <3>1, LaneFacts
      <4>3. \A p \in 1 .. Len(J) : J[p] = w[p]
        BY <1>4
      <4>4. Len(J) <= Len(w)
        BY <1>4, <1>5
      <4> QED BY <1>4, <4>1, <4>2, <4>3, <4>4
    <3>2. CASE ~ (Len(rec.clip) < Cap)
      <4>1. v = H
        BY <2>3, <3>2
      <4>2. \A p \in 1 .. Len(H) : H[p] = w[p]
        BY <1>3 DEF w
      <4>3. Len(H) <= Len(w)
        BY <1>5
      <4> QED BY <1>3, <2>2, <2>3, <4>1, <4>2, <4>3
    <3> QED BY <3>1, <3>2
  <2>6. r \in Recordings /\ r.f = rec.f /\ r.clip = v
    BY <2>2, <2>5 DEF Recordings
  <2> HIDE DEF v, r
  <2>7. OwnAudio(r)
    <3>1. \A p \in 1 .. Len(v) : v[p] \in {owner, Nobody} \/ p <= Lag + Epsilon \/ p > Len(v) - Lag
      BY <1>2, <1>3, <1>5, <2>5, FollowsOwn
    <3> QED BY <2>2, <2>5, <2>6, <3>1 DEF OwnAudio
  <2>8. CASE Len(r.clip) >= Cap
    <3>1. rec' = Idle /\ queue' = Flushed(r)
      BY <2>1, <2>8 DEF Queued
    <3>2. QueueOwn'
      BY <1>2, <2>6, <2>7, <3>1, QueueKept
    <3>3. ring' \in Seq(Chunks) /\ unowned' = 0
      BY <2>1, <2>2
    <3>4. OwnerRecorded'
      BY <1>8, <2>1, <2>2, <3>1, <3>3 DEF OwnerRecorded
    <3> QED BY <1>7, <1>8, <2>1, <3>1, <3>2, <3>3, <3>4
  <2>9. CASE ~ (Len(r.clip) >= Cap)
    <3>1. rec' = r /\ queue' = queue
      BY <2>1, <2>9
    <3>2. v = J
      <4>1. Len(rec.clip) < Cap
        BY <2>2, <2>6, <2>9, LaneFacts DEF v
      <4> QED BY <2>3, <4>1 DEF J, v
    <3>3. J # << >>
      BY <1>4, <1>5
    <3>4. Unsure(rec)' = 1 /\ Holds(rec, ring, unowned)' = J
      BY <1>11, <2>6, <3>1, <3>2, <3>3 DEF Unsure, Holds
    <3>5. Follows(w, 1, owner, events)
      <4>1. Len(w) - Len(w) + 1 >= e
        BY <1>3, <1>5
      <4> QED BY <1>2, <1>3, <1>5, <1>6, <4>1, FollowsEnd
    <3>6. OwnerRecorded'
      BY <1>2, <1>11, <2>1, <2>6, <3>1 DEF OwnerRecorded
    <3>7. QueueOwn'
      BY <1>2, <3>1 DEF QueueOwn, OwnAudio
    <3>8. ring' \in Seq(Chunks) /\ unowned' \in Nat
      BY <2>1, <2>2
    <3> QED BY <1>4, <1>7, <2>1, <2>5, <2>6, <3>1, <3>4, <3>5, <3>6, <3>7, <3>8
  <2> QED BY <2>8, <2>9
<1> QED BY <1>9, <1>10, <1>11

\* An event: whatever was held before it, what is held after it is the new owner's.
LEMMA ToldKeeps == ASSUME ClipInv, OnEvent PROVE ClipInv'
<1> DEFINE H == Holds(rec, ring, unowned)
           w == H \o feed
           e == Unsure(rec)
           id == events[1].id
           rest == Tail(events)
           opened == LastOf(ring, SeedLimit(unowned))
           fresh == [f |-> id, clip |-> opened]
<1>1. /\ events # << >> /\ events' = rest /\ UNCHANGED <<carries, feed, enabled>>
      /\ IF events[1].what = "audible" THEN OwnerChanges(id) ELSE Reset
  BY DEF OnEvent
<1>2. StreamsTyped /\ ChangesLead /\ OwnerRecorded /\ QueueOwn /\ Follows(w, e, owner, events)
  BY DEF ClipInv
<1>3. /\ H \in Seq(Chunks) /\ e \in {0, 1} /\ feed \in Seq(Chunks) /\ events \in Seq(Signals) /\ rec.clip \in Seq(Chunks) /\ Len(feed) <= Lag
      /\ ring \in Seq(Chunks) /\ unowned \in Nat /\ rec \in Recordings /\ Len(feed) \in Nat /\ Len(H) \in Nat
  BY <1>2, HoldsTyped DEF StreamsTyped
<1>4. 1 \in 1 .. Len(events) /\ events[1] \in Signals /\ id \in Chunks /\ id # owner
  <2>1. 1 \in 1 .. Len(events)
    BY <1>1, <1>3
  <2> QED BY <1>1, <1>2, <1>3, <2>1, AgesTyped DEF ChangesLead
<1>5. rest \in Seq(Signals) /\ Len(rest) = Len(events) - 1 /\ \A i \in 1 .. Len(events) - 1 : rest[i] = events[i + 1]
  BY <1>1, <1>3
<1>6. owner # Nobody => unowned = 0
  BY <1>2 DEF OwnerRecorded
<1> HIDE DEF H, w, e, rest, opened, fresh
\* What the step leaves.
<1>7. /\ owner' = id /\ ring' \in Seq(Chunks) /\ unowned' = 0 /\ queue' = Flushed(rec)
      /\ rec' = Idle \/ (rec' = fresh /\ id \in Freq)
  <2>1. CASE events[1].what = "audible"
    <3>1. OwnerChanges(id) /\ id # owner
      BY <1>1, <1>4, <2>1
    <3>2. owner' = id /\ ring' = ring /\ queue' = Flushed(rec) /\ unowned' = (IF id # Nobody THEN 0 ELSE unowned)
      BY <3>1 DEF OwnerChanges, Queued
    <3>3. rec' = Idle \/ (rec' = fresh /\ id \in Freq)
      BY <3>1 DEF OwnerChanges, opened, fresh
    <3> QED BY <1>3, <1>4, <1>6, <3>2, <3>3
  <2>2. CASE events[1].what # "audible"
    <3>1. Reset
      BY <1>1, <2>2
    <3>2. events[1].what = "tuned"
      BY <1>4, <2>2 DEF Signals
    <3>3. id = Nobody
      BY <1>2, <1>4, <3>2 DEF ChangesLead
    <3>4. owner' = Nobody /\ ring' = << >> /\ unowned' = 0 /\ queue' = Flushed(rec) /\ rec' = Idle
      BY <3>1 DEF Reset, Queued
    <3>5. ring' \in Seq(Chunks)
      BY <3>4
    <3> QED BY <3>3, <3>4, <3>5
  <2> QED BY <2>1, <2>2
<1>8. ChangesLead'
  <2> DEFINE m == Len(events)
  <2>1. m \in Nat /\ m > 0 /\ Len(rest) \in Nat
    BY <1>3, <1>4, <1>5
  <2>2. CASE m = 1
    <3>1. rest = << >>
      BY <1>5, <2>2
    <3>2. id = carries
      BY <1>1, <1>2, <2>2 DEF ChangesLead
    <3>3. Len(rest) = 0
      BY <1>5, <2>2
    <3> QED BY <1>1, <1>7, <3>1, <3>2, <3>3 DEF ChangesLead
  <2>3. CASE m > 1
    <3>1. rest # << >> /\ rest[1] = events[2] /\ rest[Len(rest)] = events[m] /\ events[2].id # events[1].id
      <4>1. 1 \in 1 .. m - 1 /\ m - 1 \in 1 .. m - 1 /\ Len(rest) > 0
        BY <1>5, <2>1, <2>3
      <4>2. rest[1] = events[1 + 1] /\ rest[m - 1] = events[m - 1 + 1] /\ events[1 + 1].id # events[1].id
        BY <1>2, <1>5, <4>1 DEF ChangesLead
      <4>3. m - 1 + 1 = m /\ Len(rest) = m - 1
        BY <1>5, <2>1
      <4>4. rest # << >>
        BY <4>1
      <4> QED BY <4>2, <4>3, <4>4
    <3>2. events[m].id = carries
      BY <1>1, <1>2 DEF ChangesLead
    <3>3. ASSUME NEW i \in 1 .. Len(rest) - 1 PROVE rest[i + 1].id # rest[i].id
      <4>1. i \in 1 .. m - 1 /\ i + 1 \in 1 .. m - 1
        BY <1>5, <2>1
      <4>2. rest[i] = events[i + 1] /\ rest[i + 1] = events[i + 1 + 1]
        BY <1>5, <4>1
      <4>3. events[i + 1 + 1].id # events[i + 1].id
        BY <1>2, <4>1 DEF ChangesLead
      <4> QED BY <4>2, <4>3
    <3>4. ASSUME NEW i \in 1 .. Len(rest), rest[i].what = "tuned" PROVE rest[i].id = Nobody
      <4>1. i \in 1 .. m - 1 /\ i + 1 \in 1 .. m
        BY <1>5, <2>1
      <4> QED BY <1>2, <1>5, <3>4, <4>1 DEF ChangesLead
    <3> QED BY <1>1, <1>7, <3>1, <3>2, <3>3, <3>4 DEF ChangesLead
  <2> QED BY <2>1, <2>2, <2>3
<1>9. QueueOwn'
  BY <1>2, <1>3, <1>7, QueueKept, RecordingOwn
<1>10. Ends(feed, w) /\ w \in Seq(Chunks) /\ Len(w) = Len(H) + Len(feed)
  <2>1. Ends(feed, H \o feed)
    BY <1>3, EndsItself, EndsJoined
  <2> QED BY <1>3, <2>1 DEF w
<1>11. Follows(feed, 0, owner, events)
  <2>1. Len(H) >= e
    <3>1. CASE e = 0
      BY <1>3, <3>1
    <3>2. CASE e = 1
      <4>1. rec.f # Nobody /\ rec.clip # << >>
        BY <3>2 DEF e, Unsure
      <4>2. H = rec.clip
        BY <4>1 DEF H, Holds
      <4>3. Len(rec.clip) > 0
        BY <1>3, <4>1
      <4> QED BY <1>3, <3>2, <4>2, <4>3
    <3> QED BY <1>3, <3>1, <3>2
  <2>2. Len(w) - Len(feed) + 0 >= e
    BY <1>3, <1>10, <2>1
  <2> QED BY <1>2, <1>3, <1>10, <2>2, FollowsEnd
\* Nothing is held: the stretch is what is on its way.
<1>12. CASE rec' = Idle
  <2>1. rec'.f = Nobody /\ rec'.clip = << >> /\ rec' \in Recordings
    BY <1>12 DEF Idle, Recordings
  <2>2. Len(rec'.clip) = 0
    BY <2>1
  <2>3. Holds(rec, ring, unowned)' = << >> /\ Unsure(rec)' = 0
    BY <1>7, <2>1, NoneLeft DEF Holds, Unsure
  <2>4. << >> \o feed = feed
    BY <1>3
  <2>5. Follows(feed, 0, id, rest)
    BY <1>1, <1>3, <1>11, LaneFacts, FollowsTaken DEF rest
  <2>6. StreamsTyped'
    BY <1>1, <1>2, <1>4, <1>5, <1>7, <2>1, <2>2, LaneFacts DEF StreamsTyped
  <2>7. OwnerRecorded'
    BY <1>7, <2>1 DEF OwnerRecorded
  <2> QED BY <1>1, <1>7, <1>8, <1>9, <2>3, <2>4, <2>5, <2>6, <2>7 DEF ClipInv
\* A clip opens with the end of the pre-roll, at most one chunk longer than what was held.
<1>13. CASE rec' = fresh /\ id \in Freq
  <2> DEFINE v == opened \o feed
             d == IF opened = << >> THEN 0 ELSE 1
  <2>1. /\ opened \in Seq(Chunks) /\ Ends(opened, ring) /\ Len(opened) <= Cap /\ Len(opened) <= unowned + 1 /\ Len(opened) <= Len(ring)
        /\ Len(opened) \in Nat
    <3>1. SeedLimit(unowned) \in Nat /\ SeedLimit(unowned) <= Cap /\ SeedLimit(unowned) <= unowned + 1
      BY <1>3, LaneFacts DEF SeedLimit, Least, Epsilon
    <3>2. opened \in Seq(Chunks) /\ Ends(opened, ring) /\ Len(opened) = (IF SeedLimit(unowned) < Len(ring) THEN SeedLimit(unowned) ELSE Len(ring))
      BY <1>3, <3>1, LastOfEnds DEF opened
    <3>3. Len(opened) \in Nat /\ Len(ring) \in Nat
      BY <1>3, <3>2
    <3> QED BY SMTT(60), <3>1, <3>2, <3>3, <1>3, LaneFacts
  <2>2. rec'.f = id /\ rec'.clip = opened /\ rec' \in Recordings
    BY <1>13, <2>1 DEF fresh, Recordings
  <2>3. Holds(rec, ring, unowned)' = opened /\ Unsure(rec)' = d /\ d \in {0, 1}
    BY <1>13, <2>2, LaneFacts DEF Holds, Unsure
  <2>4. v \in Seq(Chunks) /\ Len(v) = Len(opened) + Len(feed) /\ Ends(feed, v)
    <3>1. Ends(feed, opened \o feed)
      BY <1>3, <2>1, EndsItself, EndsJoined
    <3> QED BY <1>3, <2>1, <3>1
  <2> HIDE DEF v, d
  <2>5. Follows(v, d, id, rest)
    <3>1. CASE opened = << >>
      <4>1. v = feed /\ d = 0
        BY <1>3, <3>1 DEF v, d
      <4>2. Follows(feed, 0, id, rest)
        BY <1>1, <1>3, <1>11, LaneFacts, FollowsTaken DEF rest, id
      <4> QED BY <4>1, <4>2
    <3>2. CASE opened # << >> /\ owner # Nobody
      <4>1. d = 1 /\ Len(v) <= Len(feed) + 1 /\ Len(v) <= Lag + 1
        BY <1>3, <1>6, <2>1, <2>4, <3>2, LaneFacts DEF d
      <4>2. Follows(v, 1, owner, events)
        BY <1>3, <1>11, <2>4, <4>1, FollowsBehind
      <4> QED BY <1>1, <1>3, <2>4, <4>1, <4>2, FollowsTaken DEF rest, id
    <3>3. CASE opened # << >> /\ owner = Nobody
      <4>1. rec.f = Nobody /\ d = 1
        BY <1>2, <3>3 DEF OwnerRecorded, d
      <4>2. H = LastOf(ring, unowned) /\ e = 0
        BY <4>1 DEF H, e, Holds, Unsure
      <4>3. Ends(H, ring) /\ Len(H) = (IF unowned < Len(ring) THEN unowned ELSE Len(ring)) /\ Len(ring) \in Nat
        BY <1>3, <4>2, LastOfEnds
      <4>4. CASE Len(opened) <= Len(H)
        <5>1. Ends(opened, H)
          BY <1>3, <2>1, <4>3, <4>4, EndsOfOne
        <5>2. Ends(v, w)
          BY <1>3, <2>1, <5>1, EndsJoined DEF v, w
        <5>3. Len(w) - Len(v) + 1 >= e
          BY <1>3, <1>10, <2>1, <2>4, <4>2, <4>4
        <5>4. Follows(v, 1, owner, events)
          BY <1>2, <1>3, <1>10, <2>4, <5>2, <5>3, FollowsEnd
        <5> QED BY <1>1, <1>3, <2>4, <3>3, <4>1, <5>4, FollowsTaken DEF rest, id
      <4>5. CASE Len(opened) > Len(H)
        <5>1. Len(H) <= Len(opened) /\ Len(opened) <= Len(H) + 1
          BY <1>3, <2>1, <4>3, <4>5
        <5>2. Ends(H, opened)
          BY <1>3, <2>1, <4>3, <5>1, EndsOfOne
        <5>3. Ends(w, v)
          BY <1>3, <2>1, <5>2, EndsJoined DEF v, w
        <5>4. Len(v) <= Len(w) + 1
          BY <1>3, <1>10, <2>1, <2>4, <5>1
        <5>5. Follows(v, 1, owner, events)
          BY <1>2, <1>3, <1>10, <2>4, <4>2, <5>3, <5>4, FollowsBehind
        <5> QED BY <1>1, <1>3, <2>4, <3>3, <4>1, <5>5, FollowsTaken DEF rest, id
      <4> QED BY <1>3, <2>1, <4>4, <4>5
    <3> QED BY <3>1, <3>2, <3>3
  <2>6. Follows(Holds(rec, ring, unowned)' \o feed, Unsure(rec)', owner', events')
    BY <1>1, <1>7, <2>3, <2>5 DEF v
  <2>7. StreamsTyped'
    BY <1>1, <1>2, <1>4, <1>5, <1>7, <2>1, <2>2 DEF StreamsTyped
  <2>8. OwnerRecorded'
    BY <1>7, <1>13, <2>2, LaneFacts DEF OwnerRecorded
  <2> QED BY <1>1, <1>8, <1>9, <2>6, <2>7, <2>8 DEF ClipInv
<1> QED BY <1>7, <1>12, <1>13

\* Nothing that a recording is made from changes.
LEMMA RestKeeps ==
  ASSUME ClipInv, UNCHANGED <<carries, feed, events, ring, unowned, owner, rec>>, enabled' \in BOOLEAN,
         queue' = queue \/ (queue # << >> /\ queue' = Tail(queue))
  PROVE  ClipInv'
<1>1. StreamsTyped /\ ChangesLead /\ OwnerRecorded /\ QueueOwn
  BY DEF ClipInv
<1>2. StreamsTyped' /\ ChangesLead' /\ OwnerRecorded'
  BY <1>1 DEF StreamsTyped, ChangesLead, OwnerRecorded
<1>3. QueueOwn'
  <2>1. CASE queue' = queue
    BY <1>1, <2>1 DEF QueueOwn, OwnAudio
  <2>2. CASE queue # << >> /\ queue' = Tail(queue)
    <3>1. queue \in Seq(Recordings) /\ \A i \in 1 .. Len(queue) : OwnAudio(queue[i])
      BY <1>1 DEF QueueOwn
    <3>2. queue' \in Seq(Recordings) /\ \A i \in 1 .. Len(queue') : i + 1 \in 1 .. Len(queue) /\ queue'[i] = queue[i + 1]
      BY <2>2, <3>1
    <3>3. \A i \in 1 .. Len(queue') : OwnAudio(queue'[i])
      BY <3>1, <3>2
    <3> QED BY <3>2, <3>3 DEF QueueOwn, OwnAudio
  <2> QED BY <2>1, <2>2
<1>4. Follows(Holds(rec, ring, unowned)' \o feed', Unsure(rec)', owner', events')
  <2>1. Holds(rec, ring, unowned)' = Holds(rec, ring, unowned) /\ Unsure(rec)' = Unsure(rec)
    BY DEF Holds, Unsure
  <2> QED BY <2>1 DEF ClipInv
<1> QED BY <1>2, <1>3, <1>4 DEF ClipInv

LEMMA ClipStep == ClipInv /\ [RecorderNext]_recorderVars => ClipInv'
<1> SUFFICES ASSUME ClipInv, [RecorderNext]_recorderVars PROVE ClipInv'
  OBVIOUS
<1>1. enabled \in BOOLEAN /\ carries \in Chunks
  BY DEF ClipInv, StreamsTyped
<1>2. CASE Speak
  BY <1>2, SpokenKeeps
<1>3. ASSUME NEW l \in Lane \cup {Nobody}, Turn(l) PROVE ClipInv'
  <2> DEFINE g == [what |-> "audible", id |-> l, age |-> 0]
  <2>1. l \in Chunks /\ l # carries /\ carries' = l /\ events' = Append(events, g)
        /\ UNCHANGED <<feed, enabled, ring, unowned, owner, rec, queue>>
    BY <1>3 DEF Turn, Chunks, clipVars
  <2>2. g \in Signals /\ g.age = 0 /\ g.id = l /\ g.what # "tuned"
    BY <2>1, LaneFacts DEF Signals
  <2> HIDE DEF g
  <2> QED BY <2>1, <2>2, TurnedKeeps
<1>4. CASE HopUntold
  <2> DEFINE g == [what |-> "tuned", id |-> Nobody, age |-> 0]
  <2>1. Nobody \in Chunks /\ Nobody # carries /\ carries' = Nobody /\ events' = Append(events, g)
        /\ UNCHANGED <<feed, enabled, ring, unowned, owner, rec, queue>>
    BY <1>4 DEF HopUntold, Chunks, clipVars
  <2>2. g \in Signals /\ g.age = 0 /\ g.id = Nobody
    BY <2>1, LaneFacts DEF Signals
  <2> HIDE DEF g
  <2> QED BY <2>1, <2>2, TurnedKeeps
<1>5. CASE OnPcm
  BY <1>5, HeardKeeps
<1>6. CASE OnEvent
  BY <1>6, ToldKeeps
<1>7. CASE Drain
  BY <1>1, <1>7, RestKeeps DEF Drain, helperVars, clipVars
<1>8. CASE Sweep
  BY <1>1, <1>8, RestKeeps DEF Sweep, helperVars, clipVars
<1>9. CASE Toggle
  BY <1>1, <1>9, RestKeeps DEF Toggle, helperVars, clipVars
<1>10. ASSUME NEW f \in Freq, File(f) PROVE ClipInv'
  BY <1>1, <1>10, RestKeeps DEF File, helperVars, clipVars
<1>11. ASSUME NEW f \in Freq, DeleteSample(f) PROVE ClipInv'
  BY <1>1, <1>11, RestKeeps DEF DeleteSample, helperVars, clipVars
<1>12. ASSUME NEW f \in Freq, NEW ban \in BOOLEAN, Retire(f, ban) PROVE ClipInv'
  BY <1>1, <1>12, RestKeeps DEF Retire, helperVars, clipVars
<1>13. CASE UNCHANGED recorderVars
  BY <1>1, <1>13, RestKeeps DEF recorderVars
<1> QED BY <1>2, <1>3, <1>4, <1>5, <1>6, <1>7, <1>8, <1>9, <1>10, <1>11, <1>12, <1>13 DEF RecorderNext

\* Of a recording with its own audio, little is of another lane.
LEMMA LittleForeign == ASSUME NEW c, c.clip \in Seq(Chunks), OwnAudio(c) PROVE Cardinality(Foreign(c)) <= Epsilon + 2 * Lag
<1> DEFINE n == Len(c.clip)
           first == 1 .. Lag + 1
           last == (n - Lag) + 1 .. n
<1>1. n \in Nat /\ Lag \in Nat /\ DOMAIN c.clip = 1 .. n
  BY LaneFacts
<1>2. Foreign(c) \subseteq first \cup last
  <2>1. ASSUME NEW p \in Foreign(c) PROVE p \in first \cup last
    <3>1. p \in 1 .. n /\ ~ (c.clip[p] \in {c.f, Nobody})
      BY <1>1 DEF Foreign
    <3>2. p <= Lag + 1 \/ p > n - Lag
      BY <3>1 DEF OwnAudio, Epsilon
    <3> QED BY <1>1, <3>1, <3>2
  <2> QED BY <2>1
<1>3. IsFiniteSet(first) /\ Cardinality(first) = Lag + 1
  <2>1. IsFiniteSet(1 .. Lag + 1) /\ Cardinality(1 .. Lag + 1) = IF 1 > Lag + 1 THEN 0 ELSE (Lag + 1) - 1 + 1
    BY SMTT(60), <1>1, FS_Interval
  <2> QED BY <1>1, <2>1
<1>4. IsFiniteSet(last) /\ Cardinality(last) = Lag
  <2> DEFINE a == (n - Lag) + 1
  <2>1. a \in Int /\ n \in Int
    BY <1>1
  <2>2. IsFiniteSet(a .. n) /\ Cardinality(a .. n) = IF a > n THEN 0 ELSE n - a + 1
    BY <2>1, FS_Interval
  <2> QED BY <1>1, <2>2
<1> HIDE DEF first, last
<1>5. IsFiniteSet(first \cup last) /\ Cardinality(first \cup last) = Cardinality(first) + Cardinality(last) - Cardinality(first \cap last)
  BY <1>3, <1>4, FS_Union
<1>6. Cardinality(first \cap last) \in Nat
  <2>1. IsFiniteSet(first \cap last)
    BY <1>3, FS_Intersection
  <2> QED BY <2>1, FS_CardinalityType
<1>7. Cardinality(Foreign(c)) <= Cardinality(first \cup last) /\ Cardinality(Foreign(c)) \in Nat /\ Cardinality(first \cup last) \in Nat
  <2>1. IsFiniteSet(Foreign(c)) /\ Cardinality(Foreign(c)) <= Cardinality(first \cup last)
    BY <1>2, <1>5, FS_Subset
  <2> QED BY <1>5, <2>1, FS_CardinalityType
<1>8. Cardinality(first \cup last) <= Lag + 1 + Lag
  BY <1>1, <1>3, <1>4, <1>5, <1>6
<1> QED BY <1>1, <1>7, <1>8 DEF Epsilon

LEMMA InvPure == ClipInv => ClipPure
<1> SUFFICES ASSUME ClipInv, NEW c \in Clips PROVE Cardinality(Foreign(c)) <= Epsilon + 2 * Lag /\ Len(c.clip) <= Cap
  BY DEF ClipPure
<1>1. c \in Recordings /\ OwnAudio(c)
  <2>1. CASE c = rec
    <3>1. rec \in Recordings
      BY DEF ClipInv, StreamsTyped
    <3> QED BY <2>1, <3>1, RecordingOwn
  <2>2. CASE c # rec
    <3>1. c \in ToSet(queue)
      BY <2>2 DEF Clips
    <3>2. queue \in Seq(Recordings) /\ \A i \in 1 .. Len(queue) : OwnAudio(queue[i])
      BY DEF ClipInv, QueueOwn
    <3>3. PICK i \in DOMAIN queue : queue[i] = c
      BY <3>1 DEF ToSet
    <3>4. i \in 1 .. Len(queue)
      BY <3>2, <3>3
    <3> QED BY <3>2, <3>3, <3>4
  <2> QED BY <2>1, <2>2
<1>2. c.clip \in Seq(Chunks)
  BY <1>1 DEF Recordings
<1> QED BY <1>1, <1>2, LittleForeign DEF OwnAudio

-----------------------------------------------------------------------------
(* The store. *)

\* Without() keeps at most what there was.
LEMMA WithoutKeeps ==
  ASSUME NEW S, NEW d \in Seq(S), NEW F
  PROVE  (\E T : Without(d, F) \in Seq(T)) /\ Len(Without(d, F)) <= Len(d) /\ Len(Without(d, F)) \in Nat
<1> DEFINE left == {i \in DOMAIN d : d[i] \notin F}
           nth(n) == CHOOSE i \in left : Cardinality({j \in left : j <= i}) = n
           k == Cardinality(left)
           T == {d[nth(n)] : n \in 1 .. k}
           r == [n \in 1 .. k |-> d[nth(n)]]
<1>1. left \subseteq 1 .. Len(d) /\ Len(d) \in Nat
  OBVIOUS
<1>2. IsFiniteSet(1 .. Len(d)) /\ Cardinality(1 .. Len(d)) = Len(d)
  <2>1. IsFiniteSet(1 .. Len(d)) /\ Cardinality(1 .. Len(d)) = IF 1 > Len(d) THEN 0 ELSE Len(d) - 1 + 1
    BY SMTT(60), <1>1, FS_Interval
  <2> QED BY <1>1, <2>1
<1>3. k \in Nat /\ k <= Len(d)
  <2>1. IsFiniteSet(left) /\ Cardinality(left) <= Cardinality(1 .. Len(d))
    BY <1>1, <1>2, FS_Subset
  <2> QED BY <1>2, <2>1, FS_CardinalityType
<1>4. Without(d, F) = r
  BY DEF Without
<1> HIDE DEF k, left, nth
<1>5. r \in [1 .. k -> T]
  OBVIOUS
<1> HIDE DEF r, T
<1>6. r \in Seq(T) /\ Len(r) = k
  BY <1>3, <1>5
<1> QED BY <1>3, <1>4, <1>6

StoreInv ==
  /\ (\E S : disk \in Seq(S)) /\ draining \in BOOLEAN /\ sweep \in BOOLEAN
  /\ queue # << >> => draining
  /\ queue = << >> /\ ~sweep => Len(disk) <= Budget

LEMMA StoreStarts == RecorderInit => StoreInv
<1> SUFFICES ASSUME RecorderInit PROVE StoreInv
  OBVIOUS
<1>1. queue = << >> /\ draining = FALSE /\ sweep = FALSE /\ disk = << >>
  BY DEF RecorderInit
<1>2. disk \in Seq({}) /\ Len(disk) = 0
  BY <1>1
<1>3. Len(disk) <= Budget
  BY <1>2, LaneFacts
<1> QED BY <1>1, <1>2, <1>3 DEF StoreInv

\* A recording that ends has its write scheduled.
LEMMA QueuedKeeps == ASSUME StoreInv, QueueOwn, NEW r \in Recordings, Queued(r), UNCHANGED <<sweep, disk>> PROVE StoreInv'
<1>1. queue' = Flushed(r) /\ draining' = (draining \/ Flushed(r) # queue)
  BY DEF Queued
<1>2. CASE Flushed(r) = queue
  BY <1>1, <1>2 DEF StoreInv
<1>3. CASE Flushed(r) # queue
  <2>1. Flushed(r) = Append(queue, r)
    BY <1>3 DEF Flushed
  <2>2. queue' # << >>
    <3>1. queue \in Seq(Recordings)
      BY DEF QueueOwn
    <3>2. Append(queue, r) # << >>
      <4>1. Len(Append(queue, r)) = Len(queue) + 1 /\ Len(queue) \in Nat
        BY <3>1
      <4>2. Len(<< >>) = 0
        OBVIOUS
      <4> QED BY <4>1, <4>2
    <3> QED BY <1>1, <2>1, <3>2
  <2>3. draining' = TRUE
    BY <1>1, <1>3
  <2> QED BY <2>2, <2>3 DEF StoreInv
<1> QED BY <1>2, <1>3

\* A clip less is no reason to sweep.
LEMMA FewerKeeps ==
  ASSUME StoreInv, UNCHANGED <<queue, draining, sweep>>, NEW F, disk' = Without(disk, F)
  PROVE  StoreInv'
<1>1. PICK S : disk \in Seq(S)
  BY DEF StoreInv
<1>2. (\E T : disk' \in Seq(T)) /\ Len(disk') <= Len(disk) /\ Len(disk') \in Nat /\ Len(disk) \in Nat
  BY <1>1, WithoutKeeps
<1>3. queue' = << >> /\ ~sweep' => Len(disk') <= Budget
  <2> SUFFICES ASSUME queue = << >> /\ ~sweep PROVE Len(disk') <= Budget
    OBVIOUS
  <2>1. Len(disk) <= Budget
    BY DEF StoreInv
  <2> QED BY <1>2, <2>1, LaneFacts
<1> QED BY <1>2, <1>3 DEF StoreInv

LEMMA StoreStep == ClipInv /\ StoreInv /\ [RecorderNext]_recorderVars => StoreInv'
<1> SUFFICES ASSUME ClipInv, StoreInv, [RecorderNext]_recorderVars PROVE StoreInv'
  OBVIOUS
<1>1. QueueOwn /\ rec \in Recordings /\ queue \in Seq(Recordings)
  BY DEF ClipInv, StreamsTyped, QueueOwn
<1>2. ASSUME UNCHANGED <<queue, draining, storeVars>> PROVE StoreInv'
  BY <1>2 DEF StoreInv, storeVars
<1>3. CASE OnPcm
  <2>1. UNCHANGED <<sweep, disk>>
    BY <1>3 DEF OnPcm, storeVars
  <2>2. UNCHANGED <<queue, draining>> \/ \E r \in Recordings : Queued(r)
    <3>1. CASE ~enabled
      BY <1>3, <3>1 DEF OnPcm, Disabled
    <3>2. CASE enabled /\ rec.f = Nobody
      BY <1>3, <3>2 DEF OnPcm, Preroll
    <3>3. CASE enabled /\ rec.f # Nobody
      <4> DEFINE c == Head(feed)
                 v == IF Len(rec.clip) < Cap THEN Append(rec.clip, c) ELSE rec.clip
                 r == [rec EXCEPT !.clip = v]
      <4>1. UNCHANGED <<queue, draining>> \/ Queued(r)
        BY <1>3, <3>3 DEF OnPcm, Record
      <4>2. r \in Recordings
        <5>1. c \in Chunks /\ rec.clip \in Seq(Chunks)
          BY <1>3, <1>1 DEF OnPcm, ClipInv, StreamsTyped, Recordings
        <5>2. v \in Seq(Chunks)
          BY <5>1
        <5> QED BY <1>1, <5>2 DEF Recordings
      <4> QED BY <4>1, <4>2
    <3> QED BY <3>1, <3>2, <3>3
  <2> QED BY <1>1, <1>2, <2>1, <2>2, QueuedKeeps DEF storeVars
<1>4. CASE OnEvent
  <2>1. UNCHANGED <<sweep, disk>>
    BY <1>4 DEF OnEvent, storeVars
  <2>2. UNCHANGED <<queue, draining>> \/ Queued(rec)
    BY <1>4 DEF OnEvent, OwnerChanges, Reset
  <2> QED BY <1>1, <1>2, <2>1, <2>2, QueuedKeeps DEF storeVars
<1>5. CASE Drain
  <2>1. CASE queue = << >>
    <3>1. queue' = queue /\ draining' = FALSE /\ disk' = disk /\ sweep' = sweep
      BY <1>5, <2>1 DEF Drain
    <3> QED BY <2>1, <3>1 DEF StoreInv
  <2>2. CASE queue # << >>
    <3>1. /\ queue' = Tail(queue) /\ disk' \in {disk, Written(Head(queue))}
          /\ draining' = (Tail(queue) # << >>) /\ sweep' = (sweep \/ Tail(queue) = << >>)
      BY <1>5, <2>2 DEF Drain
    <3>2. \E S : disk' \in Seq(S)
      <4>1. CASE disk' = disk
        BY <4>1 DEF StoreInv
      <4>2. CASE disk' # disk
        <5> DEFINE r == Head(queue)
                   d == Without(disk, {r.f})
        <5>1. disk' = Append(d, r.f)
          BY <3>1, <4>2 DEF Written
        <5>2. PICK S : disk \in Seq(S)
          BY DEF StoreInv
        <5>3. PICK T : d \in Seq(T)
          BY <5>2, WithoutKeeps
        <5> HIDE DEF r, d
        <5>4. Append(d, r.f) \in Seq(T \cup {r.f})
          BY <5>3
        <5> QED BY <5>1, <5>4
      <4> QED BY <4>1, <4>2
    <3>3. draining' \in BOOLEAN /\ sweep' \in BOOLEAN /\ (queue' # << >> => draining') /\ ~ (queue' = << >> /\ ~sweep')
      <4>1. CASE Tail(queue) = << >>
        <5>1. draining' = FALSE /\ sweep' = TRUE /\ queue' = << >>
          BY <3>1, <4>1
        <5> QED BY <5>1
      <4>2. CASE Tail(queue) # << >>
        <5>1. draining' = TRUE /\ queue' # << >>
          BY <3>1, <4>2
        <5>2. sweep' \in BOOLEAN
          <6>1. sweep' = (sweep \/ FALSE)
            BY <3>1, <4>2
          <6>2. CASE sweep = TRUE
            BY <6>1, <6>2
          <6>3. CASE sweep = FALSE
            BY <6>1, <6>3
          <6> QED BY <6>2, <6>3 DEF StoreInv
        <5> QED BY <5>1, <5>2
      <4> QED BY <4>1, <4>2
    <3> QED BY <3>2, <3>3 DEF StoreInv
  <2> QED BY <2>1, <2>2
<1>6. CASE Sweep
  <2>1. PICK F \in Orphans(disk) : disk' = LastOf(Without(disk, F), Budget)
    BY <1>6 DEF Sweep, Swept
  <2>2. UNCHANGED <<queue, draining>> /\ sweep' = FALSE
    BY <1>6 DEF Sweep
  <2>3. PICK S : disk \in Seq(S)
    BY DEF StoreInv
  <2>4. PICK T : Without(disk, F) \in Seq(T)
    BY <2>3, WithoutKeeps
  <2> DEFINE d == Without(disk, F)
  <2>5. LastOf(d, Budget) \in Seq(T) /\ Len(LastOf(d, Budget)) = (IF Budget < Len(d) THEN Budget ELSE Len(d))
    BY <2>4, LaneFacts, LastOfEnds
  <2>6. Len(d) \in Nat
    BY <2>4
  <2>7. disk' \in Seq(T) /\ Len(disk') <= Budget
    BY <2>1, <2>5, <2>6, LaneFacts
  <2> QED BY <2>2, <2>7 DEF StoreInv
<1>7. ASSUME NEW f \in Freq, File(f) PROVE StoreInv'
  BY <1>2, <1>7 DEF File
<1>8. ASSUME NEW f \in Freq, DeleteSample(f) PROVE StoreInv'
  BY <1>8, FewerKeeps DEF DeleteSample
<1>9. ASSUME NEW f \in Freq, NEW ban \in BOOLEAN, Retire(f, ban) PROVE StoreInv'
  BY <1>9, FewerKeeps DEF Retire
<1>10. CASE Speak
  BY <1>2, <1>10 DEF Speak
<1>11. ASSUME NEW l \in Lane \cup {Nobody}, Turn(l) PROVE StoreInv'
  BY <1>2, <1>11 DEF Turn
<1>12. CASE HopUntold
  BY <1>2, <1>12 DEF HopUntold
<1>13. CASE Toggle
  BY <1>2, <1>13 DEF Toggle
<1>14. CASE UNCHANGED recorderVars
  BY <1>2, <1>14 DEF recorderVars, storeVars
<1> QED BY <1>3, <1>4, <1>5, <1>6, <1>7, <1>8, <1>9, <1>10, <1>11, <1>12, <1>13, <1>14 DEF RecorderNext

\* Whatever the lag of audio and events within their bound, however the speaker changes hands and the recording is switched,
\* a clip, under way or queued, has at most a beat and two lags of another lane's audio and is never longer than its cap; what
\* is queued has its write scheduled, and with neither a write nor a sweep pending the store is within its budget.
THEOREM ClipsTheorem == RecorderSpec => []ClipsSound
<1>1. RecorderInit => ClipInv /\ StoreInv
  BY ClipStarts, StoreStarts
<1>2. (ClipInv /\ StoreInv) /\ [RecorderNext]_recorderVars => (ClipInv /\ StoreInv)'
  BY ClipStep, StoreStep
<1>3. ClipInv /\ StoreInv => ClipsSound
  <2> SUFFICES ASSUME ClipInv, StoreInv PROVE ClipsSound
    OBVIOUS
  <2>1. ClipPure
    BY InvPure
  <2>2. StoreSettles
    BY DEF StoreInv, StoreSettles
  <2> QED BY <2>1, <2>2 DEF ClipsSound
<1> QED BY <1>1, <1>2, <1>3, PTL DEF RecorderSpec
=============================================================================
