--------------------------- MODULE RotationProofs ---------------------------
(***************************************************************************)
(* Proofs about the rotation, for any channels, plans, times, bounds and   *)
(* any number of calls and faults: RotationSound and NeverCutOff.          *)
(*                                                                         *)
(* The helper's picture and Node's differ only by what is under way.  So   *)
(* the invariant says what the lines in the pipes are going to do: the     *)
(* last line about a lane tells whether it is open, the last line about    *)
(* the speaker who it is, and the last command is the window Node is on.   *)
(***************************************************************************)
EXTENDS Rotation, FiniteSetTheorems, TLAPS

\* What the lines es say in the end: that a lane is open, that it is shut,
\* or nothing; and who is audible.
Opened(es, id) == \E i \in 1..Len(es) : /\ es[i] = <<"open", id>>
                                         /\ \A j \in (i + 1)..Len(es) : es[j] # <<"close", id>>
Shut(es, id) == \E i \in 1..Len(es) : /\ es[i] = <<"close", id>>
                                       /\ \A j \in (i + 1)..Len(es) : es[j] # <<"open", id>>
Has(es, e) == \E i \in 1..Len(es) : es[i] = e
Mentions(es, id) == Has(es, <<"open", id>>) \/ Has(es, <<"close", id>>)
Named(es, id) == \E i \in 1..Len(es) : /\ es[i] = <<"audible", id>>
                                        /\ \A j \in (i + 1)..Len(es) : es[j][1] # "audible"
Names(es) == \E i \in 1..Len(es) : es[i][1] = "audible"
Boots(es) == Has(es, <<"ready", None>>)

Line == {"ready", "open", "close", "audible"} \X (Lanes \cup {None})
Window == [at : {"none", "group", "sweep"} \X Nat, lanes : SUBSET Channels,
           monitor : BOOLEAN, closeCall : BOOLEAN]

\* Types, as far as the proofs need them.
NodeTypes ==
  /\ plan \in Plans /\ sweeps \in Nat /\ groupIndex \in 1..Len(plan.groups)
  /\ sweeping \in BOOLEAN /\ sweepIndex \in Nat
  /\ openIds \subseteq Lanes /\ audibleId \in Lanes \cup {None}
  /\ since \in 0..Longest /\ hold \in {NotHolding} \cup Nat
  /\ cursor \in Nat /\ credit \in Nat
  /\ alert \in [Channels \ Audible -> Nat] /\ armed \in BOOLEAN
  /\ silence \in Nat /\ busy \in Nat
RadioTypes ==
  /\ helper \in {"down", "boot", "up"} /\ window \in Window
  /\ IsFiniteSet(open) /\ open \subseteq window.lanes \cup {CC}
  /\ speaker \in Lanes \cup {None}
  /\ cmds \in Seq(Window) /\ events \in Seq(Line)

\* A helper that is not up yet has nothing open and says nothing, and Node
\* believes so of one that boots; a helper that is down hears nothing either.
NotUp ==
  /\ helper # "up" => open = {} /\ speaker = None /\ window = NoWindow /\ events = <<>>
  /\ helper = "boot" => openIds = {} /\ audibleId = None
  /\ helper = "down" => cmds = <<>> /\ ~armed

\* A window that fits where Node is.
Fits(w) == /\ w.lanes \subseteq plan.groups[groupIndex]
           /\ ~sweeping => w = GroupWindow(plan, groupIndex)

\* The last command is where Node is; when none is under way the helper is there,
\* but for one whose first words Node has not read.
WindowRight ==
  /\ cmds # <<>> => Fits(cmds[Len(cmds)])
  /\ helper = "up" /\ cmds = <<>> => Fits(window) \/ (window = NoWindow /\ Boots(events))
  /\ helper # "down" => openIds \subseteq plan.groups[groupIndex] \cup {CC}

\* The last line about a lane says whether it is open; without one Node knows of no
\* lane that is not open, and with no tune under way of every one that is.
LanesRight ==
  \A id \in Lanes : helper = "up" =>
    /\ Opened(events, id) => id \in open
    /\ Shut(events, id) => id \notin open
    /\ ~Mentions(events, id) /\ id \in openIds => id \in open
    /\ ~Mentions(events, id) /\ cmds = <<>> /\ id \in open => id \in openIds

\* The same of who is audible.
SpeakerRight ==
  helper = "up" =>
    /\ \A id \in Lanes \cup {None} : Named(events, id) => speaker = id
    /\ ~Names(events) => audibleId \in {None, speaker}
    /\ ~Names(events) /\ cmds = <<>> => audibleId = speaker

\* The time in silence is part of the time on this window, and none of it is behind the
\* close of a lane that can be heard, or a tune, that is under way.
SilenceRight ==
  /\ silence <= since /\ silence < Longest
  /\ cmds # <<>> => silence = 0
  /\ \A id \in Lanes : Has(events, <<"close", id>>) /\ IsAudibleNow(id, alert) => silence = 0

\* A hold is not older than the time for which it had a reason.
HoldRight == helper # "down" /\ hold # NotHolding => hold <= busy

\* A look under way is one that may be, and returns to a group of the plan.
LookRight ==
  armed /\ revisit # None =>
    /\ revisit.from \in 1..Len(plan.groups) /\ revisit.spent \in 0..(MaxDwell - 1)
    /\ ~sweeping /\ ~plan.monitor
    /\ Contains(PriorityGroups(plan), groupIndex)
    /\ ~Contains(PriorityGroups(plan), revisit.from)

RotInv ==
  /\ NodeTypes /\ RadioTypes /\ NotUp /\ WindowRight /\ LanesRight /\ SpeakerRight
  /\ SilenceRight /\ HoldRight /\ LookRight

-----------------------------------------------------------------------------
(* Lines in a pipe. *)

\* What is read first is said last.
LEMMA ReadLine ==
  ASSUME NEW es \in Seq(Line), es # <<>>, NEW id
  PROVE  /\ Tail(es) \in Seq(Line) /\ Head(es) \in Line
         /\ Opened(Tail(es), id) => Opened(es, id)
         /\ Shut(Tail(es), id) => Shut(es, id)
         /\ Named(Tail(es), id) => Named(es, id)
         /\ \A e : Has(es, e) <=> Head(es) = e \/ Has(Tail(es), e)
         /\ Head(es) = <<"open", id>> /\ ~Mentions(Tail(es), id) => Opened(es, id)
         /\ Head(es) = <<"close", id>> /\ ~Mentions(Tail(es), id) => Shut(es, id)
         /\ Head(es) = <<"audible", id>> /\ ~Names(Tail(es)) => Named(es, id)
         /\ Names(es) => Head(es)[1] = "audible" \/ Names(Tail(es))
<1> DEFINE t == Tail(es)
<1>1. /\ t \in Seq(Line) /\ Len(es) \in Nat \ {0} /\ Len(t) = Len(es) - 1
      /\ Head(es) = es[1] /\ Head(es) \in Line /\ \A i \in 1..Len(t) : t[i] = es[i + 1]
  OBVIOUS
<1> HIDE DEF t
<1>2. \A i \in 2..Len(es) : i - 1 \in 1..Len(t) /\ es[i] = t[i - 1]
  <2> TAKE i \in 2..Len(es)
  <2>1. i - 1 \in 1..Len(t) /\ (i - 1) + 1 = i
    BY <1>1
  <2> QED BY <1>1, <2>1
<1>3. Opened(t, id) => Opened(es, id)
  <2> SUFFICES ASSUME Opened(t, id) PROVE Opened(es, id)
    OBVIOUS
  <2>1. PICK i \in 1..Len(t) : t[i] = <<"open", id>> /\ \A j \in (i + 1)..Len(t) : t[j] # <<"close", id>>
    BY DEF Opened
  <2>2. i + 1 \in 1..Len(es) /\ es[i + 1] = <<"open", id>>
    BY <1>1, <2>1
  <2>3. \A j \in ((i + 1) + 1)..Len(es) : es[j] # <<"close", id>>
    <3> TAKE j \in ((i + 1) + 1)..Len(es)
    <3>1. j \in 2..Len(es) /\ j - 1 \in (i + 1)..Len(t)
      BY <1>1
    <3> QED BY <1>2, <2>1, <3>1
  <2> QED BY <2>2, <2>3 DEF Opened
<1>4. Shut(t, id) => Shut(es, id)
  <2> SUFFICES ASSUME Shut(t, id) PROVE Shut(es, id)
    OBVIOUS
  <2>1. PICK i \in 1..Len(t) : t[i] = <<"close", id>> /\ \A j \in (i + 1)..Len(t) : t[j] # <<"open", id>>
    BY DEF Shut
  <2>2. i + 1 \in 1..Len(es) /\ es[i + 1] = <<"close", id>>
    BY <1>1, <2>1
  <2>3. \A j \in ((i + 1) + 1)..Len(es) : es[j] # <<"open", id>>
    <3> TAKE j \in ((i + 1) + 1)..Len(es)
    <3>1. j \in 2..Len(es) /\ j - 1 \in (i + 1)..Len(t)
      BY <1>1
    <3> QED BY <1>2, <2>1, <3>1
  <2> QED BY <2>2, <2>3 DEF Shut
<1>5. Named(t, id) => Named(es, id)
  <2> SUFFICES ASSUME Named(t, id) PROVE Named(es, id)
    OBVIOUS
  <2>1. PICK i \in 1..Len(t) : t[i] = <<"audible", id>> /\ \A j \in (i + 1)..Len(t) : t[j][1] # "audible"
    BY DEF Named
  <2>2. i + 1 \in 1..Len(es) /\ es[i + 1] = <<"audible", id>>
    BY <1>1, <2>1
  <2>3. \A j \in ((i + 1) + 1)..Len(es) : es[j][1] # "audible"
    <3> TAKE j \in ((i + 1) + 1)..Len(es)
    <3>1. j \in 2..Len(es) /\ j - 1 \in (i + 1)..Len(t)
      BY <1>1
    <3> QED BY <1>2, <2>1, <3>1
  <2> QED BY <2>2, <2>3 DEF Named
<1>6. \A e : Has(es, e) <=> Head(es) = e \/ Has(t, e)
  <2> TAKE e
  <2>1. ASSUME Has(t, e) PROVE Has(es, e)
    <3>1. PICK i \in 1..Len(t) : t[i] = e
      BY <2>1 DEF Has
    <3>2. i + 1 \in 1..Len(es) /\ es[i + 1] = e
      BY <1>1, <3>1
    <3> QED BY <3>2 DEF Has
  <2>2. ASSUME Has(es, e), Head(es) # e PROVE Has(t, e)
    <3>1. PICK i \in 1..Len(es) : es[i] = e
      BY <2>2 DEF Has
    <3>2. i \in 2..Len(es)
      BY <1>1, <2>2, <3>1
    <3> QED BY <1>2, <3>1, <3>2 DEF Has
  <2>3. Head(es) = e => Has(es, e)
    BY <1>1 DEF Has
  <2> QED BY <2>1, <2>2, <2>3
<1>7. \A j \in 2..Len(es) : Has(t, es[j])
  BY <1>2 DEF Has
<1>8. 1 \in 1..Len(es) /\ (1 + 1)..Len(es) = 2..Len(es)
  BY <1>1
<1>9. Head(es) = <<"open", id>> /\ ~Mentions(t, id) => Opened(es, id)
  BY <1>1, <1>7, <1>8 DEF Mentions, Opened
<1>10. Head(es) = <<"close", id>> /\ ~Mentions(t, id) => Shut(es, id)
  BY <1>1, <1>7, <1>8 DEF Mentions, Shut
<1>11. \A j \in 2..Len(es) : es[j][1] = "audible" => Names(t)
  BY <1>2 DEF Names
<1>12. Head(es) = <<"audible", id>> /\ ~Names(t) => Named(es, id)
  BY <1>1, <1>8, <1>11 DEF Named
<1>13. Names(es) => Head(es)[1] = "audible" \/ Names(t)
  <2> SUFFICES ASSUME Names(es), Head(es)[1] # "audible" PROVE Names(t)
    OBVIOUS
  <2>1. PICK i \in 1..Len(es) : es[i][1] = "audible"
    BY DEF Names
  <2>2. i \in 2..Len(es)
    BY <1>1, <2>1
  <2> QED BY <1>11, <2>1, <2>2
<1> QED BY <1>1, <1>3, <1>4, <1>5, <1>6, <1>9, <1>10, <1>12, <1>13 DEF t

\* What is said later decides.
LEMMA SaidAfter ==
  ASSUME NEW es \in Seq(Line), NEW new \in Seq(Line), NEW id
  PROVE  LET all == es \o new
         IN  /\ all \in Seq(Line)
             /\ Opened(all, id) => Opened(new, id) \/ (Opened(es, id) /\ ~Has(new, <<"close", id>>))
             /\ Shut(all, id) => Shut(new, id) \/ (Shut(es, id) /\ ~Has(new, <<"open", id>>))
             /\ Named(all, id) => Named(new, id) \/ (Named(es, id) /\ ~Names(new))
             /\ \A e : Has(all, e) <=> Has(es, e) \/ Has(new, e)
             /\ Names(all) <=> Names(es) \/ Names(new)
<1> DEFINE all == es \o new
<1> DEFINE m == Len(es)
<1>1. /\ all \in Seq(Line) /\ m \in Nat /\ Len(new) \in Nat /\ Len(all) = m + Len(new)
      /\ \A i \in 1..m : all[i] = es[i]
      /\ \A i \in 1..Len(new) : all[m + i] = new[i]
  OBVIOUS
<1> HIDE DEF all, m
<1>2. \A i \in 1..Len(all) : (i \in 1..m /\ all[i] = es[i]) \/ (i - m \in 1..Len(new) /\ all[i] = new[i - m] /\ m + (i - m) = i)
  <2> TAKE i \in 1..Len(all)
  <2>1. CASE i <= m
    BY <1>1, <2>1
  <2>2. CASE i > m
    <3>1. i - m \in 1..Len(new) /\ m + (i - m) = i
      BY <1>1, <2>2
    <3> QED BY <1>1, <3>1
  <2> QED BY <1>1, <2>1, <2>2
<1>3. \A i \in 1..m : i \in 1..Len(all) /\ i < m + 1
  BY <1>1
<1>4. \A i \in 1..Len(new) : m + i \in 1..Len(all)
  BY <1>1
<1>5. ASSUME NEW i \in 1..Len(all), NEW P, \A j \in (i + 1)..Len(all) : all[j] \notin P
      PROVE  /\ i \in 1..m => (\A j \in (i + 1)..m : es[j] \notin P) /\ (\A j \in 1..Len(new) : new[j] \notin P)
             /\ i - m \in 1..Len(new) => \A j \in ((i - m) + 1)..Len(new) : new[j] \notin P
  <2>1. ASSUME i \in 1..m, NEW j \in (i + 1)..m PROVE es[j] \notin P
    <3>1. j \in (i + 1)..Len(all) /\ j \in 1..m
      BY <1>1, <2>1
    <3> QED BY <1>1, <1>5, <3>1
  <2>2. ASSUME i \in 1..m, NEW j \in 1..Len(new) PROVE new[j] \notin P
    <3>1. m + j \in (i + 1)..Len(all)
      BY <1>1, <2>2
    <3> QED BY <1>1, <1>5, <3>1
  <2>3. ASSUME i - m \in 1..Len(new), NEW j \in ((i - m) + 1)..Len(new) PROVE new[j] \notin P
    <3>1. m + j \in (i + 1)..Len(all) /\ j \in 1..Len(new)
      BY <1>1, <2>3
    <3> QED BY <1>1, <1>5, <3>1
  <2> QED BY <2>1, <2>2, <2>3
<1>6. Opened(all, id) => Opened(new, id) \/ (Opened(es, id) /\ ~Has(new, <<"close", id>>))
  <2> SUFFICES ASSUME Opened(all, id) PROVE Opened(new, id) \/ (Opened(es, id) /\ ~Has(new, <<"close", id>>))
    OBVIOUS
  <2>1. PICK i \in 1..Len(all) : all[i] = <<"open", id>> /\ \A j \in (i + 1)..Len(all) : all[j] \notin {<<"close", id>>}
    BY DEF Opened
  <2>2. CASE i \in 1..m /\ all[i] = es[i]
    BY <1>5, <2>1, <2>2 DEF Opened, Has, m
  <2>3. CASE i - m \in 1..Len(new) /\ all[i] = new[i - m]
    BY <1>5, <2>1, <2>3 DEF Opened
  <2> QED BY <1>2, <2>2, <2>3
<1>7. Shut(all, id) => Shut(new, id) \/ (Shut(es, id) /\ ~Has(new, <<"open", id>>))
  <2> SUFFICES ASSUME Shut(all, id) PROVE Shut(new, id) \/ (Shut(es, id) /\ ~Has(new, <<"open", id>>))
    OBVIOUS
  <2>1. PICK i \in 1..Len(all) : all[i] = <<"close", id>> /\ \A j \in (i + 1)..Len(all) : all[j] \notin {<<"open", id>>}
    BY DEF Shut
  <2>2. CASE i \in 1..m /\ all[i] = es[i]
    BY <1>5, <2>1, <2>2 DEF Shut, Has, m
  <2>3. CASE i - m \in 1..Len(new) /\ all[i] = new[i - m]
    BY <1>5, <2>1, <2>3 DEF Shut
  <2> QED BY <1>2, <2>2, <2>3
<1>8. Named(all, id) => Named(new, id) \/ (Named(es, id) /\ ~Names(new))
  <2> SUFFICES ASSUME Named(all, id) PROVE Named(new, id) \/ (Named(es, id) /\ ~Names(new))
    OBVIOUS
  <2> DEFINE P == {e \in Line : e[1] = "audible"}
  <2>1. PICK i \in 1..Len(all) : all[i] = <<"audible", id>> /\ \A j \in (i + 1)..Len(all) : all[j][1] # "audible"
    BY DEF Named
  <2>2. \A j \in (i + 1)..Len(all) : all[j] \notin P
    BY <2>1
  <2>3. /\ \A j \in 1..m : es[j] \in P <=> es[j][1] = "audible"
        /\ \A j \in 1..Len(new) : new[j] \in P <=> new[j][1] = "audible"
    BY DEF m
  <2> HIDE DEF P
  <2>4. CASE i \in 1..m /\ all[i] = es[i]
    <3>1. (\A j \in (i + 1)..m : es[j] \notin P) /\ (\A j \in 1..Len(new) : new[j] \notin P)
      BY <1>5, <2>2, <2>4
    <3>2. \A j \in (i + 1)..m : j \in 1..m
      BY <1>1, <2>4
    <3> QED BY <2>1, <2>3, <2>4, <3>1, <3>2 DEF Named, Names, m
  <2>5. CASE i - m \in 1..Len(new) /\ all[i] = new[i - m]
    <3>1. \A j \in ((i - m) + 1)..Len(new) : new[j] \notin P
      BY <1>5, <2>2, <2>5
    <3>2. \A j \in ((i - m) + 1)..Len(new) : j \in 1..Len(new)
      BY <1>1, <2>5
    <3> QED BY <2>1, <2>3, <2>5, <3>1, <3>2 DEF Named
  <2> QED BY <1>2, <2>4, <2>5
<1>9. \A e : Has(all, e) <=> Has(es, e) \/ Has(new, e)
  <2> TAKE e
  <2>1. ASSUME Has(all, e) PROVE Has(es, e) \/ Has(new, e)
    BY <1>2, <2>1 DEF Has, m
  <2>2. ASSUME Has(es, e) PROVE Has(all, e)
    BY <1>1, <1>3, <2>2 DEF Has, m
  <2>3. ASSUME Has(new, e) PROVE Has(all, e)
    BY <1>1, <1>4, <2>3 DEF Has
  <2> QED BY <2>1, <2>2, <2>3
<1>10. Names(all) <=> Names(es) \/ Names(new)
  <2>1. ASSUME Names(all) PROVE Names(es) \/ Names(new)
    BY <1>2, <2>1 DEF Names, m
  <2>2. ASSUME Names(es) PROVE Names(all)
    BY <1>1, <1>3, <2>2 DEF Names, m
  <2>3. ASSUME Names(new) PROVE Names(all)
    BY <1>1, <1>4, <2>3 DEF Names
  <2> QED BY <2>1, <2>2, <2>3
<1> QED BY <1>1, <1>6, <1>7, <1>8, <1>9, <1>10 DEF all

\* One line, or none.
LEMMA OneLine ==
  ASSUME NEW e \in Line, NEW id
  PROVE  /\ << e >> \in Seq(Line)
         /\ Opened(<< e >>, id) <=> e = <<"open", id>>
         /\ Shut(<< e >>, id) <=> e = <<"close", id>>
         /\ Named(<< e >>, id) <=> e = <<"audible", id>>
         /\ \A x : Has(<< e >>, x) <=> e = x
         /\ Names(<< e >>) <=> e[1] = "audible"
<1>1. << e >> \in Seq(Line) /\ Len(<< e >>) = 1 /\ << e >>[1] = e /\ \A i \in 1..1 : i = 1
  OBVIOUS
<1>2. (1 + 1)..1 = {} /\ 1 \in 1..1
  OBVIOUS
<1> QED BY <1>1, <1>2 DEF Opened, Shut, Named, Has, Names

LEMMA NoLine ==
  ASSUME NEW id
  PROVE  /\ << >> \in Seq(Line)
         /\ ~Opened(<< >>, id) /\ ~Shut(<< >>, id) /\ ~Named(<< >>, id)
         /\ \A x : ~Has(<< >>, x)
         /\ ~Names(<< >>) /\ ~Mentions(<< >>, id)
BY DEF Opened, Shut, Named, Has, Names, Mentions

-----------------------------------------------------------------------------
(* Orders and bounds. *)

\* The priority groups can be put in their order.
LEMMA InOrder ==
  ASSUME NEW S \in SUBSET Nat, IsFiniteSet(S)
  PROVE  /\ Cardinality(S) \in Nat
         /\ Ascending(S) \in [1..Cardinality(S) -> S]
<1> DEFINE n == Cardinality(S)
<1> DEFINE UpTill(x) == {y \in S : y <= x}
<1> DEFINE rank == [x \in S |-> Cardinality(UpTill(x))]
<1>1. n \in Nat
  BY FS_CardinalityType
<1>2. \A x \in S : IsFiniteSet(UpTill(x)) /\ rank[x] \in 1..n
  <2> TAKE x \in S
  <2>4. x \in Nat /\ x \in UpTill(x)
    OBVIOUS
  <2>1. UpTill(x) \in SUBSET S /\ UpTill(x) # {}
    BY <2>4
  <2>2. IsFiniteSet(UpTill(x)) /\ Cardinality(UpTill(x)) <= n
    BY <2>1, FS_Subset
  <2>3. Cardinality(UpTill(x)) \in Nat /\ Cardinality(UpTill(x)) # 0
    BY <2>1, <2>2, FS_CardinalityType, FS_EmptySet
  <2> QED BY <1>1, <2>2, <2>3
<1>3. \A x, y \in S : x < y => rank[x] < rank[y]
  <2> TAKE x, y \in S
  <2> HAVE x < y
  <2>5. x \in Nat /\ y \in Nat /\ \A z \in S : z \in Nat
    OBVIOUS
  <2>6. \A z \in S : z <= x => z <= y
    BY <2>5
  <2>1. UpTill(x) \in SUBSET UpTill(y) /\ y \in UpTill(y) /\ y \notin UpTill(x)
    <3>1. y <= y /\ ~(y <= x)
      BY <2>5
    <3> QED BY <2>6, <3>1
  <2>2. Cardinality(UpTill(x)) <= Cardinality(UpTill(y)) /\ Cardinality(UpTill(y)) # Cardinality(UpTill(x))
    BY <1>2, <2>1, FS_Subset
  <2>4. rank[x] = Cardinality(UpTill(x)) /\ rank[y] = Cardinality(UpTill(y))
    OBVIOUS
  <2> HIDE DEF UpTill, rank
  <2>3. rank[x] \in Nat /\ rank[y] \in Nat /\ rank[x] <= rank[y] /\ rank[x] # rank[y]
    BY <1>1, <1>2, <2>2, <2>4
  <2> QED BY <2>3
<1> HIDE DEF rank
<1>4. rank \in Injection(S, 1..n)
  <2>1. rank \in [S -> 1..n]
    BY <1>2 DEF rank
  <2>2. \A x, y \in S : rank[x] = rank[y] => x = y
    <3> TAKE x, y \in S
    <3>1. x \in Nat /\ y \in Nat /\ rank[x] \in Nat /\ rank[y] \in Nat
      <4>1. rank[x] \in 1..n /\ rank[y] \in 1..n
        BY <1>2
      <4> HIDE DEF n
      <4> QED BY <1>1, <4>1
    <3> QED BY <1>3, <3>1
  <2> QED BY <2>1, <2>2 DEF Injection, IsInjective
<1>5. rank \in Surjection(S, 1..n)
  <2>1. IsFiniteSet(1..n) /\ Cardinality(1..n) = n
    BY <1>1, FS_Interval
  <2> QED BY <1>4, <2>1, FS_Injection
<1>6. \A i \in 1..n : \E x \in S : rank[x] = i
  BY <1>5 DEF Surjection
<1> DEFINE order == [i \in 1..n |-> CHOOSE x \in S : rank[x] = i]
<1>7. order \in [1..n -> S] /\ \A i \in 1..n : rank[order[i]] = i
  BY <1>6
<1>8. \A i, j \in DOMAIN order : i < j => order[i] < order[j]
  <2> TAKE i, j \in 1..n
  <2> HIDE DEF order, n
  <2> HAVE i < j
  <2>1. order[i] \in S /\ order[j] \in S /\ order[i] \in Nat /\ order[j] \in Nat
    BY <1>7
  <2>2. i \in Nat /\ j \in Nat /\ rank[order[i]] = i /\ rank[order[j]] = j
    BY <1>1, <1>7
  <2>3. order[i] # order[j] /\ ~(order[j] < order[i])
    BY <1>3, <2>1, <2>2
  <2> QED BY <2>1, <2>3
<1> HIDE DEF order
<1>9. \E s \in [1..n -> S] : \A i, j \in DOMAIN s : i < j => s[i] < s[j]
  BY <1>7, <1>8
<1>10. Ascending(S) \in [1..n -> S]
  BY <1>9, Zenon DEF Ascending
<1> QED BY <1>1, <1>10

\* A tune closes each lane that is open, and nothing else.
LEMMA ClosesEach ==
  ASSUME IsFiniteSet(open), open \subseteq Lanes
  PROVE  /\ ClosesAll \in Seq(Line)
         /\ \A e : Has(ClosesAll, e) <=> \E id \in open : e = <<"close", id>>
<1> DEFINE S == { <<"close", id>> : id \in open }
<1> DEFINE n == Cardinality(S)
<1>1. IsFiniteSet(S)
  <2> DEFINE line == [id \in open |-> <<"close", id>>]
  <2>1. line \in Surjection(open, S)
    BY DEF Surjection
  <2> QED BY <2>1, FS_Surjection
<1>2. n \in Nat /\ ExistsBijection(1..n, S)
  BY <1>1, FS_CardinalityType
<1>3. S \subseteq Line
  BY DEF Line
<1>4. \A e : e \in S <=> \E id \in open : e = <<"close", id>>
  OBVIOUS
<1> DEFINE f == SetToSeq(S)
<1>5. ClosesAll = f
  BY DEF ClosesAll
<1> HIDE DEF S
<1>6. f \in [1..n -> S] /\ IsInjective(f)
  <2>1. PICK g : g \in Bijection(1..n, S)
    BY <1>2 DEF ExistsBijection
  <2>2. g \in [1..n -> S] /\ IsInjective(g)
    BY <2>1 DEF Bijection, Injection, IsInjective
  <2> QED BY <2>2, Zenon DEF SetToSeq
<1>7. f \in Surjection(1..n, S)
  <2>1. f \in Injection(1..n, S)
    BY <1>6 DEF Injection, IsInjective
  <2>2. IsFiniteSet(1..n) /\ Cardinality(1..n) = n
    BY <1>2, FS_Interval
  <2> QED BY <1>1, <2>1, <2>2, FS_Injection
<1>8. f \in Seq(S) /\ Len(f) = n /\ \A e : (\E i \in 1..n : f[i] = e) <=> e \in S
  <2> HIDE DEF n, f
  <2>1. f \in Seq(S) /\ Len(f) = n
    BY <1>2, <1>6
  <2>2. \A e \in S : \E i \in 1..n : f[i] = e
    BY <1>7 DEF Surjection
  <2> QED BY <1>6, <2>1, <2>2
<1> QED BY SMTT(60), <1>3, <1>4, <1>5, <1>8 DEF Has

\* The longest of the times a radio may be on a window, and between two ticks.
LEMMA LongestTimes ==
  /\ Longest \in Nat \ {0} /\ Dwell <= Longest /\ MaxDwell <= Longest /\ Look <= Longest
  /\ Ticks \in Nat /\ \A d \in Deltas : d \in Nat /\ d > 0 /\ d <= Ticks
<1>1. Dwell \in Nat \ {0} /\ MaxDwell \in Nat \ {0} /\ Look \in Nat \ {0}
  BY TimeAssumption
<1>2. \E t \in {Dwell, MaxDwell, Look} : \A u \in {Dwell, MaxDwell, Look} : u <= t
  BY <1>1
<1>3. Longest \in {Dwell, MaxDwell, Look} /\ \A u \in {Dwell, MaxDwell, Look} : u <= Longest
  BY <1>2 DEF Longest
<1>4. Ticks \in Deltas /\ \A e \in Deltas : e <= Ticks
  BY TimeAssumption, Zenon DEF Ticks
<1> QED BY <1>1, <1>3, <1>4, TimeAssumption

\* Every window of a plan is one the helper may be told of.
LEMMA PlanWindows ==
  ASSUME NEW p \in Plans
  PROVE  /\ p.groups \in Seq(SUBSET Channels) /\ Len(p.groups) \in Nat \ {0} /\ p.sweeps \in Nat
         /\ p.monitor \in BOOLEAN
         /\ \A i \in 1..Len(p.groups) : GroupWindow(p, i) \in Window /\ GroupWindow(p, i).lanes = p.groups[i]
         /\ \A i \in Nat : SweepWindow(p, i) \in Window /\ SweepWindow(p, i).lanes = {}
<1>1. p \in PlanType
  BY PlanAssumption
<1>2. /\ p.groups \in Seq(SUBSET Channels) /\ Len(p.groups) \in Nat \ {0} /\ p.sweeps \in Nat
      /\ p.monitor \in BOOLEAN /\ p.closeCall \in BOOLEAN
  BY <1>1 DEF PlanType
<1>3. ASSUME NEW i \in 1..Len(p.groups)
      PROVE  GroupWindow(p, i) \in Window /\ GroupWindow(p, i).lanes = p.groups[i]
  <2>1. i \in Nat /\ p.groups[i] \in SUBSET Channels
    BY <1>2
  <2> QED BY <1>2, <2>1 DEF GroupWindow, Window
<1>4. ASSUME NEW i \in Nat
      PROVE  SweepWindow(p, i) \in Window /\ SweepWindow(p, i).lanes = {}
  BY <1>2 DEF SweepWindow, Window
<1> QED BY <1>2, <1>3, <1>4

\* The priority groups of a plan are groups of it.
LEMMA PriorityOnes ==
  ASSUME NEW p \in Plans
  PROVE  /\ Len(PriorityGroups(p)) \in Nat
         /\ \A i \in 1..Len(PriorityGroups(p)) : PriorityGroups(p)[i] \in 1..Len(p.groups)
         /\ PriorityGroups(p) # <<>> => Len(PriorityGroups(p)) # 0
<1> DEFINE S == {i \in 1..Len(p.groups) : p.groups[i] \cap Priority \cap Audible # {}}
<1>1. Len(p.groups) \in Nat
  BY PlanWindows
<1>2. IsFiniteSet(S) /\ S \in SUBSET Nat /\ S \subseteq 1..Len(p.groups)
  <2>1. IsFiniteSet(1..Len(p.groups))
    BY <1>1, FS_Interval
  <2>2. S \in SUBSET (1..Len(p.groups))
    OBVIOUS
  <2>3. 1..Len(p.groups) \subseteq Nat
    BY <1>1
  <2> QED BY <2>1, <2>2, <2>3, FS_Subset
<1>3. PriorityGroups(p) = Ascending(S)
  BY DEF PriorityGroups
<1> HIDE DEF S
<1>4. Cardinality(S) \in Nat /\ Ascending(S) \in [1..Cardinality(S) -> S]
  BY <1>2, InOrder
<1>5. Ascending(S) \in Seq(S) /\ Len(Ascending(S)) = Cardinality(S)
  BY <1>4
<1>6. Len(Ascending(S)) = 0 => Ascending(S) = <<>>
  BY <1>5
<1> QED BY <1>2, <1>3, <1>4, <1>5, <1>6

-----------------------------------------------------------------------------
(* The hop timer. *)

\* Node goes to a window of its plan, and stays a node.
Moved ==
  /\ \E w \in Window : Send(w) /\ Fits(w)'
  /\ groupIndex' \in 1..Len(plan.groups) /\ sweeping' \in BOOLEAN /\ sweepIndex' \in Nat
  /\ since' \in 0..Longest /\ cursor' \in Nat /\ credit' \in Nat
  /\ LookRight'

LEMMA Rotates ==
  ASSUME RotInv, plan' = plan, armed' = armed, armed, ~sweeping, revisit = None, StartSweep \/ NextGroup
  PROVE  Moved
<1>1. plan \in Plans /\ sweeps \in Nat /\ groupIndex \in 1..Len(plan.groups) /\ sweepIndex \in Nat
      /\ cursor \in Nat /\ credit \in Nat /\ sweeping \in BOOLEAN
  BY DEF RotInv, NodeTypes
<1>2. Len(plan.groups) \in Nat \ {0} /\ Longest \in Nat
  BY <1>1, PlanWindows, LongestTimes
<1>3. CASE StartSweep
  <2>1. PICK w \in Window : w = SweepWindow(plan, sweepIndex) /\ w.lanes = {}
    BY <1>1, PlanWindows
  <2>2. sweepIndex' \in Nat
    BY <1>1, <1>3 DEF StartSweep
  <2>3. Send(w) /\ groupIndex' = groupIndex /\ sweeping' = TRUE /\ since' = 0
        /\ UNCHANGED <<revisit, credit, cursor>>
    BY <1>3, <2>1 DEF StartSweep
  <2>4. Fits(w)' /\ LookRight'
    BY <2>1, <2>3 DEF Fits, LookRight
  <2> QED BY <1>1, <1>2, <2>2, <2>3, <2>4 DEF Moved
<1>4. CASE NextGroup
  <2>1. groupIndex' \in 1..Len(plan.groups)
    <3>1. PICK n \in Nat \ {0} : n = Len(plan.groups)
      BY <1>2
    <3>2. PICK g \in Nat : g = groupIndex
      BY <1>1, <1>2
    <3>3. g % n \in 0..(n - 1)
      OBVIOUS
    <3>4. (g % n) + 1 \in 1..n
      BY <3>3
    <3> QED BY <1>4, <3>1, <3>2, <3>4 DEF NextGroup
  <2>2. GroupWindow(plan, groupIndex') \in Window /\ GroupWindow(plan, groupIndex').lanes = plan.groups[groupIndex']
    BY <1>1, <2>1, PlanWindows
  <2>4. LookRight'
    BY <1>4 DEF NextGroup, LookRight
  <2>5. PICK w \in Window : w = GroupWindow(plan, groupIndex')
    BY <2>2
  <2>6. Send(w) /\ Fits(w)'
    BY <1>4, <2>2, <2>5 DEF NextGroup, Fits, GroupWindow
  <2>7. since' = 0 /\ UNCHANGED <<sweeping, sweepIndex, credit, cursor>>
    BY <1>4 DEF NextGroup
  <2>8. \E x \in Window : Send(x) /\ Fits(x)'
    BY <2>6
  <2> QED BY <1>1, <1>2, <2>1, <2>4, <2>7, <2>8 DEF Moved
<1> QED BY <1>3, <1>4

LEMMA Returns ==
  ASSUME RotInv, plan' = plan, armed' = armed, armed, (sweeping /\ EndSweep) \/ (~sweeping /\ revisit # None /\ EndLook)
  PROVE  Moved
<1>1. plan \in Plans /\ sweepIndex \in Nat /\ cursor \in Nat /\ credit \in Nat /\ sweeping \in BOOLEAN
      /\ (revisit # None => revisit.from \in 1..Len(plan.groups) /\ revisit.spent \in 0..(MaxDwell - 1) /\ ~sweeping)
  BY DEF RotInv, NodeTypes, LookRight
<1>2. /\ Len(plan.groups) \in Nat \ {0} /\ Longest \in Nat /\ MaxDwell <= Longest
      /\ MaxDwell \in Nat
      /\ \A i \in 1..Len(plan.groups) : GroupWindow(plan, i) \in Window /\ GroupWindow(plan, i).lanes = plan.groups[i]
  BY <1>1, PlanWindows, LongestTimes, TimeAssumption
<1>3. CASE sweeping /\ EndSweep
  <2>1. PICK w \in Window : w = GroupWindow(plan, 1) /\ w.lanes = plan.groups[1]
    BY <1>2
  <2>2. Send(w) /\ groupIndex' = 1 /\ sweeping' = FALSE /\ since' = 0
        /\ UNCHANGED <<sweepIndex, revisit, credit, cursor>>
    BY <1>3, <2>1 DEF EndSweep
  <2>3. Fits(w)'
    BY <2>1, <2>2 DEF Fits, GroupWindow
  <2>4. sweeping
    BY <1>3
  <2>5. LookRight'
    BY <1>1, <2>2, <2>4 DEF LookRight
  <2>6. \E x \in Window : Send(x) /\ Fits(x)'
    BY <2>2, <2>3
  <2>7. groupIndex' \in 1..Len(plan.groups) /\ since' \in 0..Longest
    BY <1>2, <2>2
  <2> QED BY <1>1, <2>2, <2>5, <2>6, <2>7 DEF Moved
<1>4. CASE revisit # None /\ EndLook
  <2>1. PICK w \in Window : w = GroupWindow(plan, revisit.from) /\ w.lanes = plan.groups[revisit.from]
    BY <1>1, <1>2, <1>4
  <2>2. Send(w) /\ groupIndex' = revisit.from /\ revisit' = None /\ since' = revisit.spent
        /\ UNCHANGED <<sweeping, sweepIndex, credit, cursor>>
    BY <1>4, <2>1 DEF EndLook, Resumed
  <2>3. Fits(w)'
    BY <2>1, <2>2 DEF Fits, GroupWindow
  <2>4. since' \in 0..Longest
    BY <1>1, <1>2, <1>4, <2>2
  <2>5. LookRight'
    BY <2>2 DEF LookRight
  <2> QED BY <1>1, <1>4, <2>2, <2>3, <2>4, <2>5 DEF Moved
<1> QED BY <1>3, <1>4

LEMMA Looks ==
  ASSUME RotInv, plan' = plan, armed' = armed, armed, ~sweeping, revisit = None,
         MayLook, ~Heard, NEW t \in 0..(MaxDwell - 1), StartLook(t)
  PROVE  Moved
<1> DEFINE targets == PriorityGroups(plan)
<1> DEFINE n == Len(targets)
<1> DEFINE pick == cursor % n
<1>1. plan \in Plans /\ groupIndex \in 1..Len(plan.groups) /\ sweepIndex \in Nat /\ cursor \in Nat
      /\ sweeping \in BOOLEAN
  BY DEF RotInv, NodeTypes
<1>2. n \in Nat \ {0} /\ \A i \in 1..n : targets[i] \in 1..Len(plan.groups)
  BY <1>1, PriorityOnes DEF MayLook
<1> HIDE DEF targets, n
<1>3. pick \in 0..(n - 1) /\ (pick + 1) % n \in Nat
  <2>1. pick \in 0..(n - 1)
    BY <1>1, <1>2
  <2>2. pick + 1 \in Nat
    BY <1>2, <2>1
  <2> HIDE DEF pick
  <2> QED BY <1>2, <2>1, <2>2
<1> HIDE DEF pick
<1>4. pick + 1 \in 1..n
  BY <1>2, <1>3
<1>5. /\ cursor' = (pick + 1) % n /\ credit' = 0 /\ revisit' = [from |-> groupIndex, spent |-> t]
      /\ groupIndex' = targets[pick + 1] /\ since' = 0 /\ Send(GroupWindow(plan, groupIndex'))
      /\ UNCHANGED <<sweeping, sweepIndex>>
  BY DEF StartLook, targets, n, pick
<1>6. groupIndex' \in 1..Len(plan.groups)
  BY <1>2, <1>4, <1>5
<1>7. PICK w \in Window : w = GroupWindow(plan, groupIndex') /\ w.lanes = plan.groups[groupIndex']
  BY <1>1, <1>6, PlanWindows
<1>8. Send(w) /\ Fits(w)'
  BY <1>5, <1>7 DEF Fits, GroupWindow
<1>9. Contains(targets, groupIndex')
  BY <1>4, <1>5 DEF Contains, n
<1>10. LookRight'
  <2>1. ~plan.monitor /\ ~Contains(targets, groupIndex)
    BY DEF MayLook, Heard, targets
  <2>2. revisit'.from = groupIndex /\ revisit'.spent = t
    BY <1>5
  <2>3. targets' = targets
    BY DEF targets, PriorityGroups
  <2> QED BY <1>1, <1>5, <1>9, <2>1, <2>2, <2>3 DEF LookRight, targets
<1>11. Longest \in Nat
  BY LongestTimes
<1> QED BY <1>1, <1>3, <1>5, <1>6, <1>8, <1>10, <1>11 DEF Moved

\* The timer's decision, once a window's time is t: the radio moves, or it stays, which
\* it does only while there is a time that a window may still have.
LEMMA Advances ==
  ASSUME RotInv, plan' = plan, armed' = armed, armed, NEW t \in 0..Longest, NEW d \in Nat, Advance(t, d)
  PROVE  \/ Moved
         \/ /\ t < Longest /\ credit' \in Nat /\ hold' = NotHolding /\ since' = t
            /\ UNCHANGED <<groupIndex, sweeping, sweepIndex, openIds, audibleId, revisit, cursor, cmds>>
<1>1. /\ Longest \in Nat /\ Dwell <= Longest /\ MaxDwell <= Longest /\ Look <= Longest
      /\ Dwell \in Nat /\ MaxDwell \in Nat /\ MinDwell \in Nat /\ Look \in Nat
  BY LongestTimes, TimeAssumption
<1>2. credit \in Nat /\ sweeping \in BOOLEAN
  BY DEF RotInv, NodeTypes
<1> DEFINE Stays == /\ t < Longest /\ credit' \in Nat /\ hold' = NotHolding /\ since' = t
                    /\ UNCHANGED <<groupIndex, sweeping, sweepIndex, openIds, audibleId, revisit, cursor, cmds>>
<1>3. ASSUME NEW c \in Nat, Stay(NotHolding, t, c), t < Longest
      PROVE  Stays
  BY <1>3 DEF Stay
<1>4. CASE sweeping /\ t >= Dwell /\ EndSweep
  BY <1>4, Returns
<1>5. CASE ~sweeping /\ revisit # None /\ t >= Look /\ EndLook
  BY <1>5, Returns
<1>6. CASE sweeping /\ t < Dwell /\ Stay(NotHolding, t, credit)
  <2>1. t < Longest
    BY <1>1, <1>6
  <2> QED BY <1>2, <1>3, <1>6, <2>1
<1>7. CASE ~sweeping /\ revisit # None /\ t < Look /\ Stay(NotHolding, t, credit)
  <2>1. t < Longest
    BY <1>1, <1>7
  <2> QED BY <1>2, <1>3, <1>7, <2>1
<1>8. CASE /\ ~sweeping /\ revisit = None
           /\ \E dwell \in EffectiveDwells :
                \/ t >= dwell /\ (StartSweep \/ NextGroup)
                \/ t < dwell /\ Quiet(t, d)
  <2>1. PICK dwell \in MinDwell..MaxDwell :
              \/ t >= dwell /\ (StartSweep \/ NextGroup)
              \/ t < dwell /\ Quiet(t, d)
    BY <1>8 DEF EffectiveDwells
  <2>2. CASE StartSweep \/ NextGroup
    BY <1>8, <2>2, Rotates
  <2>3. CASE t < dwell /\ Quiet(t, d)
    <3>1. t < Longest /\ t \in 0..(MaxDwell - 1)
      BY <1>1, <2>1, <2>3
    <3>2. CASE MayLook /\ ~Heard /\ StartLook(t)
      BY <1>8, <3>1, <3>2, Looks
    <3>3. CASE Stay(NotHolding, t, credit + d) \/ Stay(NotHolding, t, 0) \/ Stay(NotHolding, t, credit)
      <4>1. credit + d \in Nat /\ 0 \in Nat
        BY <1>2
      <4> QED BY <1>2, <1>3, <3>1, <3>3, <4>1
    <3> QED BY <2>3, <3>2, <3>3 DEF Quiet
  <2> QED BY <2>1, <2>2, <2>3
<1> QED BY <1>4, <1>5, <1>6, <1>7, <1>8 DEF Advance

-----------------------------------------------------------------------------
(* What a step leaves true of the pipes. *)

\* A tune that Node writes: nothing is open to it, until the helper says so.
LEMMA Sent ==
  ASSUME RotInv, NEW w \in Window, Send(w), Fits(w)', UNCHANGED radio, helper # "down",
         events' = events \/ (events # <<>> /\ events' = Tail(events))
  PROVE  /\ RadioTypes' /\ NotUp' /\ WindowRight' /\ LanesRight' /\ SpeakerRight' /\ HoldRight'
         /\ openIds' \subseteq Lanes /\ audibleId' \in Lanes \cup {None}
         /\ hold' \in {NotHolding} \cup Nat /\ cmds' # cmds
<1>1. /\ cmds \in Seq(Window) /\ events \in Seq(Line) /\ RadioTypes /\ NotUp /\ LanesRight /\ SpeakerRight
      /\ helper \in {"down", "boot", "up"}
  BY DEF RotInv, RadioTypes
<1>2. /\ openIds' = {} /\ audibleId' = None /\ hold' = NotHolding /\ cmds' = Append(cmds, w)
      /\ helper' = helper /\ window' = window /\ open' = open /\ speaker' = speaker
  BY DEF Send, radio
<1>3. cmds' \in Seq(Window) /\ cmds' # <<>> /\ cmds'[Len(cmds')] = w /\ cmds' # cmds
  BY <1>1, <1>2
<1>4. events' \in Seq(Line) /\ (events = <<>> => events' = <<>>)
  BY SMTT(60), <1>1
<1>5. /\ \A id : Opened(events', id) => Opened(events, id)
      /\ \A id : Shut(events', id) => Shut(events, id)
      /\ \A id : Named(events', id) => Named(events, id)
  <2>1. CASE events' = events
    BY <2>1
  <2>2. CASE events # <<>> /\ events' = Tail(events)
    BY <1>1, <2>2, ReadLine
  <2> QED BY <2>1, <2>2
<1>6. RadioTypes'
  BY <1>1, <1>2, <1>3, <1>4 DEF RadioTypes
<1>7. NotUp'
  BY <1>1, <1>2, <1>4 DEF NotUp
<1>8. WindowRight'
  BY <1>2, <1>3 DEF WindowRight
<1>9. LanesRight'
  BY <1>1, <1>2, <1>3, <1>5 DEF LanesRight
<1>10. SpeakerRight'
  BY <1>1, <1>2, <1>3, <1>5 DEF SpeakerRight
<1>11. HoldRight'
  BY <1>2 DEF HoldRight
<1> QED BY <1>2, <1>3, <1>6, <1>7, <1>8, <1>9, <1>10, <1>11

\* What Node believes open it finds in its plan, so an open that keeps the radio is one
\* that can be heard.
LEMMA HeardOpen ==
  ASSUME RotInv, helper # "down", NEW left, HasAudibleOpen(left)
  PROVE  \E id \in openIds : id \in Lanes /\ Found(id) /\ IsAudibleNow(id, left)
<1>1. openIds \subseteq plan.groups[groupIndex] \cup {CC} /\ openIds \subseteq Lanes
  BY DEF RotInv, WindowRight, NodeTypes
<1>2. \A id \in openIds : Found(id)
  BY <1>1 DEF Found
<1> QED BY <1>1, <1>2 DEF HasAudibleOpen

\* One tick: the radio moves, after a full hold if something is heard, or it stays.
LEMMA Ticked ==
  ASSUME RotInv, NEW d \in Deltas, armed, plan' = plan, armed' = armed,
         LET left == Left(d)
             h == IF hold = NotHolding THEN 0 ELSE hold + d
             t == UpTo(Longest, since + d)
         IN  \/ HasAudibleOpen(left) /\ Holding(h) /\ Hold(h)
             \/ HasAudibleOpen(left) /\ ~Holding(h) /\ Advance(Longest, d)
             \/ ~HasAudibleOpen(left) /\ Advance(t, d)
  PROVE  \/ Moved /\ (HasAudibleOpen(Left(d)) => hold # NotHolding /\ hold + d >= MaxHold)
         \/ /\ UNCHANGED <<groupIndex, sweeping, sweepIndex, openIds, audibleId, revisit, cursor, cmds>>
            /\ credit' \in Nat
            /\ \/ /\ HasAudibleOpen(Left(d)) /\ since' = 0 /\ hold' < MaxHold
                  /\ (hold = NotHolding /\ hold' = 0) \/ (hold # NotHolding /\ hold' = hold + d)
               \/ /\ ~HasAudibleOpen(Left(d)) /\ hold' = NotHolding
                  /\ since' = since + d /\ since' < Longest
<1> DEFINE left == Left(d)
<1> DEFINE h == IF hold = NotHolding THEN 0 ELSE hold + d
<1> DEFINE t == UpTo(Longest, since + d)
<1>1. /\ hold \in {NotHolding} \cup Nat /\ since \in 0..Longest /\ credit \in Nat
      /\ Longest \in Nat /\ d \in Nat /\ d > 0 /\ MaxHold \in Nat \ {0}
  BY LongestTimes, TimeAssumption DEF RotInv, NodeTypes
<1>2. h \in Nat /\ (h >= MaxHold => hold # NotHolding /\ hold + d >= MaxHold)
  BY <1>1 DEF NotHolding
<1>3. t \in 0..Longest /\ (t < Longest => t = since + d)
  BY <1>1 DEF UpTo
<1>4. CASE HasAudibleOpen(left) /\ Holding(h) /\ Hold(h)
  BY <1>1, <1>2, <1>4 DEF Hold, Holding
<1>5. CASE HasAudibleOpen(left) /\ ~Holding(h) /\ Advance(Longest, d)
  <2>1. h >= MaxHold
    BY <1>1, <1>2, <1>5 DEF Holding
  <2>2. Longest \in 0..Longest /\ ~(Longest < Longest)
    BY <1>1
  <2>3. Moved
    BY <1>1, <1>5, <2>2, Advances
  <2> QED BY <1>2, <2>1, <2>3
<1>6. CASE ~HasAudibleOpen(left) /\ Advance(t, d)
  <2>1. \/ Moved
        \/ /\ t < Longest /\ credit' \in Nat /\ hold' = NotHolding /\ since' = t
           /\ UNCHANGED <<groupIndex, sweeping, sweepIndex, openIds, audibleId, revisit, cursor, cmds>>
    <3> HIDE DEF t
    <3> QED BY <1>1, <1>3, <1>6, Advances
  <2> QED BY <1>3, <1>6, <2>1
<1> QED BY <1>4, <1>5, <1>6

LEMMA TickKeeps ==
  ASSUME RotInv, Tick
  PROVE  /\ RotInv'
         /\ cmds' # cmds /\ HasAudibleOpen(alert') => busy + Ticks >= MaxHold
<1>1. PICK d \in Deltas :
        /\ alert' = Left(d)
        /\ LET left == Left(d)
               h == IF hold = NotHolding THEN 0 ELSE hold + d
               t == UpTo(Longest, since + d)
           IN  \/ HasAudibleOpen(left) /\ Holding(h) /\ Hold(h)
               \/ HasAudibleOpen(left) /\ ~Holding(h) /\ Advance(Longest, d)
               \/ ~HasAudibleOpen(left) /\ Advance(t, d)
        /\ Observed(d, Left(d))
  BY DEF Tick
<1>2. /\ armed /\ plan' = plan /\ sweeps' = sweeps /\ armed' = armed /\ events' = events
      /\ UNCHANGED radio
  BY DEF Tick
<1>3. /\ NodeTypes /\ RadioTypes /\ NotUp /\ WindowRight /\ LanesRight /\ SpeakerRight
      /\ SilenceRight /\ HoldRight /\ LookRight
  BY DEF RotInv
<1>4. /\ helper # "down" /\ helper' = helper /\ window' = window /\ open' = open /\ speaker' = speaker
  BY <1>2, <1>3 DEF NotUp, radio
<1>5. /\ d \in Nat /\ d > 0 /\ d <= Ticks /\ Ticks \in Nat /\ Longest \in Nat \ {0} /\ MaxHold \in Nat \ {0}
      /\ silence \in Nat /\ busy \in Nat /\ since \in 0..Longest /\ hold \in {NotHolding} \cup Nat
      /\ silence <= since
  BY <1>3, LongestTimes, TimeAssumption DEF NodeTypes, SilenceRight
<1>6. alert' \in [Channels \ Audible -> Nat]
  <2>1. alert \in [Channels \ Audible -> Nat]
    BY <1>3 DEF NodeTypes
  <2> QED BY <1>1, <1>5, <2>1 DEF Left
<1>7. silence' \in Nat /\ busy' \in Nat /\ (silence' # 0 => cmds' = cmds /\ helper = "up" /\ cmds = <<>> /\ events = <<>>
                                                   /\ (\A id \in open : ~IsAudibleNow(id, Left(d)))
                                                   /\ silence' <= silence + d)
      /\ (cmds' = cmds /\ HasAudibleOpen(Left(d)) => busy' = MaxHold \/ busy' = busy + d)
  <2>1. Observed(d, Left(d))
    BY <1>1
  <2>2. silence' \in Nat /\ (silence' # 0 => cmds' = cmds /\ helper = "up" /\ cmds = <<>> /\ events = <<>>
                              /\ (\A id \in open : ~IsAudibleNow(id, Left(d)))
                              /\ silence' = UpTo(Longest, silence + d))
    <3>1. UpTo(Longest, silence + d) \in Nat
      BY <1>5 DEF UpTo
    <3> QED BY <2>1, <3>1, Zenon DEF Observed
  <2>3. UpTo(Longest, silence + d) <= silence + d
    BY <1>5 DEF UpTo
  <2>4. busy' \in Nat /\ (cmds' = cmds /\ HasAudibleOpen(Left(d)) => busy' = MaxHold \/ busy' = busy + d)
    <3>1. UpTo(MaxHold, busy + d) \in Nat
          /\ (UpTo(MaxHold, busy + d) = MaxHold \/ UpTo(MaxHold, busy + d) = busy + d)
      BY <1>5 DEF UpTo
    <3> QED BY <2>1, <3>1, Zenon DEF Observed
  <2> QED BY <2>2, <2>3, <2>4
<1>8. \/ Moved /\ (HasAudibleOpen(Left(d)) => hold # NotHolding /\ hold + d >= MaxHold)
      \/ /\ UNCHANGED <<groupIndex, sweeping, sweepIndex, openIds, audibleId, revisit, cursor, cmds>>
         /\ credit' \in Nat
         /\ \/ /\ HasAudibleOpen(Left(d)) /\ since' = 0 /\ hold' < MaxHold
               /\ (hold = NotHolding /\ hold' = 0) \/ (hold # NotHolding /\ hold' = hold + d)
            \/ /\ ~HasAudibleOpen(Left(d)) /\ hold' = NotHolding
               /\ since' = since + d /\ since' < Longest
  BY <1>1, <1>2, Ticked
<1>9. CASE Moved /\ (HasAudibleOpen(Left(d)) => hold # NotHolding /\ hold + d >= MaxHold)
  <2>1. PICK w \in Window : Send(w) /\ Fits(w)'
    BY <1>9 DEF Moved
  <2>2. /\ RadioTypes' /\ NotUp' /\ WindowRight' /\ LanesRight' /\ SpeakerRight' /\ HoldRight'
        /\ openIds' \subseteq Lanes /\ audibleId' \in Lanes \cup {None}
        /\ hold' \in {NotHolding} \cup Nat /\ cmds' # cmds
    BY <1>2, <1>4, <2>1, Sent
  <2>3. NodeTypes' /\ LookRight'
    BY <1>2, <1>3, <1>6, <1>7, <1>9, <2>2 DEF NodeTypes, Moved
  <2>4. SilenceRight'
    <3>1. silence' = 0 /\ since' \in Nat
      BY <1>5, <1>7, <1>9, <2>2 DEF Moved
    <3> QED BY <1>5, <3>1 DEF SilenceRight
  <2>5. HasAudibleOpen(alert') => busy + Ticks >= MaxHold
    <3>1. HasAudibleOpen(Left(d)) => hold <= busy /\ hold \in Nat
      BY <1>3, <1>4, <1>5, <1>9 DEF HoldRight
    <3>2. HasAudibleOpen(alert') => HasAudibleOpen(Left(d))
      BY <1>1
    <3> QED BY <1>5, <1>9, <3>1, <3>2
  <2> QED BY <2>2, <2>3, <2>4, <2>5 DEF RotInv
<1>10. CASE /\ UNCHANGED <<groupIndex, sweeping, sweepIndex, openIds, audibleId, revisit, cursor, cmds>>
            /\ credit' \in Nat
            /\ \/ /\ HasAudibleOpen(Left(d)) /\ since' = 0 /\ hold' < MaxHold
                  /\ (hold = NotHolding /\ hold' = 0) \/ (hold # NotHolding /\ hold' = hold + d)
               \/ /\ ~HasAudibleOpen(Left(d)) /\ hold' = NotHolding
                  /\ since' = since + d /\ since' < Longest
  <2>1. hold' \in {NotHolding} \cup Nat /\ since' \in 0..Longest
    BY <1>5, <1>10
  <2>2. NodeTypes'
    BY <1>2, <1>3, <1>6, <1>7, <1>10, <2>1 DEF NodeTypes
  <2>3. RadioTypes' /\ NotUp' /\ SpeakerRight' /\ LookRight'
    BY <1>2, <1>3, <1>4, <1>10 DEF RadioTypes, NotUp, SpeakerRight, LookRight, PriorityGroups
  <2>4. WindowRight' /\ LanesRight'
    BY <1>2, <1>3, <1>4, <1>10 DEF WindowRight, LanesRight, Fits, GroupWindow
  <2>5. SilenceRight'
    <3>1. silence' # 0 => silence' <= since' /\ silence' < Longest
      <4> SUFFICES ASSUME silence' # 0 PROVE silence' <= since' /\ silence' < Longest
        BY Zenon
      <4>1. CASE HasAudibleOpen(Left(d))
        <5>1. PICK id \in openIds : id \in Lanes /\ IsAudibleNow(id, Left(d))
          BY <1>4, <4>1, HeardOpen
        <5>2. id \in open
          <6>1. ~Mentions(events, id)
            BY <1>7, NoLine
          <6> QED BY <1>3, <1>7, <5>1, <6>1 DEF LanesRight
        <5> QED BY <1>7, <5>1, <5>2
      <4>2. CASE ~HasAudibleOpen(Left(d))
        <5>1. since' = since + d /\ since' < Longest /\ since \in Nat
          BY <1>5, <1>10, <4>2
        <5> QED BY <1>5, <1>7, <5>1
      <4> QED BY <4>1, <4>2
    <3>2. silence' = 0 => silence' <= since' /\ silence' < Longest
      BY <1>5, <2>1
    <3>3. silence' # 0 => cmds' = <<>> /\ \A id : ~Has(events', <<"close", id>>)
      BY <1>2, <1>7, NoLine
    <3> QED BY <3>1, <3>2, <3>3 DEF SilenceRight
  <2>6. HoldRight'
    <3>1. CASE hold' = NotHolding
      BY <3>1 DEF HoldRight
    <3>2. CASE HasAudibleOpen(Left(d)) /\ hold' < MaxHold
      <4>1. busy' = MaxHold \/ busy' = busy + d
        BY <1>7, <1>10, <3>2
      <4>2. hold' = 0 \/ (hold # NotHolding /\ hold' = hold + d)
        BY <1>10, <3>2
      <4>3. hold # NotHolding => hold <= busy /\ hold \in Nat
        BY <1>3, <1>4, <1>5 DEF HoldRight
      <4>4. hold' <= busy'
        BY <1>5, <3>2, <4>1, <4>2, <4>3
      <4> QED BY <4>4 DEF HoldRight
    <3> QED BY <1>10, <3>1, <3>2
  <2> QED BY <1>10, <2>2, <2>3, <2>4, <2>5, <2>6 DEF RotInv
<1> QED BY <1>8, <1>9, <1>10

-----------------------------------------------------------------------------
(* What Node reads. *)

\* The four words of the pipe are different ones.
LEMMA Different ==
  /\ "open" # "ready" /\ "close" # "ready" /\ "audible" # "ready" /\ "open" # "audible"
  /\ "close" # "audible" /\ ~("audible" \in {"open", "close"})
OBVIOUS

\* A line that Node has read: Node believes of its lane, and of the speaker, what the
\* line says, and the rest of the pipe has the last word as before.
LEMMA LineRead ==
  ASSUME RotInv, NEW ev, NEW who, NodeReads(ev, who)
  PROVE  /\ helper = "up" /\ events \in Seq(Line) /\ events' \in Seq(Line) /\ events' = Tail(events)
         /\ events # <<>> /\ Head(events) = <<ev, who>> /\ <<ev, who>> \in Line
         /\ \A id : Opened(events', id) => Opened(events, id)
         /\ \A id : Shut(events', id) => Shut(events, id)
         /\ \A id : Named(events', id) => Named(events, id)
         /\ \A e : Has(events, e) <=> e = <<ev, who>> \/ Has(events', e)
         /\ ev = "open" /\ ~Mentions(events', who) => Opened(events, who)
         /\ ev = "close" /\ ~Mentions(events', who) => Shut(events, who)
         /\ ev = "audible" /\ ~Names(events') => Named(events, who)
         /\ Names(events) => ev = "audible" \/ Names(events')
         /\ ~(ev \in {"open", "close"}) => \A id : Mentions(events, id) => Mentions(events', id)
         /\ \A id : Mentions(events, id) => id = who \/ Mentions(events', id)
         /\ ev # "ready" /\ Boots(events) => Boots(events')
<1>1. /\ helper # "down" /\ events # <<>> /\ Head(events) = <<ev, who>> /\ events' = Tail(events)
  BY DEF NodeReads
<1>2. events \in Seq(Line) /\ helper = "up"
  BY <1>1 DEF RotInv, RadioTypes, NotUp
<1>3. events' \in Seq(Line) /\ <<ev, who>> \in Line
  BY SMTT(60), <1>1, <1>2
<1>4. /\ \A id : Opened(events', id) => Opened(events, id)
      /\ \A id : Shut(events', id) => Shut(events, id)
      /\ \A id : Named(events', id) => Named(events, id)
  BY <1>1, <1>2, ReadLine
<1>5. \A e : Has(events, e) <=> e = <<ev, who>> \/ Has(events', e)
  BY <1>1, <1>2, ReadLine
<1>6. /\ ev = "open" /\ ~Mentions(events', who) => Opened(events, who)
      /\ ev = "close" /\ ~Mentions(events', who) => Shut(events, who)
  BY <1>1, <1>2, ReadLine
<1>7. /\ ev = "audible" /\ ~Names(events') => Named(events, who)
      /\ Names(events) => ev = "audible" \/ Names(events')
  BY <1>1, <1>2, ReadLine
<1>8. /\ ~(ev \in {"open", "close"}) => \A id : Mentions(events, id) => Mentions(events', id)
      /\ \A id : Mentions(events, id) => id = who \/ Mentions(events', id)
      /\ ev # "ready" /\ Boots(events) => Boots(events')
  BY <1>5 DEF Mentions, Boots
<1> QED BY <1>1, <1>2, <1>3, <1>4, <1>5, <1>6, <1>7, <1>8

LEMMA ReadyKeeps ==
  ASSUME RotInv, NodeReady
  PROVE  RotInv'
<1>1. /\ helper = "up" /\ events # <<>> /\ events' = Tail(events)
  BY LineRead DEF NodeReady
<1>2. /\ revisit' = None /\ credit' = 0 /\ since' = 0 /\ Send(GroupWindow(plan, groupIndex))
      /\ armed' = Timed(plan, sweeps) /\ silence' = 0 /\ busy' = 0
      /\ UNCHANGED radio /\ plan' = plan /\ sweeps' = sweeps /\ groupIndex' = groupIndex
      /\ sweeping' = sweeping /\ sweepIndex' = sweepIndex /\ cursor' = cursor /\ alert' = alert
  BY DEF NodeReady
<1>3. NodeTypes
  BY DEF RotInv
<1>4. PICK w \in Window : w = GroupWindow(plan, groupIndex) /\ w.lanes = plan.groups[groupIndex]
  BY <1>3, PlanWindows DEF NodeTypes
<1>5. Send(w) /\ Fits(w)'
  BY <1>2, <1>4 DEF Fits, GroupWindow
<1>6. /\ RadioTypes' /\ NotUp' /\ WindowRight' /\ LanesRight' /\ SpeakerRight' /\ HoldRight'
      /\ openIds' \subseteq Lanes /\ audibleId' \in Lanes \cup {None}
      /\ hold' \in {NotHolding} \cup Nat
  BY <1>1, <1>2, <1>5, Sent
<1>7. Longest \in Nat \ {0} /\ armed' \in BOOLEAN
  BY <1>2, LongestTimes DEF Timed
<1>8. NodeTypes'
  BY <1>2, <1>3, <1>6, <1>7 DEF NodeTypes
<1>9. SilenceRight' /\ LookRight'
  BY <1>2, <1>7 DEF SilenceRight, LookRight
<1> QED BY <1>6, <1>8, <1>9 DEF RotInv

LEMMA OpenKeeps ==
  ASSUME RotInv, NEW id \in Lanes, NodeOpen(id)
  PROVE  RotInv'
<1>1. NodeReads("open", id)
  BY DEF NodeOpen
<1>2. /\ openIds' = IF Found(id) THEN openIds \cup {id} ELSE openIds
      /\ helper' = helper /\ window' = window /\ open' = open /\ speaker' = speaker
      /\ UNCHANGED <<plan, sweeps, groupIndex, sweeping, sweepIndex, audibleId, since, hold, revisit,
                     credit, cursor, alert, armed, cmds, silence, busy>>
  BY DEF NodeOpen, radio
<1>3. /\ NodeTypes /\ RadioTypes /\ NotUp /\ WindowRight /\ LanesRight /\ SpeakerRight
      /\ SilenceRight /\ HoldRight /\ LookRight
  BY DEF RotInv
<1>4. /\ helper = "up" /\ events' \in Seq(Line)
      /\ \A x : Opened(events', x) => Opened(events, x)
      /\ \A x : Shut(events', x) => Shut(events, x)
      /\ \A x : Named(events', x) => Named(events, x)
      /\ ~Mentions(events', id) => Opened(events, id)
      /\ Names(events) => Names(events')
      /\ \A x : Mentions(events, x) => x = id \/ Mentions(events', x)
      /\ Boots(events) => Boots(events')
      /\ \A e : Has(events', e) => Has(events, e)
  BY <1>1, Different, LineRead, Zenon
<1>5. openIds' \subseteq Lanes /\ openIds' \subseteq plan.groups[groupIndex] \cup {CC}
  BY <1>2, <1>3, <1>4 DEF NodeTypes, WindowRight, Found
<1>6. cmds = <<>> /\ id \in open => Found(id)
  BY <1>3, <1>4 DEF WindowRight, Fits, RadioTypes, Found, NoWindow
<1>7. NodeTypes' /\ RadioTypes' /\ NotUp'
  BY <1>2, <1>3, <1>4, <1>5 DEF NodeTypes, RadioTypes, NotUp
<1>8. WindowRight'
  BY <1>2, <1>3, <1>4, <1>5 DEF WindowRight, Fits, GroupWindow
<1>9. LanesRight'
  <2> SUFFICES ASSUME NEW x \in Lanes
               PROVE  /\ Opened(events', x) => x \in open
                      /\ Shut(events', x) => x \notin open
                      /\ ~Mentions(events', x) /\ x \in openIds' => x \in open
                      /\ ~Mentions(events', x) /\ cmds = <<>> /\ x \in open => x \in openIds'
    BY <1>2 DEF LanesRight
  <2>1. /\ Opened(events, x) => x \in open
        /\ Shut(events, x) => x \notin open
        /\ ~Mentions(events, x) /\ x \in openIds => x \in open
        /\ ~Mentions(events, x) /\ cmds = <<>> /\ x \in open => x \in openIds
    BY <1>3, <1>4 DEF LanesRight
  <2>2. x # id => (x \in openIds' <=> x \in openIds)
    BY <1>2
  <2>3. x = id => (~Mentions(events', x) => x \in open) /\ (cmds = <<>> /\ x \in open => x \in openIds')
    BY <1>2, <1>4, <1>6, <2>1
  <2> QED BY <1>4, <2>1, <2>2, <2>3
<1>10. SpeakerRight'
  BY <1>2, <1>3, <1>4 DEF SpeakerRight
<1>11. SilenceRight' /\ HoldRight' /\ LookRight'
  BY <1>2, <1>3, <1>4 DEF SilenceRight, HoldRight, LookRight, IsAudibleNow, PriorityGroups
<1> QED BY <1>7, <1>8, <1>9, <1>10, <1>11 DEF RotInv

LEMMA CloseKeeps ==
  ASSUME RotInv, NEW id \in Lanes, NodeClose(id)
  PROVE  RotInv'
<1>1. NodeReads("close", id)
  BY DEF NodeClose
<1>2. /\ openIds' = openIds \ {id}
      /\ helper' = helper /\ window' = window /\ open' = open /\ speaker' = speaker
      /\ UNCHANGED <<plan, sweeps, groupIndex, sweeping, sweepIndex, audibleId, revisit,
                     credit, cursor, alert, armed, cmds, silence, busy>>
  BY DEF NodeClose, radio
<1>3. /\ NodeTypes /\ RadioTypes /\ NotUp /\ WindowRight /\ LanesRight /\ SpeakerRight
      /\ SilenceRight /\ HoldRight /\ LookRight
  BY DEF RotInv
<1>4. /\ helper = "up" /\ events' \in Seq(Line)
      /\ \A x : Opened(events', x) => Opened(events, x)
      /\ \A x : Shut(events', x) => Shut(events, x)
      /\ \A x : Named(events', x) => Named(events, x)
      /\ ~Mentions(events', id) => Shut(events, id)
      /\ Names(events) => Names(events')
      /\ \A x : Mentions(events, x) => x = id \/ Mentions(events', x)
      /\ Boots(events) => Boots(events')
      /\ \A e : Has(events', e) => Has(events, e)
      /\ Has(events, <<"close", id>>)
  BY <1>1, Different, LineRead, Zenon
<1>5. openIds' \subseteq Lanes /\ openIds' \subseteq plan.groups[groupIndex] \cup {CC}
  BY <1>2, <1>3, <1>4 DEF NodeTypes, WindowRight
\* The close that gives the window a dwell is of a lane that can be heard: behind it no
\* silence has been counted.
<1>6. /\ hold' = NotHolding \/ hold' = hold
      /\ since' = since \/ (since' = 0 /\ silence = 0)
  <2>1. CASE id \in openIds /\ openIds' = {}
    <3>1. hold' = NotHolding /\ since' = IF Rearms(id) THEN 0 ELSE since
      BY <2>1 DEF NodeClose
    <3>2. Found(id)
      BY <1>3, <1>4, <2>1 DEF WindowRight, Found
    <3>3. Rearms(id) => silence = 0
      BY <1>3, <1>4, <3>2 DEF Rearms, SilenceRight
    <3> QED BY <3>1, <3>3
  <2>2. CASE ~(id \in openIds /\ openIds' = {})
    BY <2>2 DEF NodeClose
  <2> QED BY <2>1, <2>2
<1>7. hold' \in {NotHolding} \cup Nat /\ since' \in 0..Longest /\ silence <= since' /\ Longest \in Nat \ {0}
  <2>1. since \in 0..Longest /\ hold \in {NotHolding} \cup Nat /\ silence \in Nat /\ silence <= since
    BY <1>3 DEF NodeTypes, SilenceRight
  <2> QED BY <1>6, <2>1, LongestTimes
<1>8. NodeTypes' /\ RadioTypes' /\ NotUp'
  BY <1>2, <1>3, <1>4, <1>5, <1>7 DEF NodeTypes, RadioTypes, NotUp
<1>9. WindowRight'
  BY <1>2, <1>3, <1>4, <1>5 DEF WindowRight, Fits, GroupWindow
<1>10. LanesRight'
  <2> SUFFICES ASSUME NEW x \in Lanes
               PROVE  /\ Opened(events', x) => x \in open
                      /\ Shut(events', x) => x \notin open
                      /\ ~Mentions(events', x) /\ x \in openIds' => x \in open
                      /\ ~Mentions(events', x) /\ cmds = <<>> /\ x \in open => x \in openIds'
    BY <1>2 DEF LanesRight
  <2>1. /\ Opened(events, x) => x \in open
        /\ Shut(events, x) => x \notin open
        /\ ~Mentions(events, x) /\ x \in openIds => x \in open
        /\ ~Mentions(events, x) /\ cmds = <<>> /\ x \in open => x \in openIds
    BY <1>3, <1>4 DEF LanesRight
  <2>2. x # id => (x \in openIds' <=> x \in openIds)
    BY <1>2
  <2>3. x = id => x \notin openIds' /\ (~Mentions(events', x) => x \notin open)
    BY <1>2, <1>4, <2>1
  <2> QED BY <1>4, <2>1, <2>2, <2>3
<1>11. SpeakerRight'
  BY <1>2, <1>3, <1>4 DEF SpeakerRight
<1>12. SilenceRight' /\ LookRight'
  BY <1>2, <1>3, <1>4, <1>7 DEF SilenceRight, LookRight, IsAudibleNow, PriorityGroups
<1>13. HoldRight'
  BY <1>2, <1>3, <1>6 DEF HoldRight
<1> QED BY <1>8, <1>9, <1>10, <1>11, <1>12, <1>13 DEF RotInv

LEMMA AudibleKeeps ==
  ASSUME RotInv, NEW id \in Lanes \cup {None}, NodeAudible(id)
  PROVE  RotInv'
<1>1. NodeReads("audible", id)
  BY DEF NodeAudible
<1>2. /\ audibleId' = id
      /\ helper' = helper /\ window' = window /\ open' = open /\ speaker' = speaker
      /\ UNCHANGED <<plan, sweeps, groupIndex, sweeping, sweepIndex, openIds, since, hold, revisit,
                     credit, cursor, alert, armed, cmds, silence, busy>>
  BY DEF NodeAudible, radio
<1>3. /\ NodeTypes /\ RadioTypes /\ NotUp /\ WindowRight /\ LanesRight /\ SpeakerRight
      /\ SilenceRight /\ HoldRight /\ LookRight
  BY DEF RotInv
<1>4. /\ helper = "up" /\ events' \in Seq(Line)
      /\ \A x : Opened(events', x) => Opened(events, x)
      /\ \A x : Shut(events', x) => Shut(events, x)
      /\ \A x : Named(events', x) => Named(events, x)
      /\ ~Names(events') => Named(events, id)
      /\ Boots(events) => Boots(events')
      /\ \A e : Has(events', e) => Has(events, e)
  BY <1>1, Different, LineRead, Zenon
<1>5. \A x : Mentions(events, x) => Mentions(events', x)
  BY <1>1, Different, LineRead, Zenon
<1>6. NodeTypes' /\ RadioTypes' /\ NotUp'
  BY <1>2, <1>3, <1>4 DEF NodeTypes, RadioTypes, NotUp
<1>7. WindowRight'
  BY <1>2, <1>3, <1>4 DEF WindowRight, Fits, GroupWindow
<1>8. LanesRight'
  BY <1>2, <1>3, <1>4, <1>5 DEF LanesRight
<1>9. SpeakerRight'
  BY <1>2, <1>3, <1>4 DEF SpeakerRight
<1>10. SilenceRight' /\ HoldRight' /\ LookRight'
  BY <1>2, <1>3, <1>4 DEF SilenceRight, HoldRight, LookRight, IsAudibleNow, PriorityGroups
<1> QED BY <1>6, <1>7, <1>8, <1>9, <1>10 DEF RotInv

-----------------------------------------------------------------------------
(* What the server asks. *)

\* A plan from its first group, with a helper that boots.
LEMMA RestartKeeps ==
  ASSUME RotInv, NEW p \in Plans, Restart(p)
  PROVE  RotInv'
<1>1. /\ plan' = p /\ sweeps' = p.sweeps /\ groupIndex' = 1 /\ sweepIndex' = 0 /\ sweeping' = FALSE
      /\ revisit' = None /\ credit' = 0 /\ helper' = "boot" /\ openIds' = {} /\ audibleId' = None
      /\ hold' = NotHolding /\ window' = NoWindow /\ open' = {} /\ speaker' = None
      /\ cmds' = <<>> /\ events' = <<>> /\ armed' = FALSE /\ alert' = NoAlerts
      /\ silence' = 0 /\ busy' = 0 /\ since' = since /\ cursor' = cursor
  BY DEF Restart, Fresh, Spawned, NoHelper
<1>2. since \in 0..Longest /\ cursor \in Nat /\ Longest \in Nat \ {0}
  BY LongestTimes DEF RotInv, NodeTypes
<1>3. NodeTypes'
  <2>1. p.sweeps \in Nat /\ 1 \in 1..Len(p.groups)
    BY PlanWindows
  <2>2. NoAlerts \in [Channels \ Audible -> Nat]
    BY DEF NoAlerts
  <2> QED BY <1>1, <1>2, <2>1, <2>2 DEF NodeTypes
<1>4. RadioTypes'
  BY <1>1, FS_EmptySet DEF RadioTypes, NoWindow, Window
<1>5. NotUp' /\ WindowRight' /\ LanesRight' /\ SpeakerRight' /\ HoldRight' /\ LookRight'
  BY <1>1 DEF NotUp, WindowRight, LanesRight, SpeakerRight, HoldRight, LookRight
<1>6. SilenceRight'
  BY <1>1, <1>2 DEF SilenceRight
<1> QED BY <1>3, <1>4, <1>5, <1>6 DEF RotInv

\* A plan from its first group, with the helper there is.
LEMMA RepointKeeps ==
  ASSUME RotInv, NEW p \in Plans, Repoint(p)
  PROVE  RotInv'
<1>1. /\ plan' = p /\ sweeps' = p.sweeps /\ groupIndex' = 1 /\ sweepIndex' = 0 /\ sweeping' = FALSE
      /\ revisit' = None /\ credit' = 0 /\ since' = 0 /\ Send(GroupWindow(p, 1))
      /\ armed' = Timed(p, p.sweeps) /\ silence' = 0 /\ busy' = 0
      /\ UNCHANGED radio /\ cursor' = cursor /\ alert' = alert /\ events' = events
      /\ helper # "down"
  BY DEF Repoint, Fresh
<1>2. NodeTypes
  BY DEF RotInv
<1>3. PICK w \in Window : w = GroupWindow(p, 1) /\ w.lanes = p.groups[1]
  BY PlanWindows
<1>4. Send(w) /\ Fits(w)'
  BY <1>1, <1>3 DEF Fits, GroupWindow
<1>5. /\ RadioTypes' /\ NotUp' /\ WindowRight' /\ LanesRight' /\ SpeakerRight' /\ HoldRight'
      /\ openIds' \subseteq Lanes /\ audibleId' \in Lanes \cup {None}
      /\ hold' \in {NotHolding} \cup Nat
  BY <1>1, <1>4, Sent
<1>6. /\ Longest \in Nat \ {0} /\ armed' \in BOOLEAN /\ p.sweeps \in Nat /\ 1 \in 1..Len(p.groups)
  BY <1>1, PlanWindows, LongestTimes DEF Timed
<1>7. NodeTypes'
  <2>1. plan' \in Plans /\ sweeps' \in Nat /\ groupIndex' \in 1..Len(plan'.groups)
    BY <1>1, <1>6
  <2>4. 0 \in 0..Longest /\ 0 \in Nat /\ FALSE \in BOOLEAN
    BY <1>6
  <2>2. sweeping' \in BOOLEAN /\ sweepIndex' \in Nat /\ since' \in 0..Longest /\ credit' \in Nat
        /\ silence' \in Nat /\ busy' \in Nat
    BY <1>1, <2>4, Zenon
  <2>3. cursor' \in Nat /\ alert' \in [Channels \ Audible -> Nat]
    BY <1>1, <1>2 DEF NodeTypes
  <2> QED BY <1>5, <1>6, <2>1, <2>2, <2>3 DEF NodeTypes
<1>8. SilenceRight' /\ LookRight'
  BY <1>1, <1>6 DEF SilenceRight, LookRight
<1> QED BY <1>5, <1>7, <1>8 DEF RotInv

\* A plan for the helper that is coming.
LEMMA AimKeeps ==
  ASSUME RotInv, NEW p \in Plans, AimNext(p)
  PROVE  RotInv'
<1>1. /\ helper = "down" /\ plan' = p /\ groupIndex' = 1
      /\ helper' = helper /\ window' = window /\ open' = open /\ speaker' = speaker
      /\ UNCHANGED <<sweeps, sweeping, sweepIndex, openIds, audibleId, since, hold, revisit, credit,
                     cursor, alert, armed, cmds, events, silence, busy>>
  BY DEF AimNext, radio
<1>2. /\ NodeTypes /\ RadioTypes /\ NotUp /\ SilenceRight
  BY DEF RotInv
<1>3. cmds = <<>> /\ ~armed
  BY <1>1, <1>2 DEF NotUp
<1>4. 1 \in 1..Len(p.groups)
  BY PlanWindows
<1>5. NodeTypes' /\ RadioTypes' /\ NotUp'
  BY <1>1, <1>2, <1>4 DEF NodeTypes, RadioTypes, NotUp
<1>6. WindowRight' /\ LanesRight' /\ SpeakerRight' /\ HoldRight' /\ LookRight'
  BY <1>1, <1>3 DEF WindowRight, LanesRight, SpeakerRight, HoldRight, LookRight
<1>7. SilenceRight'
  BY <1>1, <1>2 DEF SilenceRight, IsAudibleNow
<1> QED BY <1>5, <1>6, <1>7 DEF RotInv

\* Looks on or off, or an alert: what the pipes say is as before, and an alert counts the
\* silence from now on.
LEMMA SchedulingKeeps ==
  ASSUME RotInv, UpdateScheduling
  PROVE  RotInv'
<1>1. /\ helper' = helper /\ window' = window /\ open' = open /\ speaker' = speaker
      /\ UNCHANGED <<plan, sweeps, groupIndex, sweeping, sweepIndex, openIds, audibleId, since, hold,
                     revisit, credit, cursor, alert, armed, cmds, events, silence, busy>>
  BY DEF UpdateScheduling, radio
<1> QED BY <1>1 DEF RotInv, NodeTypes, RadioTypes, NotUp, WindowRight, Fits, GroupWindow, LanesRight,
                    SpeakerRight, SilenceRight, IsAudibleNow, HoldRight, LookRight, PriorityGroups

LEMMA AlertKeeps ==
  ASSUME RotInv, NEW c \in DOMAIN alert, AlertUnmute(c)
  PROVE  RotInv'
<1>1. /\ helper' = helper /\ window' = window /\ open' = open /\ speaker' = speaker
      /\ alert' = [alert EXCEPT ![c] = AlertHold] /\ silence' = 0
      /\ UNCHANGED <<plan, sweeps, groupIndex, sweeping, sweepIndex, openIds, audibleId, since, hold,
                     revisit, credit, cursor, armed, cmds, events, busy>>
  BY DEF AlertUnmute, radio
<1>2. NodeTypes /\ Longest \in Nat \ {0} /\ AlertHold \in Nat
  BY LongestTimes, TimeAssumption DEF RotInv
<1>3. alert' \in [Channels \ Audible -> Nat] /\ since \in Nat
  BY <1>1, <1>2 DEF NodeTypes
<1>4. NodeTypes'
  BY <1>1, <1>2, <1>3 DEF NodeTypes
<1>5. SilenceRight'
  BY <1>1, <1>2, <1>3 DEF SilenceRight
<1>6. RadioTypes' /\ NotUp' /\ WindowRight' /\ LanesRight' /\ SpeakerRight' /\ HoldRight' /\ LookRight'
  BY <1>1 DEF RotInv, RadioTypes, NotUp, WindowRight, Fits, GroupWindow, LanesRight,
              SpeakerRight, HoldRight, LookRight, PriorityGroups
<1> QED BY <1>4, <1>5, <1>6 DEF RotInv

LEMMA CallKeeps ==
  ASSUME RotInv, Call
  PROVE  RotInv'
<1>1. CASE \E p \in Plans : Restart(p) \/ Repoint(p) \/ AimNext(p)
  BY <1>1, RestartKeeps, RepointKeeps, AimKeeps
<1>2. CASE UpdateScheduling
  BY <1>2, SchedulingKeeps
<1>3. CASE \E c \in DOMAIN alert : AlertUnmute(c)
  BY <1>3, AlertKeeps
<1> QED BY <1>1, <1>2, <1>3 DEF Call

-----------------------------------------------------------------------------
(* What the helper does. *)

LEMMA BootKeeps ==
  ASSUME RotInv, HelperReady
  PROVE  RotInv'
<1> DEFINE e == <<"ready", None>>
<1>1. /\ helper = "boot" /\ helper' = "up" /\ events' = events \o << e >>
      /\ window' = window /\ open' = open /\ speaker' = speaker
      /\ UNCHANGED <<plan, sweeps, groupIndex, sweeping, sweepIndex, openIds, audibleId, since, hold,
                     revisit, credit, cursor, alert, armed, cmds, silence, busy>>
  BY DEF HelperReady, Tells, node
<1>2. /\ NodeTypes /\ RadioTypes /\ NotUp /\ WindowRight /\ SilenceRight /\ HoldRight /\ LookRight
  BY DEF RotInv
<1>3. /\ open = {} /\ speaker = None /\ window = NoWindow /\ events = <<>> /\ openIds = {} /\ audibleId = None
  BY <1>1, <1>2 DEF NotUp
<1>4. e \in Line
  BY DEF Line
<1>5. events' = << e >>
  BY <1>1, <1>3
<1> HIDE DEF e
<1>6. /\ events' \in Seq(Line)
      /\ \A x : Has(events', x) <=> e = x
      /\ \A id : Opened(events', id) <=> e = <<"open", id>>
      /\ \A id : Shut(events', id) <=> e = <<"close", id>>
      /\ \A id : Named(events', id) <=> e = <<"audible", id>>
      /\ Names(events') <=> e[1] = "audible"
  BY <1>4, <1>5, OneLine
<1>7. /\ \A id : e # <<"open", id>> /\ e # <<"close", id>> /\ e # <<"audible", id>>
      /\ e[1] # "audible" /\ e = <<"ready", None>>
  BY DEF e
<1>8. NodeTypes' /\ RadioTypes' /\ NotUp'
  BY <1>1, <1>2, <1>6 DEF NodeTypes, RadioTypes, NotUp
<1>9. WindowRight'
  <2>1. Boots(events')
    BY <1>6, <1>7 DEF Boots
  <2> QED BY <1>1, <1>2, <1>3, <2>1 DEF WindowRight, Fits, GroupWindow
<1>10. LanesRight' /\ SpeakerRight'
  BY <1>1, <1>3, <1>6, <1>7 DEF LanesRight, SpeakerRight
<1>11. SilenceRight' /\ HoldRight' /\ LookRight'
  BY <1>1, <1>2, <1>6, <1>7 DEF SilenceRight, HoldRight, LookRight, PriorityGroups
<1> QED BY <1>8, <1>9, <1>10, <1>11 DEF RotInv

LEMMA DeathKeeps ==
  ASSUME RotInv, HelperDies
  PROVE  RotInv'
<1>1. /\ helper' = "down" /\ window' = NoWindow /\ open' = {} /\ speaker' = None
      /\ cmds' = <<>> /\ events' = <<>> /\ armed' = FALSE /\ silence' = 0 /\ busy' = 0
      /\ UNCHANGED <<plan, sweeps, groupIndex, sweeping, sweepIndex, openIds, audibleId, since, hold,
                     revisit, credit, cursor, alert>>
  BY DEF HelperDies, NoHelper
<1>2. NodeTypes /\ Longest \in Nat \ {0}
  BY LongestTimes DEF RotInv
<1>3. NodeTypes'
  BY <1>1, <1>2 DEF NodeTypes
<1>4. RadioTypes'
  BY <1>1, FS_EmptySet DEF RadioTypes, NoWindow, Window
<1>5. NotUp' /\ WindowRight' /\ LanesRight' /\ SpeakerRight' /\ HoldRight' /\ LookRight'
  BY <1>1 DEF NotUp, WindowRight, LanesRight, SpeakerRight, HoldRight, LookRight
<1>6. SilenceRight'
  BY <1>1, <1>2 DEF SilenceRight, NodeTypes
<1> QED BY <1>3, <1>4, <1>5, <1>6 DEF RotInv

LEMMA RespawnKeeps ==
  ASSUME RotInv, HelperRespawns
  PROVE  RotInv'
<1>1. /\ helper' = "boot" /\ openIds' = {} /\ audibleId' = None /\ hold' = NotHolding
      /\ window' = NoWindow /\ open' = {} /\ speaker' = None
      /\ cmds' = <<>> /\ events' = <<>> /\ armed' = FALSE
      /\ UNCHANGED <<plan, sweeps, groupIndex, sweeping, sweepIndex, since, revisit, credit, cursor,
                     alert, silence, busy>>
  BY DEF HelperRespawns, Spawned, NoHelper
<1>2. NodeTypes /\ SilenceRight
  BY DEF RotInv
<1>3. NodeTypes'
  BY <1>1, <1>2 DEF NodeTypes
<1>4. RadioTypes'
  BY <1>1, FS_EmptySet DEF RadioTypes, NoWindow, Window
<1>5. NotUp' /\ WindowRight' /\ LanesRight' /\ SpeakerRight' /\ HoldRight' /\ LookRight'
  BY <1>1 DEF NotUp, WindowRight, LanesRight, SpeakerRight, HoldRight, LookRight
<1>6. SilenceRight'
  BY <1>1, <1>2, NoLine DEF SilenceRight
<1> QED BY <1>3, <1>4, <1>5, <1>6 DEF RotInv

\* What is said of the speaker: a line, if it is another one.
LEMMA SpeakerLine ==
  ASSUME RotInv, NEW who \in Lanes \cup {None}
  PROVE  /\ Speaks(who) \in Seq(Line)
         /\ \A id : ~Opened(Speaks(who), id) /\ ~Shut(Speaks(who), id)
         /\ \A id : Named(Speaks(who), id) => id = who
         /\ \A id : ~Has(Speaks(who), <<"open", id>>) /\ ~Has(Speaks(who), <<"close", id>>)
         /\ ~Names(Speaks(who)) => who = speaker
<1> DEFINE e == <<"audible", who>>
<1>1. e \in Line
  BY DEF Line
<1>2. /\ \A id : e # <<"open", id>> /\ e # <<"close", id>>
      /\ \A id : e = <<"audible", id>> => id = who
      /\ e[1] = "audible"
  OBVIOUS
<1>3. Speaks(who) = IF who = speaker THEN << >> ELSE << e >>
  BY DEF Speaks
<1> HIDE DEF e
<1>4. CASE who = speaker
  <2>1. Speaks(who) = << >>
    BY <1>3, <1>4
  <2> QED BY <1>4, <2>1, NoLine
<1>5. CASE who # speaker
  <2>1. Speaks(who) = << e >>
    BY <1>3, <1>5
  <2>2. /\ << e >> \in Seq(Line)
        /\ \A id : (Opened(<< e >>, id) <=> e = <<"open", id>>) /\ (Shut(<< e >>, id) <=> e = <<"close", id>>)
        /\ \A id : Named(<< e >>, id) <=> e = <<"audible", id>>
        /\ \A x : Has(<< e >>, x) <=> e = x
        /\ Names(<< e >>) <=> e[1] = "audible"
    BY <1>1, OneLine
  <2> QED BY <1>2, <2>1, <2>2
<1> QED BY <1>4, <1>5

\* Lines that name nobody, and then who speaks: whatever was said before, the last word
\* is who speaks now.
LEMMA SpeakerTold ==
  ASSUME RotInv, helper = "up", NEW lines \in Seq(Line), ~Names(lines), speaker' \in Lanes \cup {None},
         events' = events \o (lines \o Speaks(speaker')), audibleId' = audibleId, helper' = helper,
         cmds' = cmds \/ (cmds # <<>> /\ speaker' = None)
  PROVE  SpeakerRight'
<1> DEFINE say == Speaks(speaker')
<1>1. events \in Seq(Line) /\ SpeakerRight
  BY DEF RotInv, RadioTypes
<1>2. /\ say \in Seq(Line) /\ (\A id : Named(say, id) => id = speaker') /\ (~Names(say) => speaker' = speaker)
  BY SpeakerLine
<1> HIDE DEF say
<1>3. /\ lines \o say \in Seq(Line)
      /\ \A id : Named(lines \o say, id) => Named(say, id) \/ Named(lines, id)
      /\ Names(lines \o say) <=> Names(lines) \/ Names(say)
  BY <1>2, SaidAfter
<1>4. \A id : ~Named(lines, id)
  BY DEF Named, Names
<1>5. PICK new \in Seq(Line) : new = lines \o say
  BY <1>3
<1>6. /\ \A id : Named(events', id) => Named(new, id) \/ (Named(events, id) /\ ~Names(new))
      /\ Names(events') <=> Names(events) \/ Names(new)
  <2>1. events' = events \o new
    BY <1>5 DEF say
  <2>2. \A id : Named(events', id) => Named(new, id) \/ (Named(events, id) /\ ~Names(new))
    <3> TAKE id
    <3>1. Named(events \o new, id) => Named(new, id) \/ (Named(events, id) /\ ~Names(new))
      BY <1>1, SaidAfter
    <3> QED BY <2>1, <3>1
  <2>3. Names(events') <=> Names(events) \/ Names(new)
    BY ZenonT(60), <1>1, <2>1, SaidAfter
  <2> QED BY <2>2, <2>3
<1>7. \A id \in Lanes \cup {None} : Named(events', id) => speaker' = id
  BY <1>1, <1>2, <1>3, <1>4, <1>5, <1>6 DEF SpeakerRight
<1>8. ~Names(events') => audibleId \in {None, speaker'} /\ (cmds' = <<>> => audibleId = speaker')
  BY <1>1, <1>2, <1>3, <1>5, <1>6 DEF SpeakerRight
<1> QED BY <1>7, <1>8 DEF SpeakerRight

\* One lane comes up or goes, or none: the last word about it is what the helper did.
LEMMA LaneTold ==
  ASSUME RotInv, helper = "up", NEW new \in Seq(Line), events' = events \o new,
         openIds' = openIds, cmds' = cmds, helper' = helper,
         \A x \in Lanes : ~Mentions(new, x) => (x \in open' <=> x \in open),
         \A x \in Lanes : (Opened(new, x) => x \in open') /\ (Shut(new, x) => x \notin open'),
         \A x \in Lanes : Has(new, <<"open", x>>) => Opened(new, x),
         \A x \in Lanes : Has(new, <<"close", x>>) => Shut(new, x)
  PROVE  LanesRight'
<1>1. events \in Seq(Line) /\ LanesRight
  BY DEF RotInv, RadioTypes
<1> SUFFICES ASSUME NEW x \in Lanes
             PROVE  /\ Opened(events', x) => x \in open'
                    /\ Shut(events', x) => x \notin open'
                    /\ ~Mentions(events', x) /\ x \in openIds => x \in open'
                    /\ ~Mentions(events', x) /\ cmds = <<>> /\ x \in open' => x \in openIds
  BY DEF LanesRight
<1>2. /\ Opened(events', x) => Opened(new, x) \/ (Opened(events, x) /\ ~Has(new, <<"close", x>>))
      /\ Shut(events', x) => Shut(new, x) \/ (Shut(events, x) /\ ~Has(new, <<"open", x>>))
      /\ Mentions(events', x) <=> Mentions(events, x) \/ Mentions(new, x)
  BY <1>1, SaidAfter DEF Mentions
<1>3. /\ Opened(events, x) => x \in open
      /\ Shut(events, x) => x \notin open
      /\ ~Mentions(events, x) /\ x \in openIds => x \in open
      /\ ~Mentions(events, x) /\ cmds = <<>> /\ x \in open => x \in openIds
  BY <1>1 DEF LanesRight
<1> QED BY <1>2, <1>3 DEF Mentions

\* What the helper's own steps leave as it is.
LEMMA NodeStays ==
  ASSUME RotInv, helper = "up", helper' = "up", UNCHANGED <<node, busy>>, NEW new \in Seq(Line),
         events' = events \o new
  PROVE  /\ events \in Seq(Line) /\ events' \in Seq(Line)
         /\ (silence' \in Nat => NodeTypes') /\ NotUp' /\ HoldRight' /\ LookRight'
         /\ openIds' = openIds /\ audibleId' = audibleId /\ alert' = alert /\ since' = since
         /\ plan' = plan /\ groupIndex' = groupIndex /\ sweeping' = sweeping
         /\ \A e : Has(events', e) <=> Has(events, e) \/ Has(new, e)
         /\ Boots(events) => Boots(events')
<1>1. UNCHANGED <<plan, sweeps, groupIndex, sweeping, sweepIndex, openIds, audibleId, since, hold,
                  revisit, credit, cursor, alert, armed, busy>>
  BY DEF node
<1>2. events \in Seq(Line)
  BY DEF RotInv, RadioTypes
<1>3. events' \in Seq(Line) /\ \A e : Has(events', e) <=> Has(events, e) \/ Has(new, e)
  BY <1>2, SaidAfter
<1>4. silence' \in Nat => NodeTypes'
  BY <1>1 DEF RotInv, NodeTypes
<1>5. NotUp' /\ HoldRight' /\ LookRight'
  BY <1>1 DEF RotInv, NotUp, HoldRight, LookRight, PriorityGroups
<1> QED BY <1>1, <1>2, <1>3, <1>4, <1>5 DEF Boots

LEMMA CarrierKeeps ==
  ASSUME RotInv, NEW id \in Lanes, HelperOpens(id)
  PROVE  RotInv'
<1> DEFINE e == <<"open", id>>
<1> DEFINE say == Speaks(speaker')
<1>1. /\ helper = "up" /\ helper' = "up" /\ window' = window /\ cmds' = cmds /\ UNCHANGED <<node, busy>>
      /\ id \notin open /\ (id \in window.lanes \/ id = CC)
      /\ open' = open \cup {id} /\ speaker' \in {speaker, id}
      /\ events' = events \o (<< e >> \o say)
      /\ silence' = IF IsAudibleNow(id, alert) THEN 0 ELSE silence
  BY DEF HelperOpens, Tells
<1>2. /\ NodeTypes /\ RadioTypes /\ WindowRight /\ SilenceRight
  BY DEF RotInv
<1>3. speaker' \in Lanes \cup {None} /\ silence' \in Nat /\ (silence' = 0 \/ silence' = silence)
  BY <1>1, <1>2 DEF RadioTypes, NodeTypes
<1>4. /\ say \in Seq(Line)
      /\ \A x : ~Opened(say, x) /\ ~Shut(say, x) /\ ~Has(say, <<"open", x>>) /\ ~Has(say, <<"close", x>>)
  BY <1>3, SpeakerLine
<1>5. /\ e \in Line /\ (\A x : e # <<"close", x>>) /\ (\A x : e = <<"open", x>> <=> x = id)
      /\ e[1] # "audible"
  BY DEF Line
<1> HIDE DEF e, say
<1>6. /\ << e >> \in Seq(Line)
      /\ \A x : (Opened(<< e >>, x) <=> x = id) /\ ~Shut(<< e >>, x)
      /\ \A x : Has(<< e >>, x) <=> e = x
      /\ ~Names(<< e >>)
  BY <1>5, OneLine
<1>7. PICK new \in Seq(Line) : new = << e >> \o say
  BY <1>4, <1>6, SaidAfter
<1>8. /\ \A x : Opened(new, x) => Opened(say, x) \/ Opened(<< e >>, x)
      /\ \A x : Shut(new, x) => Shut(say, x) \/ Shut(<< e >>, x)
      /\ \A x : Has(new, x) <=> Has(<< e >>, x) \/ Has(say, x)
  BY <1>4, <1>6, <1>7, SaidAfter
<1>9. /\ \A x : Opened(new, x) => x = id
      /\ \A x : ~Shut(new, x) /\ ~Has(new, <<"close", x>>)
      /\ \A x : Has(new, <<"open", x>>) <=> x = id
  BY <1>4, <1>5, <1>6, <1>8
<1>10. Opened(new, id)
  <2>4. Has(new, <<"open", id>>)
    BY <1>9
  <2>1. PICK i \in 1..Len(new) : new[i] = <<"open", id>>
    BY <2>4 DEF Has
  <2>5. ~Has(new, <<"close", id>>)
    BY <1>9
  <2>2. Len(new) \in Nat /\ \A j \in 1..Len(new) : new[j] # <<"close", id>>
    BY <2>5 DEF Has
  <2>3. \A j \in (i + 1)..Len(new) : j \in 1..Len(new)
    BY <2>2
  <2> QED BY <2>1, <2>2, <2>3 DEF Opened
<1>11. events' = events \o new
  BY <1>1, <1>7
<1>12. /\ events' \in Seq(Line) /\ NodeTypes' /\ NotUp' /\ HoldRight' /\ LookRight'
       /\ openIds' = openIds /\ audibleId' = audibleId /\ alert' = alert /\ since' = since
       /\ plan' = plan /\ groupIndex' = groupIndex /\ sweeping' = sweeping
       /\ \A x : Has(events', x) <=> Has(events, x) \/ Has(new, x)
       /\ Boots(events) => Boots(events')
  BY <1>1, <1>3, <1>11, NodeStays
<1>13. RadioTypes'
  <2>1. IsFiniteSet(open') /\ open' \subseteq window.lanes \cup {CC}
    BY <1>1, <1>2, FS_AddElement DEF RadioTypes
  <2> QED BY <1>1, <1>2, <1>3, <1>12, <2>1 DEF RadioTypes
<1>14. WindowRight'
  BY <1>1, <1>2, <1>12 DEF WindowRight, Fits, GroupWindow
<1>15. LanesRight'
  BY <1>1, <1>9, <1>10, <1>11, <1>12, LaneTold DEF Mentions
<1>16. SpeakerRight'
  BY <1>1, <1>3, <1>6, <1>12, SpeakerTold DEF say
<1>17. SilenceRight'
  <2>1. silence \in Nat /\ since \in Nat /\ Longest \in Nat \ {0}
    BY <1>2, LongestTimes DEF NodeTypes
  <2>2. \A x \in Lanes : Has(events', <<"close", x>>) => Has(events, <<"close", x>>)
    BY <1>9, <1>12
  <2>3. \A x : IsAudibleNow(x, alert') <=> IsAudibleNow(x, alert)
    BY <1>12
  <2> QED BY <1>1, <1>2, <1>3, <1>12, <2>1, <2>2, <2>3 DEF SilenceRight
<1> QED BY <1>12, <1>13, <1>14, <1>15, <1>16, <1>17 DEF RotInv

LEMMA CarrierGoesKeeps ==
  ASSUME RotInv, NEW id \in Lanes, HelperCloses(id)
  PROVE  RotInv'
<1> DEFINE e == <<"close", id>>
<1> DEFINE say == Speaks(speaker')
<1>1. /\ helper = "up" /\ helper' = "up" /\ window' = window /\ cmds' = cmds /\ UNCHANGED <<node, busy>>
      /\ id \in open /\ open' = open \ {id} /\ (speaker' \in open' \cup {None} \/ speaker' = speaker)
      /\ events' = events \o (<< e >> \o say)
      /\ silence' = IF IsAudibleNow(id, alert) THEN 0 ELSE silence
  BY DEF HelperCloses, Tells
<1>2. /\ NodeTypes /\ RadioTypes /\ WindowRight /\ SilenceRight
  BY DEF RotInv
<1>3. speaker' \in Lanes \cup {None} /\ silence' \in Nat /\ (silence' = 0 \/ silence' = silence)
  BY <1>1, <1>2 DEF RadioTypes, NodeTypes, Window, Lanes
<1>4. /\ say \in Seq(Line)
      /\ \A x : ~Opened(say, x) /\ ~Shut(say, x) /\ ~Has(say, <<"open", x>>) /\ ~Has(say, <<"close", x>>)
  BY <1>3, SpeakerLine
<1>5. /\ e \in Line /\ (\A x : e # <<"open", x>>) /\ (\A x : e = <<"close", x>> <=> x = id)
      /\ e[1] # "audible"
  BY DEF Line
<1> HIDE DEF e, say
<1>6. /\ << e >> \in Seq(Line)
      /\ \A x : (Shut(<< e >>, x) <=> x = id) /\ ~Opened(<< e >>, x)
      /\ \A x : Has(<< e >>, x) <=> e = x
      /\ ~Names(<< e >>)
  BY <1>5, OneLine
<1>7. PICK new \in Seq(Line) : new = << e >> \o say
  BY <1>4, <1>6, SaidAfter
<1>8. /\ \A x : Opened(new, x) => Opened(say, x) \/ Opened(<< e >>, x)
      /\ \A x : Shut(new, x) => Shut(say, x) \/ Shut(<< e >>, x)
      /\ \A x : Has(new, x) <=> Has(<< e >>, x) \/ Has(say, x)
  BY <1>4, <1>6, <1>7, SaidAfter
<1>9. /\ \A x : Shut(new, x) => x = id
      /\ \A x : ~Opened(new, x) /\ ~Has(new, <<"open", x>>)
      /\ \A x : Has(new, <<"close", x>>) <=> x = id
  BY <1>4, <1>5, <1>6, <1>8
<1>10. Shut(new, id)
  <2>1. Has(new, <<"close", id>>)
    BY <1>9
  <2>2. ~Has(new, <<"open", id>>)
    BY <1>9
  <2>3. PICK i \in 1..Len(new) : new[i] = <<"close", id>>
    BY <2>1 DEF Has
  <2>4. Len(new) \in Nat /\ \A j \in 1..Len(new) : new[j] # <<"open", id>>
    BY <2>2 DEF Has
  <2>5. \A j \in (i + 1)..Len(new) : j \in 1..Len(new)
    BY <2>4
  <2> QED BY <2>3, <2>4, <2>5 DEF Shut
<1>11. events' = events \o new
  BY <1>1, <1>7
<1>12. /\ events' \in Seq(Line) /\ NodeTypes' /\ NotUp' /\ HoldRight' /\ LookRight'
       /\ openIds' = openIds /\ audibleId' = audibleId /\ alert' = alert /\ since' = since
       /\ plan' = plan /\ groupIndex' = groupIndex /\ sweeping' = sweeping
       /\ \A x : Has(events', x) <=> Has(events, x) \/ Has(new, x)
       /\ Boots(events) => Boots(events')
  BY <1>1, <1>3, <1>11, NodeStays
<1>13. RadioTypes'
  <2>1. IsFiniteSet(open') /\ open' \subseteq window.lanes \cup {CC}
    BY <1>1, <1>2, FS_RemoveElement DEF RadioTypes
  <2> QED BY <1>1, <1>2, <1>3, <1>12, <2>1 DEF RadioTypes
<1>14. WindowRight'
  BY <1>1, <1>2, <1>12 DEF WindowRight, Fits, GroupWindow
<1>15. LanesRight'
  <2>1. /\ \A x \in Lanes : ~Mentions(new, x) => (x \in open' <=> x \in open)
        /\ \A x \in Lanes : (Opened(new, x) => x \in open') /\ (Shut(new, x) => x \notin open')
    BY <1>1, <1>9 DEF Mentions
  <2>2. /\ \A x \in Lanes : Has(new, <<"open", x>>) => Opened(new, x)
        /\ \A x \in Lanes : Has(new, <<"close", x>>) => Shut(new, x)
    BY <1>9, <1>10
  <2> QED BY <1>1, <1>11, <1>12, <2>1, <2>2, LaneTold
<1>16. SpeakerRight'
  BY <1>1, <1>3, <1>6, <1>12, SpeakerTold DEF say
<1>17. SilenceRight'
  <2>1. silence \in Nat /\ since \in Nat /\ Longest \in Nat \ {0}
    BY <1>2, LongestTimes DEF NodeTypes
  <2>2. \A x \in Lanes : Has(events', <<"close", x>>) => Has(events, <<"close", x>>) \/ x = id
    BY <1>9, <1>12
  <2>3. \A x : IsAudibleNow(x, alert') <=> IsAudibleNow(x, alert)
    BY <1>12
  <2>4. IsAudibleNow(id, alert) => silence' = 0
    BY <1>1
  <2>5. \A x \in Lanes : Has(events', <<"close", x>>) /\ IsAudibleNow(x, alert') => silence' = 0
    <3> SUFFICES ASSUME NEW x \in Lanes, Has(events', <<"close", x>>), IsAudibleNow(x, alert'), silence' # 0
                 PROVE  FALSE
      OBVIOUS
    <3>1. x # id /\ silence # 0
      BY <1>3, <2>3, <2>4
    <3> QED BY <1>2, <2>2, <2>3, <3>1 DEF SilenceRight
  <2>6. cmds' # <<>> => silence' = 0
    BY <1>1, <1>2, <1>3 DEF SilenceRight
  <2>7. silence' <= since' /\ silence' < Longest
    BY <1>2, <1>3, <1>12, <2>1 DEF SilenceRight
  <2> QED BY <2>5, <2>6, <2>7 DEF SilenceRight
<1> QED BY <1>12, <1>13, <1>14, <1>15, <1>16, <1>17 DEF RotInv

LEMMA SpeakerGoesKeeps ==
  ASSUME RotInv, NEW id \in Lanes \cup {None}, HelperSpeaks(id)
  PROVE  RotInv'
<1> DEFINE say == Speaks(speaker')
<1>1. /\ helper = "up" /\ helper' = "up" /\ window' = window /\ open' = open /\ cmds' = cmds
      /\ UNCHANGED <<node, busy>> /\ speaker' = id /\ events' = events \o say /\ silence' = silence
  BY DEF HelperSpeaks, Tells
<1>2. /\ NodeTypes /\ RadioTypes /\ WindowRight /\ SilenceRight
  BY DEF RotInv
<1>3. speaker' \in Lanes \cup {None} /\ silence' \in Nat
  BY <1>1, <1>2 DEF NodeTypes
<1>4. /\ say \in Seq(Line)
      /\ \A x : ~Opened(say, x) /\ ~Shut(say, x) /\ ~Has(say, <<"open", x>>) /\ ~Has(say, <<"close", x>>)
  BY <1>3, SpeakerLine
<1> HIDE DEF say
<1>5. /\ events' \in Seq(Line) /\ NodeTypes' /\ NotUp' /\ HoldRight' /\ LookRight'
      /\ openIds' = openIds /\ audibleId' = audibleId /\ alert' = alert /\ since' = since
      /\ plan' = plan /\ groupIndex' = groupIndex /\ sweeping' = sweeping
      /\ \A x : Has(events', x) <=> Has(events, x) \/ Has(say, x)
      /\ Boots(events) => Boots(events')
  BY <1>1, <1>3, <1>4, NodeStays
<1>6. RadioTypes'
  BY <1>1, <1>2, <1>3, <1>5 DEF RadioTypes
<1>7. WindowRight'
  BY <1>1, <1>2, <1>5 DEF WindowRight, Fits, GroupWindow
<1>8. LanesRight'
  BY <1>1, <1>4, <1>5, LaneTold DEF Mentions
<1>9. SpeakerRight'
  <2>1. << >> \in Seq(Line) /\ ~Names(<< >>) /\ << >> \o say = say
    BY <1>4, NoLine
  <2> QED BY <1>1, <1>3, <1>5, <2>1, SpeakerTold DEF say
<1>10. SilenceRight'
  <2>1. \A x \in Lanes : Has(events', <<"close", x>>) => Has(events, <<"close", x>>)
    BY <1>4, <1>5
  <2>2. \A x : IsAudibleNow(x, alert') <=> IsAudibleNow(x, alert)
    BY <1>5
  <2> QED BY <1>1, <1>2, <1>5, <2>1, <2>2 DEF SilenceRight
<1> QED BY <1>5, <1>6, <1>7, <1>8, <1>9, <1>10 DEF RotInv

\* The lines of a tune before the new window's: every open lane is closed, the speaker
\* is taken back, nothing is opened.
LEMMA LinesOfTune ==
  ASSUME RotInv
  PROVE  LET new == ClosesAll \o Speaks(None)
         IN  /\ new \in Seq(Line) /\ ClosesAll \in Seq(Line) /\ ~Names(ClosesAll)
             /\ \A x : ~Has(new, <<"open", x>>) /\ ~Opened(new, x)
             /\ \A x \in open : Has(new, <<"close", x>>)
             /\ \A x : Shut(new, x) => x \in open
<1> DEFINE new == ClosesAll \o Speaks(None)
<1>1. IsFiniteSet(open) /\ open \subseteq Lanes
  BY DEF RotInv, RadioTypes, Window, Lanes
<1>2. ClosesAll \in Seq(Line) /\ \A e : Has(ClosesAll, e) <=> \E id \in open : e = <<"close", id>>
  BY <1>1, ClosesEach
<1>3. /\ Speaks(None) \in Seq(Line)
      /\ \A id : ~Has(Speaks(None), <<"open", id>>) /\ ~Has(Speaks(None), <<"close", id>>)
  BY SpeakerLine
<1>4. new \in Seq(Line) /\ \A e : Has(new, e) <=> Has(ClosesAll, e) \/ Has(Speaks(None), e)
  BY <1>2, <1>3, SaidAfter
<1> HIDE DEF new
<1>5. ~Names(ClosesAll)
  <2> SUFFICES ASSUME NEW i \in 1..Len(ClosesAll), ClosesAll[i][1] = "audible" PROVE FALSE
    BY DEF Names
  <2>1. Has(ClosesAll, ClosesAll[i])
    BY DEF Has
  <2>2. PICK id \in open : ClosesAll[i] = <<"close", id>>
    BY <1>2, <2>1
  <2> QED BY <2>2
<1>6. \A x, id : <<"open", x>> # <<"close", id>>
  OBVIOUS
<1>7. \A x : ~Has(new, <<"open", x>>)
  BY <1>2, <1>3, <1>4, <1>6, Zenon
<1>8. \A x : (Opened(new, x) => Has(new, <<"open", x>>)) /\ (Shut(new, x) => Has(new, <<"close", x>>))
  BY DEF Opened, Shut, Has
<1>9. \A x : Has(new, <<"close", x>>) <=> x \in open
  <2> TAKE x
  <2>1. Has(new, <<"close", x>>) <=> Has(ClosesAll, <<"close", x>>)
    BY <1>3, <1>4
  <2>2. Has(ClosesAll, <<"close", x>>) <=> \E id \in open : <<"close", x>> = <<"close", id>>
    BY <1>2
  <2> QED BY <2>1, <2>2
<1> QED BY <1>2, <1>4, <1>5, <1>7, <1>8, <1>9 DEF new

\* A tune leaves no line about the old window the last word.
LEMMA TuneTold ==
  ASSUME RotInv, helper = "up", NEW more \in Seq(Line),
         events' = events \o ((ClosesAll \o Speaks(None)) \o more)
  PROVE  /\ events' \in Seq(Line)
         /\ \A x \in Lanes : Opened(events', x) => Has(more, <<"open", x>>)
         /\ \A x \in Lanes : Shut(events', x) => Shut(more, x) \/ ~Has(more, <<"open", x>>)
         /\ \A x \in Lanes : ~Mentions(events', x) => x \notin openIds
         /\ \A x : Has(more, x) => Has(events', x)
         /\ Boots(events) => Boots(events')
<1> DEFINE first == ClosesAll \o Speaks(None)
<1>1. /\ first \in Seq(Line)
      /\ \A x : ~Has(first, <<"open", x>>) /\ ~Opened(first, x)
      /\ \A x \in open : Has(first, <<"close", x>>)
  BY LinesOfTune
<1>2. events \in Seq(Line) /\ LanesRight
  BY DEF RotInv, RadioTypes
<1>3. PICK f \in Seq(Line) : f = first
  BY <1>1
<1> HIDE DEF first
<1>4. PICK new \in Seq(Line) : new = f \o more
  BY <1>3, SaidAfter
<1>5. events' = events \o new
  BY <1>3, <1>4 DEF first
<1>6. events' \in Seq(Line) /\ (\A e : Has(events', e) <=> Has(events, e) \/ Has(new, e))
      /\ (\A e : Has(new, e) <=> Has(f, e) \/ Has(more, e))
  <2>1. events \o new \in Seq(Line) /\ (\A e : Has(events \o new, e) <=> Has(events, e) \/ Has(new, e))
    BY <1>2, SaidAfter
  <2>2. \A e : Has(f \o more, e) <=> Has(f, e) \/ Has(more, e)
    BY SaidAfter
  <2> QED BY <1>4, <1>5, <2>1, <2>2
<1>7. \A x : Opened(more, x) => Has(more, <<"open", x>>)
  BY DEF Opened, Has
<1>8. ASSUME NEW x \in Lanes
      PROVE  /\ Opened(events', x) => Has(more, <<"open", x>>)
             /\ Shut(events', x) => Shut(more, x) \/ ~Has(more, <<"open", x>>)
             /\ ~Mentions(events', x) => x \notin openIds
  <2>1. /\ Opened(events, x) => x \in open
        /\ ~Mentions(events, x) /\ x \in openIds => x \in open
    BY <1>2 DEF LanesRight
  <2>2. /\ Opened(events \o new, x) => Opened(new, x) \/ (Opened(events, x) /\ ~Has(new, <<"close", x>>))
        /\ Shut(events \o new, x) => Shut(new, x) \/ (Shut(events, x) /\ ~Has(new, <<"open", x>>))
    BY <1>2, SaidAfter
  <2>3. /\ Opened(f \o more, x) => Opened(more, x) \/ (Opened(f, x) /\ ~Has(more, <<"close", x>>))
        /\ Shut(f \o more, x) => Shut(more, x) \/ (Shut(f, x) /\ ~Has(more, <<"open", x>>))
    BY SaidAfter
  <2>4. x \in open => Has(new, <<"close", x>>) /\ Has(events', <<"close", x>>)
    BY <1>1, <1>3, <1>6
  <2>5. ~Opened(f, x) /\ (Has(new, <<"open", x>>) <=> Has(more, <<"open", x>>))
    BY <1>1, <1>3, <1>6
  <2>6. Opened(events', x) => Has(more, <<"open", x>>)
    BY <1>4, <1>5, <1>7, <2>1, <2>2, <2>3, <2>4, <2>5
  <2>7. Shut(events', x) => Shut(more, x) \/ ~Has(more, <<"open", x>>)
    BY <1>4, <1>5, <2>2, <2>3, <2>5
  <2>8. ~Mentions(events', x) => x \notin openIds
    BY <1>6, <2>1, <2>4 DEF Mentions
  <2> QED BY <2>6, <2>7, <2>8
<1> QED BY <1>6, <1>7, <1>8 DEF Mentions, Boots

\* The helper goes to the window of the oldest command: what it has open there is said
\* last, and nothing of the window before is believed any more.
LEMMA TuneKeeps ==
  ASSUME RotInv, HelperTunes
  PROVE  RotInv'
<1>1. /\ helper = "up" /\ helper' = "up" /\ cmds # <<>> /\ cmds' = Tail(cmds) /\ window' = Head(cmds)
      /\ UNCHANGED <<node, busy>> /\ silence' = silence
  BY DEF HelperTunes
<1>2. /\ NodeTypes /\ RadioTypes /\ WindowRight /\ SilenceRight /\ SpeakerRight
  BY DEF RotInv
<1>3. /\ cmds \in Seq(Window) /\ Head(cmds) \in Window /\ Tail(cmds) \in Seq(Window)
      /\ (Tail(cmds) = <<>> => Head(cmds) = cmds[Len(cmds)])
      /\ (Tail(cmds) # <<>> => Tail(cmds)[Len(Tail(cmds))] = cmds[Len(cmds)])
  <2>1. cmds \in Seq(Window) /\ Len(cmds) \in Nat \ {0}
    BY <1>1, <1>2 DEF RadioTypes
  <2>2. Len(Tail(cmds)) = Len(cmds) - 1 /\ Head(cmds) = cmds[1] /\ Tail(cmds) \in Seq(Window)
        /\ \A i \in 1..Len(Tail(cmds)) : Tail(cmds)[i] = cmds[i + 1]
    BY <2>1
  <2>3. Tail(cmds) = <<>> => Len(cmds) = 1
    <3>1. ASSUME NEW q \in Seq(Window), q = <<>> PROVE Len(q) = 0
      BY <3>1
    <3>2. Tail(cmds) = <<>> => Len(Tail(cmds)) = 0
      BY <2>2, <3>1
    <3> QED BY <2>1, <2>2, <3>2
  <2>4. Tail(cmds) # <<>> => Len(Tail(cmds)) \in 1..Len(Tail(cmds))
    BY <2>2
  <2> QED BY <2>1, <2>2, <2>3, <2>4
<1>4. PICK more \in Seq(Line) :
        /\ events' = events \o ((ClosesAll \o Speaks(None)) \o more)
        /\ \/ more = << >> /\ open' = {} /\ speaker' = None
           \/ \E id \in Head(cmds).lanes : /\ more = << <<"open", id>>, <<"audible", id>> >>
                                           /\ open' = {id} /\ speaker' = id
  <2>1. ClosesAll \o Speaks(None) \in Seq(Line) /\ events \in Seq(Line)
    BY <1>2, LinesOfTune DEF RadioTypes
  <2>2. CASE open' = {} /\ speaker' = None /\ Tells(ClosesAll \o Speaks(None))
    <3>1. << >> \in Seq(Line) /\ (ClosesAll \o Speaks(None)) \o << >> = ClosesAll \o Speaks(None)
      BY <2>1
    <3> QED BY <2>2, <3>1 DEF Tells
  <2>3. ASSUME NEW id \in Head(cmds).lanes, open' = {id}, speaker' = id,
               Tells(ClosesAll \o Speaks(None) \o << <<"open", id>>, <<"audible", id>> >>)
        PROVE  \E more \in Seq(Line) :
                  /\ events' = events \o ((ClosesAll \o Speaks(None)) \o more)
                  /\ \/ more = << >> /\ open' = {} /\ speaker' = None
                     \/ \E x \in Head(cmds).lanes : /\ more = << <<"open", x>>, <<"audible", x>> >>
                                                     /\ open' = {x} /\ speaker' = x
    <3>1. id \in Lanes
      BY <1>3 DEF Window, Lanes
    <3>2. << <<"open", id>>, <<"audible", id>> >> \in Seq(Line)
      <4>1. <<"open", id>> \in Line /\ <<"audible", id>> \in Line
        BY <3>1 DEF Line
      <4> QED BY <4>1
    <3> QED BY <2>3, <3>2 DEF Tells
  <2> QED BY <2>2, <2>3 DEF HelperTunes
<1>5. /\ events' \in Seq(Line)
      /\ \A x \in Lanes : Opened(events', x) => Has(more, <<"open", x>>)
      /\ \A x \in Lanes : Shut(events', x) => Shut(more, x) \/ ~Has(more, <<"open", x>>)
      /\ \A x \in Lanes : ~Mentions(events', x) => x \notin openIds
      /\ \A x : Has(more, x) => Has(events', x)
      /\ Boots(events) => Boots(events')
  BY <1>1, <1>4, TuneTold
<1>6. PICK new \in Seq(Line) : new = (ClosesAll \o Speaks(None)) \o more
  <2>1. PICK f \in Seq(Line) : f = ClosesAll \o Speaks(None)
    BY LinesOfTune
  <2>2. f \o more \in Seq(Line)
    BY SaidAfter
  <2> QED BY <2>1, <2>2
<1>7. events' = events \o new
  BY <1>4, <1>6
<1>8. silence' \in Nat
  BY <1>1, <1>2 DEF NodeTypes
<1>9. /\ NodeTypes' /\ NotUp' /\ HoldRight' /\ LookRight'
      /\ openIds' = openIds /\ audibleId' = audibleId /\ alert' = alert /\ since' = since
      /\ plan' = plan /\ groupIndex' = groupIndex /\ sweeping' = sweeping
  BY <1>1, <1>7, <1>8, NodeStays
<1>10. silence' = 0
  BY <1>1, <1>2 DEF SilenceRight
<1>11. SilenceRight'
  BY <1>2, <1>9, <1>10, LongestTimes DEF SilenceRight, NodeTypes
<1>12. WindowRight'
  BY <1>1, <1>2, <1>3, <1>9 DEF WindowRight, Fits, GroupWindow
<1>13. CASE more = << >> /\ open' = {} /\ speaker' = None
  <2>1. \A x : ~Has(more, x)
    BY <1>13, NoLine
  <2>2. RadioTypes'
    BY <1>1, <1>3, <1>5, <1>13, FS_EmptySet DEF RadioTypes
  <2>3. LanesRight'
    BY <1>5, <1>9, <1>13, <2>1 DEF LanesRight
  <2>4. SpeakerRight'
    <3>1. ClosesAll \in Seq(Line) /\ ~Names(ClosesAll) /\ speaker' \in Lanes \cup {None}
      BY <1>13, LinesOfTune
    <3>2. Speaks(speaker') = Speaks(None) /\ Speaks(None) \in Seq(Line)
      BY <1>13, SpeakerLine
    <3>3. events' = events \o (ClosesAll \o Speaks(speaker'))
      <4>1. (ClosesAll \o Speaks(None)) \o << >> = ClosesAll \o Speaks(None)
        BY <3>1, <3>2
      <4> QED BY <1>4, <1>13, <3>2, <4>1
    <3> QED BY <1>1, <1>9, <1>13, <3>1, <3>3, SpeakerTold
  <2> QED BY <1>9, <1>11, <1>12, <2>2, <2>3, <2>4 DEF RotInv
<1>14. ASSUME NEW id \in Head(cmds).lanes, more = << <<"open", id>>, <<"audible", id>> >>,
              open' = {id}, speaker' = id
       PROVE  RotInv'
  <2>1. id \in Lanes /\ id \in window'.lanes /\ IsFiniteSet({id})
    BY <1>1, <1>3, FS_Singleton DEF Window, Lanes
  <2>2. Len(more) = 2 /\ more[1] = <<"open", id>> /\ more[2] = <<"audible", id>> /\ \A i \in 1..2 : i = 1 \/ i = 2
    BY <1>14
  <2>3. /\ \A x : Has(more, <<"open", x>>) <=> x = id
        /\ \A x : ~Shut(more, x)
        /\ Has(more, <<"audible", id>>) /\ Names(more)
    BY <2>2 DEF Has, Shut, Names
  <2>4. \A x : Named(more, x) => x = id
    BY <2>2 DEF Named
  <2>5. RadioTypes'
    BY <1>1, <1>3, <1>5, <1>14, <2>1 DEF RadioTypes
  <2>6. LanesRight'
    <3>1. Mentions(events', id)
      BY <1>5, <2>3 DEF Mentions
    <3> QED BY <1>5, <1>9, <1>14, <2>3, <3>1 DEF LanesRight
  <2>7. SpeakerRight'
    <3>1. events \in Seq(Line) /\ ClosesAll \o Speaks(None) \in Seq(Line)
      BY <1>2, LinesOfTune DEF RadioTypes
    <3>2. /\ Names(new)
          /\ \A x : Named(new, x) => Named(more, x)
      BY <1>6, <2>3, <3>1, SaidAfter
    <3>3. Names(events \o new)
      BY <3>1, <3>2, SaidAfter
    <3>4. \A x : Named(events \o new, x) => x = id
      <4> TAKE x
      <4>1. Named(events \o new, x) => Named(new, x)
        BY <3>1, <3>2, SaidAfter
      <4> QED BY <2>4, <3>2, <4>1
    <3> QED BY <1>7, <1>14, <3>3, <3>4 DEF SpeakerRight
  <2> QED BY <1>9, <1>11, <1>12, <2>5, <2>6, <2>7 DEF RotInv
<1> QED BY <1>4, <1>13, <1>14

-----------------------------------------------------------------------------
(* Every step, and what follows. *)

LEMMA RotInit ==
  ASSUME Init
  PROVE  RotInv
<1>1. /\ plan \in Plans /\ sweeps = plan.sweeps /\ groupIndex = 1 /\ sweepIndex = 0 /\ sweeping = FALSE
      /\ openIds = {} /\ audibleId = None /\ since = 0 /\ hold = NotHolding
      /\ revisit = None /\ credit = 0 /\ cursor = 0 /\ alert = NoAlerts /\ armed = FALSE
      /\ helper = "boot" /\ window = NoWindow /\ open = {} /\ speaker = None
      /\ cmds = <<>> /\ events = <<>> /\ silence = 0 /\ busy = 0
  BY DEF Init
<1>2. Longest \in Nat \ {0} /\ plan.sweeps \in Nat /\ 1 \in 1..Len(plan.groups)
  BY <1>1, LongestTimes, PlanWindows
<1>3. NodeTypes
  <2>1. NoAlerts \in [Channels \ Audible -> Nat]
    BY DEF NoAlerts
  <2>2. 0 \in 0..Longest /\ 0 \in Nat /\ FALSE \in BOOLEAN
    BY <1>2
  <2>3. sweeping \in BOOLEAN /\ armed \in BOOLEAN /\ sweepIndex \in Nat /\ since \in 0..Longest
        /\ cursor \in Nat /\ credit \in Nat /\ silence \in Nat /\ busy \in Nat
    BY <1>1, <2>2, Zenon
  <2>4. plan \in Plans /\ sweeps \in Nat /\ groupIndex \in 1..Len(plan.groups)
    BY <1>1, <1>2
  <2> QED BY <1>1, <2>1, <2>3, <2>4 DEF NodeTypes
<1>4. RadioTypes
  BY <1>1, FS_EmptySet DEF RadioTypes, NoWindow, Window
<1>5. NotUp /\ WindowRight /\ LanesRight /\ SpeakerRight /\ HoldRight /\ LookRight
  BY <1>1 DEF NotUp, WindowRight, LanesRight, SpeakerRight, HoldRight, LookRight
<1>6. SilenceRight
  BY <1>1, <1>2 DEF SilenceRight
<1> QED BY <1>3, <1>4, <1>5, <1>6 DEF RotInv

LEMMA RotNext ==
  ASSUME RotInv, [Next]_vars
  PROVE  RotInv'
<1>1. CASE Tick
  BY <1>1, TickKeeps
<1>2. CASE NodeStep
  BY <1>2, ReadyKeeps, OpenKeeps, CloseKeeps, AudibleKeeps DEF NodeStep
<1>3. CASE Call
  BY <1>3, CallKeeps
<1>4. CASE HelperStep
  BY <1>4, BootKeeps, DeathKeeps, RespawnKeeps, TuneKeeps, CarrierKeeps, CarrierGoesKeeps, SpeakerGoesKeeps
     DEF HelperStep
<1>5. CASE UNCHANGED vars
  BY <1>5 DEF vars, RotInv, NodeTypes, RadioTypes, NotUp, WindowRight, Fits, GroupWindow, LanesRight,
              SpeakerRight, SilenceRight, IsAudibleNow, HoldRight, LookRight, PriorityGroups
<1> QED BY <1>1, <1>2, <1>3, <1>4, <1>5 DEF Next

LEMMA RotAlways == Spec => []RotInv
<1>1. Init => RotInv
  BY RotInit
<1>2. RotInv /\ [Next]_vars => RotInv'
  BY RotNext
<1> QED BY <1>1, <1>2, PTL DEF Spec

\* With both pipes empty the last words have been read.
LEMMA SeesHelper ==
  ASSUME RotInv
  PROVE  EngineSeesHelper
<1> SUFFICES ASSUME Settled
             PROVE  openIds = open /\ audibleId = speaker /\ (~sweeping => window = GroupWindow(plan, groupIndex))
  BY DEF EngineSeesHelper
<1>1. helper = "up" /\ cmds = <<>> /\ events = <<>>
  BY DEF Settled
<1>2. openIds \subseteq Lanes /\ open \subseteq Lanes
  BY DEF RotInv, NodeTypes, RadioTypes, Window, Lanes
<1>3. \A id : ~Mentions(events, id)
  BY <1>1, NoLine
<1>4. openIds = open
  BY <1>1, <1>2, <1>3 DEF RotInv, LanesRight
<1>5. ~Names(events) /\ ~Boots(events)
  BY <1>1, NoLine DEF Boots
<1>6. audibleId = speaker
  BY <1>1, <1>5 DEF RotInv, SpeakerRight
<1>7. ~sweeping => window = GroupWindow(plan, groupIndex)
  BY <1>1, <1>5 DEF RotInv, WindowRight, Fits
<1> QED BY <1>4, <1>6, <1>7

\* WidebandEngine's picture of its helper is right whenever nothing is under way between
\* them; the hop timer sits on no window in silence for longer than the longest dwell;
\* a priority look goes from a group without priority to one with it and back.
THEOREM RotationTheorem == Spec => []RotationSound
<1>1. RotInv => RotationSound
  <2> SUFFICES ASSUME RotInv PROVE RotationSound
    OBVIOUS
  <2>1. EngineSeesHelper
    BY SeesHelper
  <2>2. SilenceBounded
    BY DEF RotInv, SilenceRight, SilenceBounded
  <2>3. LookSound
    <3>1. MaxDwell \in Nat
      BY TimeAssumption
    <3> QED BY <3>1 DEF RotInv, LookRight, LookSound
  <2> QED BY <2>1, <2>2, <2>3 DEF RotationSound
<1> QED BY <1>1, RotAlways, PTL

\* The hop timer leaves a channel that is being heard only after it has been heard on this
\* window for maxHoldMs, up to one tick.
THEOREM NeverCutTheorem == Spec => NeverCutOff
<1>1. ASSUME RotInv, [Next]_vars
      PROVE  [Tick /\ Settled /\ cmds' # cmds /\ HasAudibleOpen(alert') => busy + Ticks >= MaxHold]_vars
  BY <1>1, TickKeeps
<1> QED BY <1>1, RotAlways, PTL DEF Spec, NeverCutOff
=============================================================================
