---------------------------- MODULE MCShortwave ----------------------------
(* The sweep and the schedules it asks for names share no state but the names *)
(* themselves, which the sweep's module changes at will: each behaviour is one *)
(* of the sweep, of the store of schedules, or of the calendar.               *)
EXTENDS ShortwaveSweep, ShortwaveSchedules

VARIABLE part

\* Two windows of one band share a channel; the first sees past the band's edge.
SeesDef == <<{1, 2}, {2, 4}>>
BandDef == <<{2, 4}, {2, 4}>>

\* Two months; slots within the day, to its end, past midnight and all day, in yearly windows that
\* wrap or not, on one date, in the windows of one year, and on the month's first, second and last.
MCMonthEnds == <<7, 13>>
Slot(s, e, d, w, n) == [start |-> s, end |-> e, days |-> d, window |-> w, nth |-> n]
From(f, t, d) == {[from |-> f, to |-> t, dated |-> d]}
MCWindows == {{}, From(102, 105, FALSE), From(205, 102, FALSE), From(107, 107, FALSE),
              From(10205, 10206, TRUE), From(10206, 20101, TRUE)}
MCSlots ==
  { Slot(s, e, d, w, 0) : s \in {0, 2}, e \in 0 .. 3, d \in {{0, 2}, 0 .. 2}, w \in MCWindows }
  \union { Slot(s, e, {1}, {}, n) : s \in {0, 2}, e \in 0 .. 3, n \in {1, 2, -1} }
NoSlot == Slot(0, 0, {}, {}, 0)
NoListing == [eibi |-> NoSlot, aoki |-> NoSlot, hfcc |-> NoSlot, same |-> FALSE]
MCListings ==
  {NoListing} \union { [eibi |-> s, aoki |-> Slot(2, 1, {0, 1}, {}, 0), hfcc |-> Slot(0, 2, {1, 2}, {}, 0), same |-> y] :
      s \in MCSlots, y \in BOOLEAN }

MCInit ==
  /\ part \in {"sweep", "store", "air"}
  /\ Init /\ SchedulesInit
  /\ part # "store" => shelf.db.eibi = 1
  /\ part # "air" => listing = NoListing

MCNext ==
  \/ part = "sweep" /\ Next /\ UNCHANGED <<part, schedulesVars>>
  \/ part = "store" /\ StoreNext /\ UNCHANGED <<part, vars>>
  \/ part = "air" /\ MinutePasses /\ UNCHANGED <<part, vars>>

\* The fairness of each, while it is the one that moves.
MCFairness ==
  /\ WF_vars(part = "sweep" /\ Tick) /\ WF_vars(part = "sweep" /\ Tuned)
  /\ WF_schedulesVars(part = "store" /\ StoreRuns)

MCSpec == MCInit /\ [][MCNext]_<<part, vars, schedulesVars>> /\ MCFairness
=============================================================================
