------------------------- MODULE ShortwaveSchedules -------------------------
(***************************************************************************)
(* The shortwave schedules: how they are fetched and kept                   *)
(* (hf/scheduleStore.ts), and whom they put on the air at a minute          *)
(* (hf/schedule.ts).                                                        *)
(*                                                                          *)
(* Three sites are asked in turn for five files, at boot and when a day has *)
(* passed, and again at the hour while nothing comes. The process may die   *)
(* between any two steps and in the middle of writing a file. A file is the *)
(* season it lists; Unreadable is one no row can be read from. Hours are    *)
(* the hourly timer's: the whole round of requests, each cut at a minute,   *)
(* fits in one.                                                             *)
(*                                                                          *)
(* The calendar of the second half is a small one, run through and begun    *)
(* again: days of DayMinutes, weeks of WeekDays, and a year whose months end *)
(* where MonthEnds says, in days of the year.                               *)
(***************************************************************************)
EXTENDS Integers, Sequences

CONSTANTS
  MaxSeason,      \* broadcast seasons that come
  MaxBad,         \* answers that fail or hold nothing
  MaxBoots,       \* times the process dies
  DayHours,       \* hours a fetched schedule is left alone
  DayMinutes, WeekDays, MonthEnds, Years,
  Listings        \* what the lists may say of a frequency: [eibi, aoki, hfcc : slots, same : BOOLEAN]

ASSUME SchedulesAssumption ==
  /\ {MaxSeason, DayHours, DayMinutes, WeekDays, Years} \subseteq Nat \ {0}
  /\ {MaxBad, MaxBoots} \subseteq Nat /\ MonthEnds \in Seq(Nat \ {0}) /\ Len(MonthEnds) > 0
  /\ \A i, j \in DOMAIN MonthEnds : i < j => MonthEnds[i] < MonthEnds[j]

\* A row's hours are of the day, 0000 to 2400.
ASSUME ListingsAssumption ==
  \A l \in Listings : /\ l.same \in BOOLEAN
                      /\ \A s \in {l.eibi, l.aoki, l.hfcc} : s.start \in 0 .. DayMinutes /\ s.end \in 0 .. DayMinutes

VARIABLES
  shelf,   \* the store and its directory
  season,  \* the season it is
  bad,     \* bad answers left
  boots,   \* deaths left
  listing, \* a frequency's rows
  minute   \* the minute it is asked about

storeVars == <<shelf, season, bad, boots>>
airVars == <<listing, minute>>
schedulesVars == <<shelf, season, bad, boots, listing, minute>>

Files == {"eibi", "readme", "aoki", "hfcc", "sites"}
Unreadable == -1
Never == 99

----------------------------------------------------------------------------
(* The store.                                                               *)

\* A cut-off write leaves the file as it was: the text goes to <file>.tmp and is renamed.
InPlaceCut(s, f) == [s EXCEPT !.disk[f] = Unreadable]  \* Defect: written where it lies
CutOff(s, f) == s

\* save().
Saved(s, f, what) == [s EXCEPT !.disk[f] = what]

\* A process that comes up: loadFromDisk(), and the timers of index.ts. The first is two minutes
\* after boot, so the hour that follows it is not yet an hour.
Booted(s) == [s EXCEPT !.db = s.disk, !.at = "idle", !.got = FALSE, !.tried = Never, !.bell = TRUE]

\* due(): an hour since the last attempt, give or take the timer's lag, and a day since a fetch.
\* (The stamp is a file: it counts while the process is down too.)
MayBeDue(s) == s.tried >= 1 /\ s.stamp >= DayHours
MayWait(s) == s.tried <= 1 \/ s.stamp < DayHours

\* refresh() begins: the season's name is fixed for the round.
Rings ==
  /\ shelf.bell /\ shelf.at = "idle"
  /\ \/ /\ MayBeDue(shelf)
        /\ shelf' = [shelf EXCEPT !.bell = FALSE, !.tried = IF @ = Never THEN -1 ELSE 0,
                                  !.at = "eibi", !.want = season, !.got = FALSE]
     \/ /\ MayWait(shelf)
        /\ shelf' = [shelf EXCEPT !.bell = FALSE]
  /\ UNCHANGED <<season, bad, boots, airVars>>

\* The sites in turn.
After(source) == CASE source \in {"eibi", "readme"} -> "aoki" [] source = "aoki" -> "hfcc" [] source = "hfcc" -> "end"

\* Defect: saved before its rows are counted.
SavedUnread(source) ==
  /\ bad > 0 /\ bad' = bad - 1
  /\ shelf' = [Saved(shelf, source, Unreadable) EXCEPT !.at = After(source)]

\* source(): no answer, a refused hop, a file too large, no file of the season on the index, or no
\* rows in it. What came before in the same source stays; the readme without languages is passed over.
SourceFails(source) ==
  /\ bad > 0 /\ bad' = bad - 1
  /\ shelf' = [shelf EXCEPT !.at = After(source)]

ReadmeEmpty ==
  /\ shelf.at = "readme" /\ bad > 0 /\ bad' = bad - 1
  /\ shelf' = [shelf EXCEPT !.at = "aoki", !.got = TRUE]

\* EiBi is two files, one request each.
EibiAnswers ==
  /\ shelf.at = "eibi"
  /\ shelf' = [Saved(shelf, "eibi", shelf.want) EXCEPT !.at = "readme"]
  /\ bad' = bad

ReadmeAnswers ==
  /\ shelf.at = "readme"
  /\ shelf' = [Saved(shelf, "readme", shelf.want) EXCEPT !.at = "aoki", !.got = TRUE]
  /\ bad' = bad

AokiAnswers ==
  /\ shelf.at = "aoki"
  /\ shelf' = [Saved(shelf, "aoki", shelf.want) EXCEPT !.at = "hfcc", !.got = TRUE]
  /\ bad' = bad

\* HFCC's zip holds both files; its list of sites is saved as it comes, or missing.
HfccAnswers ==
  /\ shelf.at = "hfcc"
  /\ LET q == [Saved(shelf, "hfcc", shelf.want) EXCEPT !.at = "end", !.got = TRUE]
     IN  \/ shelf' = Saved(q, "sites", shelf.want) /\ bad' = bad
         \/ bad > 0 /\ bad' = bad - 1 /\ shelf' \in {q, Saved(q, "sites", Unreadable)}

Fetches ==
  /\ \/ EibiAnswers \/ ReadmeAnswers \/ AokiAnswers \/ HfccAnswers \/ ReadmeEmpty
     \/ shelf.at \in {"eibi", "readme", "aoki", "hfcc"} /\ SourceFails(shelf.at)
  /\ UNCHANGED <<season, boots, airVars>>

\* Defect: what was fetched is stamped and not read.
StampedOnly(s) == [s EXCEPT !.stamp = 0]
\* The end of refresh(): stamped, and read from the disk.
Taken(s) == [s EXCEPT !.stamp = 0, !.db = s.disk]

\* Nothing new leaves no stamp.
RefreshEnds ==
  /\ shelf.at = "end"
  /\ shelf' = [IF shelf.got THEN Taken(shelf) ELSE shelf EXCEPT !.at = "idle"]
  /\ UNCHANGED <<season, bad, boots, airVars>>

HourPasses ==
  LET older(age, most) == IF age = Never \/ age >= most THEN age ELSE age + 1
  IN  /\ ~shelf.bell /\ shelf.at = "idle"
      /\ shelf' = [shelf EXCEPT !.bell = TRUE, !.tried = older(@, 2), !.stamp = older(@, DayHours)]
      /\ UNCHANGED <<season, bad, boots, airVars>>

\* The process dies and comes back, in the middle of a write if there is one.
StoreDies ==
  /\ boots > 0 /\ boots' = boots - 1
  /\ \/ shelf' = Booted(shelf)
     \/ /\ shelf.at \in Files
        /\ shelf' = Booted(CutOff(shelf, shelf.at))
  /\ UNCHANGED <<season, bad, airVars>>

\* seasonCode() turns.
SeasonTurns ==
  /\ season < MaxSeason /\ season' = season + 1
  /\ UNCHANGED <<shelf, bad, boots, airVars>>

----------------------------------------------------------------------------
(* Who is on the air. A slot is [start, end, days, window, nth]: minutes of  *)
(* the day, weekdays, a set of nothing or of one [from, to, dated] (dates as *)
(* month * 100 + day, the year in front when dated), and which of the        *)
(* month's weekdays (0: all, -1: the last).                                  *)

YearDays == MonthEnds[Len(MonthEnds)]

\* As many years as bring the weekdays round.
Calendar == Years * YearDays

DateOf(day) ==
  LET start(mo) == IF mo = 1 THEN 0 ELSE MonthEnds[mo - 1]
      n == day % YearDays
      mo == CHOOSE i \in DOMAIN MonthEnds : start(i) <= n /\ n < MonthEnds[i]
  IN  [year |-> (day % Calendar) \div YearDays, month |-> mo, date |-> n - start(mo) + 1]

DayBefore(day) == (day + Calendar - 1) % Calendar

\* onAir().
OnAir(s, day, min) ==
  LET today == day % WeekDays \in s.days
      yesterday == DayBefore(day) % WeekDays \in s.days
  IN  IF s.end > s.start THEN today /\ s.start <= min /\ min < s.end
      ELSE IF s.end = s.start THEN today
      ELSE (today /\ min >= s.start) \/ (yesterday /\ min < s.end)

\* Is the date one of the slot's?
Dated(s, day) ==
  LET d == DateOf(day)
      nextWeek == DateOf(day + WeekDays)
      mmdd == d.month * 100 + d.date
  IN  /\ s.nth = -1 => nextWeek.month # d.month
      /\ s.nth > 0 => (d.date + WeekDays - 1) \div WeekDays = s.nth
      /\ \A w \in s.window :
           LET today == IF w.dated THEN d.year * 10000 + mmdd ELSE mmdd
           IN  IF w.from <= w.to THEN w.from <= today /\ today <= w.to ELSE w.from <= today \/ today <= w.to

\* Defect: a slot past midnight is looked up under the date it has become.
InDatesToday(s, day, min) == Dated(s, day)
\* inDates(): under the date it started.
InDates(s, day, min) == Dated(s, IF s.end < s.start /\ min < s.end THEN DayBefore(day) ELSE day)

\* near(): the rows of the frequency that are on now.
OnNow(s, t) == OnAir(s, t \div DayMinutes, t % DayMinutes) /\ InDates(s, t \div DayMinutes, t % DayMinutes)

\* candidates(): EiBi names the station, with the power of Aoki's row of the same transmitter, or of
\* HFCC's; Aoki names one only where EiBi has nothing on. HFCC names none.
Candidates(l, t) ==
  LET power == IF l.same /\ OnNow(l.aoki, t) THEN "aoki" ELSE IF l.same /\ OnNow(l.hfcc, t) THEN "hfcc" ELSE "unknown"
  IN  IF OnNow(l.eibi, t) THEN {<<"eibi", power>>}
      ELSE IF OnNow(l.aoki, t) THEN {<<"aoki", "aoki">>}
      ELSE {}

MinutePasses ==
  /\ minute' = (minute + 1) % (Calendar * DayMinutes)
  /\ UNCHANGED <<storeVars, listing>>

----------------------------------------------------------------------------

NoFiles == [f \in Files |-> 0]

\* An empty directory, or the last run's.
SchedulesInit ==
  /\ \E first \in {[files |-> NoFiles, stamp |-> Never], [files |-> [f \in Files |-> 1], stamp |-> DayHours]} :
       shelf = [disk |-> first.files, db |-> first.files, stamp |-> first.stamp, at |-> "idle", want |-> 1,
                got |-> FALSE, tried |-> Never, bell |-> TRUE]
  /\ season = 1 /\ bad = MaxBad /\ boots = MaxBoots
  /\ listing \in Listings /\ minute = 0

StoreNext == Rings \/ Fetches \/ RefreshEnds \/ HourPasses \/ StoreDies \/ SeasonTurns

SchedulesNext == StoreNext \/ MinutePasses

\* Each request is answered or cut, and the hourly timer goes on.
StoreRuns == Rings \/ Fetches \/ RefreshEnds \/ HourPasses

SchedulesFairness == WF_schedulesVars(StoreRuns)

SchedulesSpec == SchedulesInit /\ [][SchedulesNext]_schedulesVars /\ SchedulesFairness

----------------------------------------------------------------------------

SchedulesTypeOK ==
  /\ shelf \in [disk : [Files -> Unreadable .. MaxSeason], db : [Files -> Unreadable .. MaxSeason],
                at : {"idle", "eibi", "readme", "aoki", "hfcc", "end"}, want : 1 .. MaxSeason, got : BOOLEAN,
                tried : {-1, 0, 1, 2, Never}, stamp : 0 .. DayHours \union {Never}, bell : BOOLEAN]
  /\ season \in 1 .. MaxSeason /\ bad \in 0 .. MaxBad /\ boots \in 0 .. MaxBoots
  /\ listing \in Listings /\ minute \in 0 .. Calendar * DayMinutes - 1

\* A failed source, an answer without rows and a death in the middle of a write keep the last good
\* copy: neither the disk nor what is answered from ever goes back to an older season or to nothing.
\* (HFCC's list of sites is the exception: it is saved unread, so a bad one replaces a good one.)
LastGoodCopy ==
  [][\A f \in Files \ {"sites"} : shelf'.disk[f] >= shelf.disk[f] /\ shelf'.db[f] >= shelf.db[f]]_schedulesVars

\* Once the answers are good again and the season stands, everything answered from is the season's,
\* whichever source failed, at whatever point the process died.
SchedulesCatchUp == <>[](\A f \in Files : shelf.db[f] = season)

\* The times a slot is on the air, from the day it is listed for: to its end, past midnight if that
\* comes first, the whole day if it ends when it starts.
Airtime(s, day) ==
  LET from == day * DayMinutes
  IN  IF s.end > s.start THEN (from + s.start) .. (from + s.end - 1)
      ELSE IF s.end = s.start THEN from .. (from + DayMinutes - 1)
      ELSE (from + s.start) .. (from + DayMinutes + s.end - 1)

\* Now, or the same minute when the calendar has come round.
Airs(s, t) ==
  \E day \in 0 .. Calendar - 1 :
    /\ day % WeekDays \in s.days /\ Dated(s, day)
    /\ {t, t + Calendar * DayMinutes} \intersect Airtime(s, day) # {}

\* A slot past midnight belongs to the day it started, at the end of its dates, of the month and of
\* the year: a station is named exactly while a broadcast that began on one of its days goes on, by
\* EiBi if EiBi has one, and its power is that of a row of the same transmitter that is on as well.
OnAirAsListed ==
  Candidates(listing, minute) =
    IF Airs(listing.eibi, minute)
    THEN {<<"eibi", IF ~listing.same THEN "unknown"
                    ELSE IF Airs(listing.aoki, minute) THEN "aoki"
                    ELSE IF Airs(listing.hfcc, minute) THEN "hfcc" ELSE "unknown">>}
    ELSE IF Airs(listing.aoki, minute) THEN {<<"aoki", "aoki">>} ELSE {}
=============================================================================
