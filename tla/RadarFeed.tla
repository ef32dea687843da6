------------------------------ MODULE RadarFeed ------------------------------
(***************************************************************************)
(* The backend's radar poll (backend/radar/RadarFeed.ts) and the streaming   *)
(* decoder it feeds (pngIndexed.ts). A poll asks the publisher which scan is *)
(* current and, when that changed, downloads the image part by part into an  *)
(* inflate running on another thread. The transfer may be reset and is then  *)
(* resumed from the byte reached; the publisher may put a newer image in the *)
(* file's place at any moment; the inflate may settle (crop complete, or bad *)
(* data) while a part is still being pulled or written; and an inflate that  *)
(* has settled calls nobody back.                                           *)
(*                                                                          *)
(* A scan is its number, a part of an image is whose image it is. Pixels,    *)
(* row filters and chunk headers are left out: what of them can go wrong is  *)
(* that the data are bad.                                                    *)
(***************************************************************************)
EXTENDS Integers, FiniteSets

CONSTANTS
  MaxScan,      \* scans published
  Parts,        \* parts of an image
  CropAt,       \* parts that hold the crop
  MaxResumes,   \* MAX_RESUMES
  MaxAttempts,  \* MAX_ATTEMPTS
  MaxFails      \* failures outside

ASSUME RadarFeedAssumption ==
  /\ {MaxScan, Parts, MaxAttempts, CropAt} \subseteq Nat \ {0} /\ CropAt =< Parts
  /\ {MaxResumes, MaxFails} \subseteq Nat

VARIABLES
  iem,    \* the publisher's current scan
  scan,   \* this.scan: the scan time it goes by, and whose parts its picture has
  poll,   \* the poll
  faults    \* failures left

radarVars == <<iem, scan, poll, faults>>

----------------------------------------------------------------------------
(* The poll: where it waits; its attempt; the scan it wants; imageBytes()'s  *)
(* etag, offset, the offset at this request and resumes, and the image it is *)
(* being sent; and the decoder: the parts it was given, how many it has      *)
(* decoded, and how it settled.                                             *)

Idle == [st |-> "idle", attempt |-> 1, want |-> 0, src |-> 0, etag |-> 0, off |-> 0,
         before |-> 0, resumes |-> 0, got |-> {}, rows |-> 0, dec |-> "live"]

Asking(attempt) == [Idle EXCEPT !.st = "meta", !.attempt = attempt]

\* A resumed transfer has a byte to go on from and a tag to know the image by.
Resuming(p) == p.off > 0 /\ p.etag # 0

\* A new timer: pollOnce().
Poll == poll.st = "idle" /\ poll' = Asking(1) /\ UNCHANGED <<iem, scan, faults>>

\* attempt() up to the image: the scan's time is news, or there is nothing to do.
MetaLands ==
  /\ poll.st = "meta"
  /\ poll' = IF scan.time = iem THEN Idle ELSE [poll EXCEPT !.st = "image", !.want = iem]
  /\ UNCHANGED <<iem, scan, faults>>

\* imageBytes(): an answer to a first request brings a tag or none, and starts anywhere the
\* publisher's file is.
ImageAnswers(etag) ==
  /\ poll.st = "image" /\ ~Resuming(poll) /\ etag \in {0, iem}
  /\ poll' = [poll EXCEPT !.st = "stream", !.src = iem, !.etag = etag, !.before = poll.off]
  /\ UNCHANGED <<iem, scan, faults>>

\* Defect: whatever answers a resume is taken for the rest.
ResumeBlindly ==
  /\ poll.st = "image" /\ Resuming(poll)
  /\ poll' = [poll EXCEPT !.st = "stream", !.src = iem, !.before = poll.off]
  /\ UNCHANGED <<iem, scan, faults>>

\* An answer to a resume: the rest of the image (206), or another image, which throws
\* ImageChangedError and asks for the scan again while attempts last.
ResumeAnswers ==
  /\ poll.st = "image" /\ Resuming(poll)
  /\ poll' = CASE poll.etag = iem -> [poll EXCEPT !.st = "stream", !.src = iem, !.before = poll.off]
               [] poll.etag # iem /\ poll.attempt < MaxAttempts -> Asking(poll.attempt + 1)
               [] OTHER -> Idle
  /\ UNCHANGED <<iem, scan, faults>>

----------------------------------------------------------------------------
(* decodeIndexedCrop(): pull a part, write it, pull the next, until the      *)
(* inflate has settled or the bytes end.                                     *)

PartArrives ==
  /\ poll.st = "stream" /\ poll.off < Parts
  /\ poll' = IF poll.dec # "live" THEN [poll EXCEPT !.st = "settle"]
             ELSE [poll EXCEPT !.st = "write", !.off = @ + 1, !.got = @ \cup {poll.src}]
  /\ UNCHANGED <<iem, scan, faults>>

\* Decoder.write()'s callback: of an inflate that is still there.
WriteDone ==
  /\ poll.st = "write" /\ poll.dec = "live"
  /\ poll' = [poll EXCEPT !.st = "stream"]
  /\ UNCHANGED <<iem, scan, faults>>

\* Defect: a settled decoder leaves the write that waits for it.
SettledUnheard(p, how) == [p EXCEPT !.dec = how]

\* onSettle(): every waiting write is released, and the loop sees that it is done.
Settled(p, how) == [p EXCEPT !.dec = how, !.st = IF @ = "write" THEN "settle" ELSE @]

\* consume(): the inflate delivers one more part; with the crop's last row it settles.
Decodes ==
  /\ poll.dec = "live" /\ poll.rows < poll.off /\ poll.st \in {"stream", "write", "image", "settle"}
  /\ LET p == [poll EXCEPT !.rows = @ + 1]
     IN  poll' = IF p.rows = CropAt THEN Settled(p, "whole") ELSE p
  /\ UNCHANGED <<iem, scan, faults>>

\* The bytes are all there: end() closes the inflate, and waits for its result.
StreamEnds ==
  /\ poll.st = "stream" /\ poll.off = Parts
  /\ poll' = [poll EXCEPT !.st = "settle"]
  /\ UNCHANGED <<iem, scan, faults>>

\* The inflate ends before the crop, or settled on bad data: the poll gives up.
ComesToNothing ==
  /\ poll.st = "settle" /\ (poll.dec = "bad" \/ (poll.dec = "live" /\ poll.rows = poll.off))
  /\ poll' = Idle
  /\ UNCHANGED <<iem, scan, faults>>

\* A whole crop of the right grid: its missing cells are cleared, and it is compressed.
CropTaken ==
  /\ poll.st = "settle" /\ poll.dec = "whole"
  /\ poll' = [poll EXCEPT !.st = "gzip"]
  /\ UNCHANGED <<iem, scan, faults>>

Publishes ==
  /\ poll.st = "gzip"
  /\ scan' = [time |-> poll.want, img |-> poll.got]
  /\ poll' = Idle
  /\ UNCHANGED <<iem, faults>>

----------------------------------------------------------------------------
(* Outside: the next scan; a transfer that is reset, and the byte it reached *)
(* makes it worth resuming or not; and an answer that is no answer, bytes    *)
(* that stop short, or data that are bad.                                    *)

NewScan == iem < MaxScan /\ iem' = iem + 1 /\ UNCHANGED <<scan, poll, faults>>

StreamResets ==
  /\ faults > 0 /\ poll.st = "stream"
  /\ LET worth == poll.etag # 0 /\ poll.off # poll.before /\ poll.resumes < MaxResumes
     IN  poll' = IF worth THEN [poll EXCEPT !.st = "image", !.resumes = @ + 1] ELSE Idle
  /\ faults' = faults - 1 /\ UNCHANGED <<iem, scan>>

BadData ==
  /\ faults > 0 /\ poll.dec = "live" /\ poll.rows < poll.off
  /\ poll' = Settled(poll, "bad")
  /\ faults' = faults - 1 /\ UNCHANGED <<iem, scan>>

StopsShort ==
  /\ faults > 0 /\ poll.st = "stream" /\ poll.off < Parts
  /\ poll' = [poll EXCEPT !.st = "settle"]
  /\ faults' = faults - 1 /\ UNCHANGED <<iem, scan>>

NoAnswer ==
  /\ faults > 0 /\ poll.st \in {"meta", "image"}
  /\ poll' = Idle
  /\ faults' = faults - 1 /\ UNCHANGED <<iem, scan>>

RadarFeedInit ==
  /\ iem = 1 /\ scan = [time |-> 0, img |-> {}] /\ poll = Idle /\ faults = MaxFails

Works ==
  \/ Poll \/ MetaLands \/ (\E e \in 0 .. MaxScan : ImageAnswers(e)) \/ ResumeAnswers
  \/ PartArrives \/ WriteDone \/ Decodes \/ StreamEnds \/ ComesToNothing
  \/ CropTaken \/ Publishes

RadarFeedNext == Works \/ NewScan \/ StreamResets \/ BadData \/ StopsShort \/ NoAnswer

\* A request is answered or times out, a thread works on, the timer comes round.
RadarFeedFairness == WF_radarVars(Works) /\ WF_radarVars(Decodes)

RadarFeedSpec == RadarFeedInit /\ [][RadarFeedNext]_radarVars /\ RadarFeedFairness

----------------------------------------------------------------------------
(* What a picture may be.                                                   *)

RadarTypeOK ==
  /\ iem \in 1 .. MaxScan /\ faults \in 0 .. MaxFails
  /\ scan \in [time : 0 .. MaxScan, img : SUBSET (1 .. MaxScan)]
  /\ poll \in [st : {"idle", "meta", "image", "stream", "write", "settle", "gzip"},
               attempt : 1 .. MaxAttempts, want : 0 .. MaxScan, src : 0 .. MaxScan,
               etag : 0 .. MaxScan, off : 0 .. Parts, before : 0 .. Parts,
               resumes : 0 .. MaxResumes, got : SUBSET (1 .. MaxScan), rows : 0 .. Parts,
               dec : {"live", "whole", "bad"}]

\* A picture is cut from one image, however often its transfer was resumed, and that image
\* is at least as new as the time the picture goes by: radar is never older than it says
\* (RadarFeed.ts:189-208, the comment of 14-22).
WholeImage ==
  /\ Cardinality(scan.img) =< 1 /\ (scan.time # 0 => \A i \in scan.img : i >= scan.time)
  /\ scan.time # 0 => scan.img # {}

\* No poll hangs, between an inflate that settles and a stream that is reset, and none leaves
\* the feed behind for good: with the last scan published and no more failures, it is the
\* scan the kiosk has (RadarFeed.ts:137-157, pngIndexed.ts:99, 116).
FeedCatchesUp == <>[](scan = [time |-> MaxScan, img |-> {MaxScan}] \/ iem # MaxScan)
=============================================================================
