--------------------------- MODULE SidePartsProofs ---------------------------
(***************************************************************************)
(* Proofs about five parts that share no state: the radar poll, the          *)
(* lightning poll, the engine without the helper, the store of the           *)
(* shortwave schedules and the map of the wall.                              *)
(***************************************************************************)
EXTENDS RadarFeed, LightningFeed, RtlFm, ShortwaveSchedules, ActivityMap, FiniteSetTheorems, SequenceTheorems, TLAPS

(***************************************************************************)
(* Proofs about the radar poll: a picture is cut from one image, whatever    *)
(* was reset, resumed, replaced or settled meanwhile.                        *)
(***************************************************************************)

\* What the poll holds is of the image it is being sent. A tag names that image; without one,
\* or without a byte, there is nothing to resume; and a crop that is whole has parts.
PollSound ==
  /\ poll.src <= iem /\ poll.want <= iem
  /\ poll.st \notin {"idle", "meta"} => poll.want > 0
  /\ poll.got \subseteq {poll.src} /\ (poll.off > 0 => poll.got # {})
  /\ poll.got # {} => poll.src >= poll.want
  /\ poll.etag # 0 => poll.etag = poll.src
  /\ poll.st \in {"idle", "meta"} => poll.off = 0 /\ poll.got = {} /\ poll.etag = 0 /\ poll.rows = 0 /\ poll.dec = "live"
  /\ poll.st = "image" => (poll.off = 0 /\ poll.got = {}) \/ poll.etag # 0
  /\ poll.off = 0 => poll.got = {}
  /\ poll.st \in {"stream", "write"} => poll.src >= poll.want
  /\ poll.before <= poll.off
  /\ poll.rows <= poll.off
  /\ poll.dec = "whole" => poll.rows = CropAt
  /\ poll.st = "gzip" => poll.dec = "whole"

\* The picture it has.
ScanSound ==
  /\ scan.time # 0 => \E i \in 1 .. MaxScan : scan.img = {i} /\ i >= scan.time
  /\ scan.time = 0 => scan.img = {}

RadarInv == RadarTypeOK /\ PollSound /\ ScanSound

PollType ==
  [st : {"idle", "meta", "image", "stream", "write", "settle", "gzip"},
   attempt : 1 .. MaxAttempts, want : 0 .. MaxScan, src : 0 .. MaxScan, etag : 0 .. MaxScan,
   off : 0 .. Parts, before : 0 .. Parts, resumes : 0 .. MaxResumes,
   got : SUBSET (1 .. MaxScan), rows : 0 .. Parts, dec : {"live", "whole", "bad"}]

\* A poll that asks has the fields of one.
LEMMA AskingTyped == ASSUME NEW n \in 1 .. MaxAttempts PROVE Asking(n) \in PollType /\ Idle \in PollType
<1>1. Idle \in PollType
  BY RadarFeedAssumption DEF RadarFeedAssumption, Idle, PollType
<1>2. [Idle EXCEPT !.st = "meta", !.attempt = n] \in PollType
  BY <1>1, Zenon DEF PollType
<1> QED BY <1>1, <1>2 DEF Asking

\* So has one whose decoder settled.
LEMMA SettledTyped ==
  ASSUME NEW p \in PollType, NEW how \in {"whole", "bad"} PROVE Settled(p, how) \in PollType
<1>1. p.st \in {"idle", "meta", "image", "stream", "write", "settle", "gzip"}
  BY DEF PollType
<1>2. [p EXCEPT !.dec = how, !.st = IF p.st = "write" THEN "settle" ELSE p.st] \in PollType
  BY <1>1, Zenon DEF PollType
<1> QED BY <1>2 DEF Settled

\* No poll has run: nothing is shown and nothing is under way.
LEMMA InitRadar == RadarFeedInit => RadarInv
<1> SUFFICES ASSUME RadarFeedInit PROVE RadarInv
  OBVIOUS
<1> USE RadarFeedAssumption DEF RadarFeedAssumption
<1>1. RadarTypeOK
  BY DEF RadarFeedInit, RadarTypeOK, Idle
<1>2. PollSound /\ ScanSound
  BY DEF RadarFeedInit, PollSound, ScanSound, Idle
<1> QED BY <1>1, <1>2 DEF RadarInv

\* Every step of the poll, of the server and of the decoder keeps the invariant.
LEMMA NextRadar == RadarInv /\ [RadarFeedNext]_radarVars => RadarInv'
<1> SUFFICES ASSUME RadarInv, [RadarFeedNext]_radarVars PROVE RadarInv'
  OBVIOUS
<1>a. MaxScan \in Nat \ {0} /\ Parts \in Nat \ {0} /\ MaxAttempts \in Nat \ {0} /\ CropAt \in 1 .. Parts
      /\ MaxResumes \in Nat /\ MaxFails \in Nat
  BY RadarFeedAssumption DEF RadarFeedAssumption
<1> USE <1>a DEF RadarInv
<1>b. RadarTypeOK <=> /\ iem \in 1 .. MaxScan /\ faults \in 0 .. MaxFails /\ poll \in PollType
                      /\ scan \in [time : 0 .. MaxScan, img : SUBSET (1 .. MaxScan)]
  BY DEF RadarTypeOK, PollType
<1>c. ASSUME poll' \in PollType, UNCHANGED <<iem, scan>>, faults' \in 0 .. MaxFails PROVE RadarTypeOK'
  BY <1>b, <1>c DEF RadarTypeOK, PollType
<1>0. ASSUME UNCHANGED <<iem, scan>> PROVE ScanSound'
  BY <1>0 DEF ScanSound
<1>1. CASE Poll
  <2>1. RadarTypeOK'
    <3>1. poll' \in PollType
      BY <1>1, AskingTyped DEF Poll
    <3> QED BY <1>1, <1>b, <1>c, <3>1 DEF Poll
  <2>2. PollSound'
    BY <1>1 DEF Poll, Asking, Idle, RadarTypeOK, PollSound
  <2>3. ScanSound'
    BY <1>1, <1>0 DEF Poll
  <2> QED BY <2>1, <2>2, <2>3
<1>2. CASE MetaLands
  <2>1. RadarTypeOK'
    <3>1. iem \in 0 .. MaxScan /\ 1 \in 1 .. MaxAttempts
      BY <1>b
    <3>2. [poll EXCEPT !.st = "image", !.want = iem] \in PollType
      BY <1>b, <3>1, Zenon DEF PollType
    <3>3. poll' \in PollType
      BY <1>2, <3>1, <3>2, AskingTyped DEF MetaLands
    <3> QED BY <1>2, <1>b, <1>c, <3>3 DEF MetaLands
  <2>2. PollSound'
    BY <1>2 DEF MetaLands, Idle, RadarTypeOK, PollSound
  <2>3. ScanSound'
    BY <1>2, <1>0 DEF MetaLands
  <2> QED BY <2>1, <2>2, <2>3
<1>3. ASSUME NEW e \in 0 .. MaxScan, ImageAnswers(e) PROVE RadarInv'
  <2>1. RadarTypeOK'
    <3>1. iem \in 0 .. MaxScan /\ poll.off \in 0 .. Parts
      BY <1>b DEF PollType
    <3>2. [poll EXCEPT !.st = "stream", !.src = iem, !.etag = e, !.before = poll.off] \in PollType
      BY <1>b, <3>1, Zenon DEF PollType
    <3>3. poll' \in PollType
      BY <1>3, <3>2 DEF ImageAnswers
    <3> QED BY <1>3, <1>b, <1>c, <3>3 DEF ImageAnswers
  <2>2. PollSound'
    BY <1>3 DEF ImageAnswers, Resuming, RadarTypeOK, PollSound
  <2>3. ScanSound'
    BY <1>3, <1>0 DEF ImageAnswers
  <2> QED BY <2>1, <2>2, <2>3
<1>4. CASE ResumeAnswers
  <2>1. RadarTypeOK'
    <3>1. iem \in 0 .. MaxScan /\ poll.off \in 0 .. Parts /\ poll.attempt \in 1 .. MaxAttempts /\ 1 \in 1 .. MaxAttempts
      BY <1>b DEF PollType
    <3>2. [poll EXCEPT !.st = "stream", !.src = iem, !.before = poll.off] \in PollType
      BY <1>b, <3>1, Zenon DEF PollType
    <3>3. poll.attempt < MaxAttempts => poll.attempt + 1 \in 1 .. MaxAttempts
      BY <3>1
    <3>4. poll' \in PollType
      BY <1>4, <3>1, <3>2, <3>3, AskingTyped DEF ResumeAnswers
    <3> QED BY <1>4, <1>b, <1>c, <3>4 DEF ResumeAnswers
  <2>2. PollSound'
    BY <1>4 DEF ResumeAnswers, Resuming, Asking, Idle, RadarTypeOK, PollSound
  <2>3. ScanSound'
    BY <1>4, <1>0 DEF ResumeAnswers
  <2> QED BY <2>1, <2>2, <2>3
<1>5. CASE PartArrives
  <2>1. RadarTypeOK'
    <3>1. poll.off + 1 \in 0 .. Parts /\ poll.got \cup {poll.src} \subseteq 1 .. MaxScan
      BY <1>5, <1>b DEF PartArrives, PollType, PollSound
    <3>2. [poll EXCEPT !.st = "write", !.off = poll.off + 1, !.got = poll.got \cup {poll.src}] \in PollType
      BY <1>b, <3>1, Zenon DEF PollType
    <3>3. [poll EXCEPT !.st = "settle"] \in PollType
      BY <1>b, Zenon DEF PollType
    <3>4. poll' \in PollType
      BY <1>5, <3>2, <3>3 DEF PartArrives
    <3> QED BY <1>5, <1>b, <1>c, <3>4 DEF PartArrives
  <2>2. PollSound'
    BY <1>5 DEF PartArrives, RadarTypeOK, PollSound
  <2>3. ScanSound'
    BY <1>5, <1>0 DEF PartArrives
  <2> QED BY <2>1, <2>2, <2>3
<1>6. CASE WriteDone
  <2>1. RadarTypeOK'
    BY <1>6 DEF WriteDone, RadarTypeOK, PollSound
  <2>2. PollSound'
    BY <1>6 DEF WriteDone, RadarTypeOK, PollSound
  <2>3. ScanSound'
    BY <1>6, <1>0 DEF WriteDone
  <2> QED BY <2>1, <2>2, <2>3
<1>7. CASE Decodes
  <2>1. RadarTypeOK'
    <3>1. poll.rows + 1 \in 0 .. Parts
      BY <1>7, <1>b DEF Decodes, PollType
    <3>2. PICK p : p = [poll EXCEPT !.rows = poll.rows + 1]
      OBVIOUS
    <3>3. p \in PollType
      BY <1>b, <3>1, <3>2, Zenon DEF PollType
    <3>4. Settled(p, "whole") \in PollType
      BY <3>3, SettledTyped
    <3>5. poll' = IF p.rows = CropAt THEN Settled(p, "whole") ELSE p
      BY <1>7, <3>2 DEF Decodes
    <3> QED BY <1>7, <1>b, <1>c, <3>3, <3>4, <3>5 DEF Decodes
  <2>2. PollSound'
    BY <1>7 DEF Decodes, Settled, RadarTypeOK, PollSound
  <2>3. ScanSound'
    BY <1>7, <1>0 DEF Decodes
  <2> QED BY <2>1, <2>2, <2>3
<1>8. CASE StreamEnds
  <2>1. RadarTypeOK'
    BY <1>8 DEF StreamEnds, RadarTypeOK, PollSound
  <2>2. PollSound'
    BY <1>8 DEF StreamEnds, RadarTypeOK, PollSound
  <2>3. ScanSound'
    BY <1>8, <1>0 DEF StreamEnds
  <2> QED BY <2>1, <2>2, <2>3
<1>9. CASE ComesToNothing
  <2>1. RadarTypeOK'
    BY <1>9 DEF ComesToNothing, Idle, RadarTypeOK, PollSound
  <2>2. PollSound'
    BY <1>9 DEF ComesToNothing, Idle, RadarTypeOK, PollSound
  <2>3. ScanSound'
    BY <1>9, <1>0 DEF ComesToNothing
  <2> QED BY <2>1, <2>2, <2>3
<1>10. CASE CropTaken
  <2>1. RadarTypeOK'
    BY <1>10 DEF CropTaken, RadarTypeOK, PollSound
  <2>2. PollSound'
    BY <1>10 DEF CropTaken, RadarTypeOK, PollSound
  <2>3. ScanSound'
    BY <1>10, <1>0 DEF CropTaken
  <2> QED BY <2>1, <2>2, <2>3
<1>11. CASE Publishes
  <2>1. poll.got = {poll.src} /\ poll.src \in 1 .. MaxScan /\ poll.src >= poll.want /\ poll.want > 0
    BY <1>11 DEF Publishes, RadarTypeOK, PollSound
  <2>2. scan' = [time |-> poll.want, img |-> {poll.src}]
    BY <1>11, <2>1 DEF Publishes
  <2>3. ScanSound' /\ scan' \in [time : 0 .. MaxScan, img : SUBSET (1 .. MaxScan)]
    BY <2>1, <2>2 DEF ScanSound, RadarTypeOK
  <2> QED BY <1>11, <2>3 DEF Publishes, Idle, RadarTypeOK, PollSound
<1>12. CASE NewScan
  <2>1. RadarTypeOK'
    BY <1>12 DEF NewScan, RadarTypeOK, PollSound
  <2>2. PollSound'
    BY <1>12 DEF NewScan, RadarTypeOK, PollSound
  <2>3. ScanSound'
    BY <1>12 DEF NewScan, ScanSound
  <2> QED BY <2>1, <2>2, <2>3
<1>13. CASE StreamResets
  <2>1. RadarTypeOK'
    <3>1. poll.resumes < MaxResumes => poll.resumes + 1 \in 0 .. MaxResumes
      BY <1>b DEF PollType
    <3>2. poll.resumes < MaxResumes => [poll EXCEPT !.st = "image", !.resumes = poll.resumes + 1] \in PollType
      BY <1>b, <3>1, Zenon DEF PollType
    <3>3. poll' \in PollType
      BY <1>13, <3>2, AskingTyped DEF StreamResets
    <3>4. faults' \in 0 .. MaxFails
      BY <1>13, <1>b DEF StreamResets
    <3> QED BY <1>13, <1>c, <3>3, <3>4 DEF StreamResets
  <2>2. PollSound'
    BY <1>13 DEF StreamResets, Idle, RadarTypeOK, PollSound
  <2>3. ScanSound'
    BY <1>13, <1>0 DEF StreamResets
  <2> QED BY <2>1, <2>2, <2>3
<1>14. CASE BadData
  <2>1. RadarTypeOK'
    <3>1. poll' \in PollType
      BY <1>14, <1>b, SettledTyped DEF BadData
    <3>2. faults' \in 0 .. MaxFails
      BY <1>14, <1>b DEF BadData
    <3> QED BY <1>14, <1>c, <3>1, <3>2 DEF BadData
  <2>2. PollSound'
    BY <1>14 DEF BadData, Settled, RadarTypeOK, PollSound
  <2>3. ScanSound'
    BY <1>14, <1>0 DEF BadData
  <2> QED BY <2>1, <2>2, <2>3
<1>15. CASE StopsShort
  <2>1. RadarTypeOK'
    BY <1>15 DEF StopsShort, RadarTypeOK, PollSound
  <2>2. PollSound'
    BY <1>15 DEF StopsShort, RadarTypeOK, PollSound
  <2>3. ScanSound'
    BY <1>15, <1>0 DEF StopsShort
  <2> QED BY <2>1, <2>2, <2>3
<1>16. CASE NoAnswer
  <2>1. RadarTypeOK'
    BY <1>16 DEF NoAnswer, Idle, RadarTypeOK, PollSound
  <2>2. PollSound'
    BY <1>16 DEF NoAnswer, Idle, RadarTypeOK, PollSound
  <2>3. ScanSound'
    BY <1>16, <1>0 DEF NoAnswer
  <2> QED BY <2>1, <2>2, <2>3
<1>17. CASE UNCHANGED radarVars
  <2>1. RadarTypeOK'
    BY <1>17 DEF radarVars, RadarTypeOK, PollSound
  <2>2. PollSound'
    BY <1>17 DEF radarVars, RadarTypeOK, PollSound
  <2>3. ScanSound'
    BY <1>17, <1>0 DEF radarVars
  <2> QED BY <2>1, <2>2, <2>3
<1> QED BY <1>1, <1>2, <1>3, <1>4, <1>5, <1>6, <1>7, <1>8, <1>9, <1>10, <1>11, <1>12, <1>13, <1>14, <1>15, <1>16, <1>17
      DEF RadarFeedNext, Works

\* What the invariant says of the scan kept is that its picture is one image's.
LEMMA RadarIsWhole == RadarInv => WholeImage
<1> SUFFICES ASSUME RadarInv PROVE WholeImage
  OBVIOUS
<1>1. CASE scan.time = 0
  BY <1>1, FS_EmptySet DEF RadarInv, ScanSound, WholeImage
<1>2. CASE scan.time # 0
  <2>1. PICK i \in 1 .. MaxScan : scan.img = {i} /\ i >= scan.time
    BY <1>2 DEF RadarInv, ScanSound
  <2>2. Cardinality(scan.img) = 1
    BY <2>1, FS_Singleton
  <2> QED BY <1>2, <2>1, <2>2 DEF WholeImage
<1> QED BY <1>1, <1>2

\* Type correctness of the radar poll (RadarFeed.ts, pngIndexed.ts).
THEOREM RadarTypes == RadarFeedSpec => []RadarTypeOK
<1>1. RadarInv => RadarTypeOK
  BY DEF RadarInv
<1> QED BY InitRadar, NextRadar, <1>1, PTL DEF RadarFeedSpec

\* However many parts, resumes and attempts there may be and whenever a newer image takes the
\* file's place: the picture is cut from one image, at least as new as the time it goes by.
THEOREM ImageTheorem == RadarFeedSpec => []WholeImage
BY InitRadar, NextRadar, RadarIsWhole, PTL DEF RadarFeedSpec

(***************************************************************************)
(* Proofs about the lightning poll: what fails between a listing and its     *)
(* last download costs no file that could still be had, and tells none twice. *)
(***************************************************************************)

LightningTypeOK ==
  /\ goes \in Nat /\ told \in Seq(Nat) /\ passed \subseteq Nat /\ strikes \in Nat
  /\ glm \in [st : {"idle", "list", "files"}, last : Nat, after : Nat, keys : Seq(Nat), fresh : Seq(Nat)]

\* What is to come follows what was taken without a gap, but for what was passed over; and what
\* is listed is published.
KeysFollow ==
  /\ glm.last <= goes /\ glm.after <= goes
  /\ glm.st = "list" => glm.after >= glm.last
  /\ glm.st # "files" => glm.keys = <<>> /\ glm.fresh = <<>>
  /\ \A n \in 1 .. Len(glm.keys) : glm.last < glm.keys[n] /\ glm.keys[n] <= goes
  /\ \A n \in 1 .. Len(glm.keys) : glm.keys[n] = glm.keys[1] + n - 1
  /\ glm.keys # <<>> => \A k \in glm.last + 1 .. glm.keys[1] - 1 : k \in passed

\* What is fresh is newer than what was told, and both are behind the feed.
InTurn ==
  /\ \A i, j \in 1 .. Len(told) : i < j => told[i] < told[j]
  /\ \A i, j \in 1 .. Len(glm.fresh) : i < j => glm.fresh[i] < glm.fresh[j]
  /\ \A i \in 1 .. Len(told) : told[i] <= glm.last
  /\ \A n \in 1 .. Len(glm.fresh) : glm.fresh[n] <= glm.last
  /\ \A i \in 1 .. Len(told), n \in 1 .. Len(glm.fresh) : told[i] < glm.fresh[n]

Fresh == {glm.fresh[n] : n \in 1 .. Len(glm.fresh)}

\* A file behind the feed is accounted for.
NoneLost == \A k \in 1 .. glm.last : k \in ToldFiles \cup passed \cup Fresh

LightningInv == LightningTypeOK /\ KeysFollow /\ InTurn /\ NoneLost

\* An index of two sequences joined is an index of the first, or of the second.
LEMMA Joined ==
  ASSUME NEW s \in Seq(Nat), NEW t \in Seq(Nat)
  PROVE  /\ s \o t \in Seq(Nat) /\ Len(s \o t) = Len(s) + Len(t) /\ Len(s) \in Nat /\ Len(t) \in Nat
         /\ \A i \in 1 .. Len(s \o t) : \/ i \in 1 .. Len(s) /\ (s \o t)[i] = s[i]
                                        \/ i - Len(s) \in 1 .. Len(t) /\ (s \o t)[i] = t[i - Len(s)]
<1>1. /\ s \o t \in Seq(Nat) /\ Len(s \o t) = Len(s) + Len(t) /\ Len(s) \in Nat /\ Len(t) \in Nat
      /\ \A i \in 1 .. Len(s) + Len(t) : (s \o t)[i] = IF i <= Len(s) THEN s[i] ELSE t[i - Len(s)]
  BY ConcatProperties
<1>2. \A i \in 1 .. Len(s \o t) : \/ i \in 1 .. Len(s) /\ (s \o t)[i] = s[i]
                                  \/ i - Len(s) \in 1 .. Len(t) /\ (s \o t)[i] = t[i - Len(s)]
  <2> TAKE i \in 1 .. Len(s \o t)
  <2>1. (s \o t)[i] = IF i <= Len(s) THEN s[i] ELSE t[i - Len(s)]
    BY <1>1
  <2>2. i <= Len(s) => i \in 1 .. Len(s)
    BY <1>1
  <2>3. ~(i <= Len(s)) => i - Len(s) \in 1 .. Len(t)
    BY <1>1
  <2>4. CASE i <= Len(s)
    <3>1. (s \o t)[i] = s[i]
      BY <2>1, <2>4, Zenon
    <3> QED BY <2>2, <2>4, <3>1
  <2>5. CASE ~(i <= Len(s))
    <3>1. (s \o t)[i] = t[i - Len(s)]
      BY <2>1, <2>5, Zenon
    <3> QED BY <2>3, <2>5, <3>1
  <2> QED BY <2>4, <2>5
<1> QED BY <1>1, <1>2

\* Before the first poll nothing is listed, fresh or told.
LEMMA InitLightning == LightningInit => LightningInv
BY LightningFeedAssumption DEF LightningFeedAssumption, LightningInit, LightningInv, LightningTypeOK, KeysFollow, InTurn, NoneLost

\* A poll that lists what there is.
LEMMA ListsInv == LightningInv /\ ListsFiles => LightningInv'
<1> SUFFICES ASSUME LightningInv, ListsFiles PROVE LightningInv'
  OBVIOUS
<1> DEFINE first == Later(glm.after, goes - MaxCatchup) + 1
<1> USE DEF LightningInv
<1>1. MaxCatchup \in Nat \ {0} /\ first \in Nat /\ first > glm.last /\ goes - first + 1 \in Nat
  <2>1. MaxCatchup \in Nat \ {0} /\ glm.after \in Nat /\ glm.last \in Nat /\ goes \in Nat
    BY LightningFeedAssumption DEF LightningFeedAssumption, LightningTypeOK
  <2>2. glm.last <= glm.after /\ glm.after <= goes
    BY DEF KeysFollow, ListsFiles
  <2> QED BY <2>1, <2>2 DEF Later
<1>2. /\ glm.st = "list" /\ UNCHANGED <<goes, told, strikes>>
      /\ glm' = [glm EXCEPT !.st = "files", !.keys = [n \in 1 .. (goes - first + 1) |-> first + n - 1]]
      /\ passed' = passed \cup ((glm.last + 1) .. (first - 1))
  BY DEF ListsFiles
<1> HIDE DEF first
<1>3. PICK ks : ks = [n \in 1 .. (goes - first + 1) |-> first + n - 1]
  OBVIOUS
<1>4. ks \in Seq(Nat) /\ Len(ks) = goes - first + 1 /\ \A n \in 1 .. Len(ks) : ks[n] = first + n - 1
  <2>1. ks \in [1 .. (goes - first + 1) -> Nat]
    BY <1>1, <1>3
  <2> QED BY <1>1, <1>3, <2>1
<1>5. glm'.st = "files" /\ glm'.keys = ks /\ glm'.last = glm.last /\ glm'.fresh = glm.fresh /\ glm'.after = glm.after
  BY <1>2, <1>3 DEF LightningTypeOK
<1>6. LightningTypeOK'
  <2>1. glm' \in [st : {"idle", "list", "files"}, last : Nat, after : Nat, keys : Seq(Nat), fresh : Seq(Nat)]
    BY <1>2, <1>3, <1>4, Zenon DEF LightningTypeOK
  <2>2. passed' \subseteq Nat
    BY SMTT(60), <1>1, <1>2 DEF LightningTypeOK
  <2> QED BY <1>2, <2>1, <2>2 DEF LightningTypeOK
<1>7. KeysFollow'
  <2>1. /\ glm.last \in Nat /\ goes \in Nat /\ glm.last <= goes /\ glm.after <= goes /\ passed' \subseteq Nat
    BY <1>6 DEF KeysFollow, LightningTypeOK
  <2>2. \A n \in 1 .. Len(ks) : glm.last < ks[n] /\ ks[n] <= goes
    BY SMTT(60), <1>1, <1>4, <2>1
  <2>3. \A n \in 1 .. Len(ks) : ks[n] = ks[1] + n - 1
    BY <1>1, <1>4
  <2>4. ks # <<>> => ks[1] = first
    BY <1>1, <1>4
  <2>5. ks # <<>> => \A k \in glm.last + 1 .. ks[1] - 1 : k \in passed'
    BY <1>2, <2>4
  <2> QED BY <1>2, <1>5, <2>1, <2>2, <2>3, <2>5 DEF KeysFollow
<1>8. InTurn'
  BY <1>2, <1>5 DEF InTurn
<1>9. NoneLost'
  <2>1. ToldFiles' = ToldFiles /\ Fresh' = Fresh
    BY <1>2, <1>5 DEF ToldFiles, Fresh
  <2> QED BY <1>2, <1>5, <2>1 DEF NoneLost
<1> QED BY <1>6, <1>7, <1>8, <1>9

\* A file taken or passed over: the next in turn.
LEMMA OneBehind ==
  ASSUME LightningInv, glm.st = "files", glm.keys # <<>>, glm'.last = Head(glm.keys), glm'.keys = Tail(glm.keys),
         glm'.st = glm.st, glm'.after = glm.after, UNCHANGED <<goes, told>>, passed \subseteq passed'
  PROVE  /\ KeysFollow' /\ glm.keys[1] = glm'.last /\ glm'.last \in Nat /\ glm'.keys \in Seq(Nat)
         /\ glm'.last > glm.last /\ \A k \in glm.last + 1 .. glm'.last - 1 : k \in passed
<1> USE DEF LightningInv
<1>1. glm.keys \in Seq(Nat) /\ Len(glm.keys) \in Nat \ {0} /\ glm.keys[1] = Head(glm.keys) /\ glm.keys[1] \in Nat
  BY DEF LightningTypeOK
<1>2. /\ Tail(glm.keys) \in Seq(Nat) /\ Len(Tail(glm.keys)) = Len(glm.keys) - 1
      /\ \A n \in 1 .. Len(glm.keys) - 1 : Tail(glm.keys)[n] = glm.keys[n + 1]
  BY <1>1
<1>3. glm.last \in Nat /\ goes \in Nat
  BY DEF LightningTypeOK
<1>4. /\ glm.last <= goes /\ glm.after <= goes /\ glm.last < glm.keys[1] /\ glm.keys[1] <= goes
      /\ \A n \in 1 .. Len(glm.keys) : glm.keys[n] = glm.keys[1] + n - 1 /\ glm.keys[n] <= goes
      /\ \A k \in glm.last + 1 .. glm.keys[1] - 1 : k \in passed
  BY <1>1 DEF KeysFollow
<1>5. \A n \in 1 .. Len(glm'.keys) :
        glm'.last < glm'.keys[n] /\ glm'.keys[n] <= goes' /\ glm'.keys[n] = glm'.keys[1] + n - 1
  BY SMTT(60), <1>1, <1>2, <1>4
<1>6. glm'.keys # <<>> => glm'.keys[1] = glm'.last + 1
  BY <1>1, <1>2, <1>4
<1>7. KeysFollow'
  <2>1. glm'.last = glm.keys[1] /\ glm'.last \in Nat
    BY <1>1
  <2>2. glm'.keys # <<>> => \A k \in glm'.last + 1 .. glm'.keys[1] - 1 : k \in passed'
    BY SMTT(60), <1>6, <2>1
  <2>3. glm'.last <= goes' /\ glm'.after <= goes' /\ glm'.st = "files"
    BY <1>4, <2>1
  <2> QED BY <1>5, <2>2, <2>3 DEF KeysFollow
<1> QED BY <1>1, <1>2, <1>4, <1>7

\* A good file is fresh.
LEMMA TakesInv == LightningInv /\ TakesFile => LightningInv'
<1> SUFFICES ASSUME LightningInv, TakesFile PROVE LightningInv'
  OBVIOUS
<1> USE DEF LightningInv
<1>1. /\ glm.st = "files" /\ glm.keys # <<>> /\ UNCHANGED <<goes, told, passed, strikes>>
      /\ glm' = [glm EXCEPT !.last = Head(glm.keys), !.keys = Tail(glm.keys), !.fresh = Append(glm.fresh, Head(glm.keys))]
  BY DEF TakesFile
<1>2. /\ glm'.st = glm.st /\ glm'.after = glm.after /\ glm'.last = Head(glm.keys) /\ glm'.keys = Tail(glm.keys)
      /\ glm'.fresh = Append(glm.fresh, Head(glm.keys))
  BY <1>1 DEF LightningTypeOK
<1>3. /\ KeysFollow' /\ glm.keys[1] = glm'.last /\ glm'.last \in Nat /\ glm'.keys \in Seq(Nat)
      /\ glm'.last > glm.last /\ \A k \in glm.last + 1 .. glm'.last - 1 : k \in passed
  BY <1>1, <1>2, OneBehind
<1>4. /\ glm.fresh \in Seq(Nat) /\ glm'.fresh \in Seq(Nat) /\ Len(glm'.fresh) = Len(glm.fresh) + 1
      /\ \A n \in 1 .. Len(glm.fresh) : glm'.fresh[n] = glm.fresh[n]
      /\ glm'.fresh[Len(glm.fresh) + 1] = glm'.last
  BY <1>2, <1>3 DEF LightningTypeOK
<1>5. LightningTypeOK'
  <2>1. glm' \in [st : {"idle", "list", "files"}, last : Nat, after : Nat, keys : Seq(Nat), fresh : Seq(Nat)]
    <3>1. Head(glm.keys) \in Nat /\ Tail(glm.keys) \in Seq(Nat) /\ Append(glm.fresh, Head(glm.keys)) \in Seq(Nat)
      BY <1>2, <1>3, <1>4
    <3> QED BY <1>1, <3>1, Zenon DEF LightningTypeOK
  <2> QED BY <1>1, <2>1 DEF LightningTypeOK
<1>6. InTurn'
  <2>1. told \in Seq(Nat) /\ Len(told) \in Nat /\ Len(glm.fresh) \in Nat /\ glm.last \in Nat /\ \A i \in 1 .. Len(told) : told[i] \in Nat
    BY SMTT(60), <1>4 DEF LightningTypeOK
  <2>2. \A n \in 1 .. Len(glm.fresh) : glm.fresh[n] \in Nat
    BY SMTT(60), <1>4
  <2>3. \A n \in 1 .. Len(glm'.fresh) : \/ n \in 1 .. Len(glm.fresh) /\ glm'.fresh[n] = glm.fresh[n]
                                        \/ n = Len(glm.fresh) + 1 /\ glm'.fresh[n] = glm'.last
    BY SMTT(60), <1>4, <2>1
  <2>4. \A n \in 1 .. Len(glm'.fresh) : glm'.fresh[n] <= glm'.last
    <3>1. \A n \in 1 .. Len(glm.fresh) : glm.fresh[n] <= glm.last
      BY DEF InTurn
    <3>2. TAKE n \in 1 .. Len(glm'.fresh)
    <3>3. CASE n \in 1 .. Len(glm.fresh) /\ glm'.fresh[n] = glm.fresh[n]
      <4>1. glm.fresh[n] <= glm.last /\ glm.fresh[n] \in Nat /\ glm.last \in Nat
        BY <2>1, <2>2, <3>1, <3>3
      <4>2. glm'.last \in Nat /\ glm'.last > glm.last
        BY <1>3
      <4> QED BY <3>3, <4>1, <4>2
    <3>4. CASE n = Len(glm.fresh) + 1 /\ glm'.fresh[n] = glm'.last
      <4>1. glm'.last \in Nat
        BY <1>3
      <4> QED BY <3>4, <4>1
    <3> QED BY <2>3, <3>3, <3>4
  <2>5. \A i \in 1 .. Len(told') : told'[i] <= glm'.last
    BY SMTT(60), <1>1, <1>3, <2>1 DEF InTurn
  <2>6. \A i \in 1 .. Len(told'), n \in 1 .. Len(glm'.fresh) : told'[i] < glm'.fresh[n]
    BY <1>1, <1>3, <2>1, <2>2, <2>3, SMTT(30) DEF InTurn
  <2>7. \A i, j \in 1 .. Len(glm'.fresh) : i < j => glm'.fresh[i] < glm'.fresh[j]
    <3> SUFFICES ASSUME NEW i \in 1 .. Len(glm'.fresh), NEW j \in 1 .. Len(glm'.fresh), i < j
                 PROVE glm'.fresh[i] < glm'.fresh[j]
      OBVIOUS
    <3>1. i \in 1 .. Len(glm.fresh) /\ glm'.fresh[i] = glm.fresh[i]
      BY <1>4, <2>1, SMTT(30)
    <3>2. CASE j \in 1 .. Len(glm.fresh)
      <4>1. j # Len(glm.fresh) + 1
        BY <2>1, <3>2
      <4> QED BY <2>3, <3>1, <3>2, <4>1 DEF InTurn
    <3>3. CASE j = Len(glm.fresh) + 1
      <4>1. glm.fresh[i] <= glm.last /\ glm.fresh[i] \in Nat
        BY <2>2, <3>1 DEF InTurn
      <4>2. glm'.last \in Nat /\ glm'.last > glm.last /\ glm.last \in Nat
        BY <1>3, <2>1
      <4>3. glm'.fresh[j] = glm'.last
        BY <1>4, <3>3
      <4> QED BY SMTT(60), <3>1, <4>1, <4>2, <4>3
    <3> QED BY <2>3, <3>2, <3>3
  <2> QED BY <1>1, <2>4, <2>5, <2>6, <2>7 DEF InTurn
<1>7. NoneLost'
  <2>1. Fresh' = Fresh \cup {glm'.last} /\ ToldFiles' = ToldFiles
    BY <1>1, <1>4 DEF Fresh, ToldFiles
  <2>2. glm.last \in Nat
    BY DEF LightningTypeOK
  <2>3. ASSUME NEW k \in 1 .. glm'.last PROVE k \in 1 .. glm.last \/ k \in glm.last + 1 .. glm'.last - 1 \/ k = glm'.last
    BY <1>3, <2>2
  <2> QED BY <1>1, <1>3, <2>1, <2>3 DEF NoneLost
<1> QED BY <1>3, <1>5, <1>6, <1>7

\* A bad one is passed over.
LEMMA BadInv == LightningInv /\ BadFile => LightningInv'
<1> SUFFICES ASSUME LightningInv, BadFile PROVE LightningInv'
  OBVIOUS
<1> USE DEF LightningInv
<1>1. /\ glm.st = "files" /\ glm.keys # <<>> /\ UNCHANGED <<goes, told>>
      /\ passed' = passed \cup {Head(glm.keys)} /\ strikes > 0 /\ strikes' = strikes - 1
      /\ glm' = [glm EXCEPT !.last = Head(glm.keys), !.keys = Tail(glm.keys)]
  BY DEF BadFile
<1>2. /\ glm'.st = glm.st /\ glm'.after = glm.after /\ glm'.last = Head(glm.keys) /\ glm'.keys = Tail(glm.keys)
      /\ glm'.fresh = glm.fresh
  BY <1>1 DEF LightningTypeOK
<1>3. /\ KeysFollow' /\ glm'.last \in Nat /\ glm'.keys \in Seq(Nat)
      /\ glm'.last > glm.last /\ \A k \in glm.last + 1 .. glm'.last - 1 : k \in passed
  BY <1>1, <1>2, OneBehind
<1>4. LightningTypeOK'
  <2>1. glm' \in [st : {"idle", "list", "files"}, last : Nat, after : Nat, keys : Seq(Nat), fresh : Seq(Nat)]
    <3>1. Head(glm.keys) \in Nat /\ Tail(glm.keys) \in Seq(Nat)
      BY <1>2, <1>3
    <3> QED BY <1>1, <3>1, Zenon DEF LightningTypeOK
  <2>2. passed' \subseteq Nat /\ strikes' \in Nat
    BY <1>1, <1>2, <1>3 DEF LightningTypeOK
  <2> QED BY <1>1, <2>1, <2>2 DEF LightningTypeOK
<1>5. InTurn'
  <2>1. told \in Seq(Nat) /\ glm.fresh \in Seq(Nat) /\ glm.last \in Nat
    BY DEF LightningTypeOK
  <2>2. \A i \in 1 .. Len(told) : told[i] \in Nat
    BY <2>1
  <2>3. \A n \in 1 .. Len(glm.fresh) : glm.fresh[n] \in Nat
    BY SMTT(60), <2>1
  <2>4. (\A i \in 1 .. Len(told) : told[i] <= glm'.last) /\ \A n \in 1 .. Len(glm.fresh) : glm.fresh[n] <= glm'.last
    BY SMTT(60), <1>3, <2>1, <2>2, <2>3 DEF InTurn
  <2> QED BY <1>1, <1>2, <2>4 DEF InTurn
<1>6. NoneLost'
  <2>1. Fresh' = Fresh /\ ToldFiles' = ToldFiles
    BY <1>1, <1>2 DEF Fresh, ToldFiles
  <2>2. glm.last \in Nat /\ glm'.last = Head(glm.keys)
    BY <1>2 DEF LightningTypeOK
  <2>3. ASSUME NEW k \in 1 .. glm'.last PROVE k \in 1 .. glm.last \/ k \in glm.last + 1 .. glm'.last - 1 \/ k = glm'.last
    BY <1>3, <2>2
  <2> QED BY <1>1, <1>3, <2>1, <2>2, <2>3 DEF NoneLost
<1> QED BY <1>3, <1>4, <1>5, <1>6

\* What is fresh is told after what was told.
LEMMA AnnouncesInv == LightningInv /\ Announces => LightningInv'
<1> SUFFICES ASSUME LightningInv, Announces PROVE LightningInv'
  OBVIOUS
<1> USE DEF LightningInv
<1>1. /\ glm.keys = <<>> /\ told' = told \o glm.fresh /\ UNCHANGED <<goes, passed, strikes>>
      /\ glm' = [glm EXCEPT !.st = "idle", !.fresh = <<>>, !.after = 0]
  BY DEF Announces
<1>2. glm'.st = "idle" /\ glm'.fresh = <<>> /\ glm'.after = 0 /\ glm'.keys = <<>> /\ glm'.last = glm.last
  BY <1>1 DEF LightningTypeOK
<1>3. told \in Seq(Nat) /\ glm.fresh \in Seq(Nat)
  BY DEF LightningTypeOK
<1>a. /\ told' \in Seq(Nat) /\ Len(told') = Len(told) + Len(glm.fresh) /\ Len(told) \in Nat /\ Len(glm.fresh) \in Nat
      /\ \A i \in 1 .. Len(told') : \/ i \in 1 .. Len(told) /\ told'[i] = told[i]
                                    \/ i - Len(told) \in 1 .. Len(glm.fresh) /\ told'[i] = glm.fresh[i - Len(told)]
  BY <1>1, <1>3, Joined
<1>4. LightningTypeOK'
  <2>1. glm' \in [st : {"idle", "list", "files"}, last : Nat, after : Nat, keys : Seq(Nat), fresh : Seq(Nat)]
    <3>1. 0 \in Nat /\ <<>> \in Seq(Nat)
      OBVIOUS
    <3> QED BY <1>1, <3>1, Zenon DEF LightningTypeOK
  <2> QED BY <1>1, <1>a, <2>1 DEF LightningTypeOK
<1>5. KeysFollow'
  BY SMTT(60), <1>1, <1>2 DEF KeysFollow, LightningTypeOK
<1>7. InTurn'
  <2>1. ASSUME NEW i \in 1 .. Len(told'), NEW j \in 1 .. Len(told'), i < j PROVE told'[i] < told'[j]
    <3>1. CASE j \in 1 .. Len(told)
      <4>1. i \in 1 .. Len(told) /\ ~(i - Len(told) \in 1 .. Len(glm.fresh)) /\ ~(j - Len(told) \in 1 .. Len(glm.fresh))
        BY SMTT(60), <1>a, <2>1, <3>1
      <4> QED BY <1>a, <2>1, <3>1, <4>1 DEF InTurn
    <3>2. CASE j - Len(told) \in 1 .. Len(glm.fresh) /\ told'[j] = glm.fresh[j - Len(told)]
      <4>1. CASE i \in 1 .. Len(told) /\ told'[i] = told[i]
        BY <3>2, <4>1 DEF InTurn
      <4>2. CASE i - Len(told) \in 1 .. Len(glm.fresh) /\ told'[i] = glm.fresh[i - Len(told)]
        <5>1. i - Len(told) < j - Len(told)
          BY <1>a, <2>1
        <5> QED BY <3>2, <4>2, <5>1 DEF InTurn
      <4> QED BY <1>a, <4>1, <4>2
    <3> QED BY <1>a, <3>1, <3>2
  <2>2. \A i \in 1 .. Len(told') : told'[i] <= glm'.last
    BY <1>2, <1>a DEF InTurn
  <2> QED BY <1>2, <2>1, <2>2 DEF InTurn
<1>8. NoneLost'
  <2>1. ToldFiles \cup Fresh \subseteq ToldFiles'
    <3>1. ASSUME NEW n \in 1 .. Len(glm.fresh)
          PROVE  Len(told) + n \in 1 .. Len(told') /\ told'[Len(told) + n] = glm.fresh[n]
      <4>1. PICK i \in Nat : i = Len(told) + n
        BY <1>a
      <4>2. i \in 1 .. Len(told') /\ ~(i \in 1 .. Len(told)) /\ i - Len(told) = n
        BY SMTT(60), <1>a, <4>1
      <4>3. told'[i] = glm.fresh[i - Len(told)]
        BY <1>a, <4>2
      <4> QED BY <4>1, <4>2, <4>3
    <3>2. \A i \in 1 .. Len(told) : i \in 1 .. Len(told') /\ told'[i] = told[i]
      BY SMTT(60), <1>a
    <3> QED BY <3>1, <3>2 DEF ToldFiles, Fresh
  <2> QED BY <1>1, <1>2, <2>1 DEF NoneLost
<1> QED BY <1>4, <1>5, <1>7, <1>8

\* Every step of the poll keeps the order of the keys and of what is told, and loses no file.
LEMMA NextLightning == LightningInv /\ [LightningNext]_lightningVars => LightningInv'
<1> SUFFICES ASSUME LightningInv, [LightningNext]_lightningVars PROVE LightningInv'
  OBVIOUS
<1>1. CASE PollLightning
  <2> USE DEF LightningInv
  <2>1. Later(glm.last, goes - Window) \in Nat /\ glm.last <= Later(glm.last, goes - Window) /\ Later(glm.last, goes - Window) <= goes
    BY LightningFeedAssumption, SMTT(30) DEF LightningFeedAssumption, LightningTypeOK, KeysFollow, Later
  <2>2. glm' = [glm EXCEPT !.st = "list", !.after = Later(glm.last, goes - Window), !.fresh = <<>>] /\ UNCHANGED <<goes, told, passed, strikes>>
    BY <1>1 DEF PollLightning
  <2>3. glm.keys = <<>> /\ glm.fresh = <<>>
    BY <1>1 DEF PollLightning, KeysFollow
  <2>4. /\ glm'.st = "list" /\ glm'.after = Later(glm.last, goes - Window) /\ glm'.fresh = <<>> /\ glm'.keys = <<>>
        /\ glm'.last = glm.last
    BY <2>2, <2>3 DEF LightningTypeOK
  <2>5. LightningTypeOK'
    <3>1. glm' \in [st : {"idle", "list", "files"}, last : Nat, after : Nat, keys : Seq(Nat), fresh : Seq(Nat)]
      <4>1. <<>> \in Seq(Nat)
        OBVIOUS
      <4> QED BY <2>1, <2>2, <4>1, Zenon DEF LightningTypeOK
    <3> QED BY <2>2, <3>1 DEF LightningTypeOK
  <2>6. KeysFollow'
    BY <2>1, <2>2, <2>4 DEF KeysFollow
  <2>7. InTurn' /\ NoneLost'
    BY <2>2, <2>3, <2>4 DEF InTurn, NoneLost, ToldFiles, Fresh
  <2> QED BY <2>5, <2>6, <2>7
<1>2. CASE DownloadFails \/ ListFails
  <2> USE DEF LightningInv
  <2>1. /\ glm'.st = "files" /\ glm'.last = glm.last /\ glm'.after = glm.after /\ glm'.fresh = glm.fresh /\ glm'.keys = <<>>
        /\ UNCHANGED <<goes, told, passed>>
    BY <1>2 DEF DownloadFails, ListFails, LightningTypeOK
  <2>2. LightningTypeOK'
    <3>1. glm' \in [st : {"idle", "list", "files"}, last : Nat, after : Nat, keys : Seq(Nat), fresh : Seq(Nat)]
      <4>1. <<>> \in Seq(Nat)
        OBVIOUS
      <4>2. [glm EXCEPT !.keys = <<>>] \in [st : {"idle", "list", "files"}, last : Nat, after : Nat, keys : Seq(Nat), fresh : Seq(Nat)]
        BY <4>1, Zenon DEF LightningTypeOK
      <4>3. [glm EXCEPT !.st = "files", !.keys = <<>>] \in [st : {"idle", "list", "files"}, last : Nat, after : Nat, keys : Seq(Nat), fresh : Seq(Nat)]
        BY <4>1, Zenon DEF LightningTypeOK
      <4> QED BY <1>2, <4>2, <4>3 DEF DownloadFails, ListFails
    <3>2. strikes' \in Nat
      BY <1>2 DEF DownloadFails, ListFails, LightningTypeOK
    <3> QED BY <2>1, <3>1, <3>2 DEF LightningTypeOK
  <2>3. KeysFollow'
    BY <2>1 DEF KeysFollow
  <2>4. InTurn' /\ NoneLost'
    BY <2>1 DEF InTurn, NoneLost, ToldFiles, Fresh
  <2> QED BY <2>2, <2>3, <2>4
<1>3. CASE FilePublished
  <2>1. goes' = goes + 1 /\ goes \in Nat /\ UNCHANGED <<glm, told, passed, strikes>>
    BY <1>3 DEF FilePublished, LightningInv, LightningTypeOK
  <2>2. LightningTypeOK'
    BY <2>1 DEF LightningInv, LightningTypeOK
  <2>3. KeysFollow'
    BY SMTT(60), <2>1 DEF LightningInv, LightningTypeOK, KeysFollow
  <2> QED BY <2>1, <2>2, <2>3 DEF LightningInv, InTurn, NoneLost, ToldFiles, Fresh
<1>4. CASE UNCHANGED lightningVars
  BY <1>4 DEF lightningVars, LightningInv, LightningTypeOK, KeysFollow, InTurn, NoneLost, ToldFiles, Fresh
<1> QED BY <1>1, <1>2, <1>3, <1>4, ListsInv, TakesInv, BadInv, AnnouncesInv DEF LightningNext, FeedRuns

\* In turn and none lost is once and in order.
LEMMA LightningSound == LightningInv => StrikesOnceInOrder
BY DEF LightningInv, InTurn, NoneLost, StrikesOnceInOrder, Fresh

\* However many files come in whatever window, and whichever listing, download or file fails:
\* flashes are announced once and in order, and no file is lost (LightningFeed.ts:2-9, 112, 126).
THEOREM StrikesTheorem == LightningSpec => []StrikesOnceInOrder
BY InitLightning, NextLightning, LightningSound, PTL DEF LightningSpec

(***************************************************************************)
(* Proofs about the engine without the wideband helper: it never has two     *)
(* receivers on its one dongle, nor one it does not know of.                *)
(***************************************************************************)

RxFields == {"state", "auto", "list", "at", "stopping", "holding", "detector", "rtl", "sink", "hops",
             "dwelt", "restart", "procs"}

\* The record of the engine, and those of its processes.
Formed(s) ==
  /\ DOMAIN s = RxFields /\ s.rtl \in 0 .. MaxProcs /\ s.list \in Lists \cup {<<>>} /\ s.at \in Nat
  /\ DOMAIN s.procs = Procs /\ \A i \in Procs : DOMAIN s.procs[i] = {"st", "ch"}

\* The receiver it has is the only one up, on the channel of its place in the list; a restart that
\* waits is for that channel, and neither is there once it is stopped.
Knows(s) ==
  /\ \A i \in Procs : s.procs[i].st = "up" => s.rtl = i
  /\ s.rtl # 0 => /\ s.at \in 1 .. Len(s.list) /\ s.procs[s.rtl].ch = s.list[s.at] /\ s.restart = NoChannel
                  /\ s.state = "running" /\ s.procs[s.rtl].st \in {"up", "exited"}
  /\ s.restart # NoChannel => s.at \in 1 .. Len(s.list) /\ s.restart = s.list[s.at] /\ s.state = "running"
  /\ s.stopping => s.state = "stopped"
  /\ s.hops => s.rtl # 0

\* Nothing of it is up.
Silent(s) == s.rtl = 0 /\ ~s.hops /\ \A i \in Procs : s.procs[i].st # "up"

RxSound(s) == Formed(s) /\ Knows(s)

\* A list is a sequence whose entries are channels.
LEMMA ListFact == ASSUME NEW list \in Lists \cup {<<>>}
                  PROVE  /\ Len(list) \in Nat /\ DOMAIN list = 1 .. Len(list)
                         /\ \A i \in 1 .. Len(list) : list[i] # NoChannel
BY RtlFmAssumption DEF RtlFmAssumption

\* killChildren() leaves no process up and none known.
LEMMA KillSilences ==
  ASSUME NEW s, RxSound(s) PROVE /\ Formed(KillChildren(s)) /\ Silent(KillChildren(s))
                                 /\ \A f \in RxFields \ {"rtl", "hops", "sink", "procs"} : KillChildren(s)[f] = s[f]
<1> DEFINE r == KillChildren(s)
<1>1. MaxProcs \in Nat
  BY RtlFmAssumption DEF RtlFmAssumption
<1>2. /\ DOMAIN r = RxFields /\ r.rtl = 0 /\ r.hops = FALSE
      /\ r.procs = [i \in Procs |-> IF i = s.rtl /\ s.procs[i].st = "up" THEN [s.procs[i] EXCEPT !.st = "killed"] ELSE s.procs[i]]
      /\ \A f \in RxFields \ {"rtl", "hops", "sink", "procs"} : r[f] = s[f]
  BY ZenonT(60) DEF RxSound, Formed, RxFields, KillChildren
<1> HIDE DEF r
<1>3. DOMAIN r.procs = Procs /\ \A i \in Procs : DOMAIN r.procs[i] = {"st", "ch"}
  BY <1>2 DEF RxSound, Formed
<1>4. \A i \in Procs : r.procs[i].st # "up"
  BY <1>2 DEF RxSound, Formed, Knows
<1>5. r.list = s.list /\ r.at = s.at
  BY <1>2 DEF RxFields
<1>6. Formed(r) /\ Silent(r)
  BY <1>1, <1>2, <1>3, <1>4, <1>5 DEF RxSound, Formed, Silent
<1> QED BY <1>2, <1>6 DEF r

\* A spawn when nothing is up leaves one process up, the one that is known.
LEMMA SpawnSound ==
  ASSUME NEW s, Formed(s), Silent(s), s.restart = NoChannel, s.state = "running", ~s.stopping,
         s.at \in 1 .. Len(s.list), NEW ch, ch = s.list[s.at], Free(s) # {}
  PROVE  RxSound(SpawnForChannel(s, ch))
<1> DEFINE r == SpawnForChannel(s, ch)
<1>1. PICK i : i = CHOOSE n \in Free(s) : TRUE
  OBVIOUS
<1>2. i \in Free(s)
  BY <1>1
<1>3. i \in 1 .. MaxProcs /\ MaxProcs \in Nat
  BY <1>2, RtlFmAssumption DEF Free, Procs, RtlFmAssumption
<1>4. r = [s EXCEPT !.holding = FALSE, !.detector = "shut", !.dwelt = FALSE, !.sink = TRUE,
                    !.rtl = i, !.procs[i] = [st |-> "up", ch |-> ch], !.hops = Len(s.list) > 1]
  BY <1>1 DEF SpawnForChannel
<1>5. /\ DOMAIN r = RxFields /\ r.rtl = i /\ r.procs = [s.procs EXCEPT ![i] = [st |-> "up", ch |-> ch]]
      /\ r.list = s.list /\ r.at = s.at /\ r.restart = s.restart /\ r.state = s.state /\ r.stopping = s.stopping
  BY <1>4 DEF Formed, RxFields
<1> HIDE DEF r
<1>6. /\ DOMAIN r.procs = Procs /\ r.procs[i] = [st |-> "up", ch |-> ch]
      /\ \A j \in Procs : j # i => r.procs[j] = s.procs[j]
  BY <1>3, <1>5 DEF Formed, Procs
<1>7. Formed(r)
  BY <1>3, <1>5, <1>6 DEF Formed
<1>8. Knows(r)
  BY <1>3, <1>5, <1>6 DEF Knows, Silent
<1> QED BY <1>7, <1>8 DEF RxSound, r

\* A hop ends the process there is before it spawns the next channel's.
LEMMA HopSound ==
  ASSUME NEW s, RxSound(s), s.rtl # 0, Free(s) # {} PROVE RxSound(Hopped(s))
<1> DEFINE q == KillChildren(s)
           next == (s.at % Len(s.list)) + 1
<1>1. next \in 1 .. Len(s.list)
  <2>1. s.at \in 1 .. Len(s.list) /\ Len(s.list) \in Nat
    BY ListFact DEF RxSound, Formed, Knows
  <2> QED BY <2>1
<1> HIDE DEF next
<1>2. /\ Formed(q) /\ Silent(q) /\ q.list = s.list /\ q.restart = NoChannel /\ q.state = "running" /\ ~q.stopping
  BY KillSilences DEF RxFields, RxSound, Knows
<1>3. Free(s) \subseteq Free(q)
  BY DEF KillChildren, Free, RxSound, Formed, RxFields
<1> HIDE DEF q
<1>4. PICK p : p = [q EXCEPT !.at = next]
  OBVIOUS
<1>5. /\ DOMAIN p = RxFields /\ p.rtl = q.rtl /\ p.hops = q.hops /\ p.procs = q.procs /\ p.list = q.list /\ p.at = next
      /\ p.restart = q.restart /\ p.state = q.state /\ p.stopping = q.stopping
  BY <1>2, <1>4 DEF Formed, RxFields
<1>6. Formed(p) /\ Silent(p) /\ Free(p) # {}
  BY <1>1, <1>2, <1>3, <1>5 DEF Formed, Silent, Free
<1>7. RxSound(SpawnForChannel(p, s.list[next]))
  BY <1>1, <1>2, <1>5, <1>6, SpawnSound
<1> QED BY <1>4, <1>7 DEF Hopped, q, next

\* stop() leaves no process up, none known and no restart to come.
LEMMA StopSound == ASSUME NEW s, RxSound(s)
                   PROVE  /\ RxSound(Stopped(s)) /\ Silent(Stopped(s)) /\ Stopped(s).restart = NoChannel
                          /\ Stopped(s).state = "stopped"
<1>1. PICK q : q = KillChildren(s)
  OBVIOUS
<1>2. Formed(q) /\ Silent(q)
  BY <1>1, KillSilences
<1>3. PICK r : r = [q EXCEPT !.stopping = TRUE, !.restart = NoChannel, !.detector = "none",
                             !.holding = FALSE, !.state = "stopped"]
  OBVIOUS
<1>4. /\ DOMAIN r = RxFields /\ r.rtl = q.rtl /\ r.hops = q.hops /\ r.procs = q.procs /\ r.list = q.list /\ r.at = q.at
      /\ r.restart = NoChannel /\ r.state = "stopped"
  BY <1>2, <1>3 DEF Formed, RxFields
<1>5. Formed(r) /\ Knows(r) /\ Silent(r)
  BY <1>2, <1>4 DEF Formed, Knows, Silent
<1> QED BY <1>1, <1>3, <1>4, <1>5 DEF Stopped, RxSound

\* The process it had is reported: forgotten, and to be started again or not.
LEMMA ReportedSound ==
  ASSUME NEW s, Formed(s), \A i \in Procs : s.procs[i].st # "up", ~s.stopping, s.restart = NoChannel, NEW ch, ch = s.list[s.at], s.at \in 1 .. Len(s.list), s.state = "running"
  PROVE  RxSound(UnexpectedExit(s, ch))
<1>1. PICK q : q = KillChildren(s)
  OBVIOUS
<1>2. /\ Formed(q) /\ Silent(q) /\ q.list = s.list /\ q.at = s.at /\ q.restart = NoChannel /\ q.state = s.state
      /\ q.stopping = s.stopping /\ q.auto = s.auto
  <2>1. MaxProcs \in Nat
    BY RtlFmAssumption DEF RtlFmAssumption
  <2>2. /\ DOMAIN q = RxFields /\ q.rtl = 0 /\ q.hops = FALSE /\ q.procs = [i \in Procs |-> s.procs[i]]
        /\ q.list = s.list /\ q.at = s.at /\ q.restart = s.restart /\ q.state = s.state
        /\ q.stopping = s.stopping /\ q.auto = s.auto
    BY <1>1 DEF KillChildren, Formed, RxFields
  <2>3. DOMAIN q.procs = Procs /\ \A i \in Procs : q.procs[i] = s.procs[i]
    BY <2>2
  <2> QED BY <2>1, <2>2, <2>3 DEF Formed, Silent
<1>3. PICK r : r = IF s.auto THEN [q EXCEPT !.restart = ch] ELSE [q EXCEPT !.state = "stopped"]
  OBVIOUS
<1>4. /\ DOMAIN r = RxFields /\ r.rtl = q.rtl /\ r.hops = q.hops /\ r.procs = q.procs /\ r.list = q.list /\ r.at = q.at
      /\ r.stopping = q.stopping
      /\ \/ r.restart = ch /\ r.state = q.state
         \/ r.restart = NoChannel /\ r.state = "stopped"
  BY <1>2, <1>3 DEF Formed, RxFields
<1>5. Formed(r)
  BY <1>2, <1>4 DEF Formed
<1>6. Knows(r)
  BY <1>2, <1>4 DEF Knows, Silent, RxSound
<1> QED BY <1>1, <1>3, <1>5, <1>6 DEF UnexpectedExit, RxSound

\* What changes nothing of what it knows.
LEMMA SameReceiver ==
  ASSUME NEW s, NEW r, RxSound(s), DOMAIN r = RxFields, r.rtl = s.rtl, r.procs = s.procs, r.list = s.list, r.at = s.at,
         r.restart = s.restart, r.state = s.state, r.stopping = s.stopping, r.hops = s.hops
  PROVE  RxSound(r)
BY DEF RxSound, Formed, Knows

\* An engine that was never started has no process.
LEMMA InitRtlFm == RtlFmInit => RxSound(rx)
<1> SUFFICES ASSUME RtlFmInit PROVE RxSound(rx)
  OBVIOUS
<1>1. PICK auto \in BOOLEAN :
        rx = [state |-> "stopped", auto |-> auto, list |-> <<>>, at |-> 1, stopping |-> FALSE,
              holding |-> FALSE, detector |-> "none", rtl |-> 0, sink |-> FALSE, hops |-> FALSE,
              dwelt |-> FALSE, restart |-> NoChannel, procs |-> [i \in Procs |-> NoProc]]
  BY DEF RtlFmInit
<1>2. MaxProcs \in Nat
  BY RtlFmAssumption DEF RtlFmAssumption
<1>3. /\ DOMAIN rx = RxFields /\ rx.rtl = 0 /\ rx.list = <<>> /\ rx.at = 1 /\ rx.procs = [i \in Procs |-> NoProc]
      /\ rx.restart = NoChannel /\ rx.stopping = FALSE /\ rx.hops = FALSE
  BY <1>1 DEF RxFields
<1> QED BY <1>2, <1>3 DEF RxSound, Formed, Knows, NoProc

\* Every call, exit and timer keeps the engine's knowledge of its processes.
LEMMA NextRtlFm == RxSound(rx) /\ [RtlFmNext]_rtlVars => RxSound(rx')
<1> SUFFICES ASSUME RxSound(rx), [RtlFmNext]_rtlVars PROVE RxSound(rx')
  OBVIOUS
<1>1. ASSUME NEW list \in Lists, Start(list) PROVE RxSound(rx')
  <2>1. PICK q : q = IF rx.state = "stopped" THEN rx ELSE Stopped(rx)
    OBVIOUS
  <2>2. Formed(q) /\ Silent(q) /\ q.restart = NoChannel /\ Free(rx) \subseteq Free(q)
    <3>1. CASE rx.state = "stopped"
      <4>1. q = rx
        BY <2>1, <3>1
      <4> QED BY <3>1, <4>1 DEF RxSound, Formed, Knows, Silent, Procs
    <3>2. CASE rx.state # "stopped"
      <4>1. q = Stopped(rx)
        BY <2>1, <3>2
      <4>2. Free(rx) \subseteq Free(Stopped(rx))
        BY DEF Stopped, KillChildren, Free, RxSound, Formed, RxFields
      <4> QED BY <4>1, <4>2, StopSound DEF RxSound
    <3> QED BY <3>1, <3>2
  <2>3. PICK r : r = [q EXCEPT !.list = list, !.at = 1, !.stopping = FALSE, !.state = "running"]
    OBVIOUS
  <2>4. /\ DOMAIN r = RxFields /\ r.rtl = q.rtl /\ r.hops = q.hops /\ r.procs = q.procs /\ r.list = list /\ r.at = 1
        /\ r.restart = q.restart /\ r.stopping = FALSE /\ r.state = "running"
    BY <2>2, <2>3 DEF Formed, RxFields
  <2>5. Formed(r) /\ Silent(r) /\ Free(r) # {}
    BY <1>1, <2>2, <2>4 DEF Formed, Silent, Free, Start
  <2>6. rx' = IF list = <<>> THEN r ELSE SpawnForChannel(r, list[1])
    BY <1>1, <2>1, <2>3 DEF Start
  <2>7. CASE list = <<>>
    BY <2>2, <2>4, <2>5, <2>6, <2>7 DEF RxSound, Knows, Silent
  <2>8. CASE list # <<>>
    <3>1. 1 \in 1 .. Len(list)
      <4>1. Len(list) \in Nat /\ DOMAIN list = 1 .. Len(list)
        BY ListFact
      <4> QED BY <4>1, <2>8, RtlFmAssumption DEF RtlFmAssumption
    <3> QED BY <2>2, <2>4, <2>5, <2>6, <2>8, <3>1, SpawnSound
  <2> QED BY <2>7, <2>8
<1>2. CASE Stop
  BY <1>2, StopSound DEF Stop
<1>3. CASE SquelchOpens
  <2>1. rx' = [rx EXCEPT !.detector = "open", !.holding = TRUE]
    BY <1>3 DEF SquelchOpens
  <2>2. DOMAIN rx' = RxFields /\ rx'.rtl = rx.rtl /\ rx'.procs = rx.procs /\ rx'.list = rx.list /\ rx'.at = rx.at
        /\ rx'.restart = rx.restart /\ rx'.state = rx.state /\ rx'.stopping = rx.stopping /\ rx'.hops = rx.hops
    BY <2>1 DEF RxSound, Formed, RxFields
  <2> QED BY <2>2, SameReceiver
<1>4. CASE SquelchCloses
  <2>1. PICK s : s = [rx EXCEPT !.detector = "shut", !.holding = FALSE]
    OBVIOUS
  <2>2. DOMAIN s = RxFields /\ s.rtl = rx.rtl /\ s.procs = rx.procs /\ s.list = rx.list /\ s.at = rx.at
        /\ s.restart = rx.restart /\ s.state = rx.state /\ s.stopping = rx.stopping /\ s.hops = rx.hops
    BY <2>1 DEF RxSound, Formed, RxFields
  <2>3. RxSound(s) /\ s.rtl # 0 /\ Free(s) # {}
    BY <1>4, <2>2, SameReceiver DEF SquelchCloses, Listens, Free
  <2> QED BY <1>4, <2>1, <2>3, HopSound DEF SquelchCloses
<1>5. CASE Dwells
  <2>1. rx' = [rx EXCEPT !.dwelt = TRUE]
    BY <1>5 DEF Dwells
  <2>2. DOMAIN rx' = RxFields /\ rx'.rtl = rx.rtl /\ rx'.procs = rx.procs /\ rx'.list = rx.list /\ rx'.at = rx.at
        /\ rx'.restart = rx.restart /\ rx'.state = rx.state /\ rx'.stopping = rx.stopping /\ rx'.hops = rx.hops
    BY <2>1 DEF RxSound, Formed, RxFields
  <2> QED BY <2>2, SameReceiver
<1>6. CASE HopTimer
  BY <1>6, HopSound DEF HopTimer, RxSound, Knows
<1>7. CASE RestartTimer
  <2>1. PICK q : q = [rx EXCEPT !.restart = NoChannel]
    OBVIOUS
  <2>2. DOMAIN q = RxFields /\ q.rtl = rx.rtl /\ q.procs = rx.procs /\ q.list = rx.list /\ q.at = rx.at
        /\ q.restart = NoChannel /\ q.state = rx.state /\ q.stopping = rx.stopping /\ q.hops = rx.hops
    BY <2>1 DEF RxSound, Formed, RxFields
  <2>3. rx.restart # NoChannel /\ rx.rtl = 0 /\ rx.restart = rx.list[rx.at] /\ rx.at \in 1 .. Len(rx.list) /\ rx.state = "running"
        /\ ~rx.stopping
    BY <1>7 DEF RestartTimer, RxSound, Knows
  <2>4. Formed(q) /\ Silent(q) /\ Free(q) # {}
    BY <1>7, <2>2, <2>3 DEF RestartTimer, Free, RxSound, Formed, Knows, Silent, Procs
  <2>5. rx' = SpawnForChannel(q, rx.restart)
    BY <1>7, <2>1, <2>2, <2>3 DEF RestartTimer
  <2> QED BY <2>2, <2>3, <2>4, <2>5, SpawnSound
<1>8. ASSUME NEW i \in Procs, Crashes(i) \/ Dies(i) PROVE RxSound(rx')
  <2>1. rx' = [rx EXCEPT !.procs[i].st = "exited"] /\ rx.procs[i].st \in {"up", "killed"}
    BY <1>8 DEF Crashes, Dies
  <2>2. DOMAIN rx' = RxFields /\ rx'.rtl = rx.rtl /\ rx'.list = rx.list /\ rx'.at = rx.at
        /\ rx'.restart = rx.restart /\ rx'.state = rx.state /\ rx'.stopping = rx.stopping /\ rx'.hops = rx.hops
        /\ rx'.procs = [rx.procs EXCEPT ![i] = [rx.procs[i] EXCEPT !.st = "exited"]]
    BY <2>1 DEF RxSound, Formed, RxFields
  <2>3. /\ DOMAIN rx'.procs = Procs /\ rx'.procs[i].st = "exited" /\ rx'.procs[i].ch = rx.procs[i].ch
        /\ DOMAIN rx'.procs[i] = {"st", "ch"} /\ \A j \in Procs : j # i => rx'.procs[j] = rx.procs[j]
    BY <2>2 DEF RxSound, Formed
  <2>4. Formed(rx')
    BY <2>2, <2>3 DEF RxSound, Formed
  <2>5. Knows(rx')
    BY <2>1, <2>2, <2>3 DEF RxSound, Formed, Knows, Procs
  <2> QED BY <2>4, <2>5 DEF RxSound
<1>9. ASSUME NEW i \in Procs, Closed(i) PROVE RxSound(rx')
  <2>1. PICK q : q = [rx EXCEPT !.procs[i] = NoProc]
    OBVIOUS
  <2>2. DOMAIN q = RxFields /\ q.rtl = rx.rtl /\ q.list = rx.list /\ q.at = rx.at
        /\ q.restart = rx.restart /\ q.state = rx.state /\ q.stopping = rx.stopping /\ q.hops = rx.hops
        /\ q.procs = [rx.procs EXCEPT ![i] = NoProc]
    BY <2>1 DEF RxSound, Formed, RxFields
  <2>3. /\ DOMAIN q.procs = Procs /\ q.procs[i] = NoProc /\ DOMAIN q.procs[i] = {"st", "ch"}
        /\ \A j \in Procs : j # i => q.procs[j] = rx.procs[j]
    BY <2>2 DEF RxSound, Formed, NoProc
  <2>4. Formed(q)
    BY <2>2, <2>3 DEF RxSound, Formed
  <2>5. rx' = IF rx.rtl # i \/ rx.stopping THEN q ELSE UnexpectedExit(q, rx.procs[i].ch)
    BY <1>9, <2>1 DEF Closed
  <2>6. i # 0
    BY DEF Procs
  <2>7. CASE rx.rtl # i
    <3>1. Knows(q)
      BY <2>2, <2>3, <2>7 DEF RxSound, Formed, Knows, NoProc, Procs
    <3> QED BY <2>4, <2>5, <2>7, <3>1 DEF RxSound
  <2>8. CASE rx.rtl = i
    <3>1. ~rx.stopping /\ rx.restart = NoChannel /\ rx.procs[i].ch = rx.list[rx.at] /\ rx.at \in 1 .. Len(rx.list) /\ rx.state = "running"
      BY <2>6, <2>8 DEF RxSound, Knows
    <3>2. rx' = UnexpectedExit(q, rx.procs[i].ch)
      BY <2>5, <2>8, <3>1
    <3>3. \A j \in Procs : q.procs[j].st # "up"
      BY <2>3, <2>8 DEF RxSound, Knows, NoProc
    <3> QED BY <2>2, <2>4, <3>1, <3>2, <3>3, ReportedSound
  <2> QED BY <2>7, <2>8
<1>10. CASE SinkDies
  <2>1. rx' = [rx EXCEPT !.sink = FALSE]
    BY <1>10 DEF SinkDies
  <2>2. DOMAIN rx' = RxFields /\ rx'.rtl = rx.rtl /\ rx'.procs = rx.procs /\ rx'.list = rx.list /\ rx'.at = rx.at
        /\ rx'.restart = rx.restart /\ rx'.state = rx.state /\ rx'.stopping = rx.stopping /\ rx'.hops = rx.hops
    BY <2>1 DEF RxSound, Formed, RxFields
  <2> QED BY <2>2, SameReceiver
<1>11. CASE UNCHANGED rtlVars
  BY <1>11 DEF rtlVars
<1> QED BY <1>1, <1>2, <1>3, <1>4, <1>5, <1>6, <1>7, <1>8, <1>9, <1>10, <1>11 DEF RtlFmNext, Ends

RtlFmInv == RxSound(rx)

\* If what is up is what is known, it is one at most.
LEMMA OneIsKnown == RxSound(rx) => OneListener
<1> SUFFICES ASSUME RxSound(rx) PROVE OneListener
  OBVIOUS
<1>1. rx.list \in Lists \cup {<<>>}
  BY DEF RxSound, Formed
<1>2. DOMAIN rx.list = 1 .. Len(rx.list)
  BY <1>1, ListFact
<1> QED BY <1>2 DEF RxSound, Knows, OneListener

\* Whatever lists the kiosk is given, whatever dies and whenever it is reported: one receiver on the
\* dongle, the one the engine knows, and none once it is stopped (RtlFmEngine.ts:83-86, 316-318).
THEOREM OneListenerTheorem == RtlFmSpec => []OneListener
<1>1. RtlFmInit => RtlFmInv
  BY InitRtlFm DEF RtlFmInv
<1>2. RtlFmInv /\ [RtlFmNext]_rtlVars => RtlFmInv'
  BY NextRtlFm DEF RtlFmInv
<1>3. RtlFmInv => OneListener
  BY OneIsKnown DEF RtlFmInv
<1> QED BY <1>1, <1>2, <1>3, PTL DEF RtlFmSpec

(***************************************************************************)
(* Proofs about the store of the shortwave schedules: whatever fails or dies *)
(* in the middle of what, no copy is replaced by an older one or by nothing. *)
(***************************************************************************)

ShelfType ==
  [disk : [Files -> Int], db : [Files -> Int], stamp : Int, at : Files \cup {"idle", "end"}, want : Int,
   got : BOOLEAN, tried : Int, bell : BOOLEAN]

\* The files that hold a season's schedule.
SoundFiles == Files \ {"sites"}

\* What is answered from is on the disk or older, and nothing on the disk is of a season to come;
\* during a round it is of no later season than the round's, which stays the one it began in.
DiskInOrder(s, now) ==
  \A f \in SoundFiles : /\ s.db[f] <= s.disk[f] /\ s.disk[f] <= now
                        /\ s.at # "idle" => s.want <= now /\ s.disk[f] <= s.want

StoreInv == shelf \in ShelfType /\ season \in Nat /\ DiskInOrder(shelf, season)

\* One step of the store: typed, in order, and nothing lost.
Kept(s, r, now) ==
  /\ r \in ShelfType /\ DiskInOrder(r, now)
  /\ \A f \in SoundFiles : r.disk[f] >= s.disk[f] /\ r.db[f] >= s.db[f]

\* An empty store is in order.
LEMMA InitStore == SchedulesInit => StoreInv
<1> SUFFICES ASSUME SchedulesInit PROVE StoreInv
  OBVIOUS
<1>1. PICK first \in {[files |-> NoFiles, stamp |-> Never], [files |-> [f \in Files |-> 1], stamp |-> DayHours]} :
         shelf = [disk |-> first.files, db |-> first.files, stamp |-> first.stamp, at |-> "idle", want |-> 1,
                  got |-> FALSE, tried |-> Never, bell |-> TRUE]
  BY DEF SchedulesInit
<1>2. season = 1 /\ DayHours \in Nat /\ Never \in Nat
  BY SchedulesAssumption DEF SchedulesInit, SchedulesAssumption, Never
<1>3. first.files \in [Files -> {0, 1}] /\ first.stamp \in Int
  BY <1>2 DEF NoFiles
<1> QED BY <1>1, <1>2, <1>3 DEF StoreInv, ShelfType, DiskInOrder, SoundFiles

\* What does not touch the files keeps them.
LEMMA SameFiles ==
  ASSUME NEW s \in ShelfType, NEW r \in ShelfType, NEW now \in Nat, DiskInOrder(s, now),
         r.disk = s.disk, r.db = s.db \/ r.db = s.disk, r.at = "idle" \/ (s.at # "idle" /\ r.want = s.want) \/ r.want = now
  PROVE  Kept(s, r, now)
<1>1. \A f \in Files : s.disk[f] \in Int /\ s.db[f] \in Int
  BY DEF ShelfType
<1>2. \A f \in SoundFiles : f \in Files
  BY DEF SoundFiles
<1> QED BY <1>1, <1>2 DEF Kept, DiskInOrder

\* A file of the round's season replaces what there was of it.
LEMMA FileSaved ==
  ASSUME NEW s \in ShelfType, NEW now \in Nat, DiskInOrder(s, now), s.at # "idle",
         NEW f \in Files, NEW what \in Int, what = s.want \/ f = "sites"
  PROVE  Kept(s, Saved(s, f, what), now) /\ Saved(s, f, what).at = s.at /\ Saved(s, f, what).want = s.want
<1> DEFINE r == Saved(s, f, what)
<1>1. r \in ShelfType
  <2>1. s.disk \in [Files -> Int]
    BY DEF ShelfType
  <2>2. [s.disk EXCEPT ![f] = what] \in [Files -> Int]
    BY <2>1
  <2>3. [s EXCEPT !.disk = [s.disk EXCEPT ![f] = what]] \in ShelfType
    BY <2>2, Zenon DEF ShelfType
  <2> QED BY <2>3 DEF Saved
<1>2. /\ r.disk = [s.disk EXCEPT ![f] = what] /\ r.db = s.db /\ r.at = s.at /\ r.want = s.want
  BY DEF Saved, ShelfType
<1> HIDE DEF r
<1>3. \A g \in Files : s.disk[g] \in Int /\ s.db[g] \in Int /\ r.disk[g] = (IF g = f THEN what ELSE s.disk[g])
  BY <1>2 DEF ShelfType
<1>4. \A g \in SoundFiles : g \in Files /\ g # "sites"
  BY DEF SoundFiles
<1>5. s.want \in Int
  BY DEF ShelfType
<1>6. DiskInOrder(r, now) /\ \A g \in SoundFiles : r.disk[g] >= s.disk[g] /\ r.db[g] >= s.db[g]
  BY <1>2, <1>3, <1>4, <1>5 DEF DiskInOrder
<1> QED BY <1>1, <1>2, <1>6 DEF Kept, r

\* Two steps that keep.
LEMMA KeptTwice ==
  ASSUME NEW s \in ShelfType, NEW q, NEW r, NEW now \in Nat, Kept(s, q, now), Kept(q, r, now) PROVE Kept(s, r, now)
<1>1. \A f \in SoundFiles : /\ s.disk[f] \in Int /\ s.db[f] \in Int /\ q.disk[f] \in Int /\ q.db[f] \in Int
                            /\ r.disk[f] \in Int /\ r.db[f] \in Int
  BY DEF Kept, ShelfType, SoundFiles
<1> QED BY <1>1 DEF Kept

\* The round goes on to another source.
LEMMA GoesOn ==
  ASSUME NEW s \in ShelfType, NEW now \in Nat, DiskInOrder(s, now), s.at # "idle",
         NEW a \in Files \cup {"end"}, NEW g \in BOOLEAN
  PROVE  Kept(s, [s EXCEPT !.at = a], now) /\ Kept(s, [s EXCEPT !.at = a, !.got = g], now)
<1>1. [s EXCEPT !.at = a] \in ShelfType /\ [s EXCEPT !.at = a, !.got = g] \in ShelfType
  BY Zenon DEF ShelfType
<1>2. PICK r : r = [s EXCEPT !.at = a]
  OBVIOUS
<1>3. PICK q : q = [s EXCEPT !.at = a, !.got = g]
  OBVIOUS
<1>4. r.disk = s.disk /\ r.db = s.db /\ r.want = s.want
  BY <1>2 DEF ShelfType
<1>5. q.disk = s.disk /\ q.db = s.db /\ q.want = s.want
  BY <1>3 DEF ShelfType
<1> QED BY <1>1, <1>2, <1>3, <1>4, <1>5, SameFiles

\* No step of the store takes a file, or what is answered from, back.
LEMMA StoreKeeps ==
  ASSUME StoreInv, StoreNext PROVE Kept(shelf, shelf', season) /\ season' \in Nat /\ season' >= season
<1> USE DEF StoreInv
<1>1. CASE Rings
  <2>1. UNCHANGED season
    BY <1>1 DEF Rings
  <2>2. PICK tr \in Int : tr = IF shelf.tried = Never THEN -1 ELSE 0
    OBVIOUS
  <2>3. \/ shelf' = [shelf EXCEPT !.bell = FALSE, !.tried = tr, !.at = "eibi", !.want = season, !.got = FALSE]
        \/ shelf' = [shelf EXCEPT !.bell = FALSE]
    BY <1>1, <2>2 DEF Rings
  <2>4. "eibi" \in Files \cup {"idle", "end"} /\ season \in Int /\ FALSE \in BOOLEAN
    BY DEF Files
  <2>5. [shelf EXCEPT !.bell = FALSE, !.tried = tr, !.at = "eibi", !.want = season, !.got = FALSE] \in ShelfType
    BY <2>4, Zenon DEF ShelfType
  <2>6. [shelf EXCEPT !.bell = FALSE] \in ShelfType
    BY <2>4, Zenon DEF ShelfType
  <2>7. shelf'.disk = shelf.disk /\ shelf'.db = shelf.db /\ (shelf'.want = season \/ (shelf'.at = "idle"))
    BY <1>1, <2>3 DEF ShelfType, Rings
  <2>8. shelf' \in ShelfType
    BY <2>3, <2>5, <2>6
  <2>9. Kept(shelf, shelf', season)
    BY <2>7, <2>8, SameFiles, Zenon
  <2> QED BY <2>1, <2>9
<1>2. CASE Fetches
  <2>1. UNCHANGED season
    BY <1>2 DEF Fetches
  <2>2. ASSUME NEW f \in Files, NEW a \in Files \cup {"end"}, NEW g \in BOOLEAN, shelf.at # "idle"
        PROVE  /\ Kept(shelf, [Saved(shelf, f, shelf.want) EXCEPT !.at = a], season)
               /\ Kept(shelf, [Saved(shelf, f, shelf.want) EXCEPT !.at = a, !.got = g], season)
    <3>1. shelf.want \in Int
      BY DEF ShelfType
    <3>2. PICK s : s = Saved(shelf, f, shelf.want)
      OBVIOUS
    <3>3. Kept(shelf, s, season) /\ s.at = shelf.at
      BY <2>2, <3>1, <3>2, FileSaved
    <3>4. Kept(s, [s EXCEPT !.at = a], season) /\ Kept(s, [s EXCEPT !.at = a, !.got = g], season)
      BY ZenonT(60), <2>2, <3>3, GoesOn DEF Kept
    <3> QED BY <3>2, <3>3, <3>4, KeptTwice
  <2>3. CASE EibiAnswers
    <3>1. "eibi" \in Files /\ "readme" \in Files \cup {"end"} /\ TRUE \in BOOLEAN /\ shelf.at # "idle"
      BY <2>3 DEF EibiAnswers, Files
    <3>2. shelf' = [Saved(shelf, "eibi", shelf.want) EXCEPT !.at = "readme"]
      BY <2>3 DEF EibiAnswers
    <3>3. Kept(shelf, shelf', season)
      BY <2>2, <3>1, <3>2, Zenon
    <3> QED BY <2>1, <3>3
  <2>4. CASE ReadmeAnswers
    <3>1. "readme" \in Files /\ "aoki" \in Files \cup {"end"} /\ TRUE \in BOOLEAN /\ shelf.at # "idle"
      BY <2>4 DEF ReadmeAnswers, Files
    <3>2. shelf' = [Saved(shelf, "readme", shelf.want) EXCEPT !.at = "aoki", !.got = TRUE]
      BY <2>4 DEF ReadmeAnswers
    <3>3. Kept(shelf, shelf', season)
      BY <2>2, <3>1, <3>2, Zenon
    <3> QED BY <2>1, <3>3
  <2>5. CASE AokiAnswers
    <3>1. "aoki" \in Files /\ "hfcc" \in Files \cup {"end"} /\ TRUE \in BOOLEAN /\ shelf.at # "idle"
      BY <2>5 DEF AokiAnswers, Files
    <3>2. shelf' = [Saved(shelf, "aoki", shelf.want) EXCEPT !.at = "hfcc", !.got = TRUE]
      BY <2>5 DEF AokiAnswers
    <3>3. Kept(shelf, shelf', season)
      BY <2>2, <3>1, <3>2, Zenon
    <3> QED BY <2>1, <3>3
  <2>6. CASE ReadmeEmpty
    <3>1. "aoki" \in Files \cup {"end"} /\ TRUE \in BOOLEAN /\ shelf.at # "idle"
      BY <2>6 DEF ReadmeEmpty, Files
    <3>2. shelf' = [shelf EXCEPT !.at = "aoki", !.got = TRUE]
      BY <2>6 DEF ReadmeEmpty
    <3>3. Kept(shelf, shelf', season)
      BY <3>1, <3>2, GoesOn, Zenon
    <3> QED BY <2>1, <3>3
  <2>7. CASE shelf.at \in {"eibi", "readme", "aoki", "hfcc"} /\ SourceFails(shelf.at)
    <3>1. After(shelf.at) \in Files \cup {"end"} /\ shelf.at # "idle"
      BY <2>7 DEF After, Files
    <3>2. shelf' = [shelf EXCEPT !.at = After(shelf.at)] /\ TRUE \in BOOLEAN
      BY <2>7 DEF SourceFails
    <3>3. Kept(shelf, shelf', season)
      BY <3>1, <3>2, GoesOn, Zenon
    <3> QED BY <2>1, <3>3
  <2>8. CASE HfccAnswers
    <3>1. PICK q : q = [Saved(shelf, "hfcc", shelf.want) EXCEPT !.at = "end", !.got = TRUE]
      OBVIOUS
    <3>2. Kept(shelf, q, season) /\ q.at = "end" /\ q.want = shelf.want
      BY ZenonT(60), <2>2, <2>8, <3>1 DEF HfccAnswers, Files, Saved, ShelfType
    <3>3. shelf' = q \/ shelf' = Saved(q, "sites", shelf.want) \/ shelf' = Saved(q, "sites", Unreadable)
      BY <2>8, <3>1 DEF HfccAnswers
    <3>4. shelf.want \in Int /\ Unreadable \in Int /\ "sites" \in Files
      BY DEF ShelfType, Unreadable, Files
    <3>5. Kept(q, Saved(q, "sites", shelf.want), season) /\ Kept(q, Saved(q, "sites", Unreadable), season)
      BY <3>2, <3>4, FileSaved DEF Kept
    <3> QED BY <2>1, <3>2, <3>3, <3>5, KeptTwice
  <2> QED BY <1>2, <2>3, <2>4, <2>5, <2>6, <2>7, <2>8 DEF Fetches
<1>3. CASE RefreshEnds
  <2>1. UNCHANGED season /\ shelf.at = "end"
    BY <1>3 DEF RefreshEnds
  <2>2. \/ shelf' = [shelf EXCEPT !.stamp = 0, !.db = shelf.disk, !.at = "idle"]
        \/ shelf' = [shelf EXCEPT !.at = "idle"]
    BY <1>3 DEF RefreshEnds, Taken
  <2>3. shelf.disk \in [Files -> Int] /\ 0 \in Int
    BY DEF ShelfType
  <2>4. [shelf EXCEPT !.stamp = 0, !.db = shelf.disk, !.at = "idle"] \in ShelfType /\ [shelf EXCEPT !.at = "idle"] \in ShelfType
    BY <2>3, Zenon DEF ShelfType
  <2>5. shelf'.disk = shelf.disk /\ (shelf'.db = shelf.db \/ shelf'.db = shelf.disk) /\ shelf'.at = "idle"
    BY <2>2 DEF ShelfType
  <2> QED BY <2>1, <2>2, <2>4, <2>5, SameFiles
<1>4. CASE HourPasses
  <2>1. UNCHANGED season /\ shelf.at = "idle"
    BY <1>4 DEF HourPasses
  <2>2. PICK a, b : shelf' = [shelf EXCEPT !.bell = TRUE, !.tried = a, !.stamp = b] /\ a \in Int /\ b \in Int
    <3>1. shelf.tried \in Int /\ shelf.stamp \in Int
      BY DEF ShelfType
    <3>2. DayHours \in Int /\ Never \in Int
      BY SchedulesAssumption DEF SchedulesAssumption, Never
    <3>3. PICK a : a = IF shelf.tried = Never \/ shelf.tried >= 2 THEN shelf.tried ELSE shelf.tried + 1
      OBVIOUS
    <3>4. PICK b : b = IF shelf.stamp = Never \/ shelf.stamp >= DayHours THEN shelf.stamp ELSE shelf.stamp + 1
      OBVIOUS
    <3>5. a \in Int /\ b \in Int
      BY <3>1, <3>2, <3>3, <3>4
    <3>6. shelf' = [shelf EXCEPT !.bell = TRUE, !.tried = a, !.stamp = b]
      BY <1>4, <3>3, <3>4 DEF HourPasses
    <3> QED BY ZenonT(60), <3>5, <3>6
  <2>3. shelf' \in ShelfType
    BY <2>2, Zenon DEF ShelfType
  <2>4. shelf'.disk = shelf.disk /\ shelf'.db = shelf.db /\ shelf'.at = "idle"
    BY <2>1, <2>2 DEF ShelfType
  <2> QED BY <2>1, <2>3, <2>4, SameFiles
<1>5. CASE StoreDies
  <2>1. UNCHANGED season /\ shelf' = Booted(shelf)
    BY <1>5 DEF StoreDies, CutOff
  <2>2. shelf.disk \in [Files -> Int] /\ Never \in Int
    BY DEF ShelfType, Never
  <2>3. [shelf EXCEPT !.db = shelf.disk, !.at = "idle", !.got = FALSE, !.tried = Never, !.bell = TRUE] \in ShelfType
    BY <2>2, Zenon DEF ShelfType
  <2>4. shelf' \in ShelfType
    BY <2>1, <2>3 DEF Booted
  <2>5. shelf'.disk = shelf.disk /\ shelf'.db = shelf.disk /\ shelf'.at = "idle"
    BY <2>1 DEF Booted, ShelfType
  <2> QED BY <2>1, <2>4, <2>5, SameFiles
<1>6. CASE SeasonTurns
  <2>1. season' = season + 1 /\ shelf' = shelf /\ shelf \in ShelfType
    BY <1>6 DEF SeasonTurns
  <2>2. \A f \in SoundFiles : shelf.disk[f] \in Int /\ shelf.db[f] \in Int
    BY DEF ShelfType, SoundFiles
  <2> QED BY <2>1, <2>2 DEF Kept
<1> QED BY <1>1, <1>2, <1>3, <1>4, <1>5, <1>6 DEF StoreNext

\* Every step keeps the order of files, database and seasons.
LEMMA NextStore == StoreInv /\ [SchedulesNext]_schedulesVars => StoreInv' /\ season' \in Nat
<1> SUFFICES ASSUME StoreInv, [SchedulesNext]_schedulesVars PROVE StoreInv'
  BY DEF StoreInv
<1>1. CASE StoreNext
  <2>1. Kept(shelf, shelf', season) /\ season' \in Nat /\ season' >= season
    BY <1>1, StoreKeeps
  <2>2. shelf' \in ShelfType /\ \A f \in SoundFiles : shelf'.disk[f] \in Int /\ shelf'.db[f] \in Int
    BY <2>1 DEF Kept, ShelfType, SoundFiles
  <2>3. shelf'.want \in Int /\ season \in Nat
    BY <2>2 DEF ShelfType, StoreInv
  <2>4. DiskInOrder(shelf', season')
    BY <2>1, <2>2, <2>3 DEF Kept, DiskInOrder
  <2> QED BY <2>1, <2>2, <2>4 DEF StoreInv
<1>2. CASE UNCHANGED storeVars
  BY <1>2 DEF storeVars, StoreInv
<1> QED BY <1>1, <1>2 DEF SchedulesNext, MinutePasses, schedulesVars, storeVars

\* However many sources fail, rounds are cut or seasons turn: a file and what is answered from
\* never go back to an older season or to nothing (scheduleStore.ts:78-126).
THEOREM LastGoodCopyTheorem == SchedulesSpec => LastGoodCopy
<1>1. ASSUME StoreInv, [SchedulesNext]_schedulesVars
      PROVE  [\A f \in Files \ {"sites"} : shelf'.disk[f] >= shelf.disk[f] /\ shelf'.db[f] >= shelf.db[f]]_schedulesVars
  <2>1. CASE StoreNext
    BY <1>1, <2>1, StoreKeeps DEF Kept, SoundFiles
  <2>2. CASE MinutePasses
    <3>1. shelf' = shelf /\ \A f \in Files : shelf.disk[f] \in Int /\ shelf.db[f] \in Int
      BY <1>1, <2>2 DEF MinutePasses, storeVars, StoreInv, ShelfType
    <3> QED BY <3>1
  <2> QED BY <1>1, <2>1, <2>2 DEF SchedulesNext
<1> QED BY InitStore, NextStore, <1>1, PTL DEF SchedulesSpec, LastGoodCopy


-----------------------------------------------------------------------------
(***************************************************************************)
(* Proofs about the map of the wall: stale radar stays off the screen, and  *)
(* a screen is fitted or will be.                                           *)
(***************************************************************************)

PageFields ==
  {"radar", "up", "paused", "ctx", "timer", "asked", "fronts", "smoke", "audible", "wanted", "has", "alpha",
   "to", "mixing", "tex", "pending", "shown", "dark", "last", "meta", "said", "stale", "fly", "markers",
   "screen", "fitted", "resize", "due", "painted"}
WorldFields == {"scan", "age", "open", "speaker", "sky", "feed", "slot"}

\* Nothing of the radar is on a fade that is out; without a scan there is no fade; a scan that is
\* not wanted is on its way out; what a lost context took is uploaded again before the next draw;
\* and a screen that went dark has nothing that could light it but a scan held to be fresh.
FadeRight(p) ==
  /\ p.alpha \in Nat /\ p.to \in {0, 2}
  /\ p.shown = 0 => ~p.has /\ p.alpha = 0 /\ p.to = 0
  /\ p.has /\ ~p.wanted => p.to = 0
  /\ p.ctx = "on" => p.has \/ p.pending # 0 \/ p.shown = 0
  /\ p.dark => ~p.wanted /\ p.alpha = 0 /\ p.to = 0 /\ p.painted.radar = {}
FitsRight(p) == p.fitted # p.screen => p.resize \/ p.due

MapInv ==
  /\ DOMAIN page = PageFields /\ DOMAIN world = WorldFields
  /\ FadeRight(page) /\ FitsRight(page)
  /\ world.scan \in Nat /\ page.fly \in {"no", "meta", "frame"} /\ (page.fly = "frame" => world.scan # 0)

\* Two pages that differ in the fronts, the smoke, the planes, the timers or the socket.
SameRadar(q, p) ==
  /\ q.alpha = p.alpha /\ q.to = p.to /\ q.shown = p.shown /\ q.has = p.has /\ q.wanted = p.wanted
  /\ q.ctx = p.ctx /\ q.pending = p.pending /\ q.dark = p.dark /\ q.painted = p.painted
SameScreen(q, p) == q.fitted = p.fitted /\ q.screen = p.screen /\ q.resize = p.resize /\ q.due = p.due
Alike(q, p) == DOMAIN q = PageFields /\ SameRadar(q, p) /\ SameScreen(q, p) /\ q.fly = p.fly

LEMMA AlikeRight == ASSUME NEW p, NEW q, Alike(q, p), FadeRight(p), FitsRight(p)
                    PROVE  DOMAIN q = PageFields /\ FadeRight(q) /\ FitsRight(q) /\ q.fly = p.fly
BY DEF Alike, SameRadar, SameScreen, FadeRight, FitsRight

LEMMA Pokes == ASSUME NEW p, DOMAIN p = PageFields PROVE Alike(Poke(p), p)
BY DEF Poke, PageFields, Alike, SameRadar, SameScreen

LEMMA Pauses == ASSUME NEW p, DOMAIN p = PageFields, NEW b \in BOOLEAN PROVE Alike(SetPaused(p, b), p)
<1>1. CASE Off(p)
  BY <1>1 DEF SetPaused, PageFields, Alike, SameRadar, SameScreen
<1>2. CASE ~Off(p) /\ b
  BY <1>2 DEF SetPaused, PageFields, Alike, SameRadar, SameScreen
<1>3. CASE ~Off(p) /\ ~b
  <2> DEFINE q == [p EXCEPT !.paused = FALSE]
  <2>1. Alike(q, p)
    BY DEF PageFields, Alike, SameRadar, SameScreen
  <2>2. SetPaused(p, b) = Poke(q)
    BY <1>3 DEF SetPaused
  <2>3. Alike(Poke(q), q)
    BY <2>1, Pokes DEF Alike
  <2> QED BY <2>1, <2>2, <2>3 DEF Alike, SameRadar, SameScreen
<1> QED BY <1>1, <1>2, <1>3

LEMMA Fronts == ASSUME NEW p, DOMAIN p = PageFields, NEW ids, NEW i
                PROVE  /\ Alike(ReleaseThese(p, ids), p) /\ Alike(KeyedUp(p, i), p) /\ Alike(Rearm(p, i), p)
                       /\ Alike(FrameOf(p), p)
<1> HIDE DEF Live
<1>1. \A x : Alike(ReleaseThese(p, x), p)
  BY DEF ReleaseThese, PageFields, Alike, SameRadar, SameScreen
<1>2. Alike(KeyedUp(p, i), p)
  BY DEF KeyedUp, PageFields, Alike, SameRadar, SameScreen
<1>3. Alike(Rearm(p, i), p)
  BY DEF Rearm, PageFields, Alike, SameRadar, SameScreen
<1>4. Alike(FrameOf(p), p)
  <2> DEFINE q == ReleaseThese(p, {j \in Live(p) : p.fronts[j].ttl = 0})
  <2>1. Alike(q, p)
    BY <1>1
  <2> HIDE DEF q
  <2>2. FrameOf(p) = [q EXCEPT !.fronts = [j \in Ids |-> IF @[j].st = "released" /\ @[j].out THEN NoFront ELSE @[j]],
                               !.smoke = [j \in Ids |-> {a \in @[j] : a < Life}]]
    BY DEF FrameOf, q
  <2>3. Alike(FrameOf(p), q)
    BY <2>1, <2>2 DEF PageFields, Alike, SameRadar, SameScreen
  <2> QED BY <2>1, <2>3 DEF Alike, SameRadar, SameScreen
<1> QED BY <1>1, <1>2, <1>3, <1>4

\* A fit puts nothing off but to the next quiet.
LEMMA Refits == ASSUME NEW p, DOMAIN p = PageFields
                PROVE  /\ DOMAIN Refit(p) = PageFields /\ SameRadar(Refit(p), p) /\ Refit(p).fly = p.fly /\ FitsRight(Refit(p))
                       /\ DOMAIN OnQuiet(p) = PageFields /\ SameRadar(OnQuiet(p), p) /\ OnQuiet(p).fly = p.fly
                       /\ FitsRight(p) => FitsRight(OnQuiet(p))
<1>1. DOMAIN Refit(p) = PageFields /\ SameRadar(Refit(p), p) /\ Refit(p).fly = p.fly /\ FitsRight(Refit(p))
  BY DEF Refit, PageFields, SameRadar, FitsRight
<1> QED BY <1>1 DEF OnQuiet, SameRadar

\* What a message does to the page's radar and its fit: nothing.
Unharmed(q, p) == DOMAIN q = PageFields /\ SameRadar(q, p) /\ q.fly = p.fly /\ (FitsRight(p) => FitsRight(q))

LEMMA UnharmedRight == ASSUME NEW p, NEW q, Unharmed(q, p), FadeRight(p), FitsRight(p)
                       PROVE  DOMAIN q = PageFields /\ FadeRight(q) /\ FitsRight(q) /\ q.fly = p.fly
BY DEF Unharmed, SameRadar, FadeRight

LEMMA UnharmedChain == ASSUME NEW p, NEW q, NEW r, Unharmed(q, p), Unharmed(r, q) PROVE Unharmed(r, p)
BY DEF Unharmed, SameRadar

LEMMA AlikeUnharmed == ASSUME NEW p, NEW q, Alike(q, p) PROVE Unharmed(q, p)
BY DEF Alike, Unharmed, SameScreen, FitsRight

LEMMA Messages == ASSUME NEW p, DOMAIN p = PageFields, NEW i, NEW s
                  PROVE  /\ Unharmed(OnActive(p, i), p) /\ Unharmed(OnRelease(p, i), p) /\ Unharmed(OnIdle(p), p)
                         /\ Unharmed(OnAudible(p, i), p) /\ Unharmed(OnSignal(p), p) /\ Unharmed(OnAircraft(p, s), p)
<1>1. \A q : DOMAIN q = PageFields => Unharmed(Poke(q), q)
  BY Pokes, AlikeUnharmed
<1>2. Unharmed(OnActive(p, i), p)
  <2>1. Unharmed(KeyedUp(p, i), p)
    BY Fronts, AlikeUnharmed
  <2>2. Unharmed(Poke(KeyedUp(p, i)), KeyedUp(p, i))
    BY <1>1, <2>1 DEF Unharmed
  <2> QED BY <2>1, <2>2, UnharmedChain DEF OnActive
<1>3. Unharmed(OnRelease(p, i), p)
  <2>1. Unharmed(ReleaseThese(p, {i}), p)
    BY Fronts, AlikeUnharmed
  <2>2. Unharmed(Poke(ReleaseThese(p, {i})), ReleaseThese(p, {i}))
    BY <1>1, <2>1 DEF Unharmed
  <2> QED BY <2>1, <2>2, UnharmedChain DEF OnRelease
<1>4. Unharmed(OnIdle(p), p)
  <2> DEFINE a == [p EXCEPT !.audible = None]
  <2> DEFINE b == ReleaseThese(a, Ids)
  <2>1. Unharmed(a, p)
    BY DEF PageFields, Unharmed, SameRadar, FitsRight
  <2> HIDE DEF a
  <2>2. Unharmed(b, a)
    BY <2>1, Fronts, AlikeUnharmed DEF Unharmed
  <2> HIDE DEF b
  <2>3. Unharmed(Poke(b), b)
    BY <1>1, <2>2 DEF Unharmed
  <2>4. Unharmed(OnQuiet(Poke(b)), Poke(b))
    BY <2>3, Refits DEF Unharmed
  <2>5. OnIdle(p) = OnQuiet(Poke(b))
    BY DEF OnIdle, a, b
  <2> QED BY <2>1, <2>2, <2>3, <2>4, <2>5, UnharmedChain
<1>5. Unharmed(OnAudible(p, i), p) /\ Unharmed(OnAircraft(p, s), p)
  BY DEF OnAudible, OnAircraft, PageFields, Unharmed, SameRadar, FitsRight
<1>6. Unharmed(OnSignal(p), p)
  <2>1. Unharmed(p, p)
    BY DEF Unharmed, SameRadar
  <2>2. Unharmed(Rearm(p, p.audible), p)
    BY Fronts, AlikeUnharmed
  <2> QED BY <2>1, <2>2 DEF OnSignal
<1> QED BY <1>2, <1>3, <1>4, <1>5, <1>6

\* A page as the invariant wants it.
Good(p) == DOMAIN p = PageFields /\ FadeRight(p) /\ FitsRight(p)

LEMMA UnharmedGood == ASSUME NEW p, NEW q, Unharmed(q, p), Good(p) PROVE Good(q) /\ q.fly = p.fly
BY UnharmedRight DEF Good

LEMMA AlikeGood == ASSUME NEW p, NEW q, Alike(q, p), Good(p) PROVE Good(q) /\ q.fly = p.fly
BY AlikeRight DEF Good

\* A fade is retargeted with what is wanted of it, and only what is wanted again ends the dark.
LEMMA StaleSets == ASSUME NEW p, Good(p), NEW b \in BOOLEAN
                   PROVE  Good(SetStale(p, b)) /\ SetStale(p, b).fly = p.fly
<1> DEFINE q == [p EXCEPT !.wanted = ~b, !.dark = @ /\ b]
<1> DEFINE r == IF q.has THEN Retarget(q, IF b THEN 0 ELSE 2) ELSE q
<1>1. /\ DOMAIN q = PageFields /\ q.wanted = ~b /\ q.dark = (p.dark /\ b) /\ q.alpha = p.alpha /\ q.to = p.to
      /\ q.shown = p.shown /\ q.has = p.has /\ q.ctx = p.ctx /\ q.pending = p.pending /\ q.painted = p.painted
      /\ SameScreen(q, p) /\ q.fly = p.fly
  BY DEF PageFields, Good, SameScreen
<1> HIDE DEF q
<1>2. /\ DOMAIN r = PageFields /\ r.wanted = q.wanted /\ r.dark = q.dark /\ r.alpha = q.alpha
      /\ r.to = (IF q.has THEN IF b THEN 0 ELSE 2 ELSE q.to)
      /\ r.shown = q.shown /\ r.has = q.has /\ r.ctx = q.ctx /\ r.pending = q.pending /\ r.painted = q.painted
      /\ SameScreen(r, q) /\ r.fly = q.fly
  BY <1>1 DEF Retarget, PageFields, SameScreen
<1> HIDE DEF r
<1>3. FadeRight(r)
  BY <1>1, <1>2, Zenon DEF Good, FadeRight
<1>4. Good(r)
  BY <1>1, <1>2, <1>3 DEF Good, FitsRight, SameScreen
<1>5. Alike(Poke(r), r)
  BY <1>2, Pokes
<1>6. SetStale(p, b) = Poke(r)
  BY DEF SetStale, q, r
<1> QED BY <1>1, <1>2, <1>4, <1>5, <1>6, AlikeGood

LEMMA StaleChecks == ASSUME NEW w, NEW p, Good(p)
                     PROVE  Good(CheckStale(w, p)) /\ CheckStale(w, p).fly = p.fly
<1> DEFINE b == p.said \/ Stale(w, p.meta)
<1> DEFINE q == [p EXCEPT !.stale = b]
<1>1. b \in BOOLEAN
  BY DEF Stale
<1> HIDE DEF b
<1>2. Alike(q, p)
  BY DEF PageFields, Alike, SameRadar, SameScreen, Good
<1> HIDE DEF q
<1>3. Good(SetStale(q, b)) /\ SetStale(q, b).fly = p.fly
  BY <1>1, <1>2, AlikeGood, StaleSets
<1>4. CheckStale(w, p) = p \/ CheckStale(w, p) = SetStale(q, b)
  BY DEF CheckStale, b, q
<1> QED BY <1>3, <1>4

\* The waiting scan is taken: after that there is a scan to draw, or none was ever uploaded.
LEMMA Takes == ASSUME NEW p, Good(p)
               PROVE  LET q == TakePending(p)
                      IN  Good(q) /\ q.fly = p.fly /\ (p.ctx = "on" => q.has \/ q.shown = 0)
<1> DEFINE q == TakePending(p)
<1> DEFINE t == FrameTaken(p, p.pending)
<1>1. CASE p.pending = 0
  BY <1>1 DEF TakePending, Good, FadeRight
<1>2. CASE p.pending # 0
  <2>1. q = [t EXCEPT !.shown = p.pending, !.pending = 0]
    BY <1>2 DEF TakePending
  <2>2. CASE p.has /\ p.alpha > 0
    <3>1. t = [p EXCEPT !.mixing = TRUE, !.tex = <<@[2], p.pending>>]
      BY <2>2 DEF FrameTaken
    <3>2. /\ DOMAIN q = PageFields /\ q.shown = p.pending /\ q.wanted = p.wanted /\ q.dark = p.dark /\ q.alpha = p.alpha
          /\ q.to = p.to /\ q.has = p.has /\ q.ctx = p.ctx /\ q.painted = p.painted /\ SameScreen(q, p) /\ q.fly = p.fly
      BY <2>1, <3>1 DEF PageFields, SameScreen, Good
    <3> HIDE DEF q, t
    <3>3. FadeRight(p) /\ FitsRight(p)
      BY DEF Good
    <3>4. FadeRight(q)
      BY <1>2, <2>2, <3>2, <3>3, Zenon DEF FadeRight
    <3>5. FitsRight(q)
      BY <3>2, <3>3, Zenon DEF FitsRight, SameScreen
    <3>6. p.ctx = "on" => q.has \/ q.shown = 0
      BY <2>2, <3>2, Zenon
    <3> HIDE DEF FadeRight, FitsRight
    <3> QED BY <3>2, <3>4, <3>5, <3>6 DEF Good, q
  <2>3. CASE ~(p.has /\ p.alpha > 0)
    <3>1. t = [Retarget(p, IF p.wanted THEN 2 ELSE 0) EXCEPT !.mixing = FALSE, !.has = TRUE, !.tex = <<p.pending, p.pending>>]
      BY <2>3 DEF FrameTaken
    <3>2. /\ DOMAIN q = PageFields /\ q.shown = p.pending /\ q.wanted = p.wanted /\ q.dark = p.dark /\ q.alpha = p.alpha
          /\ q.to = (IF p.wanted THEN 2 ELSE 0) /\ q.has = TRUE /\ q.ctx = p.ctx /\ q.painted = p.painted
          /\ SameScreen(q, p) /\ q.fly = p.fly
      BY <2>1, <3>1 DEF PageFields, SameScreen, Good, Retarget
    <3> HIDE DEF q, t
    <3>3. FadeRight(p) /\ FitsRight(p)
      BY DEF Good
    <3>4. FadeRight(q)
      BY <1>2, <2>3, <3>2, <3>3, Zenon DEF FadeRight
    <3>5. FitsRight(q)
      BY <3>2, <3>3, Zenon DEF FitsRight, SameScreen
    <3>6. p.ctx = "on" => q.has \/ q.shown = 0
      BY <2>3, <3>2, Zenon
    <3> HIDE DEF FadeRight, FitsRight
    <3> QED BY <3>2, <3>4, <3>5, <3>6 DEF Good, q
  <2> QED BY <2>2, <2>3
<1> QED BY <1>1, <1>2

\* A draw that shows no radar because none is wanted shows none again.
LEMMA Draws == ASSUME NEW p, Good(p) PROVE Good(Drawn(p)) /\ Drawn(p).fly = p.fly
<1> DEFINE a == [p EXCEPT !.asked = FALSE]
<1> DEFINE b == TakePending(a)
<1> DEFINE q == FrameOf(b)
<1> DEFINE v == Picture(q)
<1> DEFINE r == [q EXCEPT !.painted = v, !.dark = @ \/ (~q.wanted /\ v.radar = {})]
<1>1. Alike(a, p)
  BY DEF PageFields, Alike, SameRadar, SameScreen, Good
<1>2. Good(a) /\ a.fly = p.fly /\ a.ctx = p.ctx
  BY <1>1, AlikeGood DEF Alike, SameRadar
<1>3. CASE p.ctx # "on"
  <2>1. Drawn(p) = a
    BY <1>3 DEF Drawn
  <2> QED BY <1>2, <2>1
<1>4. CASE p.ctx = "on"
  <2> HIDE DEF a
  <2>1. Good(b) /\ b.fly = p.fly /\ (b.has \/ b.shown = 0)
    BY <1>2, <1>4, Takes
  <2> HIDE DEF b
  <2>2. Good(q) /\ q.fly = p.fly /\ (q.has \/ q.shown = 0)
    <3>1. Alike(q, b)
      BY <2>1, Fronts DEF Good
    <3> QED BY <2>1, <3>1, AlikeGood DEF Alike, SameRadar
  <2> HIDE DEF q
  <2>3. /\ DOMAIN r = PageFields /\ r.shown = q.shown /\ r.wanted = q.wanted /\ r.alpha = q.alpha /\ r.to = q.to
        /\ r.has = q.has /\ r.ctx = q.ctx /\ r.pending = q.pending /\ r.painted = v
        /\ r.dark = (q.dark \/ (~q.wanted /\ v.radar = {})) /\ SameScreen(r, q) /\ r.fly = q.fly
    BY <2>2 DEF PageFields, SameScreen, Good
  <2>4. v.radar = IF q.shown = 0 \/ ~q.has \/ q.alpha = 0 THEN {}
                  ELSE IF q.mixing THEN {q.tex[1], q.tex[2]} ELSE {q.tex[2]}
    BY DEF Picture
  <2>5. v.radar = {} => q.shown = 0 \/ ~q.has \/ q.alpha = 0
    BY <2>4
  <2>6. q.shown = 0 \/ ~q.has \/ q.alpha = 0 => v.radar = {}
    BY <2>4
  <2> HIDE DEF v, r
  <2>7. q.dark \/ (~q.wanted /\ v.radar = {}) => ~q.wanted /\ q.alpha = 0 /\ q.to = 0 /\ v.radar = {}
    BY <2>2, <2>5, <2>6 DEF Good, FadeRight
  <2>8. FadeRight(r)
    BY <2>2, <2>3, <2>7 DEF Good, FadeRight
  <2>9. Good(r) /\ r.fly = p.fly
    BY <2>2, <2>3, <2>8 DEF Good, FitsRight, SameScreen
  <2>10. Alike(Reschedule(r), r)
    BY <2>3 DEF Reschedule, PageFields, Alike, SameRadar, SameScreen
  <2>11. Drawn(p) = Reschedule(r)
    BY <1>4 DEF Drawn, a, b, q, v, r
  <2> QED BY <2>9, <2>10, <2>11, AlikeGood
<1> QED BY <1>3, <1>4

\* A context comes, is refused, or goes with all that was uploaded.
LEMMA Contexts == ASSUME NEW p, Good(p)
                  PROVE  /\ Good([Restored(p) EXCEPT !.asked = TRUE]) /\ [Restored(p) EXCEPT !.asked = TRUE].fly = p.fly
                         /\ Good(GivenUp(p)) /\ GivenUp(p).fly = p.fly /\ Good(Lost(p)) /\ Lost(p).fly = p.fly
<1>1. Good([Restored(p) EXCEPT !.asked = TRUE]) /\ [Restored(p) EXCEPT !.asked = TRUE].fly = p.fly
  BY DEF Restored, PageFields, Good, FadeRight, FitsRight
<1>2. Good(GivenUp(p)) /\ GivenUp(p).fly = p.fly
  BY DEF GivenUp, Blank, PageFields, Good, FadeRight, FitsRight
<1>3. Good(Lost(p)) /\ Lost(p).fly = p.fly
  BY DEF Lost, Blank, PageFields, Good, FadeRight, FitsRight
<1> QED BY <1>1, <1>2, <1>3

\* The poll for a scan asks for a frame only of a scan there is.
LEMMA Answers == ASSUME NEW w, NEW p, Good(p)
                 PROVE  /\ Good(MetaIn(w, p)) /\ MetaIn(w, p).fly \in {"no", "frame"}
                        /\ MetaIn(w, p).fly = "frame" => w.scan # 0
                        /\ w.scan # 0 => Good(FrameIn(w, p)) /\ FrameIn(w, p).fly = "no"
<1>1. Good(MetaIn(w, p)) /\ MetaIn(w, p).fly \in {"no", "frame"} /\ (MetaIn(w, p).fly = "frame" => w.scan # 0)
  <2> DEFINE q == [p EXCEPT !.meta = w.scan, !.said = Stale(w, w.scan)]
  <2> DEFINE r == [q EXCEPT !.fly = "no"]
  <2>1. \A f : LET s == [q EXCEPT !.fly = f] IN Good(s) /\ s.fly = f
    BY DEF PageFields, Good, FadeRight, FitsRight, Stale
  <2>2. Good(CheckStale(w, r)) /\ CheckStale(w, r).fly = "no"
    <3>1. Good(r) /\ r.fly = "no"
      BY ZenonT(60), <2>1
    <3> HIDE DEF r
    <3> QED BY <3>1, StaleChecks
  <2>3. LET s == [p EXCEPT !.fly = "no"] IN Good(s) /\ s.fly = "no"
    BY DEF PageFields, Good, FadeRight, FitsRight
  <2> QED BY ZenonT(60), <2>1, <2>2, <2>3 DEF MetaIn
<1>2. ASSUME w.scan # 0 PROVE Good(FrameIn(w, p)) /\ FrameIn(w, p).fly = "no"
  <2> DEFINE q == [p EXCEPT !.fly = "no", !.last = p.meta, !.pending = w.scan]
  <2>1. Good(q) /\ q.fly = "no"
    BY <1>2 DEF PageFields, Good, FadeRight, FitsRight
  <2> HIDE DEF q
  <2>2. Good(Poke(q)) /\ Poke(q).fly = "no"
    BY <2>1, Pokes, AlikeGood DEF Good
  <2>3. Poke(q).said = q.said
    BY <2>1 DEF Poke, PageFields, Good
  <2> QED BY <2>1, <2>2, <2>3, StaleChecks DEF FrameIn, q
<1> QED BY <1>1, <1>2

LEMMA InitMap == ActivityMapInit => MapInv
<1> SUFFICES ASSUME ActivityMapInit PROVE MapInv
  OBVIOUS
<1> DEFINE p == FreshPage(left.radar = 1)
<1>1. page = p
  BY DEF ActivityMapInit
<1>2. /\ DOMAIN p = PageFields /\ p.alpha = 0 /\ p.to = 0 /\ p.shown = 0 /\ p.has = FALSE /\ p.ctx = "none"
      /\ p.dark = FALSE /\ p.screen = 0 /\ p.fitted = 0 /\ p.fly = "no"
  BY DEF FreshPage, PageFields
<1>3. FadeRight(p) /\ FitsRight(p) /\ p.fly \in {"no", "meta", "frame"} /\ p.fly # "frame"
  BY <1>2 DEF FadeRight, FitsRight
<1>4. DOMAIN world = WorldFields /\ world.scan = 0
  BY DEF ActivityMapInit, WorldFields
<1> HIDE DEF p
<1> QED BY <1>1, <1>2, <1>3, <1>4 DEF MapInv

\* A step that leaves the scans alone keeps the invariant if it keeps the page good.
LEMMA PageKept ==
  ASSUME MapInv, Good(page'), page'.fly \in {page.fly, "no", "meta"}, DOMAIN world' = WorldFields,
         world'.scan = world.scan \/ world'.scan = world.scan + 1
  PROVE  MapInv'
BY DEF MapInv, Good

LEMMA ToldKept == ASSUME MapInv, NEW q, Unharmed(q, page), page' = Told(q)
                  PROVE  Good(page') /\ page'.fly = page.fly
<1>1. Good(page)
  BY DEF MapInv, Good
<1> QED BY <1>1, UnharmedGood DEF Told

\* A poll only asks, and only for the scan's meta.
LEMMA Polls == ASSUME NEW p, Good(p) PROVE Good(PollRadar(p)) /\ PollRadar(p).fly \in {p.fly, "meta"}
BY DEF PollRadar, PageFields, Good, FadeRight, FitsRight

LEMMA NextMap == MapInv /\ [ActivityMapNext]_mapVars => MapInv'
<1> SUFFICES ASSUME MapInv, [ActivityMapNext]_mapVars PROVE MapInv'
  OBVIOUS
<1>1. Good(page) /\ DOMAIN page = PageFields /\ DOMAIN world = WorldFields /\ world.scan \in Nat
  BY DEF MapInv, Good
<1> DEFINE Same == DOMAIN world' = WorldFields /\ world'.scan = world.scan
<1> DEFINE Sound == Good(page') /\ page'.fly \in {page.fly, "no", "meta"}
<1>2. UNCHANGED world => Same
  BY <1>1
<1>3. UNCHANGED page => Sound
  BY <1>1
<1>4. Same /\ Sound => MapInv'
  BY PageKept
<1>5. ASSUME NEW q, Unharmed(q, page), page' = Told(q) PROVE Sound
  BY <1>5, ToldKept
<1>6. ASSUME NEW q, Alike(q, page), page' = q PROVE Sound
  BY <1>1, <1>6, AlikeGood
<1>7. CASE Traffic
  <2>1. ASSUME NEW i, Opens(i) PROVE Same /\ Sound
    <3>1. Same
      BY <1>1, <2>1 DEF Opens, WorldFields
    <3>2. Unharmed(OnActive(page, i), page)
      BY <1>1, Messages
    <3> QED BY <1>5, <2>1, <3>1, <3>2 DEF Opens
  <2>2. ASSUME NEW i, Closes(i) PROVE Same /\ Sound
    <3>1. Same
      BY <1>1, <2>2 DEF Closes, WorldFields
    <3> DEFINE p == OnRelease(page, i)
    <3> DEFINE q == IF world.speaker = i THEN OnAudible(p, None) ELSE p
    <3> DEFINE r == IF world'.open = {} THEN OnIdle(q) ELSE q
    <3>2. Unharmed(p, page)
      BY <1>1, Messages
    <3>3. Unharmed(q, page)
      <4>1. Unharmed(OnAudible(p, None), p)
        BY <3>2, Messages DEF Unharmed
      <4> HIDE DEF p
      <4> QED BY <3>2, <4>1, UnharmedChain
    <3> HIDE DEF q
    <3>4. Unharmed(r, page)
      <4>1. Unharmed(OnIdle(q), q)
        BY <3>3, Messages DEF Unharmed
      <4> QED BY <3>3, <4>1, UnharmedChain
    <3>5. page' = Told(r)
      BY <2>2 DEF Closes, q
    <3> HIDE DEF r
    <3> QED BY <1>5, <3>1, <3>4, <3>5
  <2>3. ASSUME NEW i, Speaks(i) PROVE Same /\ Sound
    <3>1. Same
      BY <1>1, <2>3 DEF Speaks, WorldFields
    <3>2. Unharmed(OnAudible(page, i), page)
      BY <1>1, Messages
    <3> QED BY <1>5, <2>3, <3>1, <3>2 DEF Speaks
  <2>4. CASE Signal
    <3>1. Unharmed(OnSignal(page), page)
      BY <1>1, Messages
    <3>2. page' = Told(OnSignal(page)) /\ UNCHANGED world
      BY <2>4 DEF Signal
    <3>3. Same
      BY <1>2, <3>2
    <3>4. Sound
      BY <1>5, <3>1, <3>2
    <3> QED BY <1>4, <3>3, <3>4
  <2> HIDE DEF Same, Sound
  <2> QED BY <1>4, <1>7, <2>1, <2>2, <2>3, <2>4 DEF Traffic
<1>8. CASE ScanLands
  <2>1. Good(PollRadar(page)) /\ PollRadar(page).fly \in {page.fly, "meta"}
    BY <1>1, Polls
  <2>2. Sound
    BY <1>1, <1>8, <2>1 DEF ScanLands, Told
  <2>3. DOMAIN world' = WorldFields /\ world'.scan = world.scan + 1
    BY <1>1, <1>8 DEF ScanLands, WorldFields
  <2> QED BY <2>2, <2>3, PageKept
<1>9. CASE RadarAnswers
  <2>1. CASE page.fly = "meta"
    <3>1. page' = MetaIn(world, page) /\ world' = world
      BY <1>9, <2>1 DEF RadarAnswers
    <3>2. Good(page') /\ page'.fly \in {"no", "frame"} /\ (page'.fly = "frame" => world.scan # 0)
      BY <1>1, <3>1, Answers
    <3> QED BY <1>1, <3>1, <3>2 DEF MapInv, Good
  <2>2. CASE page.fly = "frame"
    <3>1. page' = FrameIn(world, page) /\ world' = world
      BY <1>9, <2>2 DEF RadarAnswers
    <3>2. Good(page') /\ page'.fly = "no"
      BY <1>1, <2>2, <3>1, Answers DEF MapInv
    <3> QED BY <1>2, <1>4, <3>1, <3>2
  <2>3. CASE page.fly \notin {"meta", "frame"}
    BY <2>3, <1>9 DEF MapInv, RadarAnswers
  <2> QED BY <2>1, <2>2, <2>3
<1>10. CASE RadarFails
  <2> DEFINE q == [page EXCEPT !.fly = "no"]
  <2>1. Good(q) /\ q.fly = "no"
    BY <1>1 DEF PageFields, Good, FadeRight, FitsRight
  <2>2. page' = q \/ page' = CheckStale(world, q)
    BY <1>10 DEF RadarFails
  <2> HIDE DEF q
  <2>3. Sound
    BY <2>1, <2>2, StaleChecks
  <2> QED BY <1>2, <1>4, <1>10, <2>3 DEF RadarFails
<1>11. CASE Timers
  <2>1. CASE RadarTimer
    BY <1>1, <1>2, <1>4, <2>1, Polls DEF RadarTimer
  <2>2. CASE StaleTimer
    BY <1>1, <1>2, <1>4, <2>2, StaleChecks DEF StaleTimer
  <2>3. CASE ResizeTimer
    <3> DEFINE q == [page EXCEPT !.resize = FALSE]
    <3>1. DOMAIN q = PageFields /\ SameRadar(q, page) /\ q.fly = page.fly
      BY <1>1 DEF PageFields, SameRadar
    <3> HIDE DEF q
    <3>2. DOMAIN Refit(q) = PageFields /\ SameRadar(Refit(q), q) /\ Refit(q).fly = q.fly /\ FitsRight(Refit(q))
      BY <3>1, Refits
    <3>3. FadeRight(Refit(q))
      BY <1>1, <3>1, <3>2 DEF Good, FadeRight, SameRadar
    <3>4. page' = Refit(q) /\ world' = world
      BY <2>3 DEF ResizeTimer, q
    <3>5. Sound
      BY <3>1, <3>2, <3>3, <3>4 DEF Good
    <3> QED BY <1>2, <1>4, <3>4, <3>5
  <2>4. CASE LayerTimer
    <3>1. Alike([page EXCEPT !.asked = TRUE], page)
      BY <1>1 DEF PageFields, Alike, SameRadar, SameScreen
    <3> QED BY <1>2, <1>4, <1>6, <2>4, <3>1 DEF LayerTimer
  <2> QED BY <1>11, <2>1, <2>2, <2>3, <2>4 DEF Timers
<1>12. ASSUME NEW a, Flies(a) PROVE MapInv'
  <2>1. Same /\ UNCHANGED page
    BY <1>1, <1>12 DEF Flies, WorldFields
  <2> QED BY <1>3, <1>4, <2>1
<1>13. ASSUME NEW s, NEW n, NEW k, Announced(s, n, k) PROVE MapInv'
  <2>1. Same
    BY <1>1, <1>13 DEF Announced, WorldFields
  <2>2. Unharmed(OnAircraft(page, s), page)
    BY <1>1, Messages
  <2>3. Sound
    BY <1>5, <1>13, <2>2 DEF Announced
  <2> QED BY <1>4, <2>1, <2>3
<1>14. CASE AircraftPoll \/ AircraftFails
  BY <1>13, <1>14 DEF AircraftPoll, AircraftFails
<1>15. CASE Drops \/ DropsRedraw
  <2>1. Alike([page EXCEPT !.up = FALSE], page) /\ Alike([page EXCEPT !.asked = FALSE], page)
    BY <1>1 DEF PageFields, Alike, SameRadar, SameScreen
  <2>2. page' \in {[page EXCEPT !.up = FALSE], [page EXCEPT !.asked = FALSE]} /\ UNCHANGED world
    BY <1>15 DEF Drops, DropsRedraw
  <2> QED BY <1>2, <1>4, <1>6, <2>1, <2>2
<1>16. CASE Reconnects
  <2> DEFINE p == IF world.speaker = None THEN page ELSE OnAudible(page, world.speaker)
  <2> DEFINE q == IF world.slot = {} THEN p ELSE OnAircraft(p, world.slot)
  <2> DEFINE r == [q EXCEPT !.up = TRUE]
  <2>1. Unharmed(page, page)
    BY <1>1 DEF Unharmed, SameRadar
  <2>2. Unharmed(p, page)
    BY <1>1, <2>1, Messages
  <2> HIDE DEF p
  <2>3. Unharmed(q, page)
    <3>1. Unharmed(OnAircraft(p, world.slot), p)
      BY <2>2, Messages DEF Unharmed
    <3> QED BY <2>2, <3>1, UnharmedChain
  <2> HIDE DEF q
  <2>4. Unharmed(r, q)
    BY <2>3 DEF PageFields, Unharmed, SameRadar, FitsRight
  <2>5. page' = r /\ world' = world
    BY <1>16 DEF Reconnects, p, q
  <2> HIDE DEF r
  <2>6. Sound
    BY <1>1, <2>3, <2>4, <2>5, UnharmedChain, UnharmedGood
  <2> QED BY <1>2, <1>4, <2>5, <2>6
<1>17. CASE Pause \/ Resume
  <2>1. Alike(SetPaused(page, TRUE), page) /\ Alike(SetPaused(page, FALSE), page)
    BY <1>1, Pauses
  <2>2. Good(SetPaused(page, FALSE)) /\ SetPaused(page, FALSE).fly = page.fly
    BY <1>1, <2>1, AlikeGood
  <2>3. Good(PollRadar(SetPaused(page, FALSE))) /\ PollRadar(SetPaused(page, FALSE)).fly \in {page.fly, "meta"}
    BY <2>2, Polls
  <2>4. CASE Pause
    BY <1>2, <1>4, <1>6, <2>1, <2>4 DEF Pause
  <2>5. CASE Resume
    BY <1>2, <1>4, <2>3, <2>5 DEF Resume
  <2> QED BY <1>17, <2>4, <2>5
<1>18. CASE Resized
  <2> DEFINE q == [page EXCEPT !.screen = @ + 1, !.resize = TRUE]
  <2>1. Good(q) /\ q.fly = page.fly
    BY <1>1 DEF PageFields, Good, FadeRight, FitsRight
  <2> HIDE DEF q
  <2>2. page' = q /\ world' = world
    BY <1>18 DEF Resized, q
  <2> QED BY <1>2, <1>4, <2>1, <2>2
<1>19. CASE Draw
  BY <1>1, <1>2, <1>4, <1>19, Draws DEF Draw
<1>20. CASE ContextComes \/ ContextUseless \/ ContextLost
  BY <1>1, <1>2, <1>4, <1>20, Contexts DEF ContextComes, ContextUseless, ContextLost
<1>21. CASE ScansAge
  <2>1. Same /\ UNCHANGED page
    BY <1>1, <1>21 DEF ScansAge, WorldFields
  <2> QED BY <1>3, <1>4, <2>1
<1>22. CASE FadeMoves
  <2> DEFINE q == [page EXCEPT !.mixing = FALSE,
                          !.alpha = IF @ < page.to THEN @ + 1 ELSE IF @ > page.to THEN @ - 1 ELSE @]
  <2>1. /\ DOMAIN q = PageFields /\ q.shown = page.shown /\ q.wanted = page.wanted /\ q.dark = page.dark
        /\ q.alpha = (IF page.alpha < page.to THEN page.alpha + 1 ELSE IF page.alpha > page.to THEN page.alpha - 1 ELSE page.alpha)
        /\ q.to = page.to /\ q.has = page.has /\ q.ctx = page.ctx /\ q.pending = page.pending
        /\ q.painted = page.painted /\ SameScreen(q, page) /\ q.fly = page.fly
    BY <1>1 DEF PageFields, SameScreen
  <2>2. page' = q /\ world' = world
    BY <1>22 DEF FadeMoves
  <2> HIDE DEF q
  <2>3. q.alpha \in Nat /\ (page.alpha = 0 /\ page.to = 0 => q.alpha = 0)
    BY <1>1, <2>1 DEF Good, FadeRight
  <2>4. FadeRight(page)
    BY <1>1 DEF Good
  <2>5. FadeRight(q)
    BY <2>1, <2>3, <2>4, Zenon DEF FadeRight
  <2>6. Good(q)
    BY <1>1, <2>1, <2>5 DEF Good, FitsRight, SameScreen
  <2>7. Sound
    BY <2>1, <2>2, <2>6
  <2> QED BY <1>2, <1>4, <2>2, <2>7
<1>23. CASE FrontsAge \/ SmokeTick
  <2>1. \A f : Alike([page EXCEPT !.fronts = f], page) /\ Alike([page EXCEPT !.smoke = f], page)
    BY <1>1 DEF PageFields, Alike, SameRadar, SameScreen
  <2>2. UNCHANGED world /\ \E f : page' = [page EXCEPT !.fronts = f] \/ page' = [page EXCEPT !.smoke = f]
    BY <1>23 DEF FrontsAge, SmokeTick
  <2> QED BY <1>2, <1>4, <1>6, <2>1, <2>2
<1>24. CASE UNCHANGED mapVars
  BY <1>24, <1>2, <1>3, <1>4 DEF mapVars
<1> QED BY <1>7, <1>8, <1>9, <1>10, <1>11, <1>12, <1>14, <1>15, <1>16, <1>17, <1>18, <1>19, <1>20, <1>21, <1>22, <1>23, <1>24
        DEF ActivityMapNext

\* Whatever drops, fails, is lost or hidden, and for any channels, lifetimes and ages: radar that went
\* stale does not come back with a lost context, and a screen is fitted to, or will be in the next
\* quiet (radarFade.ts, glassLayer.ts, map.ts).
THEOREM PictureTheorem == ActivityMapSpec => []PictureSound
<1>1. MapInv => PictureSound
  BY DEF MapInv, FadeRight, FitsRight, PictureSound, StaysDark, StageFits
<1> QED BY InitMap, NextMap, <1>1, PTL DEF ActivityMapSpec
==============================================================================
