---------------------------- MODULE LightningFeed ----------------------------
(***************************************************************************)
(* The backend's lightning poll (backend/lightning/LightningFeed.ts). NOAA   *)
(* publishes a file of flashes every 20 s; each poll lists those newer than  *)
(* the last one taken, downloads them one after another, and announces what  *)
(* it got. A listing, a download or the content of a file may fail; files    *)
(* are published while a poll is under way; and what is older than the       *)
(* replay window, or more than one catch-up, is passed over.                *)
(*                                                                          *)
(* A file is its number, which is its time too: keys sort as the times of    *)
(* the files do. What flashes it holds is left out.                         *)
(***************************************************************************)
EXTENDS Integers, Sequences

CONSTANTS
  MaxFile,      \* files published
  Window,       \* windowMs, in files
  MaxCatchup,   \* maxCatchupFiles
  MaxStrikes    \* failures

ASSUME LightningFeedAssumption ==
  {MaxFile, Window, MaxCatchup} \subseteq Nat \ {0} /\ MaxStrikes \in Nat

VARIABLES
  goes,     \* files published
  glm,      \* the feed: where its poll waits, lastKey, the keys to come, what is fresh
  told,     \* the files whose flashes were announced, in their order
  passed,   \* files passed over: too old, too many, or no good
  strikes   \* failures left

lightningVars == <<goes, glm, told, passed, strikes>>

Later(a, b) == IF a > b THEN a ELSE b

\* pollOnce() up to its listing: from the last file on, but not beyond the window.
PollLightning ==
  /\ glm.st = "idle"
  /\ glm' = [glm EXCEPT !.st = "list", !.after = Later(glm.last, goes - Window), !.fresh = <<>>]
  /\ UNCHANGED <<goes, told, passed, strikes>>

\* list(): the newest so many of the files it has not taken.
ListsFiles ==
  /\ glm.st = "list"
  /\ LET first == Later(glm.after, goes - MaxCatchup) + 1
     IN  /\ glm' = [glm EXCEPT !.st = "files", !.keys = [n \in 1 .. (goes - first + 1) |-> first + n - 1]]
         /\ passed' = passed \cup ((glm.last + 1) .. (first - 1))
  /\ UNCHANGED <<goes, told, strikes>>

\* A file is taken, and is good.
TakesFile ==
  /\ glm.st = "files" /\ glm.keys # <<>>
  /\ glm' = [glm EXCEPT !.last = Head(glm.keys), !.keys = Tail(@), !.fresh = Append(@, Head(glm.keys))]
  /\ UNCHANGED <<goes, told, passed, strikes>>

\* A file that cannot be read never heals: it is behind the feed already.
BadFile ==
  /\ glm.st = "files" /\ glm.keys # <<>> /\ strikes > 0
  /\ glm' = [glm EXCEPT !.last = Head(glm.keys), !.keys = Tail(@)]
  /\ passed' = passed \cup {Head(glm.keys)}
  /\ strikes' = strikes - 1 /\ UNCHANGED <<goes, told>>

\* Defect: the files after one that could not be downloaded are taken.
DownloadSkipped ==
  /\ glm.st = "files" /\ glm.keys # <<>> /\ strikes > 0
  /\ glm' = [glm EXCEPT !.keys = Tail(@)]
  /\ strikes' = strikes - 1 /\ UNCHANGED <<goes, told, passed>>

\* A download that fails ends the round: the next poll goes on from there.
DownloadFails ==
  /\ glm.st = "files" /\ glm.keys # <<>> /\ strikes > 0
  /\ glm' = [glm EXCEPT !.keys = <<>>]
  /\ strikes' = strikes - 1 /\ UNCHANGED <<goes, told, passed>>

ListFails ==
  /\ glm.st = "list" /\ strikes > 0
  /\ glm' = [glm EXCEPT !.st = "files", !.keys = <<>>]
  /\ strikes' = strikes - 1 /\ UNCHANGED <<goes, told, passed>>

Announces ==
  /\ glm.st = "files" /\ glm.keys = <<>>
  /\ told' = told \o glm.fresh
  /\ glm' = [glm EXCEPT !.st = "idle", !.fresh = <<>>, !.after = 0]
  /\ UNCHANGED <<goes, passed, strikes>>

FilePublished == goes < MaxFile /\ goes' = goes + 1 /\ UNCHANGED <<glm, told, passed, strikes>>

LightningInit ==
  /\ goes = 0 /\ told = <<>> /\ passed = {} /\ strikes = MaxStrikes
  /\ glm = [st |-> "idle", last |-> 0, after |-> 0, keys |-> <<>>, fresh |-> <<>>]

FeedRuns == PollLightning \/ ListsFiles \/ TakesFile \/ Announces

LightningNext == FeedRuns \/ BadFile \/ DownloadFails \/ ListFails \/ FilePublished

LightningFairness == WF_lightningVars(FeedRuns)

LightningSpec == LightningInit /\ [][LightningNext]_lightningVars /\ LightningFairness

----------------------------------------------------------------------------

ToldFiles == {told[i] : i \in 1 .. Len(told)}

\* Flashes are announced in the order of their files, none twice; and a file the feed has got
\* beyond was announced, is about to be, or was passed over for its age, for a backlog or for
\* what it holds: a failed download loses none (LightningFeed.ts:2-9, 112, 126).
StrikesOnceInOrder ==
  /\ \A i, j \in 1 .. Len(told) : i < j => told[i] < told[j]
  /\ \A k \in 1 .. glm.last : k \in ToldFiles \cup passed \/ \E n \in 1 .. Len(glm.fresh) : glm.fresh[n] = k
=============================================================================
