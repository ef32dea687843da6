----------------------------- MODULE MCScanner -----------------------------
(* Scanner on three slots: a priority channel, an ordinary one, a see-only  *)
(* one with a tone squelch, the weather channel and one Close Call hit; and  *)
(* the recorder that hears the speaker change hands.  They share no state:   *)
(* each behaviour is one of the scanner, or of the recorder.                 *)
EXTENDS Scanner, CcRecorder

CONSTANTS prio, plain, mute, wx, cc

VARIABLE part

MCChannels == {prio, plain, mute, wx}

MCTunes ==
  { [channels |-> <<plain, prio>>, monitor |-> FALSE, ccAudible |-> {cc}],
    [channels |-> <<wx, mute, plain>>, monitor |-> FALSE, ccAudible |-> {}],
    [channels |-> <<plain>>, monitor |-> TRUE, ccAudible |-> {}] }

\* A keyed voice, the same without its tone, a carrier without voice, a fade, nothing.
MCReadings ==
  { [level |-> "above", quiet |-> TRUE, carrier |-> TRUE, tone |-> TRUE],
    [level |-> "above", quiet |-> TRUE, carrier |-> TRUE, tone |-> FALSE],
    [level |-> "above", quiet |-> FALSE, carrier |-> TRUE, tone |-> FALSE],
    [level |-> "mid", quiet |-> TRUE, carrier |-> FALSE, tone |-> FALSE],
    [level |-> "below", quiet |-> FALSE, carrier |-> FALSE, tone |-> FALSE] }

MCInit ==
  /\ part \in {"scanner", "recorder"}
  /\ Init /\ RecorderInit
  /\ part # "recorder" => enabled /\ filed = {}

MCNext ==
  \/ part = "scanner" /\ Next /\ UNCHANGED <<part, recorderVars>>
  \/ part = "recorder" /\ RecorderNext /\ UNCHANGED <<part, vars>>

MCSpec == MCInit /\ [][MCNext]_<<part, vars, recorderVars>>

\* The frequencies of Close Call are interchangeable to the recorder.
FreqSymmetry == Permutations(Freq)
=============================================================================
