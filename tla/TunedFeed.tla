------------------------------ MODULE TunedFeed ------------------------------
(* What the helper's sample path promises the engine: windows change only to  *)
(* the one asked for last, nothing is demodulated on the way there, every     *)
(* sample demodulated was captured at the live window's center, and the list  *)
(* of known frequencies in force is the last one given.                       *)
EXTENDS Naturals

CONSTANTS Lists,   \* lists of known frequencies
          NoList   \* the engine's before any command

VARIABLES wanted,  \* the last window asked for, counted; 0 before the first
          window,  \* the window the engine demodulates; 0 for none
          latest,  \* the last list given, with a window or by itself
          known,   \* the list the engine suppresses by
          heard    \* where the samples last demodulated were captured

vars == <<wanted, window, latest, known, heard>>

Init == wanted = 0 /\ window = 0 /\ latest = NoList /\ known = NoList /\ heard = {}

\* A window is asked for: its list is the latest, and holds from the arrival.
Ask(k) ==
  /\ wanted' = wanted + 1
  /\ latest' = k
  /\ UNCHANGED <<window, known, heard>>

\* A list by itself holds at once, and still after a window asked for before it.
Suppress(k) ==
  /\ latest' = k
  /\ known' = k
  /\ UNCHANGED <<wanted, window, heard>>

\* The window asked for last arrives with its own samples.
Arrive ==
  /\ window # wanted
  /\ window' = wanted
  /\ known' = latest
  /\ heard' = {wanted}
  /\ UNCHANGED <<wanted, latest>>

\* Samples are demodulated only while no other window is awaited.
Hear ==
  /\ window = wanted
  /\ window # 0
  /\ heard' = {window}
  /\ UNCHANGED <<wanted, window, latest, known>>

Next == Arrive \/ Hear \/ \E k \in Lists : Ask(k) \/ Suppress(k)

Spec == Init /\ [][Next]_vars
=============================================================================
