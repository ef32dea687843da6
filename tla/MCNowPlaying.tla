---------------------------- MODULE MCNowPlaying ----------------------------
EXTENDS NowPlaying

CONSTANTS a, s, wx, Most

\* a is heard and s only watched, a window each; wx is the weather channel.
MCWindowOf == [c \in Channels |-> CASE c = a -> 1 [] c = s -> 2 [] c = wx -> 3]

\* Two deaths, two losses of the socket, one call; not all in one behaviour.
FewTroubles ==
  {t \in [faults : 0 .. 2, losses : 0 .. 2, calls : 0 .. 1] : t.faults + t.losses + t.calls <= Most}
=============================================================================
