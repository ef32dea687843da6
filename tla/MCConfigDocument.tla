-------------------------- MODULE MCConfigDocument --------------------------
EXTENDS ConfigDocument

CONSTANT Most

MCRow == <<1, 2>>

\* Two writers, a hit more than files a discovery, an answer, a power failure; not all in one behaviour.
FewTogether ==
  {b \in [writes : 0 .. 2, finds : 0 .. 3, news : 0 .. 1, crashes : 0 .. 1] :
     b.writes + b.finds + b.news + b.crashes <= Most}

\* Tabs are interchangeable.
TabSymmetry == Permutations(Tab)
=============================================================================
