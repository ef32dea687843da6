---------------------------- MODULE MCAdminPage ----------------------------
EXTENDS AdminPage

\* One field of each cost, in one group.
Costs == [l |-> "live", s |-> "scan", h |-> "heavy"]

Edits(l, s, h, w) == [l |-> l, s |-> s, h |-> h, weather |-> w]
Plan(e, others, fails, power) == [edits |-> e, others |-> others, fails |-> fails, power |-> power]

\* A countdown folded into an Apply and a failure; a field saved at once, a slider and another
\* writer; the weather channel; a power action over a save under way, and over a crash.
SomePlans ==
  {Plan(Edits(0, 2, 1, 0), 0, 1, 0), Plan(Edits(2, 1, 0, 0), 1, 1, 0), Plan(Edits(0, 0, 0, 2), 0, 2, 0),
   Plan(Edits(0, 2, 0, 0), 0, 1, 1), Plan(Edits(1, 0, 0, 1), 0, 1, 2)}
=============================================================================
