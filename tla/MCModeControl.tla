--------------------------- MODULE MCModeControl ---------------------------
(* ModeControl with two frequencies, an alert, a second one and a test; and *)
(* the wall page that follows the mode, with a server of its own that does   *)
(* whatever it likes: each behaviour is one of the radio, or of the wall.    *)
EXTENDS ModeControl, WallStages

CONSTANTS f1, f2, tor, svr, rwt

VARIABLE part

MCConfigs ==
  { [scanned |-> {f1}, listed |-> {f2}, wx |-> TRUE, spy |-> TRUE, hunts |-> TRUE],
    [scanned |-> {f1}, listed |-> {}, wx |-> TRUE, spy |-> FALSE, hunts |-> TRUE],
    [scanned |-> {}, listed |-> {}, wx |-> FALSE, spy |-> TRUE, hunts |-> FALSE] }

MCHold == [a \in {tor, svr, rwt} |-> IF a = tor THEN 3 ELSE 2]

MCInit ==
  /\ part \in {"radio", "wall"}
  /\ Init /\ WallInit
  /\ part # "radio" => config = CHOOSE c \in Configs : c.hunts
  /\ part # "wall" => server.mode = "scan" /\ server.log = {}
  \* A wall that opens in the Atlas finds stations in the log; any other finds none.
  /\ part = "wall" => server.log = IF server.mode = "hf" THEN Stations ELSE {}

MCNext ==
  \/ part = "radio" /\ Next /\ UNCHANGED <<part, wallVars>>
  \/ part = "wall" /\ WallNext /\ UNCHANGED <<part, vars>>

\* The fairness of each, while it is the one that moves.
InWall(A) == part = "wall" /\ A
MCFairness ==
  /\ WF_vars(part = "radio" /\ Tick) /\ WF_vars(part = "radio" /\ Revert)
  /\ WF_wallVars(InWall(AskStatus)) /\ WF_wallVars(InWall(AskHeard)) /\ WF_wallVars(InWall(Lands))
  /\ WF_wallVars(InWall(PictureReady)) /\ WF_wallVars(InWall(ZoomRan))
  /\ WF_wallVars(InWall(LineFades)) /\ WF_wallVars(InWall(Frame))

MCSpec == MCInit /\ [][MCNext]_<<part, vars, wallVars>> /\ MCFairness
=============================================================================
