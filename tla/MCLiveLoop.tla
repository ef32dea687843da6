----------------------------- MODULE MCLiveLoop ------------------------------
(* Transfers of two units and blocks of three, so that blocks straddle        *)
(* transfers and a retune cuts a block short; the settle is exactly what the  *)
(* assumption asks for.                                                       *)
EXTENDS LiveLoop
=============================================================================
