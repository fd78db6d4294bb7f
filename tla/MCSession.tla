------------------------------ MODULE MCSession ------------------------------
(***************************************************************************)
(* The zestctl calls that TLC checks.                                      *)
(***************************************************************************)
EXTENDS Session, TLC

CONSTANTS p, q

\* A batch that toggles an overlay and reloads, and a quit from elsewhere.
TwoCallers == p :> <<"special", "reload">> @@ q :> <<"quit">>
=============================================================================
