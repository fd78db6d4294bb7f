----------------------------- MODULE MCMonitors -----------------------------
(***************************************************************************)
(* Two outputs that come and go.  Two addresses are enough: a monitor is   *)
(* made only while at most one exists.                                     *)
(***************************************************************************)
EXTENDS Monitors

CONSTANTS c1, c2, w1, w2, t1, A, B

PlainWindows == [c \in Clients |-> "normal"]
NoRules == [w \in NormalIds |-> NoMonitor]
NoDefaults == [m \in Monitors |-> NoWorkspace]
NoRule == [output |-> NoMonitor, workspace |-> NoWorkspace, silent |-> FALSE]
OneRule == {NoRule}

\* Either output alone, both in either order, and the answer without RandR.
TwoOutputs == {<<A>>, <<B>>, <<A, B>>, <<B, A>>, <<Unnamed>>}
=============================================================================
