--------------------------- MODULE MCWorkspaceView ---------------------------
(***************************************************************************)
(* Small instances of WorkspaceView: clients, workspaces and tags as model *)
(* values, the window types, the rules and the monitor bindings of each    *)
(* configuration.                                                          *)
(***************************************************************************)
EXTENDS WorkspaceView

CONSTANTS c1, c2, c3, w1, w2, t1, t2, t0

PlainWindows == [c \in Clients |-> "normal"]
MixedWindows == [c \in Clients |-> CASE c = c1 -> "normal"
                                     [] c = c2 -> "dialog"
                                     [] OTHER -> "dock"]

NoRules == [w \in NormalIds |-> NoMonitor]
NoDefaults == [m \in Monitors |-> NoWorkspace]
DefaultOnSecond == [m \in Monitors |-> IF m = 2 THEN w2 ELSE NoWorkspace]

NoRule == [output |-> NoMonitor, workspace |-> NoWorkspace, silent |-> FALSE]
ToWorkspace(w, s) == [output |-> NoMonitor, workspace |-> w, silent |-> s]
ToOutput(m) == [output |-> m, workspace |-> NoWorkspace, silent |-> FALSE]

TagRules == {NoRule, ToWorkspace(t1, FALSE), ToWorkspace(t1, TRUE)}
OneMonitorRules == TagRules \cup {ToWorkspace(w2, FALSE), ToWorkspace(w2, TRUE)}
OutputRules == TagRules \cup {ToWorkspace(w2, FALSE), ToOutput(2)}
SilentTagRules == {NoRule, ToWorkspace(t1, TRUE)}
=============================================================================
