---------------------------- MODULE MCReloadState ----------------------------
(***************************************************************************)
(* Small instances of ReloadState.                                         *)
(***************************************************************************)
EXTENDS ReloadState

CONSTANTS c1, c2, c3, w1, w2, t1, t2

\* Tags in their order, and rules that open client c on workspace w.
File(tags, c, w) ==
    [tags |-> tags, rule |-> [d \in Clients |-> IF d = c THEN w ELSE NoWorkspace]]

\* The only tag is declared, with a rule that opens a client there, or dropped.
Dropping == {File(<<t1>>, c1, t1), File(<<>>, c1, NoWorkspace)}
OneTag == {File(<<t1>>, c1, NoWorkspace)}
=============================================================================
