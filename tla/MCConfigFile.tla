---------------------------- MODULE MCConfigFile ----------------------------
(***************************************************************************)
(* The lines of the configurations that TLC reads.                         *)
(***************************************************************************)
EXTENDS ConfigFile, TLC

CONSTANTS main, a, b, web, scratch, term, notes

Id(n) == [to |-> "id", id |-> n]
Name(m) == [to |-> "name", name |-> m]
Special(g) == [to |-> "special", tag |-> g]
Bind(ref, key) == [is |-> "bind", early |-> TRUE, action |-> "workspace", ref |-> ref, key |-> key]
Workspace(ref, rest) == [is |-> "workspace", ref |-> ref, rest |-> rest]

\* One of each kind of line.
Mixed ==
    [is : {"open"}, block : {"general", "snap", "input", "touchpad", "device", "misc",
                             "window-rule", "binds"}]
    \cup [is : {"close", "bare"}]
    \cup [is : {"set"}, key : {"layout", "name", "enabled", "natural_scroll"}, ok : BOOLEAN]
    \cup [is : {"source"}, file : Files]
    \cup {Workspace(Id(1), <<>>), Workspace(Id(2), <<web>>), Workspace(Name(web), <<>>),
          Workspace(Special(scratch), <<>>)}
    \cup [is : {"match"}, ok : {TRUE}]
    \cup [is : {"target"}, ref : {Special(notes), Name(web)}]
    \cup {Bind(Special(scratch), TRUE), Bind(Special(term), FALSE), Bind(Special(term), TRUE),
          Bind(Name(web), TRUE), [Bind(Special(term), TRUE) EXCEPT !.early = FALSE],
          [is |-> "bind", early |-> TRUE, action |-> "setlayout", index |-> 0, key |-> TRUE]}
=============================================================================
