------------------------------- MODULE Ownership -------------------------------
(***************************************************************************)
(* What a reload promises about workspaces (docs/behavior/must-features.md,*)
(* MUST-RELOAD-001, -002, -004, -005): while no window manager runs,       *)
(* windows may close and nothing else happens to them, and the one that    *)
(* starts again finds each tiled window where it was, unless the           *)
(* configuration has dropped its tag.                                      *)
(***************************************************************************)
EXTENDS FiniteSets

CONSTANTS
    Clients,        \* the X windows that may be managed
    NormalIds,      \* numbered workspaces
    Tags,           \* tags of special workspaces
    Nowhere         \* the owner of a window that is not tiled

VARIABLES
    up,         \* a window manager is running
    declared,   \* the tags its configuration declares
    owner       \* the workspace of each tiled window

Init ==
    /\ up = TRUE
    /\ declared \in SUBSET Tags
    /\ owner = [c \in Clients |-> Nowhere]

\* One event moves, opens, closes, floats or tiles the windows of one set.
Event ==
    /\ up
    /\ \E moved \in SUBSET Clients, w \in NormalIds \cup Tags \cup {Nowhere} :
         owner' = [c \in Clients |-> IF c \in moved THEN w ELSE owner[c]]
    /\ UNCHANGED <<up, declared>>

Stop ==
    /\ up
    /\ up' = FALSE
    /\ UNCHANGED <<declared, owner>>

Close(c) ==
    /\ ~up
    /\ owner' = [owner EXCEPT ![c] = Nowhere]
    /\ UNCHANGED <<up, declared>>

\* A window that was not tiled may be anywhere afterwards.
Start ==
    /\ ~up
    /\ up' = TRUE
    /\ declared' \in SUBSET Tags
    /\ owner' \in [Clients -> NormalIds \cup Tags \cup {Nowhere}]
    /\ \A c \in Clients :
         /\ owner[c] \in NormalIds \cup declared' => owner'[c] = owner[c]
         /\ owner[c] \in Tags \ declared' => owner'[c] \in NormalIds

Next == Event \/ Stop \/ (\E c \in Clients : Close(c)) \/ Start

Spec == Init /\ [][Next]_<<up, declared, owner>>

=============================================================================
