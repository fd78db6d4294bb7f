----------------------------- MODULE LayoutTrees -----------------------------
(***************************************************************************)
(* The tiling trees of one monitor: a tree of tab groups for each          *)
(* workspace, and the commands that add, remove, move, group and peel      *)
(* clients (src/layout_tree.cpp, src/bsp/, src/monitor/tree_arrange.cpp,   *)
(* the tree commands of src/actions.cpp).                                  *)
(*                                                                         *)
(* The shape of a tree above its leaves only decides where a leaf is       *)
(* drawn.  It is left out: a tree is the set of its leaves, a leaf with no *)
(* parent is the only leaf of its tree, and a neighbour chosen by          *)
(* direction is any other leaf.  Client::leaf is the leaf that holds the   *)
(* client, null when none does: the two part only after a leaf was freed   *)
(* under a client, which EachTiledOnce denies.  An empty root and no root  *)
(* behave alike for the viewed workspace, and both are the empty set.      *)
(*                                                                         *)
(* One thread runs each handler to its end, so each is one action, written *)
(* as a composition of operators on state records.  Focus is modelled as   *)
(* far as it chooses active tabs; every client accepts it here.            *)
(***************************************************************************)
EXTENDS Integers, FiniteSets, SequencesExt

CONSTANTS
    Clients,        \* the X windows that may be managed
    Floaters,       \* those that ever float or go fullscreen
    NormalIds,      \* numbered workspaces
    Tags,           \* tags of special workspaces
    Persistent,     \* workspaces whose tree outlives their last client
    Binds,          \* tree commands the user gives with no overlay open,
    OverlayBinds,   \* and with one
    InsertAfterCurrent, MergeGroups,   \* booleans of the group configuration
    DragIntoGroup,  \* drag_into_group: 0 swaps, 1 merges, 2 (groupbars only) left out
    FocusRemoved,   \* focus_removed_window of the group configuration
    NoClient, NoTag, NoWorkspace    \* null pointer, closed, none

Workspaces == NormalIds \cup Tags

Commands == {"groupmode", "movegroup", "sendtogroup", "moveoutofgroup", "swapwindow",
             "movewindoworgroup", "movetoroot", "movemouse"}

ASSUME TreeConstants ==
    /\ NormalIds \cap Tags = {}
    /\ Floaters \subseteq Clients
    /\ Persistent \subseteq NormalIds
    /\ Binds \subseteq Commands
    /\ OverlayBinds \subseteq Commands
    /\ InsertAfterCurrent \in BOOLEAN
    /\ MergeGroups \in BOOLEAN
    /\ DragIntoGroup \in {0, 1}
    /\ FocusRemoved \in {"history", "previous", "next", "first", "last", "leave"}
    /\ NoClient \notin Clients
    /\ NoTag \notin Workspaces \cup {NoWorkspace}
    /\ NoWorkspace \notin Workspaces

VARIABLES
    active,     \* active_workspace_id
    overlay,    \* the tag of the open special overlay, or NoTag
    ws,         \* Client::workspace, NoWorkspace while not managed
    floating,   \* clients with isfloating, fullscreen ones included
    tree,       \* the leaves of the tree of each workspace
    hint,       \* the rejoin hints of each client
    sel         \* Monitor::sel

vars == <<active, overlay, ws, floating, tree, hint, sel>>

State == [active |-> active, overlay |-> overlay, ws |-> ws, floating |-> floating,
          tree |-> tree, hint |-> hint, sel |-> sel]

Become(s) ==
    /\ active' = s.active
    /\ overlay' = s.overlay
    /\ ws' = s.ws
    /\ floating' = s.floating
    /\ tree' = s.tree
    /\ hint' = s.hint
    /\ sel' = s.sel

Maybe == Clients \cup {NoClient}

\* GroupedNode.  Positions count from 1; prev is 0 when prev_active is unset.
LeafSet == [tabs : Seq(Clients), active : Nat \ {0}, prev : Nat, groupmode : BOOLEAN]

\* rejoin_group_peer_win, rejoin_group_slot_plus_one and rejoin_bsp.neighbor_win.  They
\* are read for a client outside any tree only: what stays behind on one that is put
\* straight into a leaf is forgotten here.
HintSet == [peer : Maybe, slot : Nat, beside : Maybe]

EmptyLeaf == [tabs |-> <<>>, active |-> 1, prev |-> 0, groupmode |-> FALSE]
NoHint == [peer |-> NoClient, slot |-> 0, beside |-> NoClient]

-----------------------------------------------------------------------------
(* One leaf and its tabs.                                                  *)

Position(n, c) == SelectInSeq(n.tabs, LAMBDA d : d = c)
Holds(n, c) == Contains(n.tabs, c)

\* lt_grouped_add_insert
AddTab(n, c, afterActive) ==
    IF n.tabs = <<>> \/ ~afterActive
    THEN [n EXCEPT !.tabs = Append(@, c),
                   !.active = Len(n.tabs) + 1,
                   !.prev = IF n.tabs = <<>> THEN @ ELSE n.active]
    ELSE [n EXCEPT !.tabs = InsertAt(@, n.active + 1, c),
                   !.active = @ + 1,
                   !.prev = n.active]

\* Mutation: a tab is put back one place too far.
AddTabAt_After(n, c, slot) == AddTab([n EXCEPT !.active = slot], c, slot <= Len(n.tabs))

\* lt_grouped_add_at
AddTabAt(n, c, slot) ==
    LET i == IF slot > Len(n.tabs) THEN Len(n.tabs) + 1 ELSE slot
    IN  [n EXCEPT !.tabs = InsertAt(@, i, c),
                  !.active = i,
                  !.prev = CASE n.tabs = <<>> -> @
                             [] n.tabs # <<>> /\ i <= n.active -> n.active + 1
                             [] OTHER -> n.active]

\* Mutation: the index of the active tab is not clamped.
RemoveTab_Unclamped(n, c) ==
    LET i == Position(n, c)
    IN  [n EXCEPT !.tabs = RemoveAt(@, i),
                  !.prev = IF i < @ THEN @ - 1 ELSE IF i = @ THEN 0 ELSE @]

\* lt_grouped_remove for a client of the leaf.  A tab that goes before the active
\* one moves the index of the previous tab and not that of the active one.
RemoveTab(n, c) ==
    LET i == Position(n, c)
        rest == RemoveAt(n.tabs, i)
    IN  [n EXCEPT !.tabs = rest,
                  !.prev = IF i < @ THEN @ - 1 ELSE IF i = @ THEN 0 ELSE @,
                  !.active = CASE rest = <<>> -> 1
                               [] rest # <<>> /\ @ > Len(rest) -> Len(rest)
                               [] OTHER -> @]

\* lt_grouped_move_active past the tab at position "to".
MoveActive(n, to) ==
    [n EXCEPT !.tabs = [@ EXCEPT ![n.active] = n.tabs[to], ![to] = n.tabs[n.active]],
              !.active = to,
              !.prev = 0]

\* A leaf whose tabs a group of other tabs joins, one after another in their order
\* (lt_grouped_add_insert for each of several).
AddTabs(n, q, afterActive) ==
    LET at == IF afterActive THEN n.active ELSE Len(n.tabs)
    IN  [n EXCEPT !.tabs = SubSeq(@, 1, at) \o q \o SubSeq(@, at + 1, Len(@)),
                  !.active = at + Len(q),
                  !.prev = at + Len(q) - 1]

\* What is left of a group whose tabs but the first are removed, the last first
\* (lt_grouped_remove for each).
FirstTab(n) == [n EXCEPT !.tabs = <<Head(@)>>, !.active = 1, !.prev = IF @ = 1 THEN 1 ELSE 0]

\* The tabs of q that belong to S, in their order.
Only(q, S) ==
    LET P == {i \in DOMAIN q : q[i] \in S}
    IN  [k \in 1..Cardinality(P) |->
            q[CHOOSE i \in P : Cardinality({j \in P : j <= i}) = k]]

\* leaf_has_group_semantics
IsGroup(n) == Len(n.tabs) > 1 \/ n.groupmode

-----------------------------------------------------------------------------
(* Trees.                                                                  *)

\* Client::leaf is not null.
Tiled(s, c) == \E w \in Workspaces : \E n \in s.tree[w] : Holds(n, c)

\* The workspace whose tree holds c, and its leaf there.
Owner(s, c) == CHOOSE w \in Workspaces : \E n \in s.tree[w] : Holds(n, c)
LeafOf(s, c) == CHOOSE n \in s.tree[Owner(s, c)] : Holds(n, c)

\* client_is_visible
Visible(s, c) == s.ws[c] \in {s.active, s.overlay}
Shown(s) == {c \in Clients : Visible(s, c)}

\* Leaf n of w becomes m.
Change(s, w, n, m) == [s EXCEPT !.tree[w] = (@ \ {n}) \cup {m}]

\* A leaf of its own in the tree of w.
Plant(s, w, c) == [s EXCEPT !.tree[w] = @ \cup {AddTab(EmptyLeaf, c, FALSE)}]

\* lt_grouped_remove in the leaf of c.
Untab(s, c) == Change(s, Owner(s, c), LeafOf(s, c), RemoveTab(LeafOf(s, c), c))

\* bsp_focus_client
FocusTab(s, c) ==
    LET n == LeafOf(s, c)
        i == Position(n, c)
    IN  IF ~Tiled(s, c) THEN s
        ELSE Change(s, Owner(s, c), n,
                    [n EXCEPT !.active = i,
                              !.prev = IF n.active = i THEN @ ELSE n.active])

\* focus
Focus(s, c) ==
    IF c = NoClient THEN [s EXCEPT !.sel = NoClient]
    ELSE FocusTab([s EXCEPT !.sel = c], c)

\* What focus(NULL), and the pointer, may choose: a visible client, which is any.
Candidates(s) == IF Shown(s) = {} THEN {NoClient} ELSE Shown(s)

-----------------------------------------------------------------------------
(* bsp_remove_client and bsp_add_client.                                   *)

\* The clients that may be remembered as neighbour when c takes its leaf along: the
\* visible active tab of a leaf beside it.
Neighbours(s, c) ==
    LET n == LeafOf(s, c)
        reps == {m.tabs[m.active] :
                   m \in {k \in s.tree[Owner(s, c)] : k # n /\ k.tabs # <<>>}} \cap Shown(s)
    IN  IF ~Tiled(s, c) \/ Len(n.tabs) > 1 \/ reps = {} THEN {NoClient} ELSE reps

\* Where c was: the first other tab of its leaf and its own position, or, alone in its
\* leaf, its neighbour.
HintFor(n, c, rep) ==
    LET i == Position(n, c)
    IN  IF Len(n.tabs) = 1 THEN [peer |-> NoClient, slot |-> 0, beside |-> rep]
        ELSE [peer |-> n.tabs[IF i = 1 THEN 2 ELSE 1], slot |-> i, beside |-> NoClient]

\* Mutation: the emptied leaf stays in the tree.
RemoveClient_KeepsLeaf(s, c, rep) ==
    IF ~Tiled(s, c) THEN s
    ELSE [Untab(s, c) EXCEPT !.hint[c] = HintFor(LeafOf(s, c), c, rep)]

\* bsp_remove_client: remember where c was, take it out of its leaf, and collapse a
\* leaf that is left empty beside others.
RemoveClient(s, c, rep) ==
    LET n == LeafOf(s, c)
        w == Owner(s, c)
        collapses == Len(n.tabs) = 1 /\ s.tree[w] # {n}
        out == IF collapses THEN [s EXCEPT !.tree[w] = @ \ {n}] ELSE Untab(s, c)
    IN  IF ~Tiled(s, c) THEN s ELSE [out EXCEPT !.hint[c] = HintFor(n, c, rep)]

\* The clients a rejoin hint may still name: on the workspace of c, in a leaf.
Rejoinable(s, c) == {d \in Clients : s.ws[d] = s.ws[c] /\ Tiled(s, d)}

\* BspGroupFlow::attach to leaf n of its workspace: its remembered position wins, a
\* group takes it as a tab, another leaf is split.
Attach(s, c, n) ==
    LET w == s.ws[c]
        slot == s.hint[c].slot
    IN  CASE n.tabs = <<>> -> Change(s, w, n, AddTab(n, c, FALSE))
          [] n.tabs # <<>> /\ slot # 0 -> Change(s, w, n, AddTabAt(n, c, slot))
          [] n.tabs # <<>> /\ slot = 0 /\ n.groupmode ->
               Change(s, w, n, AddTab(n, c, InsertAfterCurrent))
          [] OTHER -> Plant(s, w, c)

\* Mutation: a floating client is put into the tree like any other.
AddClient_TilesFloating(s, c, target) ==
    IF s.tree[s.ws[c]] = {} THEN Plant(s, s.ws[c], c)
    ELSE [Attach(s, c, target) EXCEPT !.hint[c] = NoHint]

\* bsp_add_client; "target" is the leaf tree_select_leaf_for_workspace finds from
\* pointer, selection or history, any of the tree.
AddClient(s, c, target) ==
    LET h == s.hint[c]
        placed ==
            CASE h.beside \in Rejoinable(s, c) \/ s.tree[s.ws[c]] = {} ->
                   Plant(s, s.ws[c], c)
              [] h.peer \in Rejoinable(s, c) -> Attach(s, c, LeafOf(s, h.peer))
              [] OTHER -> Attach(s, c, target)
    IN  IF c \in s.floating THEN s ELSE [placed EXCEPT !.hint[c] = NoHint]

Targets(s, w) == IF s.tree[w] = {} THEN {EmptyLeaf} ELSE s.tree[w]

-----------------------------------------------------------------------------
(* The arrange pass, which every command that changes a tree ends with.    *)

\* Mutation: the clients kept are those of the viewed workspace.
Sanitized_ByView(s, n, w) ==
    LET kept == Only(n.tabs, {c \in Clients : s.ws[c] = s.active})
    IN  [n EXCEPT !.tabs = kept, !.active = IF @ > Len(kept) THEN 1 ELSE @]

\* sanitize_tree_for_clients for one leaf of w; prev is not renumbered.
Sanitized(s, n, w) ==
    LET kept == Only(n.tabs, {c \in Clients : s.ws[c] = w})
        i == IF n.active \in 1..Len(n.tabs)
             THEN SelectInSeq(kept, LAMBDA c : c = n.tabs[n.active]) ELSE 0
    IN  [n EXCEPT !.tabs = kept,
                  !.active = CASE kept = <<>> -> 1
                               [] kept # <<>> /\ i # 0 -> i
                               [] kept # <<>> /\ i = 0 /\ @ > Len(kept) -> Len(kept)
                               [] OTHER -> @]

\* tree_prepare_workspace_bsp_for_arrange: drop strangers and empty leaves, and give
\* a workspace's only tiled client a tree of its own.  (A leaf freed under that client
\* is read as no group.)
Prepare(s, w) ==
    LET clean == {Sanitized(s, n, w) : n \in s.tree[w]}
        compact == {n \in clean : n.tabs # <<>>}
        tiled == {c \in Clients : s.ws[c] = w} \ s.floating
        Regrouped(c) ==
            {[AddTab(EmptyLeaf, c, FALSE) EXCEPT
                !.groupmode = Tiled(s, c) /\ LeafOf(s, c).groupmode]}
        sole == {c \in tiled : tiled = {c} /\ {n.tabs : n \in compact} # {<<c>>}}
    IN  [s EXCEPT !.tree[w] =
           IF sole = {} THEN compact ELSE Regrouped(CHOOSE c \in sole : TRUE)]

\* arrange for the tree layout: the viewed workspace, then an open overlay that has a
\* tree.
Arrange(s) ==
    LET t == Prepare(s, s.active)
    IN  IF s.overlay = NoTag \/ s.tree[s.overlay] = {} THEN t ELSE Prepare(t, s.overlay)

-----------------------------------------------------------------------------
(* Which tab gets the focus when the focused one closes.                   *)

\* Mutation: nothing but history is looked at.
FocusAfterRemove_OnlyHistory(n, c) ==
    IF n.prev \in (1..Len(n.tabs)) \ {Position(n, c)} THEN n.tabs[n.prev] ELSE NoClient

\* group_focus_client_after_remove for a visible client of leaf n: all tabs of a
\* leaf are visible together.
FocusAfterRemove(n, c) ==
    LET i == Position(n, c)
        before == IF i > 1 THEN n.tabs[i - 1] ELSE n.tabs[i + 1]
        after == IF i < Len(n.tabs) THEN n.tabs[i + 1] ELSE n.tabs[i - 1]
    IN  CASE Len(n.tabs) < 2 \/ FocusRemoved = "leave" -> NoClient
          [] Len(n.tabs) >= 2 /\ FocusRemoved = "history" ->
               IF n.prev \in (1..Len(n.tabs)) \ {i} THEN n.tabs[n.prev] ELSE before
          [] Len(n.tabs) >= 2 /\ FocusRemoved = "previous" -> before
          [] Len(n.tabs) >= 2 /\ FocusRemoved = "next" -> after
          [] Len(n.tabs) >= 2 /\ FocusRemoved = "first" -> Head(RemoveAt(n.tabs, i))
          [] OTHER -> Last(RemoveAt(n.tabs, i))

-----------------------------------------------------------------------------
(* Clients and views.                                                      *)

Init ==
    /\ active \in NormalIds
    /\ overlay = NoTag
    /\ ws = [c \in Clients |-> NoWorkspace]
    /\ floating = {}
    /\ tree = [w \in Workspaces |-> {}]
    /\ hint = [c \in Clients |-> NoHint]
    /\ sel = NoClient

\* The view changes of src/actions/workspace.cpp: another numbered workspace closes the
\* overlay, a special one opens above the numbered one.
View(s, w) ==
    CASE w \in Tags -> [s EXCEPT !.overlay = w]
      [] w = s.active -> s
      [] OTHER -> [s EXCEPT !.active = w, !.overlay = NoTag]

\* wm_special_overlay_autohide_if_empty
Hide(s) ==
    IF \E c \in Clients : s.ws[c] = s.overlay THEN s ELSE [s EXCEPT !.overlay = NoTag]

\* A focus and an arrange pass, and one more focus when an overlay was hidden.
Refocus(s, choices, hid) ==
    \E c \in choices :
        LET t == Arrange(Focus(s, c))
        IN  IF hid THEN \E d \in Candidates(t) : Become(Focus(t, d)) ELSE Become(t)

\* adopt_client on workspace w, tiled or floating.  Rules and overlays decide whether
\* the workspace is revealed and the client focused.
Map(c, w) ==
    /\ ws[c] = NoWorkspace
    /\ \E floats \in BOOLEAN, target \in Targets(State, w) :
         LET s == [State EXCEPT !.ws[c] = w,
                                !.floating = IF floats THEN @ \cup {c} ELSE @]
             t == AddClient(s, c, target)
         IN  /\ floats => c \in Floaters
             /\ \/ Become(Arrange(t))
                \/ Visible(t, c) /\ Become(Arrange(Focus(t, c)))
                \/ Become(Arrange(Focus(View(t, w), c)))

\* release_client
Release(c) ==
    /\ ws[c] # NoWorkspace
    /\ LET w == ws[c]
           fallback == IF sel = c /\ Tiled(State, c) THEN FocusAfterRemove(LeafOf(State, c), c)
                       ELSE NoClient
           out == [RemoveClient(State, c, NoClient) EXCEPT
                     !.ws[c] = NoWorkspace, !.floating = @ \ {c}, !.hint[c] = NoHint]
           lasts == w \in NormalIds \ Persistent /\ \A d \in Clients : out.ws[d] # w
           s == Hide(IF lasts THEN [out EXCEPT !.tree[w] = {}] ELSE out)
       IN  Refocus(s, IF fallback # NoClient THEN {fallback} ELSE Candidates(s),
                   s.overlay # overlay)

\* apply_normal_workspace_view and view_special_workspace.
ViewWorkspace(w) ==
    /\ w \notin {active, overlay}
    /\ LET s == View(State, w) IN Refocus(s, Candidates(s), FALSE)

\* view_special_workspace for the open overlay: it hides when it is empty or focused.
HideOverlay ==
    /\ overlay # NoTag
    /\ \/ \A c \in Clients : ws[c] # overlay
       \/ sel # NoClient /\ ws[sel] = overlay
    /\ LET s == [State EXCEPT !.overlay = NoTag] IN Refocus(s, Candidates(s), FALSE)

\* movetoworkspace_ref
MoveToWorkspace(w, silent) ==
    /\ sel # NoClient
    /\ ws[sel] # w
    /\ \E rep \in Neighbours(State, sel), target \in Targets(State, w) :
         LET s == Hide(AddClient([RemoveClient(State, sel, rep) EXCEPT !.ws[sel] = w],
                                 sel, target))
             t == IF silent THEN s ELSE View(s, w)
         IN  Refocus(t, Candidates(t), s.overlay # overlay /\ (silent \/ w \in NormalIds))

\* togglefloating, and what else makes a client float (fullscreen, a window type, a
\* transient hint) even when it is not selected: out of the tree ...
Float(c) ==
    /\ ws[c] # NoWorkspace /\ c \in Floaters \ floating
    /\ \E rep \in Neighbours(State, c) :
         Become(Arrange(RemoveClient([State EXCEPT !.floating = @ \cup {c}], c, rep)))

\* ... and back into it.
Unfloat(c) ==
    /\ c \in floating
    /\ \E target \in Targets(State, ws[c]) :
         Become(Arrange(AddClient([State EXCEPT !.floating = @ \ {c}], c, target)))

\* focusgroup, cyclegroup, cyclefocus and the pointer.
FocusClient(c) ==
    /\ Visible(State, c) /\ c # sel
    /\ Become(Arrange(Focus(State, c)))

-----------------------------------------------------------------------------
(* The tree commands, for a selected client in a tree.                     *)

Bound(command) ==
    /\ command \in IF overlay = NoTag THEN Binds ELSE OverlayBinds
    /\ sel # NoClient /\ Tiled(State, sel)

\* BspGroupFlow::detach: every tab but the first gets a leaf of its own.
Untabbed(s, c) ==
    LET n == LeafOf(s, c)
        others == {AddTab(EmptyLeaf, d, FALSE) : d \in ToSet(Tail(n.tabs))}
    IN  [s EXCEPT !.tree[Owner(s, c)] = (@ \ {n}) \cup {FirstTab(n)} \cup others]

\* groupmode
GroupMode ==
    /\ Bound("groupmode")
    /\ LET n == LeafOf(State, sel)
           s == Change(State, Owner(State, sel), n, [n EXCEPT !.groupmode = ~@])
       IN  Become(Arrange(IF n.groupmode /\ Len(n.tabs) > 1 THEN Untabbed(s, sel) ELSE s))

\* movegroup
MoveGroup(direction) ==
    /\ Bound("movegroup")
    /\ LET n == LeafOf(State, sel)
           to == n.active + direction
       IN  /\ to \in 1..Len(n.tabs)
           /\ Become(Arrange(Change(State, Owner(State, sel), n, MoveActive(n, to))))

\* The selected client becomes the last tab of the leaf of d, a group from now on.
IntoGroup(s, d) ==
    LET t == Untab(s, s.sel)
        n == LeafOf(t, d)
    IN  FocusTab(Change(t, Owner(t, d), n,
                        [AddTab(n, s.sel, FALSE) EXCEPT !.groupmode = TRUE]), s.sel)

\* sendtogroup
SendToGroup(d) ==
    /\ Bound("sendtogroup")
    /\ d # sel /\ Visible(State, d) /\ Tiled(State, d)
    /\ Become(Arrange(IntoGroup(State, d)))

\* bsp_split_client_out_of_group_side for a client of a leaf with several tabs.  When
\* the group is the root of its tree, the code takes the root of the viewed workspace.
Peeled(s) ==
    LET n == LeafOf(s, s.sel)
        w == Owner(s, s.sel)
        t == Change(s, w, n, [RemoveTab(n, s.sel) EXCEPT !.groupmode = TRUE])
    IN  Plant(t, IF s.tree[w] = {n} THEN s.active ELSE w, s.sel)

\* moveoutofgroup, and movewindoworgroup or a drop on no window from a group.
MoveOutOfGroup ==
    /\ Bound("moveoutofgroup")
    /\ Len(LeafOf(State, sel).tabs) > 1
    /\ Become(Arrange(Peeled(State)))

\* bsp_swap_clients
Swapped(s, d) ==
    LET c == s.sel
        Other(e) == CASE e = c -> d [] e = d -> c [] OTHER -> e
        Swap(n) == [n EXCEPT !.tabs = [i \in DOMAIN @ |-> Other(@[i])]]
    IN  FocusTab([s EXCEPT !.tree = [w \in Workspaces |-> {Swap(n) : n \in @[w]}]], c)

\* What a direction finds: any visible tiled client.
Reachable(d) == d # sel /\ Visible(State, d) /\ Tiled(State, d)

\* swapwindow, and movewindoworgroup where nothing is grouped.
SwapWindow(d) ==
    /\ Bound("swapwindow")
    /\ Reachable(d)
    /\ Become(Arrange(Swapped(State, d)))

\* movewindoworgroup towards a group.
MoveIntoGroup(d) ==
    /\ Bound("movewindoworgroup")
    /\ Reachable(d)
    /\ LeafOf(State, d) # LeafOf(State, sel) /\ IsGroup(LeafOf(State, d))
    /\ Become(Arrange(IntoGroup(State, d)))

\* layoutmsg movetoroot: the root taken is that of the viewed workspace.
MoveToRoot ==
    /\ Bound("movetoroot")
    /\ \E rep \in Neighbours(State, sel) :
         Become(Arrange(Plant([RemoveClient(State, sel, rep) EXCEPT !.hint[sel] = NoHint],
                              active, sel)))

\* drag_merge_one_client_into_leaf
Merged(s, c, d, rep) ==
    LET t == [RemoveClient(s, c, rep) EXCEPT !.ws[c] = s.ws[d], !.hint[c] = NoHint]
        n == LeafOf(t, d)
    IN  Change(t, Owner(t, d), n, AddTab(n, c, InsertAfterCurrent))

\* drag_merge_one_client_into_leaf for each tab of the group of the selected client.  (An
\* emptied leaf that is left as the root of its tree is dropped by the arrange pass.)
MergedGroup(s, d) ==
    LET src == LeafOf(s, s.sel)
        dst == LeafOf(s, d)
        moved == ToSet(src.tabs)
    IN  [s EXCEPT
           !.tree = [w \in Workspaces |->
                       {IF n = dst THEN AddTabs(n, src.tabs, InsertAfterCurrent) ELSE n :
                          n \in @[w] \ {src}}],
           !.ws = [c \in Clients |-> IF c \in moved THEN s.ws[d] ELSE @[c]],
           !.hint = [c \in Clients |-> IF c \in moved THEN NoHint ELSE @[c]]]

\* movemouse released over d: swap, merge the whole group, or merge the client.
DropOn(d) ==
    /\ Bound("movemouse")
    /\ Reachable(d)
    /\ LET src == LeafOf(State, sel)
           dst == LeafOf(State, d)
           whole == MergeGroups /\ src # dst /\ Len(src.tabs) > 1
       IN  IF DragIntoGroup = 0 \/ ~(IsGroup(src) \/ IsGroup(dst))
           THEN Become(Arrange(Swapped(State, d)))
           ELSE \E rep \in Neighbours(State, sel) :
                  Become(Arrange(IF whole THEN MergedGroup(State, d)
                                 ELSE Merged(State, sel, d, rep)))

Next ==
    \/ \E c \in Clients :
         \/ \E w \in Workspaces : Map(c, w)
         \/ Release(c) \/ Float(c) \/ Unfloat(c) \/ FocusClient(c)
         \/ SendToGroup(c) \/ SwapWindow(c) \/ MoveIntoGroup(c) \/ DropOn(c)
    \/ \E w \in Workspaces :
         ViewWorkspace(w) \/ \E silent \in BOOLEAN : MoveToWorkspace(w, silent)
    \/ \E direction \in {-1, 1} : MoveGroup(direction)
    \/ HideOverlay \/ GroupMode \/ MoveOutOfGroup \/ MoveToRoot

Spec == Init /\ [][Next]_vars

-----------------------------------------------------------------------------
(* Properties.                                                             *)

\* Where c is a tab: the workspace, the leaf and the position.
Places(c) ==
    UNION {UNION {{<<w, n, i>> : i \in {j \in DOMAIN n.tabs : n.tabs[j] = c}} :
                     n \in tree[w]} : w \in Workspaces}

\* Each tiled client is a tab of one leaf, once, in the tree of its own workspace, and
\* no other client is a tab anywhere.  Neither closing, nor moving, floating, grouping,
\* peeling or dragging loses a window that no arrange pass reaches any more, frees a
\* leaf under it, or leaves a copy of it in another tree.
EachTiledOnce ==
    \A c \in Clients :
        IF ws[c] = NoWorkspace \/ c \in floating THEN Places(c) = {}
        ELSE \E n \in tree[ws[c]] : Places(c) = {<<ws[c], n, Position(n, c)>>}

\* No tile of a shown workspace is empty, and a hidden one has an empty leaf only as
\* its root, where the next client goes.
NoEmptyTile ==
    \A w \in Workspaces : \A n \in tree[w] :
        n.tabs = <<>> => w \notin {active, overlay} /\ tree[w] = {n}

\* The active and the previously active tab of a group are tabs of it, through every
\* insertion, removal, swap and move.
TabIndices ==
    \A w \in Workspaces : \A n \in tree[w] :
        /\ n.tabs # <<>> => n.active \in 1..Len(n.tabs)
        /\ n.prev \in 0..Len(n.tabs)

\* A visible window that leaves its tree to float or go fullscreen, and comes back
\* before anything else happens, finds every tab where it was: the group it was in,
\* its position there, or the leaf it had to itself.
ReturnsToItsPlace ==
    \A c \in Clients :
        Tiled(State, c) /\ Visible(State, c) =>
            \A rep \in Neighbours(State, c) :
                LET out == Arrange(RemoveClient([State EXCEPT !.floating = @ \cup {c}],
                                                c, rep))
                    w == ws[c]
                IN  \A target \in Targets(out, w) :
                        LET back == Arrange(AddClient([out EXCEPT !.floating = floating],
                                                      c, target))
                        IN  {n.tabs : n \in back.tree[w]} = {n.tabs : n \in tree[w]}

\* When the focused tab of a group closes, another tab of that group gets the focus,
\* unless the configuration leaves it to the stack, or an overlay that shows nothing
\* is hidden by the way.
FocusStaysInGroup ==
    [][\A c \in Clients :
         /\ overlay = overlay'
         /\ sel = c /\ ws[c] # NoWorkspace /\ ws'[c] = NoWorkspace
         /\ FocusRemoved # "leave"
         /\ Tiled(State, c) /\ Len(LeafOf(State, c).tabs) > 1
         => sel' \in ToSet(LeafOf(State, c).tabs) \ {c}]_vars

=============================================================================
