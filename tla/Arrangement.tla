----------------------------- MODULE Arrangement -----------------------------
(***************************************************************************)
(* The arrange pass of one monitor: arrangemon of src/geometry.cpp takes   *)
(* the work area from the docks (updatebarpos in src/draw/bar.cpp), lays   *)
(* the trees of the viewed workspace and of the open overlay out in it     *)
(* (src/monitor/tree_arrange.cpp) and moves the docks.  Docks come, go and *)
(* ask for other places, each of which is followed by a pass.              *)
(*                                                                         *)
(* A tree is what the pass finds: any node may be a split, with any axis   *)
(* and ratio that bindings, drags and restored trees can give it, or a     *)
(* leaf.  The nodes for which arrangetreenode has still to be called are a *)
(* set; they are numbered so that the next call is for the greatest.       *)
(***************************************************************************)
EXTENDS Integers, FiniteSets

CONSTANTS
    Mx, My, Mw, Mh,     \* the rectangle of the monitor
    Docks,              \* windows of type dock
    Shapes,             \* what a dock asks for: place, size and _NET_WM_STRUT_PARTIAL
    Styles,             \* settings: gaps and borders, group bars and the banner
    Wanted,             \* ratios that are asked for, in ten-thousandths
    DefaultSetting,     \* dwindle:default_split_ratio, in ten-thousandths
    PreserveSplit,      \* dwindle:preserve_split
    Multiplier,         \* dwindle:split_width_multiplier
    BarHeight,          \* bh
    Thickness,          \* groupbar_thickness()
    OldSizes,           \* outer sizes that tiled windows may have had before
    MaxCells,           \* bound: leaves in a pass
    MaxRequests         \* bound: changes of docks

Sides == {"left", "right", "top", "bottom"}

Placements == [x : Int, y : Int, w : Nat \ {0}, h : Nat \ {0}, strut : [Sides -> Nat]]

ASSUME ArrangementConstants ==
    /\ Mx \in Int /\ My \in Int /\ Mw \in Nat \ {0} /\ Mh \in Nat \ {0}
    /\ Shapes \subseteq Placements
    /\ Styles \subseteq [inner : Nat, outer : Nat, border : Nat, position : 0..3, banner : Nat]
    /\ Wanted \subseteq Int /\ DefaultSetting \in Int
    /\ PreserveSplit \in BOOLEAN /\ Multiplier \in Nat
    /\ BarHeight \in Nat \ {0} /\ Thickness \in Nat \ {0}
    /\ OldSizes \subseteq [w : Nat, h : Nat]
    /\ MaxCells \in Nat /\ MaxRequests \in Nat

VARIABLES
    style,      \* the element of Styles in force
    docks,      \* docks that are shown, with their geometry
    adopted,    \* docks that adopt_client has not finished with
    area,       \* Monitor::wx, wy, ww, wh
    phase,      \* a pass is due, nodes are being visited, or nothing is under way
    overlay,    \* an overlay is open in this pass
    todo,       \* nodes to visit, with their rectangles
    tiles,      \* leaves that have been laid out
    made,       \* the greatest number of a node
    requests,
    quiet       \* history: passes since a dock changed, up to three

vars == <<style, docks, adopted, area, phase, overlay, todo, tiles, made, requests, quiet>>

Larger(m, n) == IF m >= n THEN m ELSE n

-----------------------------------------------------------------------------
(* The work area.                                                          *)

Box == [x |-> Mx, y |-> My, w |-> Mw, h |-> Mh]

OnMonitor(d) ==
    /\ d.x + d.w > Mx /\ d.x < Mx + Mw
    /\ d.y + d.h > My /\ d.y < My + Mh

\* How far a dock reaches from a side, whether it begins in that half, and the half.
Reach(d, side) ==
    CASE side = "left"   -> d.x + d.w - Mx
      [] side = "right"  -> Mx + Mw - d.x
      [] side = "top"    -> d.y + d.h - My
      [] side = "bottom" -> My + Mh - d.y
Begins(d, side) ==
    CASE side = "left"   -> d.x < Mx + Mw \div 2
      [] side = "right"  -> d.x + d.w > Mx + Mw \div 2
      [] side = "top"    -> d.y < My + Mh \div 2
      [] side = "bottom" -> d.y + d.h > My + Mh \div 2
Half(side) == IF side \in {"left", "right"} THEN Mw \div 2 ELSE Mh \div 2

\* What the place of a dock takes from a side.
Taken(d, side) ==
    IF OnMonitor(d) /\ Begins(d, side) /\ Reach(d, side) \in 0..(Half(side) - 1)
    THEN Reach(d, side) ELSE 0

HasStrut(d) == \E side \in Sides : d.strut[side] # 0

\* A thin dock without struts at the top, else one at the bottom.
Strip(d, side) ==
    LET thin == d.h > 0 /\ d.h < Mh \div 3
        atTop == thin /\ d.y <= My + 4
    IN  CASE side = "top" /\ atTop -> d.h
          [] side = "bottom" /\ ~atTop /\ thin /\ d.y + d.h >= My + Mh - 4 -> My + Mh - d.y
          [] OTHER -> 0

\* Mutation: the geometry does not fill the sides a strut leaves out.
Reserve_StrutAlone(d, side) ==
    IF ~HasStrut(d) THEN Larger(Strip(d, side), Taken(d, side)) ELSE d.strut[side]

\* What a dock reserves: its struts, and where they are missing, its place.
Reserve(d, side) ==
    IF ~HasStrut(d) THEN Larger(Strip(d, side), Taken(d, side))
    ELSE IF d.strut[side] = 0 THEN Taken(d, side) ELSE d.strut[side]

Reserves(side) == {0} \cup {Reserve(docks[d], side) : d \in DOMAIN docks}
Greatest(S) == {n \in S : \A k \in S : k <= n}

\* The monitor without what is reserved and, on the selected monitor after an error in the
\* configuration, without the banner at its top; never empty.
AreaWithout(l, r, t, b) ==
    [x |-> Mx + l,
     y |-> My + t + style.banner,
     w |-> Larger(1, Mw - l - r),
     h |-> IF style.banner = 0 THEN Larger(1, Mh - t - b)
           ELSE Larger(1, Larger(1, Mh - t - b) - style.banner)]

WorkAreas ==
    {AreaWithout(l, r, t, b) : l \in Greatest(Reserves("left")), r \in Greatest(Reserves("right")),
                               t \in Greatest(Reserves("top")), b \in Greatest(Reserves("bottom"))}

\* The rectangle in which trees are laid out: the work area without the outer gap.
Inner(a) ==
    [x |-> a.x + style.outer,
     y |-> a.y + style.outer,
     w |-> Larger(1, a.w - 2 * style.outer),
     h |-> Larger(1, a.h - 2 * style.outer)]

-----------------------------------------------------------------------------
(* Splits.                                                                 *)

\* bsp_set_split_ratio and lt_new_split keep every ratio within limits.
Clamped(ratio) == IF ratio < 500 THEN 500 ELSE IF ratio > 9500 THEN 9500 ELSE ratio

\* The default is clamped on its own scale, from 0 to 2.
DefaultRatio ==
    Clamped((IF DefaultSetting < 1000 THEN 1000
             ELSE IF DefaultSetting > 19000 THEN 19000 ELSE DefaultSetting) \div 2)

\* Layout messages, drags and restored trees ask for ratios.
Ratios == {DefaultRatio} \cup {Clamped(r) : r \in Wanted}

Axes(c) ==
    IF PreserveSplit THEN {"vertical", "horizontal"}
    ELSE IF c.w * Multiplier >= c.h THEN {"vertical"} ELSE {"horizontal"}

\* A length is cut into two parts with a gap between them, if there is room for one.
Gap(n) == IF n <= style.inner THEN 0 ELSE style.inner
Cut(n, ratio) == ((n - Gap(n)) * ratio) \div 10000

First(c, axis, ratio) ==
    IF axis = "vertical"
    THEN [layer |-> c.layer, node |-> made + 2,
          x |-> c.x, y |-> c.y, w |-> Cut(c.w, ratio), h |-> c.h]
    ELSE [layer |-> c.layer, node |-> made + 2,
          x |-> c.x, y |-> c.y, w |-> c.w, h |-> Cut(c.h, ratio)]

\* Mutation: the second part of a split of the width does not give up the gap.
Second_Wide(c, axis, ratio) ==
    IF axis = "vertical"
    THEN [layer |-> c.layer, node |-> made + 1,
          x |-> c.x + Cut(c.w, ratio) + Gap(c.w), y |-> c.y,
          w |-> c.w - Cut(c.w, ratio), h |-> c.h]
    ELSE [layer |-> c.layer, node |-> made + 1,
          x |-> c.x, y |-> c.y + Cut(c.h, ratio) + Gap(c.h),
          w |-> c.w, h |-> c.h - Cut(c.h, ratio) - Gap(c.h)]

Second(c, axis, ratio) ==
    IF axis = "vertical"
    THEN [layer |-> c.layer, node |-> made + 1,
          x |-> c.x + Cut(c.w, ratio) + Gap(c.w), y |-> c.y,
          w |-> c.w - Cut(c.w, ratio) - Gap(c.w), h |-> c.h]
    ELSE [layer |-> c.layer, node |-> made + 1,
          x |-> c.x, y |-> c.y + Cut(c.h, ratio) + Gap(c.h),
          w |-> c.w, h |-> c.h - Cut(c.h, ratio) - Gap(c.h)]

-----------------------------------------------------------------------------
(* Leaves.                                                                 *)

\* Group bars at the top, on the left, on the right or at the bottom of a leaf.
GroupBar(c) ==
    CASE style.position = 1 -> [x |-> c.x, y |-> c.y, w |-> Thickness, h |-> c.h]
      [] style.position = 2 -> [x |-> c.x + c.w - Thickness, y |-> c.y, w |-> Thickness, h |-> c.h]
      [] style.position = 3 -> [x |-> c.x, y |-> c.y + c.h - Thickness, w |-> c.w, h |-> Thickness]
      [] OTHER -> [x |-> c.x, y |-> c.y, w |-> c.w, h |-> Thickness]

\* Mutation: a bar on the left moves the windows and leaves them as wide as they were.
Beside_Shifted(c) ==
    CASE style.position = 1 -> [x |-> c.x + Thickness, y |-> c.y, w |-> c.w, h |-> c.h]
      [] style.position = 2 -> [x |-> c.x, y |-> c.y, w |-> c.w - Thickness, h |-> c.h]
      [] style.position = 3 -> [x |-> c.x, y |-> c.y, w |-> c.w, h |-> c.h - Thickness]
      [] OTHER -> [x |-> c.x, y |-> c.y + Thickness, w |-> c.w, h |-> c.h - Thickness]

\* What a group bar leaves of its leaf.
Beside(c) ==
    CASE style.position = 1 -> [x |-> c.x + Thickness, y |-> c.y, w |-> c.w - Thickness, h |-> c.h]
      [] style.position = 2 -> [x |-> c.x, y |-> c.y, w |-> c.w - Thickness, h |-> c.h]
      [] style.position = 3 -> [x |-> c.x, y |-> c.y, w |-> c.w, h |-> c.h - Thickness]
      [] OTHER -> [x |-> c.x, y |-> c.y + Thickness, w |-> c.w, h |-> c.h - Thickness]

\* applysizehints without hints: a window that begins beyond the far edge of a box is put
\* back by the size it had, and none is smaller than a bar is high.
Fit(box, old, r, border) ==
    LET w == Larger(1, r.w)
        h == Larger(1, r.h)
        x == IF r.x >= box.x + box.w THEN box.x + box.w - old.w ELSE r.x
        y == IF r.y >= box.y + box.h THEN box.y + box.h - old.h ELSE r.y
    IN  [x |-> IF x + w + 2 * border <= box.x THEN box.x ELSE x,
         y |-> IF y + h + 2 * border <= box.y THEN box.y ELSE y,
         w |-> Larger(w, BarHeight),
         h |-> Larger(h, BarHeight)]

\* The window that a leaf shows, without its border.
WindowIn(frame, old) ==
    Fit(area, old,
        [x |-> frame.x, y |-> frame.y,
         w |-> frame.w - 2 * style.border, h |-> frame.h - 2 * style.border], style.border)

\* clamp_client_to_monitor_area.
Inwards(d, box) ==
    [d EXCEPT !.x = Larger(box.x, IF @ + d.w > box.x + box.w THEN box.x + box.w - d.w ELSE @),
              !.y = Larger(box.y, IF @ + d.h > box.y + box.h THEN box.y + box.h - d.h ELSE @)]

-----------------------------------------------------------------------------
(* Steps.                                                                  *)

\* scan has adopted the docks that were there, and main is to arrange.
Init ==
    /\ style \in Styles
    /\ \E shown \in SUBSET Docks : docks \in [shown -> {Inwards(s, Box) : s \in Shapes}]
    /\ adopted = {}
    /\ area = Box
    /\ phase = "due" /\ overlay = FALSE
    /\ todo = {} /\ tiles = {} /\ made = 2
    /\ requests = 0 /\ quiet = 0

Root(layer, n) ==
    LET r == Inner(area')
    IN  [layer |-> layer, node |-> n, x |-> r.x, y |-> r.y, w |-> r.w, h |-> r.h]

\* A pass begins, after a change of a dock or any command: updatebarpos, then the roots of
\* the trees.
Begin ==
    /\ phase \in {"due", "rest"}
    /\ phase' = "visit"
    /\ area' \in WorkAreas
    /\ overlay' \in BOOLEAN
    /\ todo' = {Root("desk", 2)} \cup (IF overlay' THEN {Root("overlay", 1)} ELSE {})
    /\ tiles' = {} /\ made' = 2
    /\ UNCHANGED <<style, docks, adopted, requests, quiet>>

\* The viewed workspace comes before the overlay, the first part of a split before the second.
Upcoming(c) == \A k \in todo : c.node >= k.node

SplitNode(c) ==
    /\ Cardinality(todo) + Cardinality(tiles) < MaxCells
    /\ \E axis \in Axes(c), ratio \in Ratios :
          todo' = (todo \ {c}) \cup {First(c, axis, ratio), Second(c, axis, ratio)}
    /\ made' = made + 2
    /\ UNCHANGED <<style, docks, adopted, area, phase, overlay, tiles, requests, quiet>>

\* A workspace without tiled windows.
EmptyRoot(c) ==
    /\ c.node <= 2
    /\ todo' = todo \ {c}
    /\ UNCHANGED <<style, docks, adopted, area, phase, overlay, tiles, made, requests, quiet>>

\* A leaf with windows; a group takes the place of its bar from it, and the bar is shown
\* if no overlay covers it.
Leaf(c) ==
    /\ todo' = todo \ {c}
    /\ \E grouped \in BOOLEAN, old \in OldSizes :
          tiles' = tiles \cup
            {[cell |-> c,
              bar |-> IF grouped /\ c.layer = (IF overlay THEN "overlay" ELSE "desk")
                      THEN {GroupBar(c)} ELSE {},
              window |-> WindowIn(IF grouped THEN Beside(c) ELSE c, old)]}
    /\ UNCHANGED <<style, docks, adopted, area, phase, overlay, made, requests, quiet>>

\* A dock is resized in a box.
Resized(d, box) ==
    LET fit == Fit(box, [w |-> d.w, h |-> d.h], d, 0)
    IN  [x |-> fit.x, y |-> fit.y, w |-> fit.w, h |-> fit.h, strut |-> d.strut]

\* A dock with struts goes to the edge they name.
AtEdge(d) ==
    LET s == d.strut
    IN  [d EXCEPT !.y = IF s["top"] > 0 /\ s["bottom"] = 0 THEN My
                        ELSE IF s["bottom"] > 0 /\ s["top"] = 0 THEN My + Mh - d.h ELSE @,
                  !.x = IF s["left"] > 0 /\ s["right"] = 0 THEN Mx
                        ELSE IF s["right"] > 0 /\ s["left"] = 0 THEN Mx + Mw - d.w ELSE @]

\* Mutation: docks are resized in the work area.
Snapped_Inside(d) == Resized(AtEdge(d), area)

\* arrange_docks: docks are resized on the monitor.
Snapped(d) == Resized(AtEdge(d), Box)

\* The end of adopt_client: a dock floats, and what floats is clamped to the work area.
Adopted(d) == Resized(Inwards(d, area), Box)

\* The pass ends with arrange_docks, after which adopt_client goes on.
ArrangeDocks ==
    /\ phase = "visit" /\ todo = {}
    /\ phase' = "rest"
    /\ docks' = [d \in DOMAIN docks |-> IF d \in adopted THEN Adopted(Snapped(docks[d]))
                                       ELSE Snapped(docks[d])]
    /\ adopted' = {}
    /\ quiet' = IF quiet < 3 THEN quiet + 1 ELSE 3
    /\ UNCHANGED <<style, area, overlay, todo, tiles, made, requests>>

\* configurerequest: a dock that does not fit on the monitor is centered.
Asked(s) ==
    [s EXCEPT !.x = IF s.x + s.w > Mx + Mw THEN Mx + (Mw \div 2 - s.w \div 2) ELSE @,
              !.y = IF s.y + s.h > My + Mh THEN My + (Mh \div 2 - s.h \div 2) ELSE @]

\* A dock asks for another place, or changes its struts.
Request(d) ==
    /\ phase = "rest" /\ requests < MaxRequests
    /\ phase' = "due" /\ requests' = requests + 1
    /\ d \in DOMAIN docks
    /\ \E s \in Shapes : \/ docks' = [docks EXCEPT ![d] = Asked([s EXCEPT !.strut = docks[d].strut])]
                         \/ docks' = [docks EXCEPT ![d].strut = s.strut]
    /\ quiet' = 0
    /\ UNCHANGED <<style, adopted, area, overlay, todo, tiles, made>>

\* A dock is mapped, or closed.
Map(d) ==
    /\ phase = "rest" /\ requests < MaxRequests
    /\ phase' = "due" /\ requests' = requests + 1
    /\ d \notin DOMAIN docks
    /\ \E s \in Shapes :
          docks' = [k \in DOMAIN docks \cup {d} |-> IF k = d THEN Inwards(s, Box) ELSE docks[k]]
    /\ adopted' = {d}
    /\ quiet' = 0
    /\ UNCHANGED <<style, area, overlay, todo, tiles, made>>

Close(d) ==
    /\ phase = "rest" /\ requests < MaxRequests
    /\ phase' = "due" /\ requests' = requests + 1
    /\ d \in DOMAIN docks
    /\ docks' = [k \in DOMAIN docks \ {d} |-> docks[k]]
    /\ quiet' = 0
    /\ UNCHANGED <<style, adopted, area, overlay, todo, tiles, made>>

Visit == \E c \in todo : Upcoming(c) /\ (SplitNode(c) \/ EmptyRoot(c) \/ Leaf(c))

Next ==
    \/ Begin \/ Visit \/ ArrangeDocks
    \/ \E d \in Docks : Request(d) \/ Map(d) \/ Close(d)

Spec == Init /\ [][Next]_vars

-----------------------------------------------------------------------------
(* Properties.                                                             *)

Apart(r, s) ==
    \/ r.x + r.w <= s.x \/ s.x + s.w <= r.x
    \/ r.y + r.h <= s.y \/ s.y + s.h <= r.y
Inside(r, s) ==
    /\ s.x <= r.x /\ r.x + r.w <= s.x + s.w
    /\ s.y <= r.y /\ r.y + r.h <= s.y + s.h

Cells == todo \cup {t.cell : t \in tiles}

\* The cells of a tree never overlap, lie within the work area less its gap and have no
\* negative size, whatever splits are nested and however narrow they get
\* (arrangetreenode, tree_fill_inner_workarea).
TilesApart ==
    \A c \in Cells :
       /\ c.w >= 0 /\ c.h >= 0 /\ Inside(c, Inner(area))
       /\ \A k \in Cells : c # k /\ c.layer = k.layer => Apart(c, k)

\* With its border.
Outer(t) == [t.window EXCEPT !.w = @ + 2 * style.border, !.h = @ + 2 * style.border]

\* A cell that has room for a bar's height, a group bar and the borders.
Roomy(c) ==
    LET least == BarHeight + 2 * style.border + Thickness
    IN  c.w >= least /\ c.h >= least

\* In cells with that much room, windows and group bars neither cover each other nor leave
\* their cell, although applysizehints moves and enlarges what resize asks for
\* (arrangetreenode, applysizehints).
WindowsApart ==
    \A t \in tiles : Roomy(t.cell) =>
       /\ Inside(Outer(t), t.cell)
       /\ \A b \in t.bar : Inside(b, t.cell) /\ Apart(b, Outer(t))

\* From the third pass after a dock has changed, passes leave the work area as it is: what
\* a pass does to docks does not reserve more in the next one (applysizehints: "must not be
\* snapped into wy or each arrange grows reserved space").
AreaSettles == [][Begin /\ quiet = 3 => area' = area]_vars

\* A dock at an edge, with a strut that covers it there or none for that edge.
Reserving(d) ==
    \E side \in Sides : Taken(d, side) > 0 /\ (d.strut[side] = 0 \/ d.strut[side] >= Taken(d, side))

\* From then on no tiled window covers a dock that is at an edge and takes less than half of
\* the monitor, unless docks and gaps leave no room at all (updatebarpos, arrange_docks).
DocksUncovered ==
    (/\ phase = "rest" /\ quiet = 3
     /\ area.w > Larger(1, 2 * style.outer) /\ area.h > Larger(1, 2 * style.outer)) =>
       \A d \in DOMAIN docks : Reserving(docks[d]) =>
          \A t \in tiles : Apart(docks[d], t.cell)
=============================================================================
