-------------------------- MODULE ArrangementProofs --------------------------
(***************************************************************************)
(* Proof that the cells of a tree never overlap and stay within the work   *)
(* area, that the area is left alone from the third quiet pass on, and     *)
(* that no dock is covered then, for every monitor, every set of docks,    *)
(* every gap, ratio and tree.                                              *)
(***************************************************************************)
EXTENDS Arrangement, TLAPS

\* Ratios are within the limits of bsp_set_split_ratio.
RatioLimits == 500..9500

LEMMA WithinLimits ==
    ASSUME NEW q \in Int, ~(q < 500), ~(q > 9500)
    PROVE  q \in RatioLimits
BY SMTT(30) DEF RatioLimits

LEMMA ClampedWithin == ASSUME NEW q \in Int PROVE Clamped(q) \in RatioLimits
<1>1. CASE q < 500
  <2>1. Clamped(q) = 500 BY <1>1 DEF Clamped
  <2> QED BY <2>1 DEF RatioLimits
<1>2. CASE q > 9500
  <2>1. Clamped(q) = 9500 BY <1>2 DEF Clamped
  <2> QED BY <2>1 DEF RatioLimits
<1>3. CASE ~(q < 500) /\ ~(q > 9500)
  <2>1. Clamped(q) = q BY <1>3 DEF Clamped
  <2>2. q \in RatioLimits BY <1>3, WithinLimits
  <2> QED BY ONLY <2>1, <2>2
<1> QED BY <1>1, <1>2, <1>3

USE ArrangementConstants DEF ArrangementConstants

Rectangles == [x : Int, y : Int, w : Nat, h : Nat]
CellSet == [layer : {"desk", "overlay"}, node : Nat, x : Int, y : Int, w : Nat, h : Nat]

\* What the cells need of the other variables.
Typed ==
    /\ style \in Styles
    /\ \E shown \in SUBSET Docks : docks \in [shown -> Placements]
    /\ area \in Rectangles
    /\ made \in Nat
    /\ Cells \subseteq CellSet

\* The number of a cell that is still to be visited is its own.
Numbered ==
    /\ \A c \in Cells : c.node <= made
    /\ \A c \in todo, t \in tiles : c # t.cell

Inductive == Typed /\ Numbered /\ TilesApart

-----------------------------------------------------------------------------
(* Lengths.                                                                *)

\* A share of a length is not longer than the length.
LEMMA ShareBounded ==
    ASSUME NEW n \in Nat, NEW r \in Nat, r <= 10000
    PROVE  (n * r) \div 10000 \in 0..n
<1>1. n * r \in Nat OBVIOUS
<1>2. n * r <= n * 10000 OBVIOUS
<1>3. (n * r) \div 10000 \in Int BY <1>1
<1>4. 0 <= (n * r) \div 10000 /\ 10000 * ((n * r) \div 10000) <= n * r
  <2> DEFINE p == n * r
  <2>1. p \in Nat BY <1>1
  <2> HIDE DEF p
  <2>2. 0 <= p \div 10000 /\ 10000 * (p \div 10000) <= p BY <2>1
  <2> QED BY <2>2 DEF p
<1>5. (n * r) \div 10000 <= n
  <2> DEFINE q == (n * r) \div 10000
  <2>1. q \in Int /\ 0 <= q /\ 10000 * q <= n * 10000 BY <1>1, <1>2, <1>3, <1>4
  <2> HIDE DEF q
  <2>2. q <= n BY <2>1
  <2> QED BY <2>2 DEF q
<1> QED BY <1>3, <1>4, <1>5

LEMMA RatiosBounded == \A r \in Ratios : r \in 500..9500
<1>1. \E q \in Int : DefaultRatio = Clamped(q)
  <2>1. PICK v \in Int : v = IF DefaultSetting < 1000 THEN 1000
                             ELSE IF DefaultSetting > 19000 THEN 19000 ELSE DefaultSetting
    OBVIOUS
  <2>2. v \div 2 \in Int
    BY ONLY <2>1
  <2> QED BY <2>1, <2>2 DEF DefaultRatio
<1>2. ASSUME NEW r \in Ratios PROVE \E q \in Int : r = Clamped(q)
  BY <1>1 DEF Ratios
<1>3. ASSUME NEW r \in Ratios PROVE r \in RatioLimits
  BY <1>2, ClampedWithin, Zenon
<1> QED BY <1>3 DEF RatioLimits

\* The two parts of a length and the gap between them make up the length.
LEMMA CutBounded ==
    ASSUME style \in Styles, NEW n \in Nat, NEW r \in Ratios
    PROVE  /\ Gap(n) \in Nat /\ Cut(n, r) \in Nat
           /\ Cut(n, r) + Gap(n) <= n
<1>1. style.inner \in Nat OBVIOUS
<1>2. Gap(n) \in Nat /\ n - Gap(n) \in Nat BY <1>1 DEF Gap
<1>3. r \in Nat /\ r <= 10000
  <2>1. r \in 500..9500 BY RatiosBounded
  <2> QED BY <2>1
<1>4. Cut(n, r) \in 0..(n - Gap(n)) BY <1>2, <1>3, ShareBounded DEF Cut
<1> QED BY <1>2, <1>4

-----------------------------------------------------------------------------
(* Rectangles.                                                             *)

\* The parts of a cell are cells inside it, apart from each other.
LEMMA PartsOfCell ==
    ASSUME style \in Styles, made \in Nat,
           NEW c \in CellSet, NEW axis \in {"vertical", "horizontal"}, NEW r \in Ratios
    PROVE  LET a == First(c, axis, r)
               b == Second(c, axis, r)
           IN  /\ a \in CellSet /\ a.layer = c.layer /\ a.node = made + 2 /\ Inside(a, c)
               /\ b \in CellSet /\ b.layer = c.layer /\ b.node = made + 1 /\ Inside(b, c)
               /\ Apart(a, b) /\ Apart(b, a)
<1>1. c.x \in Int /\ c.y \in Int /\ c.w \in Nat /\ c.h \in Nat /\ c.layer \in {"desk", "overlay"}
  BY DEF CellSet
<1>2. /\ Gap(c.w) \in Nat /\ Cut(c.w, r) \in Nat /\ Cut(c.w, r) + Gap(c.w) <= c.w
      /\ Gap(c.h) \in Nat /\ Cut(c.h, r) \in Nat /\ Cut(c.h, r) + Gap(c.h) <= c.h
  BY <1>1, CutBounded
<1>3. CASE axis = "vertical"
  BY <1>1, <1>2, <1>3 DEF First, Second, CellSet, Inside, Apart
<1>4. CASE axis = "horizontal"
  BY <1>1, <1>2, <1>4 DEF First, Second, CellSet, Inside, Apart
<1> QED BY <1>3, <1>4

\* What is inside a rectangle is apart from all that the rectangle is apart from, and inside
\* all that it is inside of.
LEMMA InsideApart ==
    ASSUME NEW a \in CellSet, NEW c \in CellSet, NEW k \in CellSet, Inside(a, c), Apart(c, k)
    PROVE  Apart(a, k) /\ Apart(k, a)
BY DEF CellSet, Inside, Apart

LEMMA InsideInside ==
    ASSUME NEW a \in CellSet, NEW c \in CellSet, NEW s \in Rectangles, Inside(a, c), Inside(c, s)
    PROVE  Inside(a, s)
BY DEF CellSet, Rectangles, Inside

-----------------------------------------------------------------------------
(* The work area.                                                          *)

\* What docks reserve are natural numbers.
LEMMA ReservesNat ==
    ASSUME Typed, NEW side \in Sides
    PROVE  Reserves(side) \subseteq Nat
<1> SUFFICES ASSUME NEW d \in DOMAIN docks PROVE Reserve(docks[d], side) \in Nat
  BY DEF Reserves
<1>1. docks[d] \in Placements BY DEF Typed
<1>2. PICK p \in Placements : p = docks[d] BY <1>1
<1>3. /\ p.x \in Int /\ p.y \in Int /\ p.w \in Nat /\ p.h \in Nat
      /\ p.strut[side] \in Nat
  BY DEF Placements
<1>4. Taken(p, side) \in Nat BY DEF Taken
<1>5. Strip(p, side) \in Int BY <1>3 DEF Strip, Sides
<1>6. Larger(Strip(p, side), Taken(p, side)) \in Nat BY <1>4, <1>5 DEF Larger
<1>7. Reserve(p, side) \in Nat BY <1>3, <1>4, <1>6 DEF Reserve
<1> QED BY <1>2, <1>7

\* The work area has a size.
LEMMA WorkAreasTyped ==
    ASSUME Typed, NEW a \in WorkAreas
    PROVE  a \in Rectangles
<1>1. PICK l \in Greatest(Reserves("left")), r \in Greatest(Reserves("right")),
           t \in Greatest(Reserves("top")), b \in Greatest(Reserves("bottom")) :
           a = AreaWithout(l, r, t, b)
  BY DEF WorkAreas
<1>2. l \in Nat /\ r \in Nat /\ t \in Nat /\ b \in Nat
  BY ReservesNat DEF Greatest, Sides
<1>3. style.banner \in Nat BY DEF Typed
<1> QED BY <1>1, <1>2, <1>3 DEF AreaWithout, Larger, Rectangles

LEMMA InnerTyped ==
    ASSUME style \in Styles, NEW a \in Rectangles
    PROVE  Inner(a) \in Rectangles
BY DEF Inner, Larger, Rectangles

\* The fields of a dock.
LEMMA DockFields ==
    ASSUME NEW d \in Placements
    PROVE  /\ d.x \in Int /\ d.y \in Int /\ d.w \in Nat /\ d.h \in Nat
           /\ d.strut \in [Sides -> Nat]
BY DEF Placements

\* A dock that is moved is a dock.
LEMMA MovedTyped ==
    ASSUME NEW d \in Placements, NEW x \in Int, NEW y \in Int
    PROVE  [d EXCEPT !.x = x, !.y = y] \in Placements
BY DEF Placements

LEMMA BoxTyped == Box \in Rectangles
BY DEF Box, Rectangles

LEMMA ResizedTyped ==
    ASSUME NEW d \in Placements, NEW box \in Rectangles
    PROVE  Resized(d, box) \in Placements
<1> DEFINE fit == Fit(box, [w |-> d.w, h |-> d.h], d, 0)
<1>1. Resized(d, box) = [x |-> fit.x, y |-> fit.y, w |-> fit.w, h |-> fit.h, strut |-> d.strut]
  BY DEF Resized
<1>2. fit.x \in Int /\ fit.y \in Int /\ fit.w \in Nat \ {0} /\ fit.h \in Nat \ {0}
  BY DockFields DEF Fit, Rectangles, Larger
<1> HIDE DEF fit
<1> QED BY <1>1, <1>2, DockFields DEF Placements

LEMMA InwardsTyped ==
    ASSUME NEW d \in Placements, NEW box \in Rectangles
    PROVE  Inwards(d, box) \in Placements
<1> DEFINE x == Larger(box.x, IF d.x + d.w > box.x + box.w THEN box.x + box.w - d.w ELSE d.x)
           y == Larger(box.y, IF d.y + d.h > box.y + box.h THEN box.y + box.h - d.h ELSE d.y)
<1>1. x \in Int /\ y \in Int BY DockFields DEF Rectangles, Larger
<1>2. Inwards(d, box) = [d EXCEPT !.x = x, !.y = y] BY DEF Inwards
<1> HIDE DEF x, y
<1> QED BY <1>1, <1>2, MovedTyped

LEMMA AtEdgeTyped ==
    ASSUME NEW d \in Placements
    PROVE  AtEdge(d) \in Placements
<1> DEFINE t == d.strut
           y == IF t["top"] > 0 /\ t["bottom"] = 0 THEN My
                ELSE IF t["bottom"] > 0 /\ t["top"] = 0 THEN My + Mh - d.h ELSE d.y
           x == IF t["left"] > 0 /\ t["right"] = 0 THEN Mx
                ELSE IF t["right"] > 0 /\ t["left"] = 0 THEN Mx + Mw - d.w ELSE d.x
<1>1. x \in Int /\ y \in Int BY DockFields
<1>2. AtEdge(d) = [d EXCEPT !.y = y, !.x = x] BY DEF AtEdge
<1>3. [d EXCEPT !.y = y, !.x = x] = [d EXCEPT !.x = x, !.y = y] BY DEF Placements
<1> HIDE DEF x, y
<1> QED BY <1>1, <1>2, <1>3, MovedTyped

\* Docks keep their types when they are moved.
LEMMA DocksTyped ==
    ASSUME NEW d \in Placements, area \in Rectangles
    PROVE  /\ Snapped(d) \in Placements /\ Adopted(d) \in Placements
           /\ Asked(d) \in Placements /\ Inwards(d, Box) \in Placements
<1>1. Snapped(d) \in Placements
  BY AtEdgeTyped, ResizedTyped, BoxTyped DEF Snapped
<1>2. Adopted(d) \in Placements
  BY InwardsTyped, ResizedTyped, BoxTyped DEF Adopted
<1>3. Asked(d) \in Placements
  <2> DEFINE x == IF d.x + d.w > Mx + Mw THEN Mx + (Mw \div 2 - d.w \div 2) ELSE d.x
             y == IF d.y + d.h > My + Mh THEN My + (Mh \div 2 - d.h \div 2) ELSE d.y
  <2>1. x \in Int /\ y \in Int BY DockFields
  <2>2. Asked(d) = [d EXCEPT !.x = x, !.y = y] BY DEF Asked
  <2> HIDE DEF x, y
  <2> QED BY <2>1, <2>2, MovedTyped
<1> QED BY <1>1, <1>2, <1>3, InwardsTyped, BoxTyped

-----------------------------------------------------------------------------
(* The invariant.                                                          *)

LEMMA InitInductive == Init => Inductive
<1> SUFFICES ASSUME Init PROVE Inductive OBVIOUS
<1>1. Cells = {} BY DEF Init, Cells
<1>2. \E shown \in SUBSET Docks : docks \in [shown -> Placements]
  <2>1. PICK shown \in SUBSET Docks : docks \in [shown -> {Inwards(s, Box) : s \in Shapes}]
    BY DEF Init
  <2>2. \A s \in Shapes : Inwards(s, Box) \in Placements BY InwardsTyped, BoxTyped
  <2>3. docks \in [shown -> Placements] BY <2>1, <2>2
  <2> QED BY <2>3
<1>3. Typed BY <1>1, <1>2, BoxTyped DEF Init, Typed
<1> QED BY <1>1, <1>3 DEF Inductive, Numbered, TilesApart, Init

\* What does not touch cells, area and style keeps the cells as they are.
LEMMA CellsKept ==
    ASSUME Inductive, style' = style, area' = area, Cells' \subseteq Cells, made' = made,
           \A c \in todo', t \in tiles' : c # t.cell,
           \E shown \in SUBSET Docks : docks' \in [shown -> Placements]
    PROVE  Inductive'
<1>1. Typed' BY DEF Inductive, Typed
<1>2. Numbered' BY DEF Inductive, Numbered
<1>3. Inner(area)' = Inner(area) BY DEF Inner
<1>4. TilesApart' BY <1>3 DEF Inductive, TilesApart
<1> QED BY <1>1, <1>2, <1>4 DEF Inductive

LEMMA BeginInductive == ASSUME Inductive, Begin PROVE Inductive'
<1>1. area' \in Rectangles BY WorkAreasTyped DEF Inductive, Begin
<1>2. style' = style /\ style \in Styles /\ docks' = docks /\ made' = 2 /\ tiles' = {}
  BY DEF Begin, Inductive, Typed
<1>3. Inner(area)' = Inner(area') /\ Inner(area') \in Rectangles
  BY <1>1, <1>2, InnerTyped DEF Inner
<1>4. Cells' = todo' BY <1>2 DEF Cells
<1>5. todo' \subseteq {Root("desk", 2), Root("overlay", 1)} BY DEF Begin
<1>6. \A layer \in {"desk", "overlay"}, n \in Nat :
         /\ Root(layer, n) \in CellSet /\ Root(layer, n).layer = layer /\ Root(layer, n).node = n
         /\ Inside(Root(layer, n), Inner(area'))
         /\ Root(layer, n).w >= 0 /\ Root(layer, n).h >= 0
  BY <1>3 DEF Root, CellSet, Rectangles, Inside
<1>7. Typed' BY <1>1, <1>2, <1>4, <1>5, <1>6 DEF Typed, Inductive
<1>8. Numbered' BY <1>2, <1>4, <1>5, <1>6 DEF Numbered
<1>9. TilesApart'
  <2>1. \A c \in todo' : c.w >= 0 /\ c.h >= 0 /\ Inside(c, Inner(area')) BY <1>5, <1>6
  <2>2. \A c \in todo', k \in todo' : c # k => c.layer # k.layer BY <1>5, <1>6
  <2> QED BY <1>3, <1>4, <2>1, <2>2 DEF TilesApart
<1> QED BY <1>7, <1>8, <1>9 DEF Inductive

\* The parts of a cell take its place: they are inside what it was inside of, and apart from
\* all that it was apart from.
LEMMA SplitInductive ==
    ASSUME Inductive, NEW c \in todo, SplitNode(c)
    PROVE  Inductive'
<1>1. c \in Cells /\ c \in CellSet /\ style \in Styles /\ made \in Nat /\ area \in Rectangles
  BY DEF Inductive, Typed, Cells
<1>2. PICK axis \in {"vertical", "horizontal"}, r \in Ratios :
         todo' = (todo \ {c}) \cup {First(c, axis, r), Second(c, axis, r)}
  BY DEF SplitNode, Axes
<1> DEFINE a == First(c, axis, r)
           b == Second(c, axis, r)
<1>3. /\ a \in CellSet /\ a.layer = c.layer /\ a.node = made + 2 /\ Inside(a, c)
      /\ b \in CellSet /\ b.layer = c.layer /\ b.node = made + 1 /\ Inside(b, c)
      /\ Apart(a, b) /\ Apart(b, a)
  BY <1>1, PartsOfCell
<1>4. todo' = (todo \ {c}) \cup {a, b} BY <1>2
<1> HIDE DEF a, b
<1>5. /\ tiles' = tiles /\ style' = style /\ area' = area /\ docks' = docks
      /\ made' = made + 2
  BY DEF SplitNode
<1>6. \A t \in tiles : t.cell # c BY DEF Inductive, Numbered
<1>7. Cells' = (Cells \ {c}) \cup {a, b} BY <1>4, <1>5, <1>6 DEF Cells
<1>8. Inner(area)' = Inner(area) /\ Inner(area) \in Rectangles
  BY <1>1, <1>5, InnerTyped DEF Inner
<1>9. Typed' BY <1>3, <1>5, <1>7, <1>1 DEF Inductive, Typed
<1>10. Numbered'
  <2>1. \A k \in Cells : k.node \in Nat /\ k.node <= made
    BY DEF Inductive, Numbered, Typed, CellSet
  <2>2. \A k \in Cells' : k.node <= made' BY <1>1, <1>3, <1>5, <1>7, <2>1
  <2>3. ASSUME NEW k \in todo', NEW t \in tiles' PROVE k # t.cell
    <3>1. t \in tiles /\ t.cell \in Cells BY <1>5 DEF Cells
    <3>2. CASE k \in todo BY <3>1, <3>2 DEF Inductive, Numbered
    <3>3. CASE k \in {a, b} BY <1>1, <1>3, <2>1, <3>1, <3>3
    <3> QED BY <1>4, <3>2, <3>3
  <2> QED BY <2>2, <2>3 DEF Numbered
<1>11. TilesApart'
  <2>1. \A k \in Cells : k \in CellSet /\ Inside(k, Inner(area))
    BY DEF Inductive, Typed, TilesApart
  <2>2. \A k \in Cells : k # c /\ k.layer = c.layer => Apart(c, k)
    BY <1>1 DEF Inductive, TilesApart
  <2>3. ASSUME NEW p \in {a, b} PROVE Inside(p, Inner(area)) /\ p.w >= 0 /\ p.h >= 0
    <3>1. p \in CellSet /\ Inside(p, c) BY <1>3, <2>3
    <3>2. Inside(c, Inner(area)) BY <1>1, <2>1
    <3>3. Inside(p, Inner(area)) BY <1>1, <1>8, <3>1, <3>2, InsideInside
    <3> QED BY <3>1, <3>3 DEF CellSet
  <2>4. ASSUME NEW p \in {a, b}, NEW k \in Cells \ {c}, p.layer = k.layer
        PROVE  Apart(p, k) /\ Apart(k, p)
    <3>1. p \in CellSet /\ Inside(p, c) /\ p.layer = c.layer BY <1>3, <2>4
    <3>2. k \in CellSet /\ Apart(c, k) BY <2>1, <2>2, <2>4, <3>1
    <3> QED BY <1>1, <3>1, <3>2, InsideApart
  <2>5. ASSUME NEW p \in Cells \ {c}, NEW k \in Cells \ {c}, p # k, p.layer = k.layer
        PROVE  Apart(p, k)
    BY <2>5 DEF Inductive, TilesApart
  <2>6. \A p \in Cells \ {c} : Inside(p, Inner(area)) /\ p.w >= 0 /\ p.h >= 0
    BY DEF Inductive, TilesApart
  <2>7. ASSUME NEW p \in Cells', NEW k \in Cells', p # k, p.layer = k.layer PROVE Apart(p, k)
    <3>1. CASE p \in {a, b} /\ k \in {a, b} BY <1>3, <2>7, <3>1
    <3>2. CASE p \in {a, b} /\ k \in Cells \ {c} BY <2>4, <2>7, <3>2
    <3>3. CASE p \in Cells \ {c} /\ k \in {a, b} BY <2>4, <2>7, <3>3
    <3>4. CASE p \in Cells \ {c} /\ k \in Cells \ {c} BY <2>5, <2>7, <3>4
    <3> QED BY <1>7, <3>1, <3>2, <3>3, <3>4
  <2>8. \A p \in Cells' : Inside(p, Inner(area)) /\ p.w >= 0 /\ p.h >= 0 BY <1>7, <2>3, <2>6
  <2> QED BY <1>8, <2>7, <2>8 DEF TilesApart
<1> QED BY <1>9, <1>10, <1>11 DEF Inductive

LEMMA LeafInductive ==
    ASSUME Inductive, NEW c \in todo, Leaf(c)
    PROVE  Inductive'
<1>1. PICK t : t.cell = c /\ tiles' = tiles \cup {t} BY DEF Leaf
<1>2. todo' = todo \ {c} BY DEF Leaf
<1>3. Cells' \subseteq Cells BY <1>1, <1>2 DEF Cells
<1>4. \A k \in todo', u \in tiles' : k # u.cell BY <1>1, <1>2 DEF Inductive, Numbered
<1>5. style' = style /\ area' = area /\ docks' = docks /\ made' = made BY DEF Leaf
<1> QED BY <1>3, <1>4, <1>5, CellsKept DEF Inductive, Typed

LEMMA EmptyRootInductive ==
    ASSUME Inductive, NEW c \in todo, EmptyRoot(c)
    PROVE  Inductive'
<1>1. /\ todo' = todo \ {c} /\ tiles' = tiles
      /\ style' = style /\ area' = area /\ docks' = docks /\ made' = made
  BY DEF EmptyRoot
<1>2. Cells' \subseteq Cells BY <1>1 DEF Cells
<1>3. \A k \in todo', u \in tiles' : k # u.cell BY <1>1 DEF Inductive, Numbered
<1> QED BY <1>1, <1>2, <1>3, CellsKept DEF Inductive, Typed

\* Steps that only change docks.
LEMMA DocksInductive ==
    ASSUME Inductive, UNCHANGED <<style, area, todo, tiles, made>>,
           \E shown \in SUBSET Docks : docks' \in [shown -> Placements]
    PROVE  Inductive'
<1>1. Cells' = Cells BY DEF Cells
<1>2. \A k \in todo', u \in tiles' : k # u.cell BY DEF Inductive, Numbered
<1> QED BY <1>1, <1>2, CellsKept

LEMMA NextInductive == Inductive /\ [Next]_vars => Inductive'
<1> SUFFICES ASSUME Inductive, [Next]_vars PROVE Inductive' OBVIOUS
<1>0. PICK shown \in SUBSET Docks : docks \in [shown -> Placements] BY DEF Inductive, Typed
<1>a. DOMAIN docks = shown BY <1>0
<1>1. CASE Begin BY <1>1, BeginInductive
<1>2. CASE Visit BY <1>2, SplitInductive, LeafInductive, EmptyRootInductive DEF Visit
<1>3. CASE ArrangeDocks
  <2>1. \A d \in shown : Snapped(docks[d]) \in Placements BY <1>0, DocksTyped DEF Inductive, Typed
  <2>2. \A d \in shown : Adopted(Snapped(docks[d])) \in Placements
    BY <2>1, DocksTyped DEF Inductive, Typed
  <2>3. docks' \in [shown -> Placements] BY <1>0, <1>a, <1>3, <2>1, <2>2 DEF ArrangeDocks
  <2> QED BY <1>3, <2>3, DocksInductive DEF ArrangeDocks
<1>4. ASSUME NEW d \in Docks, Request(d) PROVE Inductive'
  <2>1. PICK s \in Shapes :
           \/ docks' = [docks EXCEPT ![d] = Asked([s EXCEPT !.strut = docks[d].strut])]
           \/ docks' = [docks EXCEPT ![d].strut = s.strut]
    BY <1>4 DEF Request
  <2>2. d \in shown /\ docks[d] \in Placements /\ s \in Placements
    BY <1>0, <1>a, <1>4 DEF Request
  <2>3. [s EXCEPT !.strut = docks[d].strut] \in Placements BY <2>2 DEF Placements
  <2>4. [docks[d] EXCEPT !.strut = s.strut] \in Placements BY <2>2 DEF Placements
  <2>5. docks' \in [shown -> Placements]
    BY <1>0, <2>1, <2>2, <2>3, <2>4, DocksTyped DEF Inductive, Typed
  <2> QED BY <1>4, <2>5, DocksInductive DEF Request
<1>5. ASSUME NEW d \in Docks, Map(d) PROVE Inductive'
  <2>1. \A s \in Shapes : Inwards(s, Box) \in Placements BY InwardsTyped, BoxTyped
  <2>2. docks' \in [shown \cup {d} -> Placements] BY <1>0, <1>a, <1>5, <2>1 DEF Map
  <2> QED BY <1>5, <2>2, DocksInductive DEF Map
<1>6. ASSUME NEW d \in Docks, Close(d) PROVE Inductive'
  <2>1. docks' \in [shown \ {d} -> Placements] BY <1>0, <1>a, <1>6 DEF Close
  <2> QED BY <1>6, <2>1, DocksInductive DEF Close
<1>7. CASE UNCHANGED vars BY <1>0, <1>7, DocksInductive DEF vars
<1> QED BY <1>1, <1>2, <1>3, <1>4, <1>5, <1>6, <1>7 DEF Next

\* The cells of a tree never overlap and stay in the work area, however splits are nested:
\* arrangetreenode gives no two tiled windows the same pixels of it.
THEOREM TilesStayApart == Spec => []TilesApart
<1>1. Inductive => TilesApart BY DEF Inductive
<1> QED BY <1>1, InitInductive, NextInductive, PTL DEF Spec

-----------------------------------------------------------------------------
(* Windows.                                                                *)

\* A cell with room lies within the work area: Inner is only larger when there is no room.
LEMMA RoomyInArea ==
    ASSUME style \in Styles, area \in Rectangles, NEW c \in CellSet,
           Inside(c, Inner(area)), Roomy(c)
    PROVE  Inside(c, area)
<1>1. /\ style.outer \in Nat /\ style.border \in Nat
      /\ area.x \in Int /\ area.y \in Int /\ area.w \in Nat /\ area.h \in Nat
      /\ c.x \in Int /\ c.y \in Int /\ c.w \in Nat /\ c.h \in Nat
  BY DEF Rectangles, CellSet
<1>2. c.w >= 2 /\ c.h >= 2 BY <1>1 DEF Roomy
<1>3. Inner(area).w = area.w - 2 * style.outer /\ Inner(area).h = area.h - 2 * style.outer
  BY <1>1, <1>2 DEF Inside, Inner, Larger
<1> QED BY <1>1, <1>3 DEF Inside, Inner

\* What applysizehints makes of a request that lies within the work area and is not smaller
\* than a bar: the request.
LEMMA FitKeeps ==
    ASSUME NEW b \in Nat, NEW old \in [w : Nat, h : Nat], area \in Rectangles,
           NEW r \in [x : Int, y : Int, w : Int, h : Int],
           r.w >= BarHeight, r.h >= BarHeight,
           area.x <= r.x, r.x < area.x + area.w, area.y <= r.y, r.y < area.y + area.h
    PROVE  Fit(area, old, r, b) = [x |-> r.x, y |-> r.y, w |-> r.w, h |-> r.h]
BY DEF Fit, Larger, Rectangles

LEMMA LeafApart ==
    ASSUME Inductive, NEW c \in todo, NEW old \in OldSizes, NEW grouped \in BOOLEAN,
           Roomy(c), NEW t,
           t.cell = c, t.window = WindowIn(IF grouped THEN Beside(c) ELSE c, old),
           \A b \in t.bar : grouped /\ b = GroupBar(c)
    PROVE  /\ Inside(Outer(t), t.cell)
           /\ \A b \in t.bar : Inside(b, t.cell) /\ Apart(b, Outer(t))
<1>1. c \in CellSet /\ style \in Styles /\ area \in Rectangles /\ Inside(c, Inner(area))
  BY DEF Inductive, Typed, TilesApart, Cells
<1>2. Inside(c, area) BY <1>1, RoomyInArea
<1>3. /\ style.border \in Nat /\ style.position \in 0..3
      /\ c.x \in Int /\ c.y \in Int /\ c.w \in Nat /\ c.h \in Nat
  BY <1>1 DEF CellSet
<1> DEFINE f == IF grouped THEN Beside(c) ELSE c
           r == [x |-> f.x, y |-> f.y, w |-> f.w - 2 * style.border, h |-> f.h - 2 * style.border]
<1>4. /\ f.x \in Int /\ f.y \in Int /\ f.w \in Int /\ f.h \in Int
      /\ Inside(f, c) /\ f.w >= BarHeight + 2 * style.border /\ f.h >= BarHeight + 2 * style.border
      /\ grouped => Apart(GroupBar(c), f) /\ Inside(GroupBar(c), c)
  BY <1>3 DEF Beside, GroupBar, Inside, Apart, Roomy
<1>5. t.window = Fit(area, old, r, style.border) BY DEF WindowIn
<1> HIDE DEF f
<1>6. t.window = [x |-> r.x, y |-> r.y, w |-> r.w, h |-> r.h]
  <2>1. area.x \in Int /\ area.y \in Int /\ area.w \in Nat /\ area.h \in Nat
    BY <1>1 DEF Rectangles
  <2>2. r \in [x : Int, y : Int, w : Int, h : Int] BY <1>3, <1>4
  <2>3. /\ r.w >= BarHeight /\ r.h >= BarHeight
        /\ area.x <= r.x /\ r.x < area.x + area.w /\ area.y <= r.y /\ r.y < area.y + area.h
    BY <1>2, <1>3, <1>4, <2>1 DEF Inside
  <2>4. old \in [w : Nat, h : Nat] OBVIOUS
  <2> QED BY <1>1, <1>3, <1>5, <2>2, <2>3, <2>4, FitKeeps
<1>7. Outer(t).x = f.x /\ Outer(t).y = f.y /\ Outer(t).w = f.w /\ Outer(t).h = f.h
  BY <1>3, <1>4, <1>6 DEF Outer
<1>8. Inside(Outer(t), c) BY <1>4, <1>7 DEF Inside
<1>9. ASSUME NEW b \in t.bar PROVE Inside(b, c) /\ Apart(b, Outer(t))
  <2>1. b = GroupBar(c) /\ Inside(b, c) /\ Apart(b, f) BY <1>4, <1>9
  <2> QED BY <1>7, <2>1 DEF Apart
<1> QED BY <1>8, <1>9

\* Every step but Leaf keeps the tiles or drops them.
LEMMA NextWindows == Inductive /\ WindowsApart /\ [Next]_vars => WindowsApart'
<1> SUFFICES ASSUME Inductive, WindowsApart, [Next]_vars PROVE WindowsApart' OBVIOUS
<1>1. style' = style
  BY DEF Next, vars, Begin, Visit, SplitNode, EmptyRoot, Leaf, ArrangeDocks, Request, Map, Close
<1>2. \A t : Outer(t)' = Outer(t) BY <1>1 DEF Outer
<1>3. \A c : Roomy(c)' = Roomy(c) BY <1>1 DEF Roomy
<1>4. CASE tiles' \subseteq tiles BY <1>2, <1>3, <1>4 DEF WindowsApart
<1>5. ASSUME NEW c \in todo, Leaf(c) PROVE WindowsApart'
  <2>1. PICK grouped \in BOOLEAN, old \in OldSizes :
           tiles' = tiles \cup
             {[cell |-> c,
               bar |-> IF grouped /\ c.layer = (IF overlay THEN "overlay" ELSE "desk")
                       THEN {GroupBar(c)} ELSE {},
               window |-> WindowIn(IF grouped THEN Beside(c) ELSE c, old)]}
    BY <1>5 DEF Leaf
  <2> DEFINE u == [cell |-> c,
                   bar |-> IF grouped /\ c.layer = (IF overlay THEN "overlay" ELSE "desk")
                           THEN {GroupBar(c)} ELSE {},
                   window |-> WindowIn(IF grouped THEN Beside(c) ELSE c, old)]
  <2>2. /\ tiles' = tiles \cup {u} /\ u.cell = c
        /\ u.window = WindowIn(IF grouped THEN Beside(c) ELSE c, old)
        /\ \A b \in u.bar : grouped /\ b = GroupBar(c)
    BY <2>1
  <2> HIDE DEF u
  <2>3. Roomy(c) => /\ Inside(Outer(u), u.cell)
                    /\ \A b \in u.bar : Inside(b, u.cell) /\ Apart(b, Outer(u))
    BY <2>2, LeafApart
  <2>4. \A t \in tiles' : Roomy(t.cell) =>
           /\ Inside(Outer(t), t.cell)
           /\ \A b \in t.bar : Inside(b, t.cell) /\ Apart(b, Outer(t))
    BY <2>2, <2>3 DEF WindowsApart
  <2> QED BY <1>2, <1>3, <2>4 DEF WindowsApart
<1>6. CASE UNCHANGED vars BY <1>4, <1>6 DEF vars
<1>7. tiles' \subseteq tiles \/ \E c \in todo : Leaf(c)
  BY <1>6 DEF Next, vars, Begin, Visit, SplitNode, EmptyRoot, ArrangeDocks, Request, Map, Close
<1> QED BY <1>4, <1>5, <1>7

\* In cells with room for them, windows and group bars stay apart and in their cell, whatever
\* applysizehints does to what arrangetreenode asks for.
THEOREM WindowsStayApart == Spec => []WindowsApart
<1>1. Init => WindowsApart BY DEF Init, WindowsApart
<1> QED BY <1>1, InitInductive, NextInductive, NextWindows, PTL DEF Spec

-----------------------------------------------------------------------------
(* Docks and the work area.                                                *)

\* applysizehints along one side of the monitor, from m to m + n, for a dock of size w.
Pull(m, n, x, w) ==
    LET f == IF x >= m + n THEN m + n - w ELSE x
    IN  IF f + w <= m THEN m ELSE f

\* The strut that a dock is drawn to, at the low or the high end.
Edge(m, n, x, w, lo, hi) ==
    IF lo > 0 /\ hi = 0 THEN m ELSE IF hi > 0 /\ lo = 0 THEN m + n - w ELSE x

Bar(n) == Larger(n, BarHeight)

LEMMA PullBounds ==
    ASSUME NEW m \in Int, NEW n \in Nat \ {0}, NEW x \in Int, NEW w \in Nat \ {0}
    PROVE  /\ Pull(m, n, x, w) \in Int
           /\ Pull(m, n, x, w) < m + n /\ Pull(m, n, x, w) + w > m
           /\ x < m + n /\ x + w > m => Pull(m, n, x, w) = x
BY DEF Pull

\* What arrange_docks and the end of adopt_client do along each side.
LEMMA ResizedIs ==
    ASSUME NEW d \in Placements
    PROVE  /\ Resized(d, Box) \in Placements
           /\ Resized(d, Box).x = Pull(Mx, Mw, d.x, d.w)
           /\ Resized(d, Box).y = Pull(My, Mh, d.y, d.h)
           /\ Resized(d, Box).w = Bar(d.w) /\ Resized(d, Box).h = Bar(d.h)
           /\ Resized(d, Box).strut = d.strut
<1>1. /\ d.x \in Int /\ d.y \in Int /\ d.w \in Nat \ {0} /\ d.h \in Nat \ {0}
  BY DEF Placements
<1>2. Larger(1, d.w) = d.w /\ Larger(1, d.h) = d.h
  BY <1>1 DEF Larger
<1>3. Resized(d, Box) \in Placements
  BY ResizedTyped, BoxTyped
<1>4. /\ Resized(d, Box).x = Pull(Mx, Mw, d.x, d.w)
      /\ Resized(d, Box).y = Pull(My, Mh, d.y, d.h)
  BY <1>1, <1>2 DEF Resized, Fit, Box, Pull
<1>5. /\ Resized(d, Box).w = Bar(d.w) /\ Resized(d, Box).h = Bar(d.h)
      /\ Resized(d, Box).strut = d.strut
  BY <1>2 DEF Resized, Fit, Bar
<1> QED BY <1>3, <1>4, <1>5

LEMMA AtEdgeIs ==
    ASSUME NEW d \in Placements
    PROVE  /\ AtEdge(d) \in Placements
           /\ AtEdge(d).x = Edge(Mx, Mw, d.x, d.w, d.strut["left"], d.strut["right"])
           /\ AtEdge(d).y = Edge(My, Mh, d.y, d.h, d.strut["top"], d.strut["bottom"])
           /\ AtEdge(d).w = d.w /\ AtEdge(d).h = d.h /\ AtEdge(d).strut = d.strut
BY AtEdgeTyped DEF AtEdge, Edge, Placements

LEMMA SnappedIs ==
    ASSUME NEW d \in Placements
    PROVE  /\ Snapped(d) \in Placements
           /\ Snapped(d).x = Pull(Mx, Mw, Edge(Mx, Mw, d.x, d.w, d.strut["left"], d.strut["right"]), d.w)
           /\ Snapped(d).y = Pull(My, Mh, Edge(My, Mh, d.y, d.h, d.strut["top"], d.strut["bottom"]), d.h)
           /\ Snapped(d).w = Bar(d.w) /\ Snapped(d).h = Bar(d.h) /\ Snapped(d).strut = d.strut
<1>1. PICK e : e = AtEdge(d)
  OBVIOUS
<1>2. Snapped(d) = Resized(e, Box)
  BY <1>1 DEF Snapped
<1> QED BY <1>1, <1>2, AtEdgeIs, ResizedIs

\* Docks with the same fields are the same.
LEMMA SameDock ==
    ASSUME NEW d \in Placements, NEW e \in Placements,
           d.x = e.x, d.y = e.y, d.w = e.w, d.h = e.h, d.strut = e.strut
    PROVE  d = e
BY DEF Placements

\* A dock that is as big as a bar stays where arrange_docks has put it.
LEMMA AxisTwice ==
    ASSUME NEW m \in Int, NEW n \in Nat \ {0}, NEW x \in Int, NEW w \in Nat \ {0},
           NEW lo \in Nat, NEW hi \in Nat, NEW a, a = Pull(m, n, Edge(m, n, x, w, lo, hi), w)
    PROVE  Pull(m, n, Edge(m, n, a, w, lo, hi), w) = a
<1>1. PICK g \in Int : g = Edge(m, n, x, w, lo, hi)
  BY DEF Edge
<1>2. a \in Int /\ a < m + n /\ a + w > m
  <2>1. Pull(m, n, g, w) \in Int /\ Pull(m, n, g, w) < m + n /\ Pull(m, n, g, w) + w > m
    BY PullBounds, Zenon
  <2> QED BY <1>1, <2>1
<1>3. CASE Edge(m, n, a, w, lo, hi) = a
  BY <1>2, <1>3 DEF Pull
<1>4. CASE Edge(m, n, a, w, lo, hi) # a
  <2>1. Edge(m, n, a, w, lo, hi) = Edge(m, n, x, w, lo, hi)
    BY <1>4 DEF Edge
  <2> QED BY <2>1
<1> QED BY <1>3, <1>4

LEMMA BarOf ==
    ASSUME NEW n \in Nat \ {0}
    PROVE  Bar(n) \in Nat \ {0} /\ Bar(n) >= BarHeight /\ (n >= BarHeight => Bar(n) = n)
BY DEF Bar, Larger

LEMMA SnappedTwice ==
    ASSUME NEW d \in Placements, d.w >= BarHeight, d.h >= BarHeight
    PROVE  Snapped(Snapped(d)) = Snapped(d)
<1>1. PICK e \in Placements : e = Snapped(d)
  BY SnappedIs
<1>2. PICK f \in Placements : f = Snapped(e)
  BY SnappedIs
<1>3. PICK w \in Nat \ {0} : w = d.w /\ Bar(w) = w
  BY BarOf DEF Placements
<1>4. PICK h \in Nat \ {0} : h = d.h /\ Bar(h) = h
  BY BarOf DEF Placements
<1>5. PICK l \in Nat, r \in Nat, t \in Nat, b \in Nat :
         /\ l = d.strut["left"] /\ r = d.strut["right"]
         /\ t = d.strut["top"] /\ b = d.strut["bottom"]
  BY DEF Placements, Sides
<1>6. d.x \in Int /\ d.y \in Int
  BY DEF Placements
<1>7. /\ e.x = Pull(Mx, Mw, Edge(Mx, Mw, d.x, w, l, r), w)
      /\ e.y = Pull(My, Mh, Edge(My, Mh, d.y, h, t, b), h)
      /\ e.w = w /\ e.h = h /\ e.strut = d.strut
  BY <1>1, <1>3, <1>4, <1>5, SnappedIs
<1>8. /\ f.x = Pull(Mx, Mw, Edge(Mx, Mw, e.x, w, l, r), w)
      /\ f.y = Pull(My, Mh, Edge(My, Mh, e.y, h, t, b), h)
      /\ f.w = w /\ f.h = h /\ f.strut = d.strut
  BY <1>2, <1>3, <1>4, <1>5, <1>7, SnappedIs
<1>9. f.x = e.x
  <2>1. Mx \in Int /\ Mw \in Nat \ {0}
    OBVIOUS
  <2>2. Pull(Mx, Mw, Edge(Mx, Mw, e.x, w, l, r), w) = e.x
    BY ONLY <1>6, <1>7, <2>1, AxisTwice
  <2> QED BY <1>8, <2>2
<1>10. f.y = e.y
  <2>1. My \in Int /\ Mh \in Nat \ {0}
    OBVIOUS
  <2>2. Pull(My, Mh, Edge(My, Mh, e.y, h, t, b), h) = e.y
    BY ONLY <1>6, <1>7, <2>1, AxisTwice
  <2> QED BY <1>8, <2>2
<1> QED BY <1>1, <1>2, <1>7, <1>8, <1>9, <1>10, SameDock

\* What arrange_docks and adopt_client leave of a dock is as big as a bar.
LEMMA Snapping ==
    ASSUME NEW d \in Placements
    PROVE  /\ Snapped(d) \in Placements
           /\ Snapped(d).w >= BarHeight /\ Snapped(d).h >= BarHeight
<1>1. d.w \in Nat \ {0} /\ d.h \in Nat \ {0}
  BY DEF Placements
<1> QED BY <1>1, SnappedIs, BarOf

LEMMA Adopting ==
    ASSUME NEW d \in Placements, area \in Rectangles
    PROVE  /\ Adopted(d) \in Placements
           /\ Adopted(d).w >= BarHeight /\ Adopted(d).h >= BarHeight
<1>1. PICK e \in Placements : e = Inwards(d, area)
  BY InwardsTyped
<1>2. e.w \in Nat \ {0} /\ e.h \in Nat \ {0}
  BY DEF Placements
<1>3. Adopted(d) = Resized(e, Box)
  BY <1>1 DEF Adopted
<1> QED BY <1>2, <1>3, ResizedIs, BarOf

\* What docks reserve gives one work area, and the same as long as they reserve the same.
LEMMA OneArea ==
    ASSUME Typed, NEW a \in WorkAreas, NEW b \in WorkAreas
    PROVE  a = b
<1>1. ASSUME NEW side \in Sides, NEW i \in Greatest(Reserves(side)), NEW j \in Greatest(Reserves(side))
      PROVE  i = j
  <2>1. i \in Nat /\ j \in Nat /\ i <= j /\ j <= i
    BY ReservesNat DEF Greatest
  <2> QED BY <2>1
<1>2. PICK l \in Greatest(Reserves("left")), r \in Greatest(Reserves("right")),
           t \in Greatest(Reserves("top")), q \in Greatest(Reserves("bottom")) :
           a = AreaWithout(l, r, t, q)
  BY DEF WorkAreas
<1>3. PICK k \in Greatest(Reserves("left")), s \in Greatest(Reserves("right")),
           u \in Greatest(Reserves("top")), p \in Greatest(Reserves("bottom")) :
           b = AreaWithout(k, s, u, p)
  BY DEF WorkAreas
<1>4. l = k /\ r = s /\ t = u /\ q = p
  BY <1>1 DEF Sides
<1> QED BY <1>2, <1>3, <1>4

LEMMA SameAreas ==
    ASSUME style' = style, DOMAIN docks' = DOMAIN docks,
           \A d \in DOMAIN docks, side \in Sides : Reserve(docks'[d], side) = Reserve(docks[d], side)
    PROVE  WorkAreas' = WorkAreas
<1>1. ASSUME NEW side \in Sides PROVE Reserves(side)' = Reserves(side)
  <2>1. \A d : Reserve(d, side)' = Reserve(d, side)
    OBVIOUS
  <2> QED BY <2>1 DEF Reserves
<1>2. \A l, r, t, b : AreaWithout(l, r, t, b)' = AreaWithout(l, r, t, b)
  BY DEF AreaWithout, Larger
<1>3. /\ Reserves("left")' = Reserves("left") /\ Reserves("right")' = Reserves("right")
      /\ Reserves("top")' = Reserves("top") /\ Reserves("bottom")' = Reserves("bottom")
  BY <1>1 DEF Sides
<1> QED BY <1>2, <1>3 DEF WorkAreas, Greatest

\* What passes have made of the docks and the work area since a dock changed: the first makes
\* docks as big as a bar, after the second arrange_docks leaves them where they are, and the
\* third takes the work area from that.
Calm ==
    /\ quiet \in 0..3
    /\ phase = "due" => quiet = 0
    /\ quiet # 0 => /\ adopted = {}
                    /\ \A d \in DOMAIN docks : docks[d].w >= BarHeight /\ docks[d].h >= BarHeight
    /\ quiet \in 2..3 => \A d \in DOMAIN docks : Snapped(docks[d]) = docks[d]
    /\ phase = "visit" \/ quiet = 3 => area \in WorkAreas

\* A pass ends.
LEMMA PassCalm ==
    ASSUME Typed, Calm, ArrangeDocks
    PROVE  Calm'
<1>1. PICK shown \in SUBSET Docks : docks \in [shown -> Placements]
  BY DEF Typed
<1>2. /\ DOMAIN docks = shown /\ DOMAIN docks' = shown /\ adopted' = {} /\ style' = style
      /\ area' = area /\ phase' = "rest" /\ area \in WorkAreas /\ quiet \in 0..3
      /\ quiet' = IF quiet < 3 THEN quiet + 1 ELSE 3
      /\ \A d \in shown : docks'[d] = IF d \in adopted THEN Adopted(Snapped(docks[d]))
                                      ELSE Snapped(docks[d])
  BY <1>1 DEF ArrangeDocks, Calm
<1>3. ASSUME NEW d \in shown PROVE docks'[d].w >= BarHeight /\ docks'[d].h >= BarHeight
  <2>1. PICK a \in Placements : a = Snapped(docks[d]) /\ a.w >= BarHeight /\ a.h >= BarHeight
    BY <1>1, Snapping
  <2>2. Adopted(a).w >= BarHeight /\ Adopted(a).h >= BarHeight
    BY <2>1, Adopting DEF Typed
  <2> QED BY <1>2, <2>1, <2>2
<1>4. \A d : Snapped(d)' = Snapped(d)
  OBVIOUS
<1>5. CASE quiet = 0
  BY <1>2, <1>3, <1>5 DEF Calm
<1>6. CASE quiet # 0
  <2>1. \A d \in shown : docks'[d] = Snapped(docks[d])
    BY <1>2, <1>6 DEF Calm
  <2>2. ASSUME NEW d \in shown PROVE Snapped(docks'[d]) = docks'[d]
    <3>1. docks[d] \in Placements /\ docks[d].w >= BarHeight /\ docks[d].h >= BarHeight
      BY <1>1, <1>2, <1>6 DEF Calm
    <3> QED BY <2>1, <3>1, SnappedTwice
  <2>3. ASSUME quiet' = 3 PROVE WorkAreas' = WorkAreas
    <3>1. quiet \in 2..3
      BY <1>2, <2>3
    <3>2. \A d \in shown : docks'[d] = docks[d]
      BY <1>2, <2>1, <3>1 DEF Calm
    <3> QED BY <1>2, <3>2, SameAreas
  <2> QED BY <1>2, <1>3, <1>4, <1>6, <2>2, <2>3 DEF Calm
<1> QED BY <1>5, <1>6

LEMMA NextCalm == Inductive /\ Calm /\ [Next]_vars => Calm'
<1> SUFFICES ASSUME Inductive, Calm, [Next]_vars PROVE Calm' OBVIOUS
<1>0. Typed BY DEF Inductive
<1>1. \A d : Snapped(d)' = Snapped(d)
  OBVIOUS
<1>2. ASSUME docks' = docks, style' = style, adopted' = adopted, quiet' = quiet,
             phase' = "visit", area' \in WorkAreas
      PROVE  Calm'
  <2>1. WorkAreas' = WorkAreas BY <1>2, SameAreas
  <2> QED BY <1>1, <1>2, <2>1 DEF Calm
<1>3. CASE Begin BY <1>2, <1>3 DEF Begin
<1>4. CASE Visit
  <2>1. /\ docks' = docks /\ style' = style /\ adopted' = adopted /\ quiet' = quiet
        /\ phase' = phase /\ area' = area
    BY <1>4 DEF Visit, SplitNode, EmptyRoot, Leaf
  <2>2. WorkAreas' = WorkAreas BY <2>1, SameAreas
  <2> QED BY <1>1, <2>1, <2>2 DEF Calm
<1>5. CASE ArrangeDocks BY <1>0, <1>5, PassCalm
<1>6. ASSUME NEW d \in Docks, Request(d) \/ Map(d) \/ Close(d) PROVE Calm'
  <2>1. phase' = "due" /\ quiet' = 0 BY <1>6 DEF Request, Map, Close
  <2> QED BY <2>1 DEF Calm
<1>7. CASE UNCHANGED vars
  <2>1. /\ docks' = docks /\ style' = style /\ adopted' = adopted /\ quiet' = quiet
        /\ phase' = phase /\ area' = area
    BY <1>7 DEF vars
  <2>2. WorkAreas' = WorkAreas BY <2>1, SameAreas
  <2> QED BY <1>1, <2>1, <2>2 DEF Calm
<1> QED BY <1>3, <1>4, <1>5, <1>6, <1>7 DEF Next

LEMMA InitCalm == Init => Calm
BY DEF Init, Calm

\* From the third pass after a dock has changed, the work area stays: what arrange_docks does
\* to docks reserves no more than they did.
THEOREM AreaStays == Spec => AreaSettles
<1>1. Inductive /\ Calm /\ [Next]_vars => [Begin /\ quiet = 3 => area' = area]_vars
  <2> SUFFICES ASSUME Inductive, Calm, Begin, quiet = 3 PROVE area' = area
    OBVIOUS
  <2>1. area \in WorkAreas /\ area' \in WorkAreas BY DEF Calm, Begin
  <2> QED BY <2>1, OneArea DEF Inductive
<1> QED BY <1>1, InitInductive, NextInductive, InitCalm, NextCalm, PTL DEF Spec, AreaSettles

\* A side of the work area keeps what a dock there reserves.
LEMMA AreaKeeps ==
    ASSUME Typed, area \in WorkAreas, area.w > 1, area.h > 1, NEW d \in DOMAIN docks
    PROVE  /\ area.x >= Mx + Reserve(docks[d], "left")
           /\ area.x + area.w <= Mx + Mw - Reserve(docks[d], "right")
           /\ area.y >= My + Reserve(docks[d], "top")
           /\ area.y + area.h <= My + Mh - Reserve(docks[d], "bottom")
<1>1. PICK l \in Greatest(Reserves("left")), r \in Greatest(Reserves("right")),
           t \in Greatest(Reserves("top")), b \in Greatest(Reserves("bottom")) :
           area = AreaWithout(l, r, t, b)
  BY DEF WorkAreas
<1>2. l \in Nat /\ r \in Nat /\ t \in Nat /\ b \in Nat
  BY ReservesNat DEF Greatest, Sides
<1>3. PICK rl \in Nat, rr \in Nat, rt \in Nat, rb \in Nat :
         /\ rl = Reserve(docks[d], "left") /\ rr = Reserve(docks[d], "right")
         /\ rt = Reserve(docks[d], "top") /\ rb = Reserve(docks[d], "bottom")
  <2>1. \A side \in Sides : Reserve(docks[d], side) \in Nat
    BY ReservesNat DEF Reserves
  <2> QED BY <2>1 DEF Sides
<1>4. rl <= l /\ rr <= r /\ rt <= t /\ rb <= b
  BY <1>3 DEF Greatest, Reserves
<1>5. style.banner \in Nat BY DEF Typed
<1>6. /\ area.x = Mx + l /\ area.w = Mw - l - r
      /\ area.y = My + t + style.banner /\ area.h = Mh - t - b - style.banner
  BY <1>1, <1>2, <1>5 DEF AreaWithout, Larger
<1> QED BY <1>2, <1>3, <1>4, <1>5, <1>6

LEMMA ReserveCovers ==
    ASSUME NEW d \in Placements, NEW side \in Sides,
           d.strut[side] = 0 \/ d.strut[side] >= Taken(d, side)
    PROVE  Reserve(d, side) >= Taken(d, side)
<1>1. /\ d.x \in Int /\ d.y \in Int /\ d.w \in Nat /\ d.h \in Nat /\ d.strut[side] \in Nat
  BY DEF Placements
<1>2. Taken(d, side) \in Nat /\ Strip(d, side) \in Int
  <2>1. Taken(d, side) \in Nat BY DEF Taken
  <2>2. Strip(d, side) \in Int BY <1>1 DEF Strip, Sides
  <2> QED BY <2>1, <2>2
<1>3. HasStrut(d) \/ ~HasStrut(d) OBVIOUS
<1> QED BY <1>1, <1>2 DEF Reserve, Larger

LEMMA CalmUncovers == Inductive /\ Calm => DocksUncovered
<1> SUFFICES ASSUME Inductive, Calm, quiet = 3,
                    area.w > Larger(1, 2 * style.outer), area.h > Larger(1, 2 * style.outer),
                    NEW k \in DOMAIN docks, Reserving(docks[k]), NEW u \in tiles
             PROVE  Apart(docks[k], u.cell)
  BY DEF DocksUncovered
<1>1. Typed /\ area \in WorkAreas /\ area \in Rectangles /\ style \in Styles
  BY DEF Inductive, Calm, Typed
<1>2. PICK n \in Nat : n = style.outer
  BY <1>1
<1>3. area.x \in Int /\ area.y \in Int /\ area.w \in Nat /\ area.h \in Nat
  BY <1>1 DEF Rectangles
<1>4. area.w > 1 /\ area.h > 1 /\ area.w > 2 * n /\ area.h > 2 * n
  BY <1>2, <1>3 DEF Larger
<1>5. PICK c \in CellSet : c = u.cell /\ Inside(c, Inner(area))
  BY DEF Inductive, Typed, TilesApart, Cells
<1>6. c.x \in Int /\ c.y \in Int /\ c.w \in Nat /\ c.h \in Nat
  BY DEF CellSet
<1>7. Inside(c, area)
  <2>1. Inner(area).w = area.w - 2 * n /\ Inner(area).h = area.h - 2 * n
    BY <1>2, <1>3, <1>4 DEF Inner, Larger
  <2>2. Inner(area).x = area.x + n /\ Inner(area).y = area.y + n
    BY <1>2 DEF Inner
  <2> QED BY <1>2, <1>3, <1>5, <1>6, <2>1, <2>2 DEF Inside
<1>8. PICK d \in Placements : d = docks[k]
  BY <1>1 DEF Typed
<1>9. d.x \in Int /\ d.y \in Int /\ d.w \in Nat /\ d.h \in Nat
  BY DEF Placements
<1>10. PICK side \in Sides : /\ Taken(d, side) > 0
                             /\ d.strut[side] = 0 \/ d.strut[side] >= Taken(d, side)
  BY <1>8 DEF Reserving
<1>11. Taken(d, side) = Reach(d, side) /\ Reach(d, side) \in Int
  BY <1>9, <1>10 DEF Taken, Reach, Sides
<1>12. Reserve(d, side) >= Reach(d, side)
  BY <1>10, <1>11, ReserveCovers
<1>13. Reserve(d, side) \in Nat
  BY <1>1, <1>8, ReservesNat DEF Reserves
<1>14. /\ area.x >= Mx + Reserve(d, "left")
       /\ area.x + area.w <= Mx + Mw - Reserve(d, "right")
       /\ area.y >= My + Reserve(d, "top")
       /\ area.y + area.h <= My + Mh - Reserve(d, "bottom")
  BY <1>1, <1>4, <1>8, AreaKeeps
<1>15. CASE side = "left"
  <2>1. d.x + d.w <= c.x BY <1>3, <1>6, <1>7, <1>9, <1>12, <1>13, <1>14, <1>15 DEF Inside, Reach
  <2> QED BY <1>5, <1>8, <2>1 DEF Apart
<1>16. CASE side = "right"
  <2>1. c.x + c.w <= d.x BY <1>3, <1>6, <1>7, <1>9, <1>12, <1>13, <1>14, <1>16 DEF Inside, Reach
  <2> QED BY <1>5, <1>8, <2>1 DEF Apart
<1>17. CASE side = "top"
  <2>1. d.y + d.h <= c.y BY <1>3, <1>6, <1>7, <1>9, <1>12, <1>13, <1>14, <1>17 DEF Inside, Reach
  <2> QED BY <1>5, <1>8, <2>1 DEF Apart
<1>18. CASE side = "bottom"
  <2>1. c.y + c.h <= d.y BY <1>3, <1>6, <1>7, <1>9, <1>12, <1>13, <1>14, <1>18 DEF Inside, Reach
  <2> QED BY <1>5, <1>8, <2>1 DEF Apart
<1> QED BY <1>15, <1>16, <1>17, <1>18 DEF Sides

\* From the third pass after a dock has changed no tiled window covers a dock that reserves
\* its place: updatebarpos counted it where arrange_docks leaves it.
THEOREM DocksStayUncovered == Spec => []DocksUncovered
BY InitInductive, NextInductive, InitCalm, NextCalm, CalmUncovers, PTL DEF Spec
=============================================================================
