---------------------------- MODULE MCArrangement ----------------------------
(***************************************************************************)
(* The docks and the settings that TLC checks, on a monitor of 30 by 24.   *)
(***************************************************************************)
EXTENDS Arrangement, TLC

CONSTANTS d1, d2

Strut(l, r, t, b) ==
    [s \in Sides |-> CASE s = "left" -> l [] s = "right" -> r [] s = "top" -> t [] OTHER -> b]
Shape(x, y, w, h, strut) == [x |-> x, y |-> y, w |-> w, h |-> h, strut |-> strut]
NoStrut == Strut(0, 0, 0, 0)

\* A panel at the top, one that is too wide, away from its strut and larger than it, and an icon
\* in a corner.
DockShapes ==
    {Shape(0, 0, 30, 4, NoStrut), Shape(10, 14, 25, 5, Strut(0, 0, 0, 2)),
     Shape(26, 0, 4, 3, NoStrut)}

Style(inner, outer, border, position, banner) ==
    [inner |-> inner, outer |-> outer, border |-> border, position |-> position, banner |-> banner]
StyleSet ==
    {Style(2, 1, 1, 1, 0), Style(3, 0, 0, 0, 5)}

\* Docks may be exchanged for each other.
Alike == Permutations({d1, d2})

Asks == {9900}
Old == {[w |-> 6, h |-> 6]}

=============================================================================
