----------------------------- MODULE MCKeyBinds -----------------------------
(***************************************************************************)
(* Two keys, two layouts that exchange what is on them, and five entries:  *)
(* one with a cooldown, one for the same key, one that does not repeat,    *)
(* one for the wheel, one with a mistake.                                  *)
(***************************************************************************)
EXTENDS KeyBinds

CONSTANTS k1, k2, wheel, a, b, us, other, super, none

Entry(on, repeat, cooldown) ==
    [on |-> on, mods |-> super, repeat |-> repeat, cooldown |-> cooldown, bad |-> FALSE]
FiveEntries ==
    <<Entry(a, TRUE, 1), Entry(a, FALSE, 0), Entry(b, FALSE, 0), Entry(wheel, TRUE, 1),
      [Entry(k2, TRUE, 0) EXCEPT !.bad = TRUE]>>
TwoLayouts ==
    us :> (k1 :> <<a>> @@ k2 :> <<b>>) @@ other :> (k1 :> <<b, NoSymbol, a>> @@ k2 :> <<>>)
=============================================================================
