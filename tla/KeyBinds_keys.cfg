CONSTANTS
 k1=k1 k2=k2 wheel=wheel a=a b=b us=us other=other super=super none=none
 Keycodes={k1,k2}
 Buttons={wheel}
 Symbols={a,b}
 NoSymbol=NoSymbol
 Layouts <- TwoLayouts
 Configured=us
 Entries <- FiveEntries
 Mods={super,none}
 ReapplyDelay=1
 Nothing=Nothing
 MaxQueue=3
 MaxTime=1
SPECIFICATION Spec
INVARIANT GrabsFollowLayout
PROPERTY CooldownHolds
PROPERTY PressRuns
