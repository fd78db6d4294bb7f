CONSTANTS
 d1=d1 d2=d2
 Mx=0 My=0 Mw=30 Mh=24
 Docks={d1,d2}
 Shapes<-DockShapes
 Styles<-StyleSet
 Wanted<-Asks
 DefaultSetting=19000
 PreserveSplit=TRUE
 Multiplier=1
 BarHeight=2
 Thickness=2
 OldSizes<-Old
 MaxCells=3
 MaxRequests=2
SPECIFICATION Spec
INVARIANT TilesApart
INVARIANT WindowsApart
INVARIANT DocksUncovered
PROPERTY AreaSettles
SYMMETRY Alike
CHECK_DEADLOCK FALSE

