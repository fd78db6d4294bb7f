CONSTANTS
 c1=c1 c2=c2 c3=c3 w1=w1 w2=w2 t1=t1
 Clients={c1,c2,c3}
 Floaters={c1,c2,c3}
 NormalIds={w1,w2}
 Tags={}
 Persistent={w2}
 Binds={"groupmode","movegroup","sendtogroup","moveoutofgroup","swapwindow","movewindoworgroup","movetoroot","movemouse"}
 OverlayBinds={}
 InsertAfterCurrent=TRUE
 MergeGroups=TRUE
 DragIntoGroup=1
 FocusRemoved="history"
 NoClient=NoClient NoTag=NoTag NoWorkspace=NoWorkspace
SPECIFICATION Spec
SYMMETRY Alike
INVARIANT EachTiledOnce
INVARIANT TabIndices
INVARIANT ReturnsToItsPlace
PROPERTY FocusStaysInGroup
