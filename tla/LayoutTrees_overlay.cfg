CONSTANTS
 c1=c1 c2=c2 c3=c3 w1=w1 w2=w2 t1=t1
 Clients={c1,c2,c3}
 Floaters={c1,c2,c3}
 NormalIds={w1}
 Tags={t1}
 Persistent={}
 Binds={"groupmode","movegroup","sendtogroup","moveoutofgroup","swapwindow","movewindoworgroup","movetoroot","movemouse"}
 OverlayBinds={"groupmode","movegroup"}
 InsertAfterCurrent=TRUE
 MergeGroups=TRUE
 DragIntoGroup=1
 FocusRemoved="history"
 NoClient=NoClient NoTag=NoTag NoWorkspace=NoWorkspace
SPECIFICATION Spec
SYMMETRY Alike
INVARIANT EachTiledOnce
INVARIANT NoEmptyTile
