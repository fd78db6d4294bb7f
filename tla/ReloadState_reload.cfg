CONSTANTS
 c1=c1 c2=c2 c3=c3 w1=w1 w2=w2 t1=t1 t2=t2
 Clients={c1,c2}
 Floaters={c2}
 NormalIds={w1,w2}
 Tags={t1}
 Persistent={}
 Binds={"sendtogroup"}
 OverlayBinds={}
 InsertAfterCurrent=TRUE
 MergeGroups=TRUE
 DragIntoGroup=1
 FocusRemoved="history"
 FirstId=w1
 Configs<-Dropping
 NoClient=NoClient NoTag=NoTag NoWorkspace=NoWorkspace
SPECIFICATION ReloadSpec
PROPERTY KeepsOwnership
PROPERTY GroupsSurvive
PROPERTY ViewSurvives
PROPERTY FloatsStay
