CONSTANTS
 c1=c1 c2=c2 c3=c3 w1=w1 w2=w2 t1=t1 t2=t2 t0=t0
 Clients={c1,c2}
 WindowType <- PlainWindows
 Hinted={}
 NumMonitors=2
 NormalIds={w1,w2}
 Tags={t1}
 EmptyTag=t0
 Hooked={w2}
 MonitorRule <- NoRules
 DefaultWorkspace <- DefaultOnSecond
 WindowRules <- OutputRules
 FollowMouse=1
 FocusOnActivate=TRUE
 MouseMoveFocusesMonitor=TRUE
 NoClient=NoClient NoTag=NoTag NoWorkspace=NoWorkspace
SPECIFICATION Spec
INVARIANT DraggedIsManaged
PROPERTY OverlayHidesWithLastClient
