CONSTANTS
 c1=c1 c2=c2 c3=c3 w1=w1 w2=w2 t1=t1 t2=t2 t0=t0
 Clients={c1,c2,c3}
 WindowType <- MixedWindows
 Hinted={}
 NumMonitors=1
 NormalIds={w1,w2}
 Tags={t1,t2}
 EmptyTag=t0
 Hooked={}
 MonitorRule <- NoRules
 DefaultWorkspace <- NoDefaults
 WindowRules <- SilentTagRules
 FollowMouse=2
 FocusOnActivate=FALSE
 MouseMoveFocusesMonitor=TRUE
 NoClient=NoClient NoTag=NoTag NoWorkspace=NoWorkspace
SPECIFICATION Spec
PROPERTY ActivationReveals
PROPERTY SilentMoveKeepsView
PROPERTY ToggleReachesOverlay
