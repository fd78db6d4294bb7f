CONSTANTS
 c1=c1 c2=c2 c3=c3 w1=w1 w2=w2 t1=t1 t2=t2 t0=t0
 Clients={c1,c2,c3}
 WindowType <- PlainWindows
 Hinted={c3}
 NumMonitors=1
 NormalIds={w1,w2}
 Tags={t1}
 EmptyTag=t0
 Hooked={w2}
 MonitorRule <- NoRules
 DefaultWorkspace <- NoDefaults
 WindowRules <- OneMonitorRules
 FollowMouse=1
 FocusOnActivate=TRUE
 MouseMoveFocusesMonitor=TRUE
 NoClient=NoClient NoTag=NoTag NoWorkspace=NoWorkspace
SPECIFICATION Spec
INVARIANT TypeOK
INVARIANT InputIsSelection
INVARIANT InputIsVisible
INVARIANT KeyboardNotLost
PROPERTY HookRearmsExactly
PROPERTY MapsUnderOverlayKeepFocus
