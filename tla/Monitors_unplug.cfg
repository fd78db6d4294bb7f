CONSTANTS
 c1=c1 c2=c2 w1=w1 w2=w2 t1=t1 A=A B=B
 Clients={c1,c2}
 WindowType <- PlainWindows
 Hinted={}
 NumMonitors=2
 NormalIds={w1,w2}
 Tags={t1}
 EmptyTag=t0
 Hooked={}
 MonitorRule <- NoRules
 DefaultWorkspace <- NoDefaults
 WindowRules <- OneRule
 FollowMouse=1
 FocusOnActivate=TRUE
 MouseMoveFocusesMonitor=TRUE
 NoClient=NoClient NoTag=NoTag NoWorkspace=NoWorkspace
 Outputs={A,B}
 Unnamed=Unnamed
 Reports <- TwoOutputs
 FirstWorkspace=w1
SPECIFICATION MonitorsSpec
INVARIANT LeavesLive
