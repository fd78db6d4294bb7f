CONSTANTS
 p=p q=q
 Callers={p,q}
 Script<-TwoCallers
 None=None
 Keyboard=TRUE
 MaxEdits=1
 MaxHups=1
 MaxOthers=1
SPECIFICATION Spec
INVARIANT TargetOnce
INVARIANT NewestRuns
PROPERTY EditsReload
PROPERTY SocketDrains
PROPERTY StopsWhenAsked
CHECK_DEADLOCK FALSE
