CONSTANTS
 main=main a=a b=b web=web scratch=scratch term=term notes=notes
 Files={main,a,b}
 Main=main
 Unreadable={b}
 Names={web}
 Tags={scratch,term,notes}
 MaxId=2
 MaxTags=2
 MaxDepth=2
 MaxLines=8
 Wordings<-Mixed
 NumberedFirst=TRUE
SPECIFICATION Spec
INVARIANT ResumesAtDepth
INVARIANT CycleGuard
INVARIANT BindOpensItsTag
PROPERTY SlotsStay
CHECK_DEADLOCK FALSE
