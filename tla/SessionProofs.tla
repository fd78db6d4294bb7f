---------------------------- MODULE SessionProofs ----------------------------
(***************************************************************************)
(* Proofs about the session: for any number of callers, scripts, edits,    *)
(* signals and events, no special command is executed twice, and the       *)
(* newest command is read.                                                 *)
(***************************************************************************)
EXTENDS Session, SequenceTheorems, TLAPS

USE SessionConstants DEF SessionConstants

EventSet == {"command", "other"}

-----------------------------------------------------------------------------
(* Sequences of events.                                                    *)

LEMMA AppendEvent ==
    ASSUME NEW s \in Seq(EventSet), NEW e \in EventSet
    PROVE  /\ Append(s, e) \in Seq(EventSet)
           /\ Contains(Append(s, e), e)
           /\ \A k : Contains(s, k) => Contains(Append(s, e), k)
BY DEF Contains

LEMMA TailOfEvents ==
    ASSUME NEW s \in Seq(EventSet), s # <<>>
    PROVE  /\ Tail(s) \in Seq(EventSet) /\ Head(s) \in EventSet
           /\ \A k : Contains(s, k) /\ k # Head(s) => Contains(Tail(s), k)
<1>1. Tail(s) \in Seq(EventSet) /\ Head(s) \in EventSet /\ Len(Tail(s)) = Len(s) - 1
      /\ Len(s) \in Nat /\ Len(s) > 0
      /\ \A i \in 1..(Len(s) - 1) : Tail(s)[i] = s[i + 1]
      /\ Head(s) = s[1]
  BY HeadTailProperties
<1>2. ASSUME NEW k, Contains(s, k), k # Head(s) PROVE Contains(Tail(s), k)
  <2>1. PICK i \in 1..Len(s) : s[i] = k BY <1>2 DEF Contains
  <2>2. i # 1 BY <1>1, <1>2, <2>1
  <2>3. (i - 1) \in 1..(Len(s) - 1) BY <1>1, <2>2
  <2>4. Tail(s)[i - 1] = k BY <1>1, <2>1, <2>3
  <2> QED BY <1>1, <2>3, <2>4 DEF Contains
<1> QED BY <1>1, <1>2

LEMMA JoinEvents ==
    ASSUME NEW q \in Seq(EventSet), NEW w \in Seq(EventSet)
    PROVE  /\ q \o w \in Seq(EventSet)
           /\ (q \o w) \o <<>> = q \o w
           /\ \A k : Contains(w, k) => Contains(q \o w, k)
<1>1. q \o w \in Seq(EventSet) /\ (q \o w) \o <<>> = q \o w
  BY ConcatProperties, ConcatEmptySeq
<1>2. ASSUME NEW k, Contains(w, k) PROVE Contains(q \o w, k)
  <2>1. PICK i \in 1..Len(w) : w[i] = k BY <1>2 DEF Contains
  <2>2. /\ Len(q \o w) = Len(q) + Len(w) /\ Len(q) \in Nat /\ Len(w) \in Nat
        /\ (q \o w)[Len(q) + i] = w[i]
    BY <2>1, ConcatProperties
  <2> QED BY <2>1, <2>2 DEF Contains
<1> QED BY <1>1, <1>2

\* An event that arrives keeps what the queues contain.
LEMMA ArrivingEvent ==
    ASSUME NEW q \in Seq(EventSet), NEW w \in Seq(EventSet), NEW e \in EventSet
    PROVE  /\ Contains(q \o Append(w, e), e)
           /\ \A k : Contains(q \o w, k) => Contains(q \o Append(w, e), k)
<1>1. Append(w, e) \in Seq(EventSet) /\ Contains(Append(w, e), e) BY AppendEvent
<1>2. Contains(q \o Append(w, e), e) BY <1>1, JoinEvents
<1>3. q \o Append(w, e) = Append(q \o w, e)
  BY <1>1, AppendIsConcat, ConcatAssociative, ConcatProperties
<1>4. q \o w \in Seq(EventSet) BY JoinEvents
<1>5. \A k : Contains(q \o w, k) => Contains(Append(q \o w, e), k) BY <1>4, AppendEvent
<1> QED BY <1>2, <1>3, <1>5

-----------------------------------------------------------------------------
(* Types.                                                                  *)

USE DEF process, watch, events, properties, execution, callers, history, Sent, Listening,
        Startup, Loop, Phases

\* The type invariant without its conjuncts about the versions of the configuration.
Typed ==
    /\ phase \in Phases
    /\ running \in BOOLEAN /\ restart \in BOOLEAN /\ rekey \in BOOLEAN
    /\ inotify \in BOOLEAN /\ unread \in BOOLEAN
    /\ wire \in Seq(EventSet) /\ queue \in Seq(EventSet)
    /\ command \in Commands \cup {None} /\ target \in Commands \cup {None}
    /\ current \in Commands \cup {None} /\ taken \in Commands \cup {None}
    /\ current # None <=> phase \in {"aim", "consume"}
    /\ phase \in Startup \ {"starting"} => wire = <<>> /\ queue = <<>>
    /\ at \in [Callers -> Nat] /\ aimed \subseteq Callers

Versions == disk \in 0..MaxEdits /\ conf \in 0..disk /\ seen \in 0..disk

LEMMA TypeParts == SessionTypeOK <=> Typed /\ Versions
BY DEF SessionTypeOK, Typed, Versions, EventSet

\* None is not a command.
LEMMA NoneIsNoCommand == None \notin Commands
<1>1. \A c \in Commands : c \in Callers \X Nat
  BY DEF Commands
<1> QED BY <1>1

\* A caller with a command to send has one.
LEMMA UpcomingIsCommand ==
    ASSUME NEW p \in Callers, at \in [Callers -> Nat], Pending(p)
    PROVE  /\ Upcoming(p) \in Commands
           /\ Upcoming(p)[1] = p /\ Upcoming(p)[2] = at[p] + 1
<1>1. Script[p] \in Seq(Kinds) /\ at[p] \in Nat OBVIOUS
<1>2. Len(Script[p]) \in Nat /\ DOMAIN Script[p] = 1..Len(Script[p]) BY <1>1
<1>3. at[p] + 1 \in DOMAIN Script[p] BY <1>1, <1>2 DEF Pending
<1>4. DOMAIN Script[p] \in {DOMAIN Script[r] : r \in Callers} OBVIOUS
<1>5. at[p] + 1 \in UNION {DOMAIN Script[r] : r \in Callers} BY <1>3, <1>4
<1> QED BY <1>3, <1>5 DEF Upcoming, Command, Commands

LEMMA InitTyped == Init => SessionTypeOK
<1>1. ASSUME Init PROVE Typed
  <2>1. <<>> \in Seq(EventSet) BY EmptySeq
  <2>2. wire \in Seq(EventSet) /\ queue \in Seq(EventSet) BY <1>1, <2>1 DEF Init
  <2>3. at \in [Callers -> Nat] /\ aimed \subseteq Callers BY <1>1 DEF Init
  <2>4. phase = "boot" /\ current = None BY <1>1 DEF Init
  <2>5. current # None <=> phase \in {"aim", "consume"} BY <2>4
  <2> QED BY <1>1, <2>2, <2>3, <2>5 DEF Init, Typed
<1>2. Init => Versions
  BY DEF Init, Versions
<1> QED BY <1>1, <1>2, TypeParts

\* Only edits, loading and the watch touch versions.
LEMMA StepVersions == Versions /\ [Next]_vars => Versions'
<1> SUFFICES ASSUME Versions, [Next]_vars PROVE Versions' OBVIOUS
<1> USE DEF Versions
<1>1. CASE Load BY <1>1 DEF Load
<1>2. CASE WatchInit BY <1>2 DEF WatchInit
<1>3. CASE TimeOut BY <1>3 DEF TimeOut, MaybeReload
<1>4. CASE Look BY <1>4 DEF Look, MaybeReload
<1>5. CASE Edit BY <1>5 DEF Edit
<1>6. CASE InstallHandler \/ SelectEvents \/ EnterLoop \/ Test \/ Sleep \/ Wake
  BY <1>6 DEF InstallHandler, SelectEvents, EnterLoop, Test, Sleep, Wake
<1>7. CASE Drained \/ HandleOther \/ HandleCommand \/ ReadTarget \/ Consume
  BY <1>7 DEF Drained, HandleOther, HandleCommand, ReadTarget, Consume
<1>8. CASE Fatal \/ Restart \/ Quit
  BY <1>8 DEF Fatal, Restart, Quit, Forgotten
<1>9. CASE Hup \/ Other BY <1>9 DEF Hup, Other
<1>10. ASSUME NEW p \in Callers, Aim(p) \/ AimFails(p) \/ Send(p) PROVE Versions'
  BY <1>10 DEF Aim, AimFails, Send
<1>11. CASE UNCHANGED vars BY <1>11 DEF vars
<1> QED BY <1>1, <1>2, <1>3, <1>4, <1>5, <1>6, <1>7, <1>8, <1>9, <1>10, <1>11
           DEF Next, Zestwm

\* What is handled comes from the queues, which stay queues of events.
LEMMA TakenEvent ==
    ASSUME Typed, NEW e, TakesEvent(e)
    PROVE  /\ wire' = <<>> /\ queue' \in Seq(EventSet)
           /\ \A k : Contains(queue \o wire, k) /\ k # e => Contains(queue' \o wire', k)
<1> DEFINE all == queue \o wire
<1>1. all \in Seq(EventSet) /\ all # <<>> /\ e = Head(all)
      /\ queue' = Tail(all) /\ wire' = <<>>
  BY JoinEvents DEF Typed, TakesEvent
<1> HIDE DEF all
<1>2. queue' \in Seq(EventSet) /\ \A k : Contains(all, k) /\ k # e => Contains(queue', k)
  BY <1>1, TailOfEvents
<1>3. queue' \o wire' = queue' BY <1>1, <1>2, ConcatEmptySeq
<1> QED BY <1>1, <1>2, <1>3 DEF all

LEMMA StepTyped == Typed /\ [Next]_vars => Typed'
<1> SUFFICES ASSUME Typed, [Next]_vars PROVE Typed' OBVIOUS
<1> USE NoneIsNoCommand DEF Typed
<1>1. CASE Load \/ WatchInit \/ InstallHandler \/ SelectEvents
  BY <1>1 DEF Load, WatchInit, InstallHandler, SelectEvents
<1>2. CASE EnterLoop
  <2>1. queue' \in Seq(EventSet) /\ wire' \in Seq(EventSet)
    BY <1>2, JoinEvents DEF EnterLoop
  <2> QED BY <1>2, <2>1 DEF EnterLoop
<1>3. CASE Test \/ Sleep \/ Wake
  BY <1>3 DEF Test, Sleep, Wake
<1>4. CASE TimeOut
  BY <1>4 DEF TimeOut, MaybeReload, Notices
<1>5. CASE Look
  BY <1>5 DEF Look, MaybeReload, Notices
<1>6. CASE Drained BY <1>6 DEF Drained
<1>7. CASE HandleOther
  <2>1. wire' = <<>> /\ queue' \in Seq(EventSet) /\ phase = "drain"
    BY <1>7, TakenEvent DEF HandleOther, TakesEvent
  <2> QED BY <1>7, <2>1 DEF HandleOther
<1>8. CASE HandleCommand
  <2>1. wire' = <<>> /\ queue' \in Seq(EventSet) /\ phase = "drain"
    BY <1>8, TakenEvent DEF HandleCommand, TakesEvent
  <2> DEFINE kind == IF command = None THEN "plain" ELSE KindOf(command)
  <2>2. phase' = (IF kind = "special" THEN "aim" ELSE phase)
        /\ current' = (IF kind = "special" THEN command ELSE None)
        /\ (kind = "special" => command # None)
    BY <1>8 DEF HandleCommand
  <2>3. /\ restart' \in BOOLEAN /\ running' \in BOOLEAN
        /\ UNCHANGED <<rekey, inotify, unread, command, target, taken, at, aimed>>
    BY <1>8 DEF HandleCommand
  <2> HIDE DEF kind
  <2>4. wire' \in Seq(EventSet) BY <2>1, EmptySeq
  <2>5. phase' = (IF current' = None THEN "drain" ELSE "aim") BY <2>1, <2>2
  <2> QED BY <2>1, <2>2, <2>3, <2>4, <2>5
<1>9. CASE ReadTarget BY <1>9 DEF ReadTarget
<1>10. CASE Consume BY <1>10 DEF Consume
<1>11. CASE Fatal \/ Restart \/ Quit
  BY <1>11, EmptySeq DEF Fatal, Restart, Quit, Forgotten
<1>12. CASE Edit BY <1>12 DEF Edit
<1>13. CASE Hup
  <2>1. /\ phase' \in {phase, "killed", "test"}
        /\ phase' = "killed" => phase \notin {"aim", "consume"}
        /\ phase' = "test" => phase \in {"poll", "test"}
    BY <1>13 DEF Hup
  <2>2. /\ running' \in BOOLEAN /\ restart' \in BOOLEAN
        /\ UNCHANGED <<rekey, inotify, unread, wire, queue, command, target, current, taken,
                       at, aimed>>
    BY <1>13 DEF Hup
  <2> QED BY <2>1, <2>2
<1>14. CASE Other
  <2>1. wire' \in Seq(EventSet) BY <1>14, AppendEvent DEF Other, EventSet
  <2> QED BY <1>14, <2>1 DEF Other
<1>15. ASSUME NEW p \in Callers, Aim(p) \/ AimFails(p) \/ Send(p) PROVE Typed'
  <2>1. Pending(p) BY <1>15 DEF Aim, AimFails, Send
  <2>2. Upcoming(p) \in Commands BY <2>1, UpcomingIsCommand
  <2>3. CASE Aim(p) BY <2>2, <2>3 DEF Aim
  <2>4. CASE AimFails(p)
    <3>1. at' \in [Callers -> Nat] BY <2>4 DEF AimFails
    <3> QED BY <2>4, <3>1 DEF AimFails
  <2>5. CASE Send(p)
    <3>1. wire' \in Seq(EventSet) BY <2>5, AppendEvent DEF Send, EventSet
    <3>2. at' \in [Callers -> Nat] BY <2>5 DEF Send
    <3> QED BY <2>2, <2>5, <3>1, <3>2 DEF Send
  <2> QED BY <1>15, <2>3, <2>4, <2>5
<1>16. CASE UNCHANGED vars BY <1>16 DEF vars
<1> QED BY <1>1, <1>2, <1>3, <1>4, <1>5, <1>6, <1>7, <1>8, <1>9, <1>10, <1>11, <1>12,
           <1>13, <1>14, <1>15, <1>16 DEF Next, Zestwm

\* The state of a session is always of its type: a process outside its loop has nothing
\* under way, and no event waits for one that has not selected events.
THEOREM SessionTyped == Spec => []SessionTypeOK
<1>1. SessionTypeOK /\ [Next]_vars => SessionTypeOK'
  <2>1. SessionTypeOK' <=> Typed' /\ Versions'
    BY DEF SessionTypeOK, Typed, Versions, EventSet
  <2> QED BY <2>1, TypeParts, StepTyped, StepVersions
<1> QED BY <1>1, InitTyped, PTL DEF Spec

-----------------------------------------------------------------------------
(* The newest command.                                                     *)

Unread == fresh => command # None /\ Contains(queue \o wire, "command")

LEMMA StepUnread == Typed /\ Unread /\ [Next]_vars => Unread'
<1> SUFFICES ASSUME Typed, Unread, [Next]_vars PROVE Unread' OBVIOUS
<1> USE DEF Unread
<1> DEFINE Kept == UNCHANGED <<fresh, command, queue, wire>>
<1>1. ASSUME Kept PROVE Unread' BY <1>1
<1>2. CASE Load \/ WatchInit \/ InstallHandler \/ SelectEvents
  <2>1. Kept BY <1>2 DEF Load, WatchInit, InstallHandler, SelectEvents
  <2> QED BY <1>1, <2>1
<1>3. CASE EnterLoop
  <2>1. queue' \o wire' = queue \o wire BY <1>3, JoinEvents DEF EnterLoop, Typed
  <2> QED BY <1>3, <2>1 DEF EnterLoop
<1>4. CASE Test \/ Sleep \/ Wake \/ TimeOut \/ Look \/ Drained
  <2>1. Kept BY <1>4 DEF Test, Sleep, Wake, TimeOut, Look, Drained
  <2> QED BY <1>1, <2>1
<1>5. CASE HandleOther
  <2>1. \A k : Contains(queue \o wire, k) /\ k # "other" => Contains(queue' \o wire', k)
    BY <1>5, TakenEvent DEF HandleOther
  <2> QED BY <1>5, <2>1 DEF HandleOther
<1>6. CASE HandleCommand BY <1>6 DEF HandleCommand
<1>7. CASE ReadTarget \/ Consume
  <2>1. Kept BY <1>7 DEF ReadTarget, Consume
  <2> QED BY <1>1, <2>1
<1>8. CASE Fatal \/ Restart \/ Quit
  BY <1>8 DEF Fatal, Restart, Quit, Forgotten
<1>9. CASE Edit \/ Hup
  <2>1. Kept BY <1>9 DEF Edit, Hup
  <2> QED BY <1>1, <2>1
<1>10. CASE Other
  <2>1. \A k : Contains(queue \o wire, k) => Contains(queue \o Append(wire, "other"), k)
    BY ArrivingEvent DEF Typed, EventSet
  <2>2. Contains(queue \o wire, "command") => Contains(queue' \o wire', "command")
    BY <1>10, <2>1 DEF Other
  <2> QED BY <1>10, <2>2 DEF Other
<1>11. ASSUME NEW p \in Callers, Aim(p) \/ AimFails(p) \/ Send(p) PROVE Unread'
  <2>1. CASE Aim(p) \/ AimFails(p)
    <3>1. Kept BY <2>1 DEF Aim, AimFails
    <3> QED BY <1>1, <3>1
  <2>2. CASE Send(p)
    <3>1. command' # None
      BY <2>2, UpcomingIsCommand, NoneIsNoCommand DEF Send, Typed
    <3>2. Contains(queue \o Append(wire, "command"), "command")
      BY ArrivingEvent DEF Typed, EventSet
    <3>3. fresh' => Contains(queue' \o wire', "command")
      BY <2>2, <3>2 DEF Send
    <3> QED BY <3>1, <3>3
  <2> QED BY <1>11, <2>1, <2>2
<1>12. CASE UNCHANGED vars
  <2>1. Kept BY <1>12 DEF vars
  <2> QED BY <1>1, <2>1
<1> QED BY <1>2, <1>3, <1>4, <1>5, <1>6, <1>7, <1>8, <1>9, <1>10, <1>11, <1>12
           DEF Next, Zestwm

\* The newest command that was sent to a process that listens is read before the
\* notifications run out, whoever else sends commands meanwhile (propertynotify_with_ctx).
THEOREM NewestCommandIsRead == Spec => []NewestRuns
<1>1. Init => Unread BY DEF Init, Unread
<1>2. Unread => NewestRuns BY DEF Unread, NewestRuns
<1>3. SessionTypeOK => Typed BY TypeParts
<1>4. Unread /\ SessionTypeOK /\ [Next]_vars => Unread' BY <1>3, StepUnread
<1> QED BY <1>1, <1>2, <1>4, SessionTyped, PTL DEF Spec

-----------------------------------------------------------------------------
(* The targets.                                                            *)

\* The target of c was set: c was sent, or it is the next its caller sends.
Spent(c) == c[2] <= at[c[1]] \/ (c[2] = at[c[1]] + 1 /\ c[1] \in aimed)

Unserved(c) == \A i \in DOMAIN served : served[i] # c

Once ==
    /\ served \in Seq(Commands)
    /\ \A i, j \in DOMAIN served : served[i] = served[j] => i = j
    /\ \A i \in DOMAIN served : Spent(served[i])
    /\ target # None => Spent(target) /\ Unserved(target)
    /\ taken # None => phase = "consume" /\ Spent(taken) /\ Unserved(taken)

\* Callers go forward only: a target that was set stays set.
LEMMA SpentStays ==
    ASSUME Typed, [Next]_vars, NEW c \in Commands, Spent(c)
    PROVE  Spent(c)'
<1>1. c[1] \in Callers /\ c[2] \in Nat
  BY DEF Commands
<1>2. at \in [Callers -> Nat] BY DEF Typed
<1>3. CASE UNCHANGED <<at, aimed>> BY <1>3 DEF Spent
<1>4. ASSUME NEW p \in Callers, Aim(p) PROVE Spent(c)'
  BY <1>1, <1>2, <1>4 DEF Aim, Spent
<1>5. ASSUME NEW p \in Callers, AimFails(p) PROVE Spent(c)'
  <2>1. p \notin aimed /\ aimed' = aimed
        /\ at' = [at EXCEPT ![p] = Len(Script[p])] /\ at[p] < Len(Script[p])
    BY <1>5 DEF AimFails, Pending
  <2>2. Len(Script[p]) \in Nat OBVIOUS
  <2> QED BY <1>1, <1>2, <2>1, <2>2 DEF Spent
<1>6. ASSUME NEW p \in Callers, Send(p) PROVE Spent(c)'
  <2>1. at' = [at EXCEPT ![p] = at[p] + 1] /\ aimed' = aimed \ {p}
    BY <1>6 DEF Send
  <2> QED BY <1>1, <1>2, <2>1 DEF Spent
<1>7. CASE Zestwm
  BY <1>3, <1>7 DEF Zestwm, Load, WatchInit, InstallHandler, SelectEvents, EnterLoop, Test,
     Sleep, Wake, TimeOut, Look, Drained, HandleOther, HandleCommand, ReadTarget, Consume,
     Fatal, Restart, Quit, Forgotten
<1>8. CASE Edit \/ Hup \/ Other \/ UNCHANGED vars
  BY <1>3, <1>8 DEF Edit, Hup, Other, vars
<1> QED BY <1>4, <1>5, <1>6, <1>7, <1>8 DEF Next

\* A target that its caller has not set has not been served.
LEMMA UpcomingUnserved ==
    ASSUME Typed, Once, NEW p \in Callers, Pending(p), p \notin aimed
    PROVE  Unserved(Upcoming(p))
<1>1. Upcoming(p)[1] = p /\ Upcoming(p)[2] = at[p] + 1 /\ at[p] \in Nat
  BY UpcomingIsCommand DEF Typed
<1>2. ~Spent(Upcoming(p)) BY <1>1 DEF Spent
<1> QED BY <1>2 DEF Once, Unserved

\* Steps that take no target and set none.
LEMMA OnceKept ==
    ASSUME Typed, Once, [Next]_vars, UNCHANGED served,
           target' = target \/ target' = None,
           taken' = None \/ (taken' = taken /\ phase' = phase)
    PROVE  Once'
<1>1. \A c \in Commands : Spent(c) => Spent(c)' BY SpentStays
<1>2. served' \in Seq(Commands) /\ \A i \in DOMAIN served : served[i] \in Commands
  BY DEF Once
<1>3. (\A i \in DOMAIN served : Spent(served[i]))'
  <2>1. ASSUME NEW i \in DOMAIN served PROVE Spent(served[i])'
    <3>1. PICK c \in Commands : c = served[i] BY <1>2
    <3>2. Spent(c)' BY <1>1, <3>1 DEF Once
    <3> QED BY <3>1, <3>2 DEF Spent
  <2> QED BY <2>1 DEF Spent
<1>4. target' # None => Spent(target)' /\ Unserved(target)'
  <2>1. ASSUME target' # None PROVE Spent(target)' /\ Unserved(target)'
    <3>1. target' = target /\ target \in Commands BY <2>1 DEF Typed
    <3>2. Spent(target) /\ Unserved(target) BY <3>1, NoneIsNoCommand DEF Once
    <3>3. PICK c \in Commands : c = target BY <3>1
    <3>4. Spent(c)' BY <1>1, <3>2, <3>3
    <3> QED BY <3>1, <3>2, <3>3, <3>4 DEF Spent, Unserved
  <2> QED BY <2>1
<1>5. taken' # None => phase' = "consume" /\ Spent(taken)' /\ Unserved(taken)'
  <2>1. ASSUME taken' # None PROVE phase' = "consume" /\ Spent(taken)' /\ Unserved(taken)'
    <3>1. taken' = taken /\ phase' = phase /\ taken \in Commands BY <2>1 DEF Typed
    <3>2. phase = "consume" /\ Spent(taken) /\ Unserved(taken)
      BY <3>1, NoneIsNoCommand DEF Once
    <3>3. PICK c \in Commands : c = taken BY <3>1
    <3>4. Spent(c)' BY <1>1, <3>2, <3>3
    <3> QED BY <3>1, <3>2, <3>3, <3>4 DEF Spent, Unserved
  <2> QED BY <2>1
<1>6. \A i, j \in DOMAIN served' : served'[i] = served'[j] => i = j BY DEF Once
<1> QED BY <1>2, <1>3, <1>4, <1>5, <1>6 DEF Once

LEMMA StepOnce == Typed /\ Once /\ [Next]_vars => Once'
<1> SUFFICES ASSUME Typed, Once, [Next]_vars PROVE Once' OBVIOUS
<1>0. taken = None \/ phase = "consume" BY DEF Once
<1>1. CASE Zestwm /\ ~ReadTarget /\ ~Consume
  <2>1. /\ UNCHANGED <<served, target, taken>>
        /\ phase \notin {"consume"} \/ phase' = phase
    BY <1>1 DEF Zestwm, Load, WatchInit, InstallHandler, SelectEvents, EnterLoop, Test,
       Sleep, Wake, TimeOut, Look, Drained, HandleOther, HandleCommand, TakesEvent, Fatal,
       Restart, Quit, Forgotten
  <2> QED BY <1>0, <2>1, OnceKept
<1>2. CASE ReadTarget
  <2>1. UNCHANGED <<served, target, at, aimed>> /\ taken' = target /\ phase' = "consume"
    BY <1>2 DEF ReadTarget
  <2> QED BY <2>1 DEF Once, Spent, Unserved
<1>3. CASE Consume
  <2>1. CASE taken = None
    <3>1. served' = served /\ target' = None /\ taken' = None BY <1>3, <2>1 DEF Consume
    <3> QED BY <3>1, OnceKept
  <2>2. CASE taken # None
    <3>1. /\ served' = Append(served, taken) /\ target' = None /\ taken' = None
          /\ UNCHANGED <<at, aimed>>
      BY <1>3, <2>2 DEF Consume
    <3>2. taken \in Commands /\ Spent(taken) /\ Unserved(taken)
      BY <2>2 DEF Typed, Once
    <3>3. /\ served \in Seq(Commands) /\ Len(served) \in Nat
          /\ DOMAIN served = 1..Len(served) /\ served' \in Seq(Commands)
          /\ DOMAIN served' = 1..(Len(served) + 1)
          /\ \A i \in 1..Len(served) : served'[i] = served[i]
          /\ served'[Len(served) + 1] = taken
      BY <3>1, <3>2 DEF Once
    <3>4. \A i \in DOMAIN served' : i \in DOMAIN served \/ i = Len(served) + 1
      BY <3>3
    <3>5. \A i, j \in DOMAIN served' : served'[i] = served'[j] => i = j
      BY <3>2, <3>3, <3>4 DEF Once, Unserved
    <3>6. (\A i \in DOMAIN served : Spent(served[i]))'
      BY <3>1, <3>2, <3>3, <3>4 DEF Once, Spent
    <3> QED BY <3>1, <3>3, <3>5, <3>6 DEF Once
  <2> QED BY <2>1, <2>2
<1>4. CASE Edit \/ Other \/ UNCHANGED vars
  <2>1. UNCHANGED <<served, target, taken, phase>> BY <1>4 DEF Edit, Other, vars
  <2> QED BY <2>1, OnceKept
<1>5. CASE Hup
  <2>1. UNCHANGED <<served, target, taken>> BY <1>5 DEF Hup
  <2>2. phase # "consume" \/ phase' = phase BY <1>5 DEF Hup
  <2> QED BY <1>0, <2>1, <2>2, OnceKept
<1>6. ASSUME NEW p \in Callers, Aim(p) PROVE Once'
  <2>1. /\ target' = Upcoming(p) /\ aimed' = aimed \cup {p}
        /\ Pending(p) /\ p \notin aimed /\ UNCHANGED <<served, at, taken, phase>>
    BY <1>6 DEF Aim
  <2>2. /\ Upcoming(p)[1] = p /\ Upcoming(p)[2] = at[p] + 1
        /\ Unserved(Upcoming(p))
    BY <2>1, UpcomingIsCommand, UpcomingUnserved DEF Typed
  <2>3. Spent(target)' /\ Unserved(target)'
    BY <2>1, <2>2 DEF Spent, Unserved
  <2> QED BY <2>1, <2>3 DEF Once, Spent, Unserved
<1>7. ASSUME NEW p \in Callers, AimFails(p) \/ Send(p) PROVE Once'
  <2>1. UNCHANGED <<served, taken, phase>> /\ (target' = target \/ target' = None)
    BY <1>7 DEF AimFails, Send
  <2> QED BY <2>1, OnceKept
<1> QED BY <1>1, <1>2, <1>3, <1>4, <1>5, <1>6, <1>7 DEF Next

\* No special command is executed twice, for any number of callers and whatever they send:
\* a target was set for one command, is read at most once while it is set, and its caller
\* does not set it again (consume_special_dispatch_workspace_ref, set_special_dispatch_target).
THEOREM TargetsServedOnce == Spec => []TargetOnce
<1>1. Init => Once
  <2>1. ASSUME Init PROVE Once
    <3>1. served = <<>> /\ target = None /\ taken = None BY <2>1 DEF Init
    <3>2. served \in Seq(Commands) /\ DOMAIN served = {} BY <3>1, EmptySeq
    <3> QED BY <3>1, <3>2 DEF Once
  <2> QED BY <2>1
<1>2. Once => TargetOnce BY DEF Once, TargetOnce, IsInjective
<1>3. SessionTypeOK => Typed BY TypeParts
<1>4. Once /\ SessionTypeOK /\ [Next]_vars => Once' BY <1>3, StepOnce
<1> QED BY <1>1, <1>2, <1>4, SessionTyped, PTL DEF Spec
=============================================================================
