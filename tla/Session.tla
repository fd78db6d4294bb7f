------------------------------- MODULE Session -------------------------------
(***************************************************************************)
(* The life of the zestwm process (main and run in src/zestwm.cpp), the    *)
(* signal that makes it restart (sighup in src/wm_startup.cpp), the watch  *)
(* on its configuration (src/config/watch.cpp), the two queues its events  *)
(* pass through (src/x11/backend.cpp), and the zestctl processes that send *)
(* it commands through properties of the root window (src/zestctl/).       *)
(*                                                                         *)
(* The configuration is a version number.  An event is a notification that *)
(* the command property has changed, or any other event; what its handler  *)
(* does to windows is the matter of WorkspaceView.  A command is a special *)
(* one, which takes its tag from a second property, a request to reload or *)
(* to quit, or any other.                                                  *)
(***************************************************************************)
EXTENDS Naturals, Sequences, FiniteSets, SequencesExt

CONSTANTS
    Callers,    \* zestctl processes
    Script,     \* the commands of each: one, or those of --batch
    None,       \* a property that is not set
    Keyboard,   \* the configuration sets the keyboard: setxkbmap runs again later
    MaxEdits,   \* bound: changes of the configuration files
    MaxHups,    \* bound: SIGHUPs from other processes
    MaxOthers   \* bound: events other than notifications

Kinds == {"plain", "special", "reload", "quit"}

ASSUME SessionConstants ==
    /\ Script \in [Callers -> Seq(Kinds)]
    /\ None \notin Callers \X Nat
    /\ Keyboard \in BOOLEAN
    /\ MaxEdits \in Nat /\ MaxHups \in Nat /\ MaxOthers \in Nat

VARIABLES
    phase,      \* where the process is, see Phases
    running, restart,
    rekey,      \* input_kb_reapply_deadline is set
    disk,       \* version of the configuration on disk
    conf,       \* version that was loaded
    inotify,    \* the watch is on the directories; if not, times are compared
    unread,     \* the watch has events to read
    seen,       \* confwatch_mtimes: the version whose time was taken
    wire,       \* events that the X server has sent
    queue,      \* events read by libxcb or the backend, not handled
    command,    \* _NET_ZEST_DISPATCH
    target,     \* _NET_ZESTWM_SPECIAL_HIDDEN_ID, as the command it was set for
    current,    \* the command being executed
    taken,      \* the target it has read
    at,         \* commands each caller has sent
    aimed,      \* callers that have set the target of their next command
    hups, others,
    missed,     \* history: a signal came after the test of running, before poll
    fresh,      \* history: the newest command was sent to this process and is not read
    served      \* history: targets consumed

process == <<phase, running, restart, rekey>>
watch == <<disk, conf, inotify, unread, seen>>
events == <<wire, queue>>
properties == <<command, target>>
execution == <<current, taken>>
callers == <<at, aimed>>
history == <<missed, fresh, served>>
vars == <<phase, running, restart, rekey, disk, conf, inotify, unread, seen, wire, queue,
          command, target, current, taken, at, aimed, hups, others,
          missed, fresh, served>>

\* main up to run: the configuration is to be loaded, the watch to be set up, the signal
\* handler to be installed, events to be selected, windows to be adopted; run: running is
\* to be tested, poll to be called, poll sleeps, poll has returned, events are handled, a
\* command reads its target and deletes it; then restart is to be tested.  A process that
\* is gone has left main, one that is killed died of the signal or of an X error.
Startup == {"boot", "unwatched", "unhandled", "unselected", "starting"}
Loop == {"test", "tested", "poll", "woken", "drain", "aim", "consume"}
Phases == Startup \cup Loop \cup {"after", "gone", "killed"}

\* Events reach a process that has selected them and is still connected.
Listening == phase \in Loop \cup {"starting", "after"}

\* A command is known by the caller and its place in the caller's script.
Command(p, i) == <<p, i>>
KindOf(c) == Script[c[1]][c[2]]
Commands == {c \in Callers \X UNION {DOMAIN Script[p] : p \in Callers} :
               c[2] \in DOMAIN Script[c[1]]}

Sent(e) == wire' = IF Listening THEN Append(wire, e) ELSE wire

Init ==
    /\ phase = "boot" /\ running = TRUE /\ restart = FALSE /\ rekey = FALSE
    /\ disk = 0 /\ conf = 0 /\ inotify = FALSE /\ unread = FALSE /\ seen = 0
    /\ wire = <<>> /\ queue = <<>>
    /\ command = None /\ target = None
    /\ current = None /\ taken = None
    /\ at = [p \in Callers |-> 0] /\ aimed = {}
    /\ hups = 0 /\ others = 0
    /\ missed = FALSE /\ fresh = FALSE /\ served = <<>>

-----------------------------------------------------------------------------
(* The zestwm process.                                                     *)

\* wmconf_load.
Load ==
    /\ phase = "boot"
    /\ phase' = "unwatched"
    /\ conf' = disk
    /\ UNCHANGED <<running, restart, rekey, disk, inotify, unread, seen, events, properties,
                   execution, callers, hups, others, history>>

\* wmconf_watch_init: inotify if it can be had.
WatchInit ==
    /\ phase = "unwatched"
    /\ phase' = "unhandled"
    /\ inotify' \in BOOLEAN
    /\ seen' = disk /\ unread' = FALSE
    /\ UNCHANGED <<running, restart, rekey, disk, conf, events, properties, execution, callers,
                   hups, others, history>>

\* The beginning of setup, up to sigaction.
InstallHandler ==
    /\ phase = "unhandled"
    /\ phase' = "unselected"
    /\ UNCHANGED <<running, restart, rekey, watch, events, properties, execution, callers,
                   hups, others, history>>

\* The rest of setup: input settings, then the root window's events.
SelectEvents ==
    /\ phase = "unselected"
    /\ phase' = "starting"
    /\ rekey' = Keyboard
    /\ UNCHANGED <<running, restart, watch, events, properties, execution, callers,
                   hups, others, history>>

\* scan, the restores and arrange, to the sync of run: waiting for replies reads whatever
\* has arrived.
EnterLoop ==
    /\ phase = "starting"
    /\ phase' = "test"
    /\ queue' = queue \o wire /\ wire' = <<>>
    /\ UNCHANGED <<running, restart, rekey, watch, properties, execution, callers,
                   hups, others, history>>

\* while (running).
Test ==
    /\ phase = "test"
    /\ phase' = IF running THEN "tested" ELSE "after"
    /\ UNCHANGED <<running, restart, rekey, watch, events, properties, execution, callers,
                   hups, others, history>>

\* poll goes to sleep; the deadline of the keyboard only shortens its time.
Sleep ==
    /\ phase = "tested"
    /\ phase' = "poll"
    /\ UNCHANGED <<running, restart, rekey, watch, events, properties, execution, callers,
                   hups, others, history>>

\* What poll waits for.  Events in the queue are not on the socket any more.
Readable == wire # <<>> \/ (inotify /\ unread)

Wake ==
    /\ phase = "poll" /\ Readable
    /\ phase' = "woken"
    /\ UNCHANGED <<running, restart, rekey, watch, events, properties, execution, callers,
                   hups, others, history>>

\* Whether wmconf_watch_maybe_reload finds a change, and what it has seen then.
Notices == running /\ IF inotify THEN unread ELSE seen # disk

\* wmconf_watch_maybe_reload, which raises SIGHUP.
MaybeReload ==
    /\ restart' = (restart \/ Notices)
    /\ running' = (running /\ ~Notices)
    /\ unread' = (unread /\ ~(running /\ inotify))
    /\ seen' = IF Notices /\ ~inotify THEN disk ELSE seen
    /\ UNCHANGED <<disk, conf, inotify>>

\* Mutation: a timeout does not look at the files.
TimeOut_Only ==
    /\ phase = "poll" /\ ~Readable
    /\ ~inotify \/ rekey
    /\ phase' = "test"
    /\ rekey' = FALSE
    /\ UNCHANGED <<running, restart, watch, events, properties, execution, callers,
                   hups, others, history>>

\* poll times out: after a second without inotify, or at the deadline for the keyboard.
TimeOut ==
    /\ phase = "poll" /\ ~Readable
    /\ ~inotify \/ rekey
    /\ MaybeReload
    /\ phase' = "test"
    /\ rekey' \in (IF inotify THEN {FALSE} ELSE {FALSE, rekey})
    /\ UNCHANGED <<events, properties, execution, callers, hups, others, history>>

\* poll returned with something to read.
Look ==
    /\ phase = "woken"
    /\ MaybeReload
    /\ phase' = "drain"
    /\ UNCHANGED <<rekey, events, properties, execution, callers, hups, others, history>>

\* The drain ends when poll_event finds neither a queue nor a socket with events.
Drained ==
    /\ phase = "drain" /\ queue \o wire = <<>>
    /\ phase' = "test"
    /\ UNCHANGED <<running, restart, rekey, watch, events, properties, execution, callers,
                   hups, others, history>>

\* poll_event reads the socket and takes the first event.
TakesEvent(e) ==
    /\ phase = "drain" /\ queue \o wire # <<>>
    /\ e = Head(queue \o wire)
    /\ queue' = Tail(queue \o wire) /\ wire' = <<>>

\* Mutation: one event at each turn of the loop.
HandleOther_Single ==
    /\ TakesEvent("other")
    /\ phase' = "test"
    /\ UNCHANGED <<running, restart, rekey, watch, properties, execution, callers,
                   hups, others, history>>

\* The handlers of WorkspaceView.
HandleOther ==
    /\ TakesEvent("other")
    /\ UNCHANGED <<process, watch, properties, execution, callers, hups, others, history>>

\* propertynotify reads the property, which holds the newest command, and dispatchcmd
\* executes it.  It goes on after a reload or a quit, with what else has arrived.
HandleCommand ==
    /\ TakesEvent("command")
    /\ fresh' = (fresh /\ command = None)
    /\ LET kind == IF command = None THEN "plain" ELSE KindOf(command)
       IN  /\ phase' = IF kind = "special" THEN "aim" ELSE phase
           /\ current' = IF kind = "special" THEN command ELSE None
           /\ restart' = ((restart \/ kind = "reload") /\ kind # "quit")
           /\ running' = (running /\ kind \notin {"reload", "quit"})
    /\ UNCHANGED <<rekey, watch, properties, taken, callers, hups, others,
                   missed, served>>

\* consume_special_dispatch_workspace_ref reads the target.
ReadTarget ==
    /\ phase = "aim"
    /\ phase' = "consume"
    /\ taken' = target
    /\ UNCHANGED <<running, restart, rekey, watch, events, properties, current, callers,
                   hups, others, history>>

\* Mutation: the target stays.
Consume_Keeps ==
    /\ phase = "consume"
    /\ phase' = "drain"
    /\ served' = IF taken = None THEN served ELSE Append(served, taken)
    /\ current' = None /\ taken' = None
    /\ UNCHANGED <<running, restart, rekey, watch, events, properties, callers, hups, others,
                   missed, fresh>>

\* Mutation: the command goes too.
Consume_Both ==
    /\ phase = "consume"
    /\ phase' = "drain"
    /\ target' = None /\ command' = None
    /\ served' = IF taken = None THEN served ELSE Append(served, taken)
    /\ current' = None /\ taken' = None
    /\ UNCHANGED <<running, restart, rekey, watch, events, callers, hups, others,
                   missed, fresh>>

\* It deletes the target, and the command is executed if there was one.
Consume ==
    /\ phase = "consume"
    /\ phase' = "drain"
    /\ target' = None
    /\ served' = IF taken = None THEN served ELSE Append(served, taken)
    /\ current' = None /\ taken' = None
    /\ UNCHANGED <<running, restart, rekey, watch, events, command, callers, hups, others,
                   missed, fresh>>

\* What a process takes with it: the events that were not handled, the watch, the flags.
Forgotten ==
    /\ restart' = FALSE /\ rekey' = FALSE
    /\ wire' = <<>> /\ queue' = <<>>
    /\ unread' = FALSE /\ missed' = FALSE /\ fresh' = FALSE
    /\ UNCHANGED <<disk, conf, inotify, seen, properties, execution, callers, hups, others,
                   served>>

\* An event may be an X error, and not one of those that destroyed windows cause: xerror
\* calls exit.
Fatal ==
    /\ phase = "drain" /\ queue \o wire # <<>> /\ Head(queue \o wire) = "other"
    /\ phase' = "killed" /\ running' = FALSE
    /\ Forgotten

\* main after run: a new process with the same arguments, if it can be executed.
Restart ==
    /\ phase = "after" /\ restart
    /\ \/ phase' = "boot" /\ running' = TRUE
       \/ phase' = "gone" /\ running' = FALSE
    /\ Forgotten

\* cleanup, then the end.
Quit ==
    /\ phase = "after" /\ ~restart
    /\ phase' = "gone" /\ running' = FALSE
    /\ Forgotten

Zestwm ==
    \/ Load \/ WatchInit \/ InstallHandler \/ SelectEvents \/ EnterLoop
    \/ Test \/ Sleep \/ Wake \/ TimeOut \/ Look
    \/ Drained \/ HandleOther \/ HandleCommand \/ ReadTarget \/ Consume
    \/ Fatal \/ Restart \/ Quit

-----------------------------------------------------------------------------
(* Everything else.                                                        *)

\* Somebody changes a configuration file.
Edit ==
    /\ disk < MaxEdits
    /\ disk' = disk + 1
    /\ unread' = (unread \/ (inotify /\ phase \notin {"boot", "unwatched", "gone", "killed"}))
    /\ UNCHANGED <<process, conf, inotify, seen, events, properties, execution, callers,
                   hups, others, history>>

\* Mutation: a signal does not interrupt poll.
Hup_Restarts ==
    /\ hups < MaxHups /\ phase \notin {"gone", "killed"}
    /\ hups' = hups + 1
    /\ IF phase \in {"boot", "unwatched", "unhandled"}
       THEN phase' = "killed" /\ UNCHANGED <<running, restart, missed>>
       ELSE /\ running' = FALSE /\ restart' = TRUE
            /\ UNCHANGED phase
            /\ missed' = (missed \/ phase = "tested")
    /\ UNCHANGED <<rekey, watch, events, properties, execution, callers, others, fresh,
                   served>>

\* SIGHUP: it kills a process without a handler, and interrupts poll.
Hup ==
    /\ hups < MaxHups /\ phase \notin {"gone", "killed"}
    /\ hups' = hups + 1
    /\ IF phase \in {"boot", "unwatched", "unhandled"}
       THEN phase' = "killed" /\ UNCHANGED <<running, restart, missed>>
       ELSE /\ running' = FALSE /\ restart' = TRUE
            /\ phase' = IF phase = "poll" THEN "test" ELSE phase
            /\ missed' = (missed \/ phase = "tested")
    /\ UNCHANGED <<rekey, watch, events, properties, execution, callers, others, fresh,
                   served>>

\* An event that has nothing to do with commands.
Other ==
    /\ others < MaxOthers /\ Listening
    /\ others' = others + 1
    /\ Sent("other") /\ UNCHANGED queue
    /\ UNCHANGED <<process, watch, properties, execution, callers, hups, history>>

\* The command that caller p sends next.
Pending(p) == at[p] < Len(Script[p])
Upcoming(p) == Command(p, at[p] + 1)

\* set_special_dispatch_target.
Aim(p) ==
    /\ Pending(p) /\ KindOf(Upcoming(p)) = "special" /\ p \notin aimed
    /\ target' = Upcoming(p)
    /\ aimed' = aimed \cup {p}
    /\ UNCHANGED <<process, watch, events, command, execution, at, hups, others, history>>

\* The tag is not in the table that zestwm publishes: the call fails, and what remains of
\* a batch is not sent.
AimFails(p) ==
    /\ Pending(p) /\ KindOf(Upcoming(p)) = "special" /\ p \notin aimed
    /\ target' = None
    /\ at' = [at EXCEPT ![p] = Len(Script[p])]
    /\ UNCHANGED <<process, watch, events, command, execution, aimed, hups, others, history>>

\* send_dispatch, after which the caller says ok and goes on.
Send(p) ==
    /\ Pending(p)
    /\ KindOf(Upcoming(p)) = "special" => p \in aimed
    /\ command' = Upcoming(p)
    /\ at' = [at EXCEPT ![p] = @ + 1]
    /\ aimed' = aimed \ {p}
    /\ Sent("command") /\ UNCHANGED queue
    /\ fresh' = Listening
    /\ UNCHANGED <<process, watch, target, execution, hups, others, missed, served>>

Next ==
    \/ Zestwm
    \/ Edit \/ Hup \/ Other
    \/ \E p \in Callers : Aim(p) \/ AimFails(p) \/ Send(p)

\* The process is scheduled, poll returns when there is something to read and when its
\* time is over; nobody has to edit, to signal or to call.
Fairness ==
    /\ WF_vars(Load) /\ WF_vars(WatchInit) /\ WF_vars(InstallHandler)
    /\ WF_vars(SelectEvents) /\ WF_vars(EnterLoop)
    /\ WF_vars(Test) /\ WF_vars(Sleep) /\ WF_vars(Wake) /\ WF_vars(Look)
    /\ WF_vars(TimeOut)
    /\ WF_vars(Drained) /\ WF_vars(HandleOther) /\ WF_vars(HandleCommand)
    /\ WF_vars(ReadTarget) /\ WF_vars(Consume)
    /\ WF_vars(Restart) /\ WF_vars(Quit)

Spec == Init /\ [][Next]_vars /\ Fairness

-----------------------------------------------------------------------------
(* Properties.                                                             *)

Ended == phase \in {"gone", "killed"}

\* Types; a process that is not in its loop has nothing under way.
SessionTypeOK ==
    /\ phase \in Phases
    /\ running \in BOOLEAN /\ restart \in BOOLEAN /\ rekey \in BOOLEAN
    /\ disk \in 0..MaxEdits /\ conf \in 0..disk /\ seen \in 0..disk
    /\ inotify \in BOOLEAN /\ unread \in BOOLEAN
    /\ wire \in Seq({"command", "other"}) /\ queue \in Seq({"command", "other"})
    /\ command \in Commands \cup {None} /\ target \in Commands \cup {None}
    /\ current \in Commands \cup {None} /\ taken \in Commands \cup {None}
    /\ current # None <=> phase \in {"aim", "consume"}
    /\ phase \in Startup \ {"starting"} => wire = <<>> /\ queue = <<>>
    /\ at \in [Callers -> Nat] /\ aimed \subseteq Callers

\* A special command is not executed twice, although two notifications may both read the
\* newer of two commands and each caller sets its target before its command: the toggle
\* of an overlay does not undo itself (consume_special_dispatch_workspace_ref).
TargetOnce == IsInjective(served)

\* The newest command that was sent to this process is read before its notifications
\* are used up, in whatever order callers, handlers and their reads come
\* (propertynotify_with_ctx).
NewestRuns == fresh => Contains(queue \o wire, "command")

\* A change of the configuration that the watch can see is loaded, or the session ends
\* (wmconf_watch_maybe_reload, run).
EditsReload ==
    (phase \in Loop /\ IF inotify THEN unread ELSE seen # disk) ~> (conf = disk \/ Ended)

\* An event that arrives in the loop is handled, and with it those that were read before,
\* unless the session restarts or ends first (run, X11Backend::poll_event).
SocketDrains ==
    (phase \in Loop /\ wire # <<>>) ~> (wire = <<>> /\ queue = <<>>)

\* A process told to stop leaves its loop, however the request came, unless a signal came
\* in the moment between the test and poll (run, sighup).
StopsWhenAsked ==
    (phase \in Loop /\ ~running /\ ~missed) ~> (phase \notin Loop)
=============================================================================
