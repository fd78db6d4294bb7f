------------------------------ MODULE Monitors ------------------------------
(***************************************************************************)
(* Outputs that come and go while windows are open (updategeom in          *)
(* src/monitor/monitor_lifecycle.cpp, called by the handlers of RandR and  *)
(* root events in src/dispatch/xcb_handlers.cpp), composed with the        *)
(* handlers of WorkspaceView.                                              *)
(*                                                                         *)
(* A monitor of WorkspaceView is a Monitor object here, which exists or    *)
(* not: 1..NumMonitors are the addresses it may have, and one that is      *)
(* freed may be allocated again.  What geometry decides is left open: the  *)
(* monitor under the pointer is any, and each client of an output that     *)
(* disappears goes to any that remains.  Rules that name monitors and the  *)
(* default workspaces are left out, and windows are tiled unless their     *)
(* type says otherwise.                                                    *)
(***************************************************************************)
EXTENDS WorkspaceView, FiniteSets, FiniteSetsExt

CONSTANTS
    Outputs,        \* names of RandR outputs
    Unnamed,        \* the output_name of a monitor made without RandR
    Reports,        \* the lists of outputs that query_active_monitor_rects returns
    FirstWorkspace  \* kWorkspaceIdMin

VARIABLES
    owners,     \* the monitors that exist, in the order of the outputs
    name,       \* Monitor::output_name
    freed       \* clients whose Client::leaf points into a tree that was freed

allvars == <<vars, owners, name, freed>>

Living == ToSet(owners)

ASSUME MonitorsAssumption ==
    /\ IsFiniteSet(Clients)
    /\ Unnamed \notin Outputs
    /\ Reports \subseteq Seq(Outputs \cup {Unnamed}) \ {<<>>}
    /\ \A report \in Reports :
         /\ Len(report) <= NumMonitors
         /\ \A i, j \in DOMAIN report : report[i] = report[j] /\ report[i] # Unnamed => i = j
    /\ FirstWorkspace \in NormalIds
    /\ \A w \in NormalIds : MonitorRule[w] = NoMonitor
    /\ \A m \in Monitors : DefaultWorkspace[m] = NoWorkspace
    /\ \A rule \in WindowRules : rule.output = NoMonitor

\* setup: a monitor for each output.
MonitorsInit ==
    /\ Init
    /\ active = [m \in Monitors |-> FirstWorkspace]
    /\ \E report \in Reports :
         /\ owners = [i \in DOMAIN report |-> i]
         /\ name = [m \in Monitors |-> IF m \in DOMAIN report THEN report[m] ELSE Unnamed]
    /\ freed = {}

-----------------------------------------------------------------------------
(* A new list of outputs.                                                  *)

\* Mutation: outputs take monitors in order, whatever their names.
Candidates_InOrder(r, unused) == unused

\* The places in owners of the monitors that an output named r may take, of which it
\* takes the first: the one that had its name, else one without a name; an output
\* without a name takes any.
Candidates(r, unused) ==
    LET named(n) == {i \in unused : name[owners[i]] = n}
    IN  CASE named(r) # {} -> named(r)
          [] named(r) = {} /\ r = Unnamed -> unused
          [] OTHER -> named(Unnamed)

\* What owners can become: each output of a report in turn takes the first of its
\* candidates that is left; a monitor that is made gets any free address.
Reordered(report) ==
    {order \in [DOMAIN report -> Monitors] :
        /\ IsInjective(order)
        /\ \A i \in DOMAIN report :
             LET earlier == {order[j] : j \in 1..(i - 1)}
                 found == Candidates(report[i], {k \in DOMAIN owners : owners[k] \notin earlier})
             IN  IF found = {} THEN order[i] \notin Living ELSE order[i] = owners[Min(found)]}

\* The orders in which the clients of the monitors that go, which move as "to" says,
\* end up at the front of the stacks of the monitors that stay.
Arrivals(to, keep) ==
    {arrivals \in [keep -> SeqOf(DOMAIN to, Cardinality(DOMAIN to))] :
        \A m \in keep : /\ IsInjective(arrivals[m])
                        /\ ToSet(arrivals[m]) = {c \in DOMAIN to : to[c] = m}}

\* Mutation: only windows on view move.
Rehomed_Shown(s, gone, to, arrivals) ==
    LET shown(c) == c \in DOMAIN to /\ Visible(s, c)
    IN  [s EXCEPT
        !.mon = [c \in Clients |-> IF shown(c) THEN to[c] ELSE @[c]],
        !.stack = [m \in Monitors |->
                     CASE m \in gone -> <<>>
                       [] m \in DOMAIN arrivals -> SelectSeq(arrivals[m], shown) \o @[m]
                       [] OTHER -> @[m]],
        !.sel = [m \in Monitors |-> IF m \in gone THEN NoClient ELSE @[m]]]

\* Mutation: the stack of a monitor that takes clients in loses its own.
Rehomed_Overwrites(s, gone, to, arrivals) ==
    [s EXCEPT
        !.mon = [c \in Clients |-> IF c \in DOMAIN to THEN to[c] ELSE @[c]],
        !.stack = [m \in Monitors |->
                     CASE m \in gone -> <<>>
                       [] m \in DOMAIN arrivals /\ arrivals[m] # <<>> -> arrivals[m]
                       [] OTHER -> @[m]],
        !.sel = [m \in Monitors |-> IF m \in gone THEN NoClient ELSE @[m]]]

\* rehome_clients_from_monitor for the monitors in gone.
Rehomed(s, gone, to, arrivals) ==
    [s EXCEPT
        !.mon = [c \in Clients |-> IF c \in DOMAIN to THEN to[c] ELSE @[c]],
        !.stack = [m \in Monitors |->
                     CASE m \in gone -> <<>>
                       [] m \in DOMAIN arrivals -> arrivals[m] \o @[m]
                       [] OTHER -> @[m]],
        !.sel = [m \in Monitors |-> IF m \in gone THEN NoClient ELSE @[m]]]

\* teardown_monitor_resources; an object that is made at the same address later begins
\* on the first workspace.
TornDown(s, gone) ==
    [s EXCEPT
        !.overlay = [m \in Monitors |-> IF m \in gone THEN NoTag ELSE @[m]],
        !.active = [m \in Monitors |-> IF m \in gone THEN FirstWorkspace ELSE @[m]]]

\* apply_monitor_rect: the monitors take the names of their outputs.
Named(report, order) ==
    [m \in Monitors |-> IF m \in ToSet(order)
                        THEN report[CHOOSE i \in DOMAIN order : order[i] = m] ELSE Unnamed]

\* Of the clients in f those whose leaf is as bad after the arrange pass: a window that
\* is alone on a workspace that is shown gets a new tree.
Arranged(s, f) ==
    {c \in f : /\ Managed(s, c)
               /\ ~(Visible(s, c) /\ Members(s, s.mon[c], s.ws[c]) = {c})}

\* handle_monitor_topology_changed.  Without a change of names, order or geometry
\* nothing happens; otherwise the monitor under the pointer is selected.
Topology(report) ==
    /\ Idle
    /\ \E order \in Reordered(report) :
         LET keep == ToSet(order)
             gone == Living \ keep
             lost == {c \in Clients : mon[c] \in gone}
         IN  /\ owners' = order
             /\ name' = Named(report, order)
             /\ \/ /\ order = owners /\ name' = name
                   /\ UNCHANGED <<vars, freed>>
                \/ \E to \in [lost -> keep], m \in keep :
                   \E arrivals \in Arrivals(to, keep) :
                     /\ Step(Focus([TornDown(Rehomed(State, gone, to, arrivals), gone)
                                      EXCEPT !.cur = m], NoClient))
                     /\ freed' = Arranged(State', freed \cup (lost \ Docks))

-----------------------------------------------------------------------------
(* The handlers of WorkspaceView, on the monitors that exist.              *)

\* dirtomon_from_chain.
Following(direction) ==
    LET n == Len(owners)
        i == CHOOSE k \in 1..n : owners[k] = cur
    IN  owners[((i - 1 + direction + n) % n) + 1]

FocusOther(direction) ==
    /\ Idle
    /\ Following(direction) # cur
    /\ Step(Focus([State EXCEPT !.cur = Following(direction)], NoClient))

SendOther(direction) ==
    /\ Idle
    /\ Len(owners) > 1
    /\ sel[cur] # NoClient
    /\ \E ptr \in Maybe : Step(SendMon(State, sel[cur], Following(direction), ptr))

Handler ==
    \/ \E c \in Clients :
         \/ MapRequest(c) \/ Unmap(c) \/ Activate(c)
         \/ FocusNeighbour(c) \/ FocusWindow(c) \/ EnterClient(c) \/ ButtonPress(c)
    \/ \E w \in NormalIds : View(w)
    \/ \E t \in Tags : ToggleSpecial(t)
    \/ \E ref \in Workspaces, silent \in BOOLEAN : Move(ref, silent)
    \/ \E direction \in {-1, 1} : FocusOther(direction) \/ SendOther(direction)
    \/ \E m \in Living : EndDrag(m) \/ EnterMonitor(m) \/ PointerCrosses(m)
    \/ BeginDrag
    \/ FocusIn

\* A client that is moved is taken from its tree, if it can be found there, and put
\* into another one.
Handle ==
    /\ Handler
    /\ freed' = Arranged(State', {c \in freed : mon'[c] = mon[c] /\ ws'[c] = ws[c]})
    /\ UNCHANGED <<owners, name>>

MonitorsNext == Handle \/ \E report \in Reports : Topology(report)

MonitorsSpec == MonitorsInit /\ [][MonitorsNext]_allvars

-----------------------------------------------------------------------------
(* Properties.                                                             *)

\* No window is on a monitor that is gone, however outputs come and go between and
\* during commands: the selected monitor exists, every managed window is on one that
\* exists, and nothing is left on the others (updategeom).
HomesLive ==
    /\ IsInjective(owners) /\ owners # <<>>
    /\ cur \in Living
    /\ \A c \in Clients : Managed(State, c) => mon[c] \in Living
    /\ \A m \in Monitors \ Living : stack[m] = <<>> /\ sel[m] = NoClient

\* An output that stays connected keeps its Monitor, with the workspace and the overlay
\* it shows and all its windows, whatever appears, disappears or changes places around
\* it, as long as RandR names every output.
OutputKeepsItsWorld ==
    [][(owners' # owners \/ name' # name) /\ (\A m \in ToSet(owners') : name'[m] # Unnamed) =>
         \A m \in Living, n \in ToSet(owners') : name'[n] = name[m] =>
             /\ n = m
             /\ active'[m] = active[m] /\ overlay'[m] = overlay[m]
             /\ \A c \in Clients : mon[c] = m => mon'[c] = m]_allvars

\* The leaf of a tiled window is in a tree that exists (Client::leaf).
LeavesLive == freed = {}
=============================================================================
