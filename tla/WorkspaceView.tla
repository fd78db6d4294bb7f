---------------------------- MODULE WorkspaceView ----------------------------
(***************************************************************************)
(* What the window manager shows and where keyboard input goes: the        *)
(* selected monitor, the numbered workspace each monitor views, the        *)
(* special overlay open above it, the focus stack and selection of each    *)
(* monitor, and the handlers that move clients and focus between them      *)
(* (src/actions/workspace.cpp, src/client/, src/dispatch/xcb_handlers.cpp, *)
(* the focus and monitor commands of src/actions.cpp).                     *)
(*                                                                         *)
(* The program is one thread: each event or command runs to its end, so    *)
(* each is one action.  A handler calls helpers that change the state and  *)
(* that later calls read back; the helpers are therefore operators from    *)
(* state records to state records, composed in the order of the code, and  *)
(* an action installs the record its handler ends with (Become).           *)
(*                                                                         *)
(* Left to other modules or abstracted: tiling trees (which tiled client a *)
(* keyboard command reaches is any visible one of the monitor), geometry   *)
(* (which client is under the pointer is any one that is on screen), and   *)
(* the order of Monitor::clients (the first overlay client, the first      *)
(* urgent client is any of those that qualify).                            *)
(***************************************************************************)
EXTENDS Integers, SequencesExt

CONSTANTS
    Clients,        \* the X windows that may be managed
    WindowType,     \* the _NET_WM_WINDOW_TYPE of each
    Hinted,         \* those that set WM_HINTS (may be urgent or refuse input)
    NumMonitors,    \* monitors, in the order of the output list
    NormalIds,      \* numbered workspaces
    Tags,           \* tags of special workspaces
    EmptyTag,       \* the default special workspace "special:", tag ""
    Hooked,         \* workspaces with an on-created-empty command
    MonitorRule,    \* "workspace = w, monitor:m" by workspace, 0 if no rule
    DefaultWorkspace, \* "workspace = w, monitor:m, default:true" by monitor
    WindowRules,    \* what a window-rule block can decide for a new client
    FollowMouse,    \* follow_mouse of the configuration
    FocusOnActivate, MouseMoveFocusesMonitor,   \* booleans of the configuration
    NoClient, NoTag, NoWorkspace    \* null Client*, overlay closed, no workspace

Monitors == 1..NumMonitors
NoMonitor == 0
Workspaces == NormalIds \cup Tags
Docks == {c \in Clients : WindowType[c] = "dock"}

\* What window_rule_apply_prestack writes: an output (or none), a workspace (or
\* none) and whether the workspace is marked silent.
RuleSet == [output : Monitors \cup {NoMonitor},
            workspace : Workspaces \cup {NoWorkspace},
            silent : BOOLEAN]

ASSUME ConstantsAssumption ==
    /\ NumMonitors \in Nat \ {0}
    /\ WindowType \in [Clients -> {"normal", "dialog", "splash", "dock"}]
    /\ Hinted \subseteq Clients
    /\ Hooked \subseteq NormalIds
    /\ NormalIds # {}
    /\ NormalIds \cap Tags = {}
    /\ EmptyTag # NoTag
    /\ NoClient \notin Clients
    /\ NoTag \notin Workspaces \cup {NoWorkspace}
    /\ NoWorkspace \notin Workspaces
    /\ MonitorRule \in [NormalIds -> Monitors \cup {NoMonitor}]
    /\ DefaultWorkspace \in [Monitors -> NormalIds \cup {NoWorkspace}]
    /\ WindowRules \subseteq RuleSet
    /\ FollowMouse \in 0..3
    /\ FocusOnActivate \in BOOLEAN
    /\ MouseMoveFocusesMonitor \in BOOLEAN

VARIABLES
    cur,        \* the selected monitor
    active,     \* active_workspace_id of each monitor
    overlay,    \* the tag of the open special overlay of each monitor, or NoTag
    mon,        \* Client::mon, NoMonitor while the window is not managed
    ws,         \* Client::workspace
    stack,      \* Monitor::stack, most recently focused first
    sel,        \* Monitor::sel
    input,      \* _NET_ACTIVE_WINDOW: the window X keyboard input was set to
    armed,      \* workspaces whose on_empty_spawn_pending is set
    neverfocus, urgent, ruleSilent,     \* clients with the flag of that name
    dragged     \* the client of a running movemouse or resizemouse loop

vars == <<cur, active, overlay, mon, ws, stack, sel, input, armed,
          neverfocus, urgent, ruleSilent, dragged>>

State == [cur |-> cur, active |-> active, overlay |-> overlay, mon |-> mon,
          ws |-> ws, stack |-> stack, sel |-> sel, input |-> input,
          armed |-> armed, neverfocus |-> neverfocus, urgent |-> urgent,
          ruleSilent |-> ruleSilent]

StateSet == [cur : Monitors,
             active : [Monitors -> NormalIds],
             overlay : [Monitors -> Tags \cup {NoTag}],
             mon : [Clients -> Monitors \cup {NoMonitor}],
             ws : [Clients -> Workspaces \cup {NoWorkspace}],
             stack : [Monitors -> Seq(Clients)],
             sel : [Monitors -> Clients \cup {NoClient}],
             input : Clients \cup {NoClient},
             armed : SUBSET Hooked,
             neverfocus : SUBSET Clients,
             urgent : SUBSET Clients,
             ruleSilent : SUBSET Clients]

Become(s) ==
    /\ cur' = s.cur
    /\ active' = s.active
    /\ overlay' = s.overlay
    /\ mon' = s.mon
    /\ ws' = s.ws
    /\ stack' = s.stack
    /\ sel' = s.sel
    /\ input' = s.input
    /\ armed' = s.armed
    /\ neverfocus' = s.neverfocus
    /\ urgent' = s.urgent
    /\ ruleSilent' = s.ruleSilent

-----------------------------------------------------------------------------
(* Visibility, and the focus stack.                                        *)

Managed(s, c) == c \in Clients /\ s.mon[c] # NoMonitor

\* client_is_visible: a dock always, another client when its monitor views its
\* workspace or has the overlay of its tag open.
Visible(s, c) ==
    /\ Managed(s, c)
    /\ \/ c \in Docks
       \/ s.ws[c] = s.active[s.mon[c]]
       \/ s.ws[c] = s.overlay[s.mon[c]]

Focusable(s, c) == Visible(s, c) /\ c \notin s.neverfocus

\* showhide: an open overlay parks the normal clients of its monitor off screen.
OnScreen(s, c) ==
    /\ Visible(s, c)
    /\ \/ c \in Docks
       \/ s.ws[c] \in Tags
       \/ s.overlay[s.mon[c]] = NoTag

\* The first client of a stack that is in S, NoClient if none is.
Newest(q, S) ==
    LET i == SelectInSeq(q, LAMBDA c : c \in S)
    IN  IF i = 0 THEN NoClient ELSE q[i]

Members(s, m, w) == {c \in Clients \ Docks : s.mon[c] = m /\ s.ws[c] = w}

Occupied(s, w) == \E m \in Monitors : Members(s, m, w) # {}

\* client_link_stack after client_unlink_stack: c becomes the newest of m.
ToFront(s, m, c) ==
    [s EXCEPT !.stack[m] = <<c>> \o RemoveFirst(@, c)]

\* client_unlink and client_unlink_stack: the selection of the monitor falls to
\* the newest visible client, focusable or not.
Unlink(s, c) ==
    LET m == s.mon[c]
        t == [s EXCEPT !.stack[m] = RemoveFirst(@, c), !.mon[c] = NoMonitor]
    IN  IF s.sel[m] # c THEN t
        ELSE [t EXCEPT !.sel[m] = Newest(t.stack[m], {d \in Clients : Visible(t, d)})]

\* Mutations: the selection is left as it was; no other client is looked for.
Focus_KeepsSelection(s, c) ==
    LET d == IF Focusable(s, c) THEN c
             ELSE Newest(s.stack[s.cur], {e \in Clients : Focusable(s, e)})
        m == s.mon[d]
    IN  IF d = NoClient THEN [s EXCEPT !.sel[s.cur] = NoClient, !.input = NoClient]
        ELSE [ToFront(s, m, d) EXCEPT !.cur = m, !.input = d, !.urgent = @ \ {d}]
Focus_NoFallback(s, c) ==
    LET m == s.mon[c]
    IN  IF ~Focusable(s, c)
        THEN [s EXCEPT !.sel[s.cur] = NoClient, !.input = NoClient]
        ELSE [ToFront(s, m, c) EXCEPT !.cur = m, !.sel[m] = c, !.input = c,
                                      !.urgent = @ \ {c}]

\* focus(c): a client that cannot take focus is replaced by the newest one that
\* can on the selected monitor; the monitor of the choice becomes selected.
Focus(s, c) ==
    LET d == IF Focusable(s, c) THEN c
             ELSE Newest(s.stack[s.cur], {e \in Clients : Focusable(s, e)})
        m == s.mon[d]
    IN  IF d = NoClient
        THEN [s EXCEPT !.sel[s.cur] = NoClient, !.input = NoClient]
        ELSE [ToFront(s, m, d) EXCEPT !.cur = m, !.sel[m] = d, !.input = d,
                                      !.urgent = @ \ {d}]

-----------------------------------------------------------------------------
(* The on-created-empty hook.                                              *)

ClientJoined(s, w) == [s EXCEPT !.armed = @ \ {w}]

\* Mutations: it is not asked whether the workspace has a hook; the workspace on view
\* is passed over.
ClientLeft_EveryWorkspace(s, w) ==
    IF ~Occupied(s, w) THEN [s EXCEPT !.armed = @ \cup {w}] ELSE s
ClientLeft_NotOnView(s, w) ==
    IF w \in Hooked /\ ~Occupied(s, w) /\ s.active[s.cur] # w
    THEN [s EXCEPT !.armed = @ \cup {w}] ELSE s

\* Called once c has left w; the caller's test that w is empty is part of it.
ClientLeft(s, w) ==
    IF w \in Hooked /\ ~Occupied(s, w) THEN [s EXCEPT !.armed = @ \cup {w}] ELSE s

\* maybe_spawn_workspace_on_created_empty
SpawnIfEmpty(s, w) ==
    IF Occupied(s, w) THEN s ELSE [s EXCEPT !.armed = @ \ {w}]

-----------------------------------------------------------------------------
(* Special overlays.  "ptr" is the client under the pointer, NoClient when *)
(* it is over none; each operator tests whether the client qualifies.      *)

CloseOverlay(s, m) == [s EXCEPT !.overlay[m] = NoTag]

\* Mutation: focus(NULL) chooses when neither pointer nor selection does.
FocusFirstOverlay_Newest(s, m, ptr) ==
    LET candidates == Members(s, m, s.overlay[m]) \ s.neverfocus
    IN  IF s.overlay[m] \in {NoTag, EmptyTag} THEN s
        ELSE Focus([s EXCEPT !.cur = m],
                   CASE ptr \in candidates -> ptr
                     [] ptr \notin candidates /\ s.sel[m] \in candidates -> s.sel[m]
                     [] OTHER -> NoClient)

\* wm_focus_first_special_overlay_client: the overlay client under the pointer,
\* else the selected one, else the first of the monitor, which here is any
\* (each is also reached as the one under the pointer).  Nothing is done for
\* the empty tag.
FocusFirstOverlay(s, m, ptr) ==
    LET candidates == Members(s, m, s.overlay[m]) \ s.neverfocus
    IN  IF s.overlay[m] \in {NoTag, EmptyTag} THEN s
        ELSE Focus([s EXCEPT !.cur = m],
                   CASE ptr \in candidates -> ptr
                     [] ptr \notin candidates /\ s.sel[m] \in candidates -> s.sel[m]
                     [] candidates = {} -> NoClient
                     [] OTHER -> CHOOSE c \in candidates : TRUE)

EnsureOverlay(s, m, t, ptr) ==
    FocusFirstOverlay([s EXCEPT !.overlay[m] = t], m, ptr)

\* wm_focus_after_special_overlay_hidden
FocusAfterHidden(s, m, ptr) ==
    Focus([s EXCEPT !.cur = m],
          IF OnScreen(s, ptr) /\ s.mon[ptr] = m THEN ptr ELSE NoClient)

\* wm_special_overlay_autohide_if_empty: whether the overlay of m is left
\* without a client, and then closes.  The empty tag is skipped.
Autohides(s, m) ==
    /\ s.overlay[m] \notin {NoTag, EmptyTag}
    /\ Members(s, m, s.overlay[m]) = {}

Autohide(s, m) == IF Autohides(s, m) THEN CloseOverlay(s, m) ELSE s

-----------------------------------------------------------------------------
(* Viewing a workspace.                                                    *)

\* resolve_target_monitor_for_workspace
TargetMonitor(s, w) == IF MonitorRule[w] = NoMonitor THEN s.cur ELSE MonitorRule[w]

\* apply_normal_workspace_view returns false, and does nothing, for the
\* workspace that the selected monitor views already.
AlreadyViewed(s, w) == TargetMonitor(s, w) = s.cur /\ s.active[s.cur] = w

\* apply_follow_mouse_focus_after_view
FollowPointer(s, ptr) ==
    IF FollowMouse = 1 /\ OnScreen(s, ptr) /\ ptr \notin s.neverfocus
    THEN Focus(s, ptr) ELSE s

\* Mutation: the view changes and the focus does not.
ShowNormal_KeepsFocus(s, w, ptr) ==
    LET m == TargetMonitor(s, w)
        shown == [CloseOverlay(s, m) EXCEPT !.cur = m, !.active[m] = w]
    IN  SpawnIfEmpty(FollowPointer(shown, ptr), w)

\* The body of apply_normal_workspace_view after its early returns.
ShowNormal(s, w, ptr) ==
    LET m == TargetMonitor(s, w)
        shown == [CloseOverlay(s, m) EXCEPT !.cur = m, !.active[m] = w]
    IN  SpawnIfEmpty(FollowPointer(Focus(shown, NoClient), ptr), w)

\* view_workspace_id, and the state it leaves when it has nothing to do.
ViewNormal(s, w, ptr) == IF AlreadyViewed(s, w) THEN s ELSE ShowNormal(s, w, ptr)

\* view_special_workspace with hiding allowed.
ToggleOverlay(s, m, t, ptr) ==
    LET onTag == Focusable(s, s.sel[m]) /\ s.ws[s.sel[m]] = t
    IN  CASE s.overlay[m] # t -> EnsureOverlay([s EXCEPT !.cur = m], m, t, ptr)
          [] s.overlay[m] = t /\ (onTag \/ Members(s, m, t) = {}) ->
               FocusAfterHidden(CloseOverlay(s, m), m, ptr)
          [] OTHER -> FocusFirstOverlay(s, m, ptr)

-----------------------------------------------------------------------------
(* Moving clients.                                                         *)

\* What movetoworkspace_ref shows once the client has moved: another workspace only
\* if the move is not silent.
ViewAfterMove(s, ref, silent, ptr) ==
    IF silent \/ AlreadyViewed(s, ref) THEN Focus(s, NoClient)
    ELSE ShowNormal(s, ref, ptr)

\* Mutation: silent is not looked at for a special workspace.
MoveToWorkspace_OpensOverlay(s, ref, silent, ptr) ==
    LET m == s.cur
        c == s.sel[m]
        left == ClientJoined(ClientLeft([s EXCEPT !.ws[c] = ref], s.ws[c]), ref)
    IN  CASE ref \in Tags -> EnsureOverlay(left, m, ref, ptr)
          [] ref \notin Tags /\ silent -> Focus(left, NoClient)
          [] OTHER -> ViewNormal(left, ref, ptr)

\* movetoworkspace_ref for the selected client c; ref is a numbered workspace
\* or a tag.  "left" is the state after the client has changed hands.
MoveToWorkspace(s, ref, silent, ptr) ==
    LET m == s.cur
        c == s.sel[m]
        moved == [s EXCEPT !.ws[c] = ref]
        left == ClientJoined(ClientLeft(Autohide(moved, m), s.ws[c]), ref)
    IN  CASE ref \in Tags /\ ~silent ->
               EnsureOverlay(IF s.ws[c] = ref THEN s ELSE left, m, ref, ptr)
          [] (ref \in NormalIds \/ silent) /\ s.ws[c] = ref ->
               ViewAfterMove(s, ref, silent, ptr)
          [] OTHER -> IF Autohides(moved, m)
                      THEN FocusAfterHidden(ViewAfterMove(left, ref, silent, ptr), m, ptr)
                      ELSE ViewAfterMove(left, ref, silent, ptr)

\* Mutation: the overlay the client leaves is not looked at.
SendMon_NoAutohide(s, c, m, ptr) ==
    LET gone == Unlink(s, c)
    IN  IF s.mon[c] = m THEN s
        ELSE Focus([gone EXCEPT !.mon[c] = m, !.ws[c] = s.active[m],
                                !.stack[m] = <<c>> \o @, !.input = NoClient],
                   NoClient)

\* sendmon: the client leaves every list of its monitor and joins the active
\* workspace of m.  The on-created-empty hook is not told.
SendMon(s, c, m, ptr) ==
    LET src == s.mon[c]
        gone == Unlink(s, c)
        there == [gone EXCEPT !.mon[c] = m, !.ws[c] = s.active[m],
                              !.stack[m] = <<c>> \o @, !.input = NoClient]
        settled == Focus(Autohide(there, src), NoClient)
    IN  CASE src = m -> s
          [] src # m /\ Autohides(there, src) -> FocusAfterHidden(settled, src, ptr)
          [] OTHER -> settled

\* release_client; "fallback" is what group_focus_client_after_remove returned.
Release(s, c, fallback, ptr) ==
    LET m == s.mon[c]
        w == s.ws[c]
        gone == [Unlink(s, c) EXCEPT !.ws[c] = NoWorkspace,
                                     !.neverfocus = @ \ {c}, !.urgent = @ \ {c},
                                     !.ruleSilent = @ \ {c}]
        settled == Focus(ClientLeft(Autohide(gone, m), w), fallback)
    IN  IF Autohides(gone, m) THEN FocusAfterHidden(settled, m, ptr) ELSE settled

-----------------------------------------------------------------------------
(* Managing a new window: which client it is transient for, if any, what   *)
(* the window rules decide, and what its WM_HINTS say.                     *)

\* applyrules: rules win over the parent, the parent over the open overlay, the
\* overlay over the active workspace; the output rule replaces the monitor.
AssignedMonitor(s, parent, rule) ==
    CASE rule.output # NoMonitor -> rule.output
      [] rule.output = NoMonitor /\ Managed(s, parent) -> s.mon[parent]
      [] OTHER -> s.cur

AssignedWorkspace(s, parent, rule) ==
    LET m == AssignedMonitor(s, parent, rule)
    IN  CASE rule.workspace # NoWorkspace -> rule.workspace
          [] rule.workspace = NoWorkspace /\ Managed(s, parent) -> s.ws[parent]
          [] rule.workspace = NoWorkspace /\ ~Managed(s, parent)
             /\ s.overlay[m] # NoTag -> s.overlay[m]
          [] OTHER -> s.active[m]

\* Mutation: every map may take the focus from an open overlay.
UnderOverlay_Never(s, c) == FALSE

\* client_on_open_special_overlay_tag fails for c under an open overlay.
UnderOverlay(s, c) ==
    s.overlay[s.mon[c]] # NoTag /\ s.ws[c] # s.overlay[s.mon[c]]

MaybeSelect(s, c) ==
    IF Focusable(s, c) /\ ~UnderOverlay(s, c)
    THEN [s EXCEPT !.sel[s.mon[c]] = c] ELSE s

\* adopt_client up to client_link_stack.  The window type is read after the
\* test for modal windows, so a dock that is transient closes the overlay too.
Linked(s, c, m, w, transient, quiet, refuses, wantsAttention) ==
    LET modal == \/ WindowType[c] = "dialog"
                 \/ transient /\ WindowType[c] # "splash"
        closed == IF w \in NormalIds /\ modal
                  THEN CloseOverlay(s, m) ELSE s
        joined == IF c \in Docks THEN closed ELSE ClientJoined(closed, w)
    IN  [joined EXCEPT !.mon[c] = m, !.ws[c] = w, !.stack[m] = <<c>> \o @,
            !.neverfocus = IF refuses THEN @ \cup {c} ELSE @,
            !.urgent = IF wantsAttention THEN @ \cup {c} ELSE @,
            !.ruleSilent = IF quiet THEN @ \cup {c} ELSE @]

\* adopt_client from client_link_stack to map_window: reveal the overlay of a
\* special client, view the workspace a rule gave, or only select the client.
Revealed(s, c, byRule, ptr) ==
    LET w == s.ws[c]
        hush == c \in s.ruleSilent /\ w \in Tags
    IN  CASE w \in Tags /\ c \notin Docks ->
               IF hush THEN s
               ELSE MaybeSelect(EnsureOverlay(s, s.mon[c], w, ptr), c)
          [] byRule /\ w \in NormalIds /\ c \notin s.ruleSilent
             /\ ~AlreadyViewed(s, w) -> ShowNormal(s, w, ptr)
          [] OTHER -> IF hush THEN s ELSE MaybeSelect(s, c)

\* adopt_client from map_window on.
Mapped(s, c, ptr) ==
    LET w == s.ws[c]
        hush == c \in s.ruleSilent /\ w \in Tags
        shown == IF w \in Tags THEN EnsureOverlay(s, s.mon[c], w, ptr) ELSE s
    IN  IF hush THEN s
        ELSE IF UnderOverlay(shown, c) THEN shown
        ELSE Focus(shown, IF c \in Docks THEN NoClient ELSE c)

Adopt(s, c, parent, rule, refuses, wantsAttention, ptr) ==
    LET m == AssignedMonitor(s, parent, rule)
        w == AssignedWorkspace(s, parent, rule)
        byRule == rule.workspace # NoWorkspace
        linked == Linked(s, c, m, w, parent # NoClient, byRule /\ rule.silent,
                         refuses, wantsAttention)
        unmapped == IF ptr = c THEN NoClient ELSE ptr
    IN  Mapped(Revealed(linked, c, byRule, unmapped), c, ptr)

-----------------------------------------------------------------------------
(* The actions.                                                            *)

Init ==
    /\ cur = 1
    /\ active \in [Monitors -> NormalIds]
    /\ overlay = [m \in Monitors |-> NoTag]
    /\ mon = [c \in Clients |-> NoMonitor]
    /\ ws = [c \in Clients |-> NoWorkspace]
    /\ stack = [m \in Monitors |-> <<>>]
    /\ sel = [m \in Monitors |-> NoClient]
    /\ input = NoClient
    /\ armed = Hooked
    /\ neverfocus = {}
    /\ urgent = {}
    /\ ruleSilent = {}
    /\ dragged = NoClient

Maybe == Clients \cup {NoClient}

\* The main loop handles an event only while no drag loop runs.
Idle == dragged = NoClient
Step(s) == Become(s) /\ UNCHANGED dragged

\* maprequest_with_ctx; a drag loop dispatches MapRequest events too.
MapRequest(c) ==
    /\ ~Managed(State, c)
    /\ \E parent \in Maybe \ {c}, rule \in WindowRules,
          refuses \in IF c \in Hinted THEN BOOLEAN ELSE {c \in Docks},
          wantsAttention \in IF c \in Hinted THEN BOOLEAN ELSE {FALSE},
          ptr \in Maybe :
            Step(Adopt(State, c, parent, rule, refuses, wantsAttention, ptr))

\* Mutation: a mouse loop handles these events as well.
Unmap_WhileDragging(c) ==
    /\ Managed(State, c)
    /\ \E ptr \in Maybe \ {c} : Step(Release(State, c, NoClient, ptr))

\* unmapnotify_with_ctx and destroynotify_with_ctx.
Unmap(c) ==
    /\ Idle
    /\ Managed(State, c)
    /\ \E ptr \in Maybe \ {c}, fallback \in Maybe \ {c} :
         /\ fallback # NoClient =>
              /\ sel[mon[c]] = c
              /\ Visible(State, fallback)
              /\ mon[fallback] = mon[c] /\ ws[fallback] = ws[c]
         /\ Step(Release(State, c, fallback, ptr))

View(w) ==
    /\ Idle
    /\ ~AlreadyViewed(State, w)
    /\ \E ptr \in Maybe : Step(ShowNormal(State, w, ptr))

ToggleSpecial(t) ==
    /\ Idle
    /\ \E ptr \in Maybe :
         Step(ToggleOverlay(State, cur, t, ptr))

\* is_valid_ref keeps the empty tag out of key binds; the silent move of the
\* IPC reaches it.
Move(ref, silent) ==
    /\ Idle
    /\ sel[cur] # NoClient
    /\ ref = EmptyTag => silent
    /\ \E ptr \in Maybe :
         Step(MoveToWorkspace(State, ref, silent, ptr))

\* dirtomon_from_chain
Neighbour(m, direction) == ((m - 1 + direction + NumMonitors) % NumMonitors) + 1

FocusMonitor(direction) ==
    LET m == Neighbour(cur, direction)
        w == DefaultWorkspace[m]
    IN  /\ Idle
        /\ m # cur
        /\ Step(Focus([State EXCEPT !.cur = m,
                         !.active[m] = IF w = NoWorkspace THEN @ ELSE w], NoClient))

MoveToMonitor(direction) ==
    /\ Idle
    /\ NumMonitors > 1
    /\ sel[cur] # NoClient
    /\ \E ptr \in Maybe :
         Step(SendMon(State, sel[cur], Neighbour(cur, direction), ptr))

\* movemouse and resizemouse grab the pointer for the selected client ...
BeginDrag ==
    /\ Idle
    /\ sel[cur] # NoClient
    /\ dragged' = sel[cur]
    /\ Become(State)

\* ... and send it to the monitor under it when the button is released.
EndDrag(m) ==
    /\ ~Idle
    /\ \E ptr \in Maybe :
         Become(IF mon[dragged] = m THEN State
                ELSE Focus([SendMon(State, dragged, m, ptr) EXCEPT !.cur = m], NoClient))
    /\ dragged' = NoClient

\* cyclefocus, focussplit, focusgroup, cyclegroup, focus_groupbar_tab: another
\* visible client of the selected monitor.
FocusNeighbour(c) ==
    /\ Idle
    /\ Visible(State, c) /\ mon[c] = cur
    /\ sel[cur] \notin {c, NoClient}
    /\ Step(Focus(State, c))

\* focusurgent: a client of the first monitor that has an urgent one.
FocusUrgent(c) ==
    LET m == mon[c]
        s == [State EXCEPT !.cur = m]
    IN  /\ Idle
        /\ Managed(State, c)
        /\ c \in urgent
        /\ \A d \in urgent : m <= mon[d]
        /\ \E ptr \in Maybe :
             Step(Focus(IF Visible(s, c) \/ ws[c] \notin NormalIds THEN s
                        ELSE ViewNormal(s, ws[c], ptr), c))

\* ZEST_DISPATCH_FOCUSWINDOW
FocusWindow(c) ==
    LET m == mon[c]
        s == [State EXCEPT !.cur = m]
    IN  /\ Idle
        /\ Managed(State, c)
        /\ Step(Focus(IF Visible(s, c) \/ ws[c] \notin NormalIds THEN s
                      ELSE [s EXCEPT !.active[m] = ws[c]], c))

\* Mutation: the client is revealed only when it is to be focused.
Activate_RevealsToFocus(c) ==
    /\ Idle
    /\ Managed(State, c)
    /\ \E ptr \in Maybe :
         LET s == IF Visible(State, c) \/ c \in ruleSilent THEN State
                  ELSE IF ws[c] \in Tags
                       THEN EnsureOverlay(State, mon[c], ws[c], ptr)
                       ELSE ViewNormal(State, ws[c], ptr)
         IN  Step(IF FocusOnActivate THEN Focus(s, c)
                  ELSE [State EXCEPT !.urgent = @ \cup {c}])

\* The _NET_ACTIVE_WINDOW message of clientmessage_with_ctx.  The selection it
\* compares with was read before the workspace of the client was revealed.
Activate(c) ==
    /\ Idle
    /\ Managed(State, c)
    /\ \E ptr \in Maybe :
         LET s == CASE ~Visible(State, c) /\ ws[c] \in Tags ->
                         EnsureOverlay(State, mon[c], ws[c], ptr)
                    [] ~Visible(State, c) /\ ws[c] \in NormalIds
                       /\ c \notin ruleSilent -> ViewNormal(State, ws[c], ptr)
                    [] OTHER -> State
         IN  Step(IF FocusOnActivate /\ Visible(s, c) THEN Focus(s, c)
                  ELSE IF c # sel[cur] /\ c \in Hinted
                       THEN [s EXCEPT !.urgent = @ \cup {c}]
                  ELSE s)

\* Selecting another monitor with unfocus(.., 1) on the selection left behind.
SwitchTo(m) ==
    [State EXCEPT !.cur = m,
                  !.input = IF m = cur \/ sel[cur] = NoClient THEN @ ELSE NoClient]

\* enternotify_with_ctx for a client window; the event may be older than the
\* last change of view.
EnterClient(c) ==
    /\ Idle
    /\ Managed(State, c)
    /\ IF mon[c] = cur THEN c # sel[cur] ELSE MouseMoveFocusesMonitor
    /\ Step(IF c \in neverfocus \/ FollowMouse # 1 THEN SwitchTo(mon[c])
            ELSE Focus(SwitchTo(mon[c]), c))

\* enternotify_with_ctx for the root or a bar window of another monitor.
EnterMonitor(m) ==
    /\ Idle
    /\ m # cur /\ MouseMoveFocusesMonitor
    /\ Step(SwitchTo(m))

\* buttonpress_with_ctx on a client, on a bar or root window of monitor m.
ButtonPress(c) ==
    LET s == IF mon[c] = cur THEN State ELSE Focus(SwitchTo(mon[c]), NoClient)
    IN  /\ Idle
        /\ Managed(State, c)
        /\ Step(IF c \in neverfocus \/ FollowMouse = 3 THEN s ELSE Focus(s, c))

\* motionnotify_with_ctx when the pointer crosses to monitor m, and
\* buttonpress_with_ctx on the root window of m.
PointerCrosses(m) ==
    /\ Idle
    /\ NumMonitors > 1
    /\ Step(Focus([State EXCEPT !.cur = m], NoClient))

\* focusin_with_ctx: a window took the focus by itself; the selection gets it back.
FocusIn ==
    /\ Idle
    /\ sel[cur] \notin neverfocus \cup {NoClient}
    /\ Step([State EXCEPT !.input = sel[cur]])

\* updatewmhints on a change of WM_HINTS.
WmHints(c) ==
    /\ Idle
    /\ c \in Hinted /\ Managed(State, c)
    /\ \E wantsAttention, refuses \in BOOLEAN :
         Step([State EXCEPT
             !.urgent = CASE wantsAttention /\ c = sel[cur] -> @
                          [] wantsAttention /\ c # sel[cur] -> @ \cup {c}
                          [] OTHER -> @ \ {c},
             !.neverfocus = IF refuses THEN @ \cup {c} ELSE @ \ {c}])

Next ==
    \/ \E c \in Clients :
         \/ MapRequest(c) \/ Unmap(c) \/ Activate(c) \/ WmHints(c)
         \/ FocusNeighbour(c) \/ FocusUrgent(c) \/ FocusWindow(c)
         \/ EnterClient(c) \/ ButtonPress(c)
    \/ \E w \in NormalIds : View(w)
    \/ \E t \in Tags : ToggleSpecial(t)
    \/ \E ref \in Workspaces, silent \in BOOLEAN : Move(ref, silent)
    \/ \E direction \in {-1, 1} : FocusMonitor(direction) \/ MoveToMonitor(direction)
    \/ \E m \in Monitors : EndDrag(m) \/ EnterMonitor(m) \/ PointerCrosses(m)
    \/ BeginDrag
    \/ FocusIn

Spec == Init /\ [][Next]_vars

-----------------------------------------------------------------------------
(* Properties.  The ones that are checked only under some configurations   *)
(* say so; README.md tells which run checks which.                         *)

\* Every variable holds a value of its type.
TypeOK == State \in StateSet /\ dragged \in Maybe

\* The focus stack of a monitor lists each of its managed clients once and no
\* other, and its selection is one of them or none: the intrusive list, Client::mon
\* and Monitor::sel agree however clients are mapped, sent, dragged and released.
ClientListsOf(s) ==
    \A m \in Monitors :
        /\ IsInjective(s.stack[m])
        /\ ToSet(s.stack[m]) = {c \in Clients : s.mon[c] = m}
        /\ s.sel[m] # NoClient => s.mon[s.sel[m]] = m

ClientLists == ClientListsOf(State)

\* The client that a mouse loop holds a pointer to stays managed until the button is
\* released, whatever the loop dispatches meanwhile.
DraggedIsManaged == dragged # NoClient => Managed(State, dragged)

\* Keyboard commands act on the client that has the keyboard: X input is never on
\* a client other than the selection of the selected monitor.
InputIsSelection == input # NoClient => input = sel[cur]

\* Keyboard input never stays on a client of a workspace that is not viewed
\* (one monitor, no special workspace with an empty tag).
InputIsVisible == input # NoClient => Visible(State, input)

\* Input rests on the root window only while no client on the selected monitor's
\* screen could have been given it: one that refuses input, one whose WM_HINTS
\* may have refused it earlier, or one a silent rule mapped without focus.
KeyboardNotLost ==
    input = NoClient =>
        \A c \in Clients : OnScreen(State, c) /\ mon[c] = cur =>
            c \in neverfocus \cup Hinted \cup ruleSilent

\* A special overlay that loses its last client, moved, sent, dragged or closed,
\* does not stay open over the desktop.
OverlayHidesWithLastClient ==
    [][\A m \in Monitors :
         /\ overlay[m] \notin {NoTag, EmptyTag}
         /\ overlay'[m] = overlay[m]
         /\ Members(State, m, overlay[m]) # {}
         => Members(State', m, overlay[m]) # {}]_vars

\* The on-created-empty hook is armed again by the last client leaving, and by nothing
\* else: a workspace whose command runs is never re-armed by being viewed, and none
\* stays disarmed once it is empty (one monitor: sendmon does not tell the hook).
HookRearmsExactly ==
    [][\A w \in Hooked :
         LET emptied == Occupied(State, w) /\ ~Occupied(State', w)
         IN  /\ w \in armed' \ armed => emptied
             /\ emptied => w \in armed']_vars

\* A silent move leaves the view alone, except for the overlay that hides because
\* the move took its last client.
SilentMoveKeepsView ==
    [][\/ cur' # cur
       \/ active' # active
       \/ \E m \in Monitors :
            overlay'[m] # overlay[m] /\ ~Autohides([State EXCEPT !.ws = ws'], m)
       => ~\E ref \in Workspaces : Move(ref, TRUE)]_vars

\* A window mapped on the desktop beneath an overlay that stays open takes neither
\* the keyboard nor the selection (no workspace bound to another monitor).
MapsUnderOverlayKeepFocus ==
    [][\A c \in Clients :
         mon[c] = NoMonitor /\ mon'[c] # NoMonitor /\ ws'[c] \in NormalIds
         /\ overlay[mon'[c]] # NoTag /\ overlay'[mon'[c]] = overlay[mon'[c]]
         => input' = input /\ cur' = cur /\ sel' = sel]_vars

\* An activation request leaves its client visible, also when focus-on-activate is
\* off; only a rule marked silent keeps the client where it is (one monitor).
ActivationReveals ==
    [][\A c \in Clients :
         Managed(State, c) /\ ~Visible(State', c) /\ c \notin ruleSilent
         => ~Activate(c)]_vars

\* A toggle that leaves an overlay open gives the keyboard to one of its clients, if
\* one accepts it (fails for the overlay of the empty tag).
ToggleReachesOverlay ==
    [][\A t \in Tags :
         /\ overlay'[cur'] = t
         /\ Members(State', cur', t) \ neverfocus' # {}
         /\ input' \notin Members(State', cur', t)
         => ~ToggleSpecial(t)]_vars

=============================================================================
