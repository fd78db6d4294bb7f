----------------------------- MODULE MonitorsProofs -----------------------------
(***************************************************************************)
(* Proofs about Monitors: whatever outputs appear, disappear and change    *)
(* places between the commands and events of the window manager, no window *)
(* stays on a monitor that is gone, the lists of the monitors agree, and   *)
(* the keyboard is on the selection.                                       *)
(***************************************************************************)
EXTENDS Monitors, FocusProofs, FiniteSetTheorems

\* The selected monitor and those of the managed clients are in L.
Lives(s, L) ==
    /\ s.cur \in L
    /\ \A c \in Clients : s.mon[c] \in L \cup {NoMonitor}

-----------------------------------------------------------------------------
(* The helpers select no monitor but those of their arguments and of the   *)
(* clients, and move clients to no other.                                  *)

LEMMA ManagedLives ==
    ASSUME NEW L, NEW s, Lives(s, L), NEW c, Managed(s, c)
    PROVE  c \in Clients /\ s.mon[c] \in L
BY DEF Managed, Lives

LEMMA LivesFramed ==
    ASSUME NEW L, NEW s, Lives(s, L), NEW t, t.cur = s.cur, t.mon = s.mon
    PROVE  Lives(t, L)
BY DEF Lives

LEMMA LivesSelected ==
    ASSUME NEW L, NEW s, Good(s), Lives(s, L), NEW m \in L
    PROVE  Lives([s EXCEPT !.cur = m], L)
<1> DEFINE t == [s EXCEPT !.cur = m]
<1>1. t.cur = m /\ t.mon = s.mon
  BY DEF Good, StateSet
<1> QED BY <1>1 DEF Lives

\* focus() selects the monitor of a managed client or none.
LEMMA FocusLives ==
    ASSUME NEW L, NEW s, Good(s), Lives(s, L), NEW c
    PROVE  Lives(Focus(s, c), L)
<1> DEFINE E == {e \in Clients : Focusable(s, e)}
           d == IF Focusable(s, c) THEN c ELSE Newest(s.stack[s.cur], E)
           m == s.mon[d]
           t == Focus(s, c)
<1>1. s.cur \in Monitors /\ s.stack[s.cur] \in Seq(Clients)
  BY DEF Good, StateSet
<1>2. d = NoClient \/ Focusable(s, d)
  <2>1. CASE Focusable(s, c)
    BY <2>1
  <2>2. CASE ~Focusable(s, c)
    BY <1>1, <2>2, NewestInStack
  <2> QED BY <2>1, <2>2
<1> HIDE DEF d
<1>3. t.mon = s.mon
  BY FocusKeeps DEF Keeps
<1>4. t.cur = s.cur \/ (d # NoClient /\ t.cur = m)
  <2>1. CASE d = NoClient
    <3>1. t = [s EXCEPT !.sel[s.cur] = NoClient, !.input = NoClient]
      BY <2>1 DEF Focus, d
    <3> QED BY <3>1 DEF Good, StateSet
  <2>2. CASE d # NoClient
    <3>1. t = [ToFront(s, m, d) EXCEPT !.cur = m, !.sel[m] = d, !.input = d,
                                       !.urgent = @ \ {d}]
      BY <2>2 DEF Focus, d
    <3>2. m \in Monitors /\ d \in Clients
      BY <1>2, <2>2 DEF Focusable, Visible, Managed, Good, StateSet
    <3>3. ToFront(s, m, d) \in StateSet
      BY <3>2, ToFrontKeeps DEF Keeps, Good
    <3> QED BY <2>2, <3>1, <3>3 DEF StateSet
  <2> QED BY <2>1, <2>2
<1>5. d # NoClient => m \in L
  BY <1>2, ManagedLives DEF Focusable, Visible
<1> HIDE DEF t, m
<1> QED BY <1>3, <1>4, <1>5 DEF Lives, t

LEMMA HookLives ==
    ASSUME NEW L, NEW s, Good(s), Lives(s, L), NEW w
    PROVE  /\ Lives(ClientJoined(s, w), L) /\ Lives(ClientLeft(s, w), L)
           /\ Lives(SpawnIfEmpty(s, w), L)
<1>1. ASSUME NEW A PROVE Lives([s EXCEPT !.armed = A], L)
  BY LivesFramed DEF Good, StateSet
<1>2. Lives(ClientJoined(s, w), L)
  BY <1>1 DEF ClientJoined
<1>3. Lives(ClientLeft(s, w), L)
  BY <1>1 DEF ClientLeft
<1>4. Lives(SpawnIfEmpty(s, w), L)
  BY <1>1 DEF SpawnIfEmpty
<1> QED BY <1>2, <1>3, <1>4

LEMMA OverlayLives ==
    ASSUME NEW L, NEW s, Good(s), Lives(s, L), NEW m, NEW t
    PROVE  Lives([s EXCEPT !.overlay[m] = t], L)
BY LivesFramed DEF Good, StateSet

LEMMA AutohideLives ==
    ASSUME NEW L, NEW s, Good(s), Lives(s, L), NEW m
    PROVE  Lives(CloseOverlay(s, m), L) /\ Lives(Autohide(s, m), L)
BY OverlayLives DEF CloseOverlay, Autohide

LEMMA FocusOnLives ==
    ASSUME NEW L, L \subseteq Monitors, NEW s, Good(s), Lives(s, L), NEW m \in L, NEW c
    PROVE  Lives(Focus([s EXCEPT !.cur = m], c), L)
<1>1. Good([s EXCEPT !.cur = m]) /\ Lives([s EXCEPT !.cur = m], L)
  BY Selected, LivesSelected DEF Keeps
<1> QED BY <1>1, FocusLives

LEMMA OverlayFocusLives ==
    ASSUME NEW L, L \subseteq Monitors, NEW s, Good(s), Lives(s, L), NEW m \in L, NEW ptr
    PROVE  /\ Lives(FocusFirstOverlay(s, m, ptr), L)
           /\ Lives(FocusAfterHidden(s, m, ptr), L)
<1>1. \A c : Lives(Focus([s EXCEPT !.cur = m], c), L)
  BY FocusOnLives
<1> QED BY <1>1 DEF FocusFirstOverlay, FocusAfterHidden

LEMMA EnsureOverlayLives ==
    ASSUME NEW L, L \subseteq Monitors, NEW s, Good(s), Lives(s, L),
           NEW m \in L, NEW t \in Tags, NEW ptr
    PROVE  Lives(EnsureOverlay(s, m, t, ptr), L)
<1> DEFINE u == [s EXCEPT !.overlay[m] = t]
<1>1. Good(u) /\ Lives(u, L)
  BY OverlayKeeps, OverlayLives DEF Keeps
<1> HIDE DEF u
<1> QED BY <1>1, OverlayFocusLives DEF EnsureOverlay, u

\* Without rules that name a monitor a workspace is viewed on the selected one.
LEMMA ShowNormalLives ==
    ASSUME NEW L, L \subseteq Monitors, NEW s, Good(s), Lives(s, L),
           NEW w \in NormalIds, NEW ptr
    PROVE  Lives(ShowNormal(s, w, ptr), L)
<1> DEFINE m == TargetMonitor(s, w)
           closed == CloseOverlay(s, m)
           shown == [closed EXCEPT !.cur = m, !.active[m] = w]
           focused == Focus(shown, NoClient)
           followed == FollowPointer(focused, ptr)
<1>0. m = s.cur /\ m \in Monitors /\ m \in L
  BY MonitorsAssumption, TargetMonitorType DEF TargetMonitor, Lives
<1> HIDE DEF m
<1>1. Good(closed) /\ Lives(closed, L)
  BY <1>0, AutohideKeeps, AutohideLives DEF Keeps
<1> HIDE DEF closed
<1>2. Good(shown) /\ Lives(shown, L)
  <2>1. Good(shown)
    BY <1>0, <1>1, ActiveKeeps DEF Keeps
  <2>2. shown.cur = m /\ shown.mon = closed.mon
    BY <1>1 DEF Good, StateSet
  <2> HIDE DEF shown
  <2> QED BY <1>0, <1>1, <2>1, <2>2 DEF Lives
<1> HIDE DEF shown
<1>3. Good(focused) /\ Lives(focused, L)
  BY <1>2, FocusKeeps, FocusLives DEF Keeps
<1> HIDE DEF focused
<1>4. Good(followed) /\ Lives(followed, L)
  BY <1>3, FocusKeeps, FocusLives DEF Keeps, FollowPointer
<1> HIDE DEF followed
<1>5. Lives(SpawnIfEmpty(followed, w), L)
  BY <1>4, HookLives
<1> QED BY <1>5 DEF ShowNormal, followed, focused, shown, closed, m

LEMMA ToggleOverlayLives ==
    ASSUME NEW L, L \subseteq Monitors, NEW s, Good(s), Lives(s, L),
           NEW m \in L, NEW t \in Tags, NEW ptr
    PROVE  Lives(ToggleOverlay(s, m, t, ptr), L)
<1> DEFINE at == [s EXCEPT !.cur = m]
           closed == CloseOverlay(s, m)
<1>1. Good(at) /\ Lives(at, L)
  BY Selected, LivesSelected DEF Keeps
<1>2. Good(closed) /\ Lives(closed, L)
  BY AutohideKeeps, AutohideLives DEF Keeps
<1>3. \/ ToggleOverlay(s, m, t, ptr) = EnsureOverlay(at, m, t, ptr)
      \/ ToggleOverlay(s, m, t, ptr) = FocusAfterHidden(closed, m, ptr)
      \/ ToggleOverlay(s, m, t, ptr) = FocusFirstOverlay(s, m, ptr)
  BY DEF ToggleOverlay
<1> HIDE DEF at, closed
<1>4. Lives(EnsureOverlay(at, m, t, ptr), L)
  BY <1>1, EnsureOverlayLives
<1>5. Lives(FocusAfterHidden(closed, m, ptr), L)
  BY <1>2, OverlayFocusLives
<1>6. Lives(FocusFirstOverlay(s, m, ptr), L)
  BY OverlayFocusLives
<1> QED BY <1>3, <1>4, <1>5, <1>6

LEMMA MoveToWorkspaceLives ==
    ASSUME NEW L, L \subseteq Monitors, NEW s, Good(s), Lives(s, L),
           s.sel[s.cur] # NoClient,
           NEW ref \in Workspaces, NEW silent \in BOOLEAN, NEW ptr
    PROVE  Lives(MoveToWorkspace(s, ref, silent, ptr), L)
<1> DEFINE m == s.cur
           c == s.sel[m]
           moved == [s EXCEPT !.ws[c] = ref]
           hidden == Autohide(moved, m)
           emptied == ClientLeft(hidden, s.ws[c])
           left == ClientJoined(emptied, ref)
           viewed == ViewAfterMove(left, ref, silent, ptr)
<1>1. m \in Monitors /\ m \in L /\ c \in Clients
  BY DEF Good, StateSet, Lives
<1>2. Good(moved) /\ Lives(moved, L)
  <2>1. Good(moved)
    BY <1>1, WorkspaceKeeps DEF Keeps
  <2>2. moved.cur = s.cur /\ moved.mon = s.mon
    BY DEF Good, StateSet
  <2> HIDE DEF moved
  <2> QED BY <2>1, <2>2, LivesFramed
<1> HIDE DEF moved
<1>3. Good(hidden) /\ Lives(hidden, L)
  BY <1>1, <1>2, AutohideKeeps, AutohideLives DEF Keeps
<1> HIDE DEF hidden
<1>4. Good(emptied) /\ Lives(emptied, L)
  BY <1>3, HookKeeps, HookLives DEF Keeps
<1> HIDE DEF emptied
<1>5. Good(left) /\ Lives(left, L)
  BY <1>4, HookKeeps, HookLives DEF Keeps
<1> HIDE DEF left
<1>6. ASSUME NEW t, Good(t), Lives(t, L), silent \/ ref \in NormalIds
      PROVE  Good(ViewAfterMove(t, ref, silent, ptr))
             /\ Lives(ViewAfterMove(t, ref, silent, ptr), L)
  <2>1. Good(Focus(t, NoClient)) /\ Lives(Focus(t, NoClient), L)
    BY <1>6, FocusKeeps, FocusLives DEF Keeps
  <2>2. ref \in NormalIds => Good(ShowNormal(t, ref, ptr)) /\ Lives(ShowNormal(t, ref, ptr), L)
    BY <1>6, ShowNormalKeeps, ShowNormalLives DEF Keeps
  <2> QED BY <1>6, <2>1, <2>2 DEF ViewAfterMove
<1>7. CASE ref \in Tags /\ ~silent
  <2>1. MoveToWorkspace(s, ref, silent, ptr)
          = EnsureOverlay(IF s.ws[c] = ref THEN s ELSE left, m, ref, ptr)
    <3>1. ~(ref \in NormalIds \/ silent)
      BY <1>7, ConstantsAssumption
    <3> QED BY <1>7, <3>1 DEF MoveToWorkspace, left, emptied, hidden, moved
  <2>2. ASSUME NEW t, Good(t), Lives(t, L) PROVE Lives(EnsureOverlay(t, m, ref, ptr), L)
    BY <1>1, <1>7, <2>2, EnsureOverlayLives
  <2> QED BY <1>5, <2>1, <2>2
<1>8. CASE silent \/ ref \in NormalIds
  <2>1. ~(ref \in Tags /\ ~silent)
    BY <1>8, ConstantsAssumption
  <2>2. CASE s.ws[c] = ref
    <3>1. MoveToWorkspace(s, ref, silent, ptr) = ViewAfterMove(s, ref, silent, ptr)
      BY <1>8, <2>1, <2>2 DEF MoveToWorkspace
    <3> QED BY <1>6, <1>8, <3>1
  <2>3. CASE s.ws[c] # ref
    <3>1. MoveToWorkspace(s, ref, silent, ptr)
            = IF Autohides(moved, m) THEN FocusAfterHidden(viewed, m, ptr) ELSE viewed
      BY <2>1, <2>3 DEF MoveToWorkspace, left, emptied, hidden, moved
    <3>2. Good(viewed) /\ Lives(viewed, L)
      BY <1>5, <1>6, <1>8
    <3> HIDE DEF viewed
    <3>3. Lives(FocusAfterHidden(viewed, m, ptr), L)
      BY <1>1, <3>2, OverlayFocusLives
    <3> QED BY <3>1, <3>2, <3>3
  <2> QED BY <2>2, <2>3
<1> QED BY <1>7, <1>8 DEF Workspaces

\* client_unlink does not change the selected monitor.
LEMMA UnlinkLives ==
    ASSUME NEW L, NEW s, Good(s), Lives(s, L), NEW c \in Clients, s.mon[c] \in Monitors
    PROVE  Lives(Unlink(s, c), L)
<1> DEFINE t == [s EXCEPT !.stack[s.mon[c]] = RemoveFirst(@, c), !.mon[c] = NoMonitor]
           u(d) == [t EXCEPT !.sel[s.mon[c]] = d]
<1>1. t.cur = s.cur /\ \A d : u(d).cur = s.cur
  BY DEF Good, StateSet
<1>2. Unlink(s, c) = t \/ \E d : Unlink(s, c) = u(d)
  BY DEF Unlink
<1> HIDE DEF t, u
<1>3. Unlink(s, c).cur = s.cur
  BY <1>1, <1>2
<1>4. Unlink(s, c).mon = [s.mon EXCEPT ![c] = NoMonitor]
  BY UnlinkGood
<1>5. s.mon \in [Clients -> Monitors \cup {NoMonitor}]
  BY DEF Good, StateSet
<1> QED BY <1>3, <1>4, <1>5 DEF Lives

\* sendmon to a monitor that exists.
LEMMA SendMonLives ==
    ASSUME NEW L, L \subseteq Monitors, NEW s, Good(s), Lives(s, L),
           NEW c \in Clients, s.mon[c] \in Monitors, NEW m \in L, NEW ptr
    PROVE  Lives(SendMon(s, c, m, ptr), L)
<1> DEFINE src == s.mon[c]
           gone == Unlink(s, c)
           linked == [gone EXCEPT !.mon[c] = m, !.ws[c] = s.active[m],
                                  !.stack[m] = <<c>> \o @]
           there == [gone EXCEPT !.mon[c] = m, !.ws[c] = s.active[m],
                                 !.stack[m] = <<c>> \o @, !.input = NoClient]
           hidden == Autohide(there, src)
           settled == Focus(hidden, NoClient)
<1>0. src \in L
  BY NoMonitorApart DEF Lives
<1>1. Good(gone) /\ gone.mon[c] = NoMonitor /\ Lives(gone, L)
  <2>1. Good(gone) /\ gone.mon = [s.mon EXCEPT ![c] = NoMonitor] /\ Lives(gone, L)
    BY UnlinkGood, UnlinkLives
  <2>2. s.mon \in [Clients -> Monitors \cup {NoMonitor}]
    BY DEF Good, StateSet
  <2> HIDE DEF gone
  <2> QED BY <2>1, <2>2
<1>2. s.active[m] \in Workspaces
  BY DEF Good, StateSet, Workspaces
<1> HIDE DEF gone
<1>3. Good(linked) /\ linked.mon = [gone.mon EXCEPT ![c] = m]
  <2>1. m \in Monitors
    OBVIOUS
  <2>2. Good(linked)
    BY <1>1, <1>2, <2>1, LinkGood
  <2>3. linked.mon = [gone.mon EXCEPT ![c] = m]
    BY <1>1 DEF Good, StateSet
  <2> QED BY <2>2, <2>3
<1>4. there = [linked EXCEPT !.input = NoClient] /\ there.cur = gone.cur
  BY <1>1 DEF Good, StateSet
<1> HIDE DEF linked, there
<1>5. Good(there) /\ there.mon = linked.mon
  <2>1. there \in StateSet
    BY <1>3, <1>4 DEF Good, StateSet
  <2>2. there.mon = linked.mon /\ there.stack = linked.stack /\ there.sel = linked.sel
    BY <1>3, <1>4 DEF Good, StateSet
  <2> QED BY <1>3, <2>1, <2>2, Framed DEF Keeps
<1>6. Lives(there, L)
  <2>1. gone.mon \in [Clients -> Monitors \cup {NoMonitor}]
    BY <1>1 DEF Good, StateSet
  <2> QED BY <1>1, <1>3, <1>4, <1>5, <2>1 DEF Lives
<1>7. Good(hidden) /\ Lives(hidden, L)
  BY <1>5, <1>6, AutohideKeeps, AutohideLives DEF Keeps
<1> HIDE DEF hidden
<1>8. Good(settled) /\ Lives(settled, L)
  BY <1>7, FocusKeeps, FocusLives DEF Keeps
<1> HIDE DEF settled
<1>9. Lives(FocusAfterHidden(settled, src, ptr), L)
  BY <1>0, <1>8, OverlayFocusLives
<1>10. \/ SendMon(s, c, m, ptr) = s
       \/ SendMon(s, c, m, ptr) = FocusAfterHidden(settled, src, ptr)
       \/ SendMon(s, c, m, ptr) = settled
  BY DEF SendMon, settled, hidden, there, gone
<1> QED BY <1>8, <1>9, <1>10

LEMMA ReleaseLives ==
    ASSUME NEW L, L \subseteq Monitors, NEW s, Good(s), Lives(s, L),
           NEW c \in Clients, s.mon[c] \in Monitors, NEW fallback, NEW ptr
    PROVE  Lives(Release(s, c, fallback, ptr), L)
<1> DEFINE m == s.mon[c]
           unlinked == Unlink(s, c)
           out == [unlinked EXCEPT !.ws[c] = NoWorkspace]
           gone == [unlinked EXCEPT !.ws[c] = NoWorkspace,
                                    !.neverfocus = @ \ {c}, !.urgent = @ \ {c},
                                    !.ruleSilent = @ \ {c}]
           hidden == Autohide(gone, m)
           left == ClientLeft(hidden, s.ws[c])
           settled == Focus(left, fallback)
<1>0. m \in L
  BY NoMonitorApart DEF Lives
<1>1. Good(unlinked) /\ Lives(unlinked, L)
  BY UnlinkGood, UnlinkLives
<1> HIDE DEF unlinked
<1>2. Good(out)
  BY <1>1, WorkspaceKeeps DEF Keeps
<1>3. gone = [out EXCEPT !.neverfocus = @ \ {c}, !.urgent = @ \ {c},
                         !.ruleSilent = @ \ {c}]
      /\ gone.cur = unlinked.cur /\ gone.mon = unlinked.mon
  BY <1>1 DEF Good, StateSet
<1> HIDE DEF out, gone
<1>4. Good(gone) /\ Lives(gone, L)
  <2>1. gone \in StateSet
    BY <1>2, <1>3 DEF Good, StateSet
  <2>2. gone.mon = out.mon /\ gone.stack = out.stack /\ gone.sel = out.sel
    BY <1>2, <1>3 DEF Good, StateSet
  <2>3. Good(gone)
    BY <1>2, <2>1, <2>2, Framed DEF Keeps
  <2> QED BY <1>1, <1>3, <2>3, LivesFramed
<1>5. Good(hidden) /\ Lives(hidden, L)
  BY <1>4, AutohideKeeps, AutohideLives DEF Keeps
<1> HIDE DEF hidden
<1>6. Good(left) /\ Lives(left, L)
  BY <1>5, HookKeeps, HookLives DEF Keeps
<1> HIDE DEF left
<1>7. Good(settled) /\ Lives(settled, L)
  BY <1>6, FocusKeeps, FocusLives DEF Keeps
<1> HIDE DEF settled
<1>8. Lives(FocusAfterHidden(settled, m, ptr), L)
  BY <1>0, <1>7, OverlayFocusLives
<1>9. Release(s, c, fallback, ptr)
        = IF Autohides(gone, m) THEN FocusAfterHidden(settled, m, ptr) ELSE settled
  BY DEF Release, settled, left, hidden, gone, unlinked
<1> QED BY <1>7, <1>8, <1>9

LEMMA MaybeSelectLives ==
    ASSUME NEW L, NEW s, Good(s), Lives(s, L), NEW c
    PROVE  Lives(MaybeSelect(s, c), L)
BY LivesFramed DEF MaybeSelect, Good, StateSet

\* A new client is given the selected monitor or that of its parent.
LEMMA AssignedLives ==
    ASSUME NEW L, NEW s, Good(s), Lives(s, L), NEW parent, NEW rule \in WindowRules
    PROVE  AssignedMonitor(s, parent, rule) \in L
<1>1. rule.output = NoMonitor
  BY MonitorsAssumption
<1>2. AssignedMonitor(s, parent, rule) = IF Managed(s, parent) THEN s.mon[parent] ELSE s.cur
  BY <1>1 DEF AssignedMonitor
<1> QED BY <1>2, ManagedLives DEF Lives

LEMMA LinkedLives ==
    ASSUME NEW L, L \subseteq Monitors, NEW s, Good(s), Lives(s, L),
           NEW c \in Clients, s.mon[c] = NoMonitor,
           NEW m \in L, NEW w \in Workspaces \cup {NoWorkspace},
           NEW transient, NEW quiet, NEW refuses, NEW wantsAttention
    PROVE  Lives(Linked(s, c, m, w, transient, quiet, refuses, wantsAttention), L)
<1> DEFINE modal == WindowType[c] = "dialog" \/ (transient /\ WindowType[c] # "splash")
           closed == IF w \in NormalIds /\ modal THEN CloseOverlay(s, m) ELSE s
           joined == IF c \in Docks THEN closed ELSE ClientJoined(closed, w)
           u == Linked(s, c, m, w, transient, quiet, refuses, wantsAttention)
<1>1. Good(closed) /\ Lives(closed, L)
  BY AutohideKeeps, AutohideLives DEF Keeps
<1> HIDE DEF closed
<1>2. Good(joined) /\ Lives(joined, L)
  BY <1>1, HookKeeps, HookLives DEF Keeps
<1>3. u = [joined EXCEPT !.mon[c] = m, !.ws[c] = w, !.stack[m] = <<c>> \o @,
             !.neverfocus = IF refuses THEN @ \cup {c} ELSE @,
             !.urgent = IF wantsAttention THEN @ \cup {c} ELSE @,
             !.ruleSilent = IF quiet THEN @ \cup {c} ELSE @]
  BY DEF Linked, joined, closed
<1> HIDE DEF joined
<1>4. u.cur = joined.cur
  BY <1>2, <1>3 DEF Good, StateSet
<1>5. u.mon = [s.mon EXCEPT ![c] = m]
  BY LinkedGood
<1> HIDE DEF u
<1>6. s.mon \in [Clients -> Monitors \cup {NoMonitor}]
  BY DEF Good, StateSet
<1>7. Lives(u, L)
  BY <1>2, <1>4, <1>5, <1>6 DEF Lives
<1> QED BY <1>7 DEF u

LEMMA RevealedLives ==
    ASSUME NEW L, L \subseteq Monitors, NEW s, Good(s), Lives(s, L),
           NEW c \in Clients, s.mon[c] \in Monitors, NEW byRule, NEW ptr
    PROVE  Lives(Revealed(s, c, byRule, ptr), L)
<1> DEFINE w == s.ws[c]
           e == EnsureOverlay(s, s.mon[c], w, ptr)
           r == Revealed(s, c, byRule, ptr)
<1>0. s.mon[c] \in L
  BY NoMonitorApart DEF Lives
<1>1. CASE w \in Tags /\ c \notin Docks
  <2>1. r = s \/ r = MaybeSelect(e, c)
    <3>1. w \notin NormalIds
      BY <1>1, ConstantsAssumption
    <3> QED BY <1>1, <3>1 DEF Revealed
  <2>2. Good(e) /\ Lives(e, L)
    BY <1>0, <1>1, EnsureOverlayKeeps, EnsureOverlayLives DEF Keeps
  <2> HIDE DEF e
  <2> QED BY <2>1, <2>2, MaybeSelectLives
<1>2. CASE ~(w \in Tags /\ c \notin Docks)
  <2>1. \/ r = s
        \/ w \in NormalIds /\ r = ShowNormal(s, w, ptr)
        \/ r = MaybeSelect(s, c)
    BY <1>2 DEF Revealed
  <2>2. w \in NormalIds => Lives(ShowNormal(s, w, ptr), L)
    BY ShowNormalLives
  <2> QED BY <2>1, <2>2, MaybeSelectLives
<1> QED BY <1>1, <1>2

LEMMA MappedLives ==
    ASSUME NEW L, L \subseteq Monitors, NEW s, Good(s), Lives(s, L),
           NEW c \in Clients, s.mon[c] \in Monitors, NEW ptr
    PROVE  Lives(Mapped(s, c, ptr), L)
<1> DEFINE w == s.ws[c]
           shown == IF w \in Tags THEN EnsureOverlay(s, s.mon[c], w, ptr) ELSE s
           d == IF c \in Docks THEN NoClient ELSE c
<1>0. s.mon[c] \in L
  BY NoMonitorApart DEF Lives
<1>1. Good(shown) /\ Lives(shown, L)
  BY <1>0, EnsureOverlayKeeps, EnsureOverlayLives DEF Keeps
<1>2. Mapped(s, c, ptr) \in {s, shown, Focus(shown, d)}
  BY DEF Mapped
<1> HIDE DEF shown
<1>3. Lives(Focus(shown, d), L)
  BY <1>1, FocusLives
<1> QED BY <1>1, <1>2, <1>3

\* adopt_client without rules that name an output.
LEMMA AdoptLives ==
    ASSUME NEW L, L \subseteq Monitors, NEW s, Good(s), Lives(s, L),
           NEW c \in Clients, s.mon[c] = NoMonitor,
           NEW parent, NEW rule \in WindowRules,
           NEW refuses, NEW wantsAttention, NEW ptr,
           NEW t, t = Adopt(s, c, parent, rule, refuses, wantsAttention, ptr)
    PROVE  Lives(t, L)
<1> DEFINE m == AssignedMonitor(s, parent, rule)
           w == AssignedWorkspace(s, parent, rule)
           byRule == rule.workspace # NoWorkspace
           linked == Linked(s, c, m, w, parent # NoClient, byRule /\ rule.silent,
                            refuses, wantsAttention)
           unmapped == IF ptr = c THEN NoClient ELSE ptr
           revealed == Revealed(linked, c, byRule, unmapped)
<1>1. m \in Monitors /\ m \in L /\ w \in Workspaces \cup {NoWorkspace}
  BY AssignedTypes, AssignedLives
<1> HIDE DEF m, w
<1>2. Good(linked) /\ linked.mon = [s.mon EXCEPT ![c] = m] /\ Lives(linked, L)
  BY <1>1, LinkedGood, LinkedLives
<1> HIDE DEF linked
<1>3. linked.mon[c] \in Monitors
  BY <1>1, <1>2 DEF Good, StateSet
<1>4. Keeps(linked, revealed) /\ Lives(revealed, L)
  BY <1>2, <1>3, RevealedKeeps, RevealedLives
<1> HIDE DEF revealed
<1>5. Lives(Mapped(revealed, c, ptr), L)
  BY <1>3, <1>4, MappedLives DEF Keeps
<1>6. Adopt(s, c, parent, rule, refuses, wantsAttention, ptr) = Mapped(revealed, c, ptr)
  BY DEF Adopt, revealed, linked, m, w
<1> QED BY <1>5, <1>6

-----------------------------------------------------------------------------
(* A new list of outputs.                                                  *)

\* Two disjoint stacks, one in front of the other.
LEMMA Joined ==
    ASSUME NEW C, NEW p \in Seq(C), NEW q \in Seq(C),
           IsInjective(p), IsInjective(q), ToSet(p) \cap ToSet(q) = {}
    PROVE  /\ p \o q \in Seq(C)
           /\ IsInjective(p \o q)
           /\ ToSet(p \o q) = ToSet(p) \cup ToSet(q)
<1> DEFINE r == p \o q
<1>1. /\ r \in Seq(C)
      /\ Len(p) \in Nat /\ Len(q) \in Nat
      /\ DOMAIN p = 1..Len(p) /\ DOMAIN q = 1..Len(q)
      /\ DOMAIN r = 1..Len(p) + Len(q)
      /\ \A i \in 1..Len(p) + Len(q) : r[i] = IF i <= Len(p) THEN p[i] ELSE q[i - Len(p)]
  OBVIOUS
<1> HIDE DEF r
<1>2. \A i \in DOMAIN r : \/ i \in DOMAIN p /\ r[i] = p[i]
                          \/ i - Len(p) \in DOMAIN q /\ r[i] = q[i - Len(p)]
  BY <1>1
<1>3. /\ \A i \in DOMAIN p : i \in DOMAIN r /\ r[i] = p[i]
      /\ \A i \in DOMAIN q : i + Len(p) \in DOMAIN r /\ r[i + Len(p)] = q[i]
  <2>1. \A i \in DOMAIN p : i \in DOMAIN r /\ r[i] = p[i]
    BY <1>1
  <2>2. ASSUME NEW i \in DOMAIN q
        PROVE  i + Len(p) \in DOMAIN r /\ r[i + Len(p)] = q[i]
    <3>1. i + Len(p) \in 1..Len(p) + Len(q) /\ ~(i + Len(p) <= Len(p))
          /\ i + Len(p) - Len(p) = i
      BY <1>1
    <3> QED BY <1>1, <3>1
  <2> QED BY <2>1, <2>2
<1>4. IsInjective(r)
  <2> SUFFICES ASSUME NEW a \in DOMAIN r, NEW b \in DOMAIN r, r[a] = r[b]
               PROVE  a = b
    BY DEF IsInjective
  <2>0. a \in Int /\ b \in Int /\ Len(p) \in Int
    BY <1>1
  <2>1. CASE a \in DOMAIN p /\ r[a] = p[a] /\ b \in DOMAIN p /\ r[b] = p[b]
    BY <2>1 DEF IsInjective
  <2>2. CASE a - Len(p) \in DOMAIN q /\ r[a] = q[a - Len(p)]
             /\ b - Len(p) \in DOMAIN q /\ r[b] = q[b - Len(p)]
    <3>1. a - Len(p) = b - Len(p)
      BY <2>2 DEF IsInjective
    <3> QED BY <2>0, <3>1
  <2>3. ASSUME NEW i \in DOMAIN p, NEW j \in DOMAIN q PROVE p[i] # q[j]
    BY InToSet
  <2> QED BY <1>2, <2>1, <2>2, <2>3
<1>5. ToSet(r) = ToSet(p) \cup ToSet(q)
  <2>1. ASSUME NEW x \in ToSet(r) PROVE x \in ToSet(p) \cup ToSet(q)
    <3>1. PICK i \in DOMAIN r : x = r[i]
      BY <2>1, InToSet
    <3> QED BY <1>2, <3>1, InToSet
  <2>2. ASSUME NEW x \in ToSet(p) PROVE x \in ToSet(r)
    BY <1>3, <2>2, InToSet
  <2>3. ASSUME NEW x \in ToSet(q) PROVE x \in ToSet(r)
    BY <1>3, <2>3, InToSet
  <2> QED BY <2>1, <2>2, <2>3
<1> QED BY <1>1, <1>4, <1>5 DEF r

\* A stack without clients.
LEMMA Emptied ==
    ASSUME NEW C, NEW q \in Seq(C), ToSet(q) = {}
    PROVE  q = <<>>
<1>1. \A i \in DOMAIN q : q[i] \in ToSet(q)
  BY InToSet
<1>2. Len(q) \in Nat /\ DOMAIN q = 1..Len(q)
  OBVIOUS
<1>3. 1 \notin DOMAIN q
  BY <1>1
<1>4. Len(q) = 0
  BY <1>2, <1>3
<1> QED BY <1>4

\* The monitors of a report are some, each once.
LEMMA OrderType ==
    ASSUME NEW report \in Reports, NEW order \in Reordered(report)
    PROVE  /\ order \in Seq(Monitors) /\ order # <<>> /\ IsInjective(order)
           /\ ToSet(order) \subseteq Monitors
<1>1. order \in [DOMAIN report -> Monitors] /\ IsInjective(order)
  BY DEF Reordered
<1>2. report \in Seq(Outputs \cup {Unnamed}) /\ report # <<>>
  BY MonitorsAssumption
<1>3. DOMAIN report = 1..Len(report) /\ Len(report) \in Nat
  BY <1>2
<1>4. Len(report) # 0
  BY <1>2
<1>5. order \in Seq(Monitors) /\ Len(order) = Len(report)
  BY <1>1, <1>3
<1>6. order # <<>>
  BY <1>4, <1>5
<1>7. \A i \in DOMAIN order : order[i] \in Monitors
  BY <1>1
<1> QED BY <1>1, <1>5, <1>6, <1>7, InToSet

\* The clients that arrive at a monitor are a stack of those that go to it.
LEMMA ArrivalsType ==
    ASSUME NEW lost, lost \subseteq Clients, NEW keep, NEW to \in [lost -> keep],
           NEW arrivals \in Arrivals(to, keep)
    PROVE  /\ DOMAIN arrivals = keep
           /\ \A m \in keep : /\ arrivals[m] \in Seq(Clients)
                              /\ IsInjective(arrivals[m])
                              /\ ToSet(arrivals[m]) = {c \in lost : to[c] = m}
<1>1. DOMAIN to = lost
  OBVIOUS
<1>2. Cardinality(lost) \in Nat
  BY MonitorsAssumption, FS_Subset, FS_CardinalityType
<1>3. arrivals \in [keep -> SeqOf(lost, Cardinality(lost))]
  BY <1>1 DEF Arrivals
<1>4. ASSUME NEW q \in SeqOf(lost, Cardinality(lost)) PROVE q \in Seq(Clients)
  <2>1. PICK n \in 0..Cardinality(lost) : q \in [1..n -> lost]
    BY <1>4 DEF SeqOf
  <2>2. n \in Nat
    BY <1>2
  <2> QED BY <2>1, <2>2
<1>5. \A m \in keep : /\ IsInjective(arrivals[m])
                      /\ ToSet(arrivals[m]) = {c \in lost : to[c] = m}
  BY <1>1 DEF Arrivals
<1> QED BY <1>3, <1>4, <1>5

\* The monitors of the clients once those that were on a lost one have moved.
Moved(s, lost, to) == [c \in Clients |-> IF c \in lost THEN to[c] ELSE s.mon[c]]

\* rehome_clients_from_monitor keeps the lists in agreement.
LEMMA RehomedGood ==
    ASSUME NEW s, Good(s), NEW gone, gone \subseteq Monitors,
           NEW keep, keep \subseteq Monitors, gone \cap keep = {},
           NEW lost, lost = {c \in Clients : s.mon[c] \in gone},
           NEW to \in [lost -> keep], NEW arrivals \in Arrivals(to, keep),
           NEW u, u = Rehomed(s, gone, to, arrivals)
    PROVE  Good(u) /\ u.mon = Moved(s, lost, to)
<1> DEFINE M == [c \in Clients |-> IF c \in DOMAIN to THEN to[c] ELSE s.mon[c]]
           Q == [m \in Monitors |->
                     CASE m \in gone -> <<>>
                       [] m \in DOMAIN arrivals -> arrivals[m] \o s.stack[m]
                       [] OTHER -> s.stack[m]]
           S == [m \in Monitors |-> IF m \in gone THEN NoClient ELSE s.sel[m]]
<1>1. /\ s.stack \in [Monitors -> Seq(Clients)]
      /\ s.mon \in [Clients -> Monitors \cup {NoMonitor}]
      /\ s.sel \in [Monitors -> Clients \cup {NoClient}]
  BY DEF Good, StateSet
<1>2. u = [s EXCEPT !.mon = M, !.stack = Q, !.sel = S]
  BY DEF Rehomed, Good, StateSet
<1>3. DOMAIN to = lost
  OBVIOUS
<1>4. /\ DOMAIN arrivals = keep
      /\ \A m \in keep : /\ arrivals[m] \in Seq(Clients)
                         /\ IsInjective(arrivals[m])
                         /\ ToSet(arrivals[m]) = {c \in lost : to[c] = m}
  <2>1. lost \subseteq Clients
    OBVIOUS
  <2> HIDE DEF M, Q, S
  <2> QED BY <2>1, ArrivalsType
<1>5. \A m \in Monitors : /\ IsInjective(s.stack[m])
                          /\ ToSet(s.stack[m]) = {c \in Clients : s.mon[c] = m}
                          /\ s.sel[m] # NoClient => s.mon[s.sel[m]] = m
  BY DEF Good, ClientListsOf
<1>6. M = [c \in Clients |-> IF c \in lost THEN to[c] ELSE s.mon[c]]
      /\ M = Moved(s, lost, to)
  BY <1>3 DEF Moved
<1>7. M \in [Clients -> Monitors \cup {NoMonitor}]
  BY <1>1, <1>6
<1>8. S \in [Monitors -> Clients \cup {NoClient}]
  BY <1>1
<1>9. \A m \in gone : {c \in Clients : M[c] = m} = {}
  BY <1>6
<1>10. \A m \in keep : {c \in Clients : M[c] = m}
                         = {c \in lost : to[c] = m} \cup {c \in Clients : s.mon[c] = m}
  BY <1>6
<1>11. \A m \in Monitors \ (gone \cup keep) :
          {c \in Clients : M[c] = m} = {c \in Clients : s.mon[c] = m}
  BY <1>6
<1>12. \A m \in Monitors : S[m] # NoClient => M[S[m]] = m
  <2> SUFFICES ASSUME NEW m \in Monitors, S[m] # NoClient PROVE M[S[m]] = m
    OBVIOUS
  <2>1. m \notin gone /\ S[m] = s.sel[m]
    OBVIOUS
  <2>2. s.sel[m] \in Clients /\ s.mon[s.sel[m]] = m
    BY <1>1, <1>5, <2>1
  <2> QED BY <1>6, <2>1, <2>2
<1>13. \A m \in Monitors : /\ Q[m] \in Seq(Clients)
                           /\ IsInjective(Q[m])
                           /\ ToSet(Q[m]) = {c \in Clients : M[c] = m}
  <2> SUFFICES ASSUME NEW m \in Monitors
               PROVE  /\ Q[m] \in Seq(Clients)
                      /\ IsInjective(Q[m])
                      /\ ToSet(Q[m]) = {c \in Clients : M[c] = m}
    OBVIOUS
  <2>1. CASE m \in gone
    <3>1. Q[m] = <<>>
      BY <1>4, <2>1
    <3>2. IsInjective(<<>>) /\ ToSet(<<>>) = {}
      BY DEF IsInjective, ToSet
    <3> HIDE DEF Q, M
    <3> QED BY <1>9, <2>1, <3>1, <3>2
  <2>2. CASE m \in keep
    <3>1. Q[m] = arrivals[m] \o s.stack[m]
      BY <1>4, <2>2
    <3> HIDE DEF Q, M
    <3>2. {c \in lost : to[c] = m} \cap {c \in Clients : s.mon[c] = m} = {}
      BY <2>2
    <3>3. s.stack[m] \in Seq(Clients)
      BY <1>1
    <3>4. /\ arrivals[m] \o s.stack[m] \in Seq(Clients)
          /\ IsInjective(arrivals[m] \o s.stack[m])
          /\ ToSet(arrivals[m] \o s.stack[m]) = ToSet(arrivals[m]) \cup ToSet(s.stack[m])
      BY <1>4, <1>5, <2>2, <3>2, <3>3, Joined
    <3> QED BY <1>4, <1>5, <1>10, <2>2, <3>1, <3>4
  <2>3. CASE m \notin gone \cup keep
    <3>1. Q[m] = s.stack[m]
      BY <1>4, <2>3
    <3> HIDE DEF Q, M
    <3> QED BY <1>1, <1>5, <1>11, <2>3, <3>1
  <2> QED BY <2>1, <2>2, <2>3
<1>14. Q \in [Monitors -> Seq(Clients)]
  <2>1. DOMAIN Q = Monitors
    OBVIOUS
  <2>2. Q = [m \in Monitors |-> Q[m]]
    OBVIOUS
  <2> HIDE DEF Q
  <2> QED BY <1>13, <2>2
<1> HIDE DEF M, Q, S
<1>15. u \in StateSet /\ u.mon = M /\ u.stack = Q /\ u.sel = S
  BY <1>2, <1>7, <1>8, <1>14 DEF Good, StateSet
<1> QED BY <1>6, <1>12, <1>13, <1>15 DEF Good, ClientListsOf

\* teardown_monitor_resources leaves the clients alone.
LEMMA TornDownKeeps ==
    ASSUME NEW s, Good(s), NEW gone
    PROVE  Keeps(s, TornDown(s, gone))
<1> DEFINE O == [m \in Monitors |-> IF m \in gone THEN NoTag ELSE s.overlay[m]]
           A == [m \in Monitors |-> IF m \in gone THEN FirstWorkspace ELSE s.active[m]]
           u == TornDown(s, gone)
<1>1. u = [s EXCEPT !.overlay = O, !.active = A]
  BY DEF TornDown, Good, StateSet
<1>2. O \in [Monitors -> Tags \cup {NoTag}] /\ A \in [Monitors -> NormalIds]
  BY MonitorsAssumption DEF Good, StateSet
<1> HIDE DEF O, A, u
<1>3. u \in StateSet
  BY <1>1, <1>2 DEF Good, StateSet
<1>4. u.mon = s.mon /\ u.stack = s.stack /\ u.sel = s.sel
  BY <1>1 DEF Good, StateSet
<1>5. Keeps(s, u)
  BY <1>3, <1>4, Framed
<1> QED BY <1>5 DEF u

-----------------------------------------------------------------------------
(* The inductive invariant: that of WorkspaceView, a list of monitors      *)
(* without repetition, and a selected monitor and clients that live in it. *)

MonitorsInv ==
    /\ IInv
    /\ owners \in Seq(Monitors) /\ owners # <<>> /\ IsInjective(owners)
    /\ Lives(State, Living)

\* The monitors that exist, as the handlers' lemmas need them.
LEMMA LivingMonitors ==
    ASSUME MonitorsInv
    PROVE  /\ Living \subseteq Monitors
           /\ cur \in Living
           /\ \A c \in Clients : Managed(State, c) => mon[c] \in Living
<1>1. Living \subseteq Monitors
  <2> SUFFICES ASSUME NEW i \in DOMAIN owners PROVE owners[i] \in Monitors
    BY InToSet DEF Living
  <2> QED BY DEF MonitorsInv
<1>2. State.cur = cur /\ State.mon = mon
  BY DEF State
<1> QED BY <1>1, <1>2, ManagedLives DEF MonitorsInv, Lives

\* Installing a record that lives in L.
LEMMA LivesBecome ==
    ASSUME NEW L, NEW s, Lives(s, L), Become(s)
    PROVE  Lives(State', L)
BY DEF Lives, Become, State

LEMMA SwitchToLives ==
    ASSUME MonitorsInv, NEW m \in Living
    PROVE  Lives(SwitchTo(m), Living)
<1>1. SwitchTo(m).cur = m /\ SwitchTo(m).mon = State.mon
  BY DEF SwitchTo, State
<1> QED BY <1>1 DEF MonitorsInv, Lives

\* dirtomon_from_chain returns a monitor that exists.
LEMMA FollowingLives ==
    ASSUME MonitorsInv, NEW direction \in {-1, 1}
    PROVE  Following(direction) \in Living
<1> DEFINE n == Len(owners)
           i == CHOOSE k \in 1..n : owners[k] = cur
           a == i - 1 + direction + n
<1>1. n \in Nat /\ DOMAIN owners = 1..n /\ n # 0
  BY DEF MonitorsInv
<1>2. \E k \in 1..n : owners[k] = cur
  BY <1>1, LivingMonitors, InToSet DEF Living
<1>3. i \in 1..n
  BY <1>2
<1> HIDE DEF i, n
<1>4. a \in Int /\ n > 0
  BY <1>1, <1>3
<1> HIDE DEF a
<1>5. a % n \in 0..n - 1
  BY <1>1, <1>4
<1>6. (a % n) + 1 \in 1..n
  BY <1>1, <1>5
<1>7. Following(direction) = owners[(a % n) + 1]
  BY DEF Following, a, i, n
<1> QED BY <1>1, <1>6, <1>7, InToSet DEF Living

\* The handlers of WorkspaceView that run here leave every window on a monitor that
\* exists; one step per action of Handler.
LEMMA HandlerLives ==
    ASSUME MonitorsInv, Handler
    PROVE  Lives(State', Living)
<1> USE DEF MonitorsInv
<1>0. /\ Good(State) /\ Lives(State, Living)
      /\ State.cur = cur /\ State.mon = mon /\ State.sel = sel /\ State.ws = ws
      /\ sel \in [Monitors -> Clients \cup {NoClient}]
      /\ \A m \in Monitors : sel[m] # NoClient => mon[sel[m]] = m
  BY CurrentState
<1>l. Living \subseteq Monitors /\ cur \in Living
      /\ \A c \in Clients : Managed(State, c) => mon[c] \in Living
  BY LivingMonitors
<1>f. \A s, c : Good(s) /\ Lives(s, Living) => Lives(Focus(s, c), Living)
  BY FocusLives
<1>s. \A m \in Living : Good([State EXCEPT !.cur = m]) /\ Lives([State EXCEPT !.cur = m], Living)
  BY <1>0, <1>l, Selected, LivesSelected DEF Keeps
<1>p. ASSUME NEW s, Lives(s, Living), Step(s) PROVE Lives(State', Living)
  BY <1>p, LivesBecome DEF Step
<1> HIDE DEF MonitorsInv
<1>1. ASSUME NEW c \in Clients, MapRequest(c) PROVE Lives(State', Living)
  <2>1. PICK parent \in Maybe \ {c}, rule \in WindowRules,
             refuses \in IF c \in Hinted THEN BOOLEAN ELSE {c \in Docks},
             wantsAttention \in IF c \in Hinted THEN BOOLEAN ELSE {FALSE},
             ptr \in Maybe :
             Step(Adopt(State, c, parent, rule, refuses, wantsAttention, ptr))
    BY <1>1, Zenon DEF MapRequest
  <2>2. ~Managed(State, c)
    BY <1>1, Zenon DEF MapRequest
  <2>3. State.mon[c] = NoMonitor
    BY <2>2 DEF Managed
  <2>4. PICK s : s = Adopt(State, c, parent, rule, refuses, wantsAttention, ptr)
    OBVIOUS
  <2>5. Lives(s, Living)
    BY <1>0, <1>l, <2>3, <2>4, AdoptLives, Zenon
  <2> QED BY <1>p, <2>1, <2>4, <2>5
<1>2. ASSUME NEW c \in Clients, Unmap(c) PROVE Lives(State', Living)
  <2>1. PICK fallback, ptr : Step(Release(State, c, fallback, ptr))
    BY <1>2, Zenon DEF Unmap
  <2>2. State.mon[c] \in Monitors
    BY <1>0, <1>2, <1>l DEF Unmap
  <2>3. Lives(Release(State, c, fallback, ptr), Living)
    BY <1>0, <1>l, <2>2, ReleaseLives
  <2> QED BY <1>p, <2>1, <2>3
<1>3. ASSUME NEW w \in NormalIds, View(w) PROVE Lives(State', Living)
  <2>1. PICK ptr : Step(ShowNormal(State, w, ptr))
    BY <1>3, Zenon DEF View
  <2> QED BY <1>0, <1>l, <1>p, <2>1, ShowNormalLives
<1>4. ASSUME NEW t \in Tags, ToggleSpecial(t) PROVE Lives(State', Living)
  <2>1. PICK ptr : Step(ToggleOverlay(State, cur, t, ptr))
    BY <1>4, Zenon DEF ToggleSpecial
  <2>2. Lives(ToggleOverlay(State, cur, t, ptr), Living)
    BY <1>0, <1>l, ToggleOverlayLives
  <2> QED BY <1>p, <2>1, <2>2
<1>5. ASSUME NEW ref \in Workspaces, NEW silent \in BOOLEAN, Move(ref, silent)
      PROVE  Lives(State', Living)
  <2>1. PICK ptr : Step(MoveToWorkspace(State, ref, silent, ptr))
    BY <1>5, Zenon DEF Move
  <2>2. sel[cur] # NoClient
    BY <1>5, Zenon DEF Move
  <2>3. Lives(MoveToWorkspace(State, ref, silent, ptr), Living)
    BY <1>0, <1>l, <2>2, MoveToWorkspaceLives
  <2> QED BY <1>p, <2>1, <2>3
<1>6. ASSUME NEW direction \in {-1, 1}, FocusOther(direction) PROVE Lives(State', Living)
  BY <1>6, <1>f, <1>p, <1>s, FollowingLives DEF FocusOther
<1>7. ASSUME NEW direction \in {-1, 1}, SendOther(direction) PROVE Lives(State', Living)
  <2>1. PICK ptr : Step(SendMon(State, sel[cur], Following(direction), ptr))
    BY <1>7, Zenon DEF SendOther
  <2>2. sel[cur] # NoClient
    BY <1>7, Zenon DEF SendOther
  <2>3. sel[cur] \in Clients /\ State.mon[sel[cur]] \in Monitors
    BY <1>0, <1>l, <2>2
  <2>4. Lives(SendMon(State, sel[cur], Following(direction), ptr), Living)
    BY <1>0, <1>l, <2>3, FollowingLives, SendMonLives
  <2> QED BY <1>p, <2>1, <2>4
<1>8. CASE BeginDrag
  BY <1>0, <1>8, LivesBecome DEF BeginDrag
<1>9. ASSUME NEW m \in Living, EndDrag(m) PROVE Lives(State', Living)
  <2>1. /\ dragged # NoClient
        /\ \E ptr : Become(IF mon[dragged] = m THEN State
               ELSE Focus([SendMon(State, dragged, m, ptr) EXCEPT !.cur = m], NoClient))
    BY <1>9, Zenon DEF EndDrag, Idle
  <2>2. PICK ptr : Become(IF mon[dragged] = m THEN State
               ELSE Focus([SendMon(State, dragged, m, ptr) EXCEPT !.cur = m], NoClient))
    BY <2>1
  <2>3. dragged \in Clients /\ State.mon[dragged] \in Monitors /\ m \in Monitors
    BY <1>0, <1>l, <2>1 DEF MonitorsInv, IInv, DraggedIsManaged, Managed
  <2>4. Good(SendMon(State, dragged, m, ptr)) /\ Lives(SendMon(State, dragged, m, ptr), Living)
    BY <1>0, <1>l, <2>3, SendMonGood, SendMonLives
  <2>5. Lives(Focus([SendMon(State, dragged, m, ptr) EXCEPT !.cur = m], NoClient), Living)
    BY <1>l, <2>4, FocusOnLives
  <2> QED BY <1>0, <2>2, <2>5, LivesBecome
<1>10. ASSUME NEW c \in Clients, FocusNeighbour(c) PROVE Lives(State', Living)
  BY <1>0, <1>f, <1>p, <1>10 DEF FocusNeighbour
<1>11. ASSUME NEW c \in Clients, FocusWindow(c) PROVE Lives(State', Living)
  <2> DEFINE m == mon[c]
             s == [State EXCEPT !.cur = m]
             t == [s EXCEPT !.active[m] = ws[c]]
             v == IF Visible(s, c) \/ ws[c] \notin NormalIds THEN s ELSE t
  <2>1. m \in Living /\ m \in Monitors /\ Step(Focus(v, c))
    BY <1>11, <1>l DEF FocusWindow
  <2> HIDE DEF m
  <2>2. Good(s) /\ Lives(s, Living)
    BY <1>s, <2>1
  <2>3. /\ t = [State EXCEPT !.cur = m, !.active[m] = ws[c]]
        /\ t.cur = s.cur /\ t.mon = s.mon
    BY <1>0 DEF Good, StateSet
  <2> HIDE DEF s, t
  <2>4. ws[c] \in NormalIds => Good(t) /\ Lives(t, Living)
    BY <1>0, <2>1, <2>2, <2>3, ActiveKeeps, LivesFramed DEF Keeps
  <2>5. Good(v) /\ Lives(v, Living)
    BY <2>2, <2>4
  <2> QED BY <1>f, <1>p, <2>1, <2>5
<1>12. ASSUME NEW c \in Clients, Activate(c) PROVE Lives(State', Living)
  <2> DEFINE V(ptr) == CASE ~Visible(State, c) /\ ws[c] \in Tags ->
                              EnsureOverlay(State, mon[c], ws[c], ptr)
                         [] ~Visible(State, c) /\ ws[c] \in NormalIds
                            /\ c \notin ruleSilent -> ViewNormal(State, ws[c], ptr)
                         [] OTHER -> State
             U(s) == [s EXCEPT !.urgent = @ \cup {c}]
  <2>1. mon[c] \in Living
    BY <1>12, <1>l, Zenon DEF Activate
  <2>2. PICK ptr : Step(IF FocusOnActivate /\ Visible(V(ptr), c) THEN Focus(V(ptr), c)
                        ELSE IF c # sel[cur] /\ c \in Hinted THEN U(V(ptr))
                        ELSE V(ptr))
    BY <1>12 DEF Activate
  <2>3. Good(V(ptr)) /\ Lives(V(ptr), Living)
    <3>0. mon[c] \in Monitors
      BY <1>l, <2>1
    <3>1. ws[c] \in Tags => /\ Good(EnsureOverlay(State, mon[c], ws[c], ptr))
                            /\ Lives(EnsureOverlay(State, mon[c], ws[c], ptr), Living)
      BY <1>0, <1>l, <2>1, <3>0, EnsureOverlayKeeps, EnsureOverlayLives DEF Keeps
    <3>2. ws[c] \in NormalIds => /\ Good(ViewNormal(State, ws[c], ptr))
                                 /\ Lives(ViewNormal(State, ws[c], ptr), Living)
      BY <1>0, <1>l, ShowNormalKeeps, ShowNormalLives DEF Keeps, ViewNormal
    <3> QED BY <1>0, <3>1, <3>2
  <2>4. ASSUME NEW s, Good(s), Lives(s, Living) PROVE Lives(U(s), Living)
    <3>1. U(s).cur = s.cur /\ U(s).mon = s.mon
      BY <2>4 DEF Good, StateSet
    <3> QED BY <2>4, <3>1, LivesFramed
  <2> HIDE DEF V, U
  <2> QED BY <1>f, <1>p, <2>2, <2>3, <2>4
<1>13. ASSUME NEW c \in Clients, EnterClient(c) PROVE Lives(State', Living)
  <2>1. mon[c] \in Living /\ mon[c] \in Monitors
    BY <1>13, <1>l DEF EnterClient
  <2>2. Good(SwitchTo(mon[c])) /\ Lives(SwitchTo(mon[c]), Living)
    BY <2>1, SwitchToGood, SwitchToLives DEF Keeps, MonitorsInv
  <2> QED BY <1>13, <1>f, <1>p, <2>2 DEF EnterClient
<1>14. ASSUME NEW m \in Living, EnterMonitor(m) PROVE Lives(State', Living)
  BY <1>14, <1>p, SwitchToLives DEF EnterMonitor
<1>15. ASSUME NEW c \in Clients, ButtonPress(c) PROVE Lives(State', Living)
  <2> DEFINE u == SwitchTo(mon[c])
             s == IF mon[c] = cur THEN State ELSE Focus(u, NoClient)
  <2>1. mon[c] \in Living /\ mon[c] \in Monitors
        /\ Step(IF c \in neverfocus \/ FollowMouse = 3 THEN s ELSE Focus(s, c))
    BY <1>15, <1>l DEF ButtonPress
  <2>2. Good(u) /\ Lives(u, Living)
    BY <2>1, SwitchToGood, SwitchToLives DEF Keeps, MonitorsInv
  <2> HIDE DEF u
  <2>3. Good(s) /\ Lives(s, Living)
    BY <1>0, <1>f, <2>2, FocusKeeps DEF Keeps
  <2> HIDE DEF s
  <2> QED BY <1>f, <1>p, <2>1, <2>3
<1>16. ASSUME NEW m \in Living, PointerCrosses(m) PROVE Lives(State', Living)
  BY <1>16, <1>f, <1>p, <1>s DEF PointerCrosses
<1>17. CASE FocusIn
  <2> DEFINE t == [State EXCEPT !.input = sel[cur]]
  <2>1. t.cur = State.cur /\ t.mon = State.mon
    BY DEF State
  <2> HIDE DEF t
  <2>2. Lives(t, Living)
    BY <1>0, <2>1, LivesFramed
  <2> QED BY <1>17, <1>p, <2>2 DEF FocusIn, t
<1> QED
  BY <1>1, <1>2, <1>3, <1>4, <1>5, <1>6, <1>7, <1>8, <1>9, <1>10, <1>11, <1>12,
     <1>13, <1>14, <1>15, <1>16, <1>17 DEF Handler

\* They are handlers of WorkspaceView, but for the two that walk the list of monitors,
\* so they keep its invariant and the keyboard on the selection.
LEMMA HandlerKeeps ==
    ASSUME MonitorsInv, Handler
    PROVE  IInv' /\ (InputIsSelection => InputIsSelection')
<1>0. /\ IInv /\ Good(State)
      /\ State.cur = cur /\ State.mon = mon /\ State.sel = sel
      /\ sel \in [Monitors -> Clients \cup {NoClient}]
      /\ \A m \in Monitors : sel[m] # NoClient => mon[sel[m]] = m
  BY CurrentState DEF MonitorsInv
<1>l. Living \subseteq Monitors /\ cur \in Living
  BY LivingMonitors
<1>1. ASSUME NEW direction \in {-1, 1}, FocusOther(direction)
      PROVE  IInv' /\ InputIsSelection'
  <2> DEFINE m == Following(direction)
             t == Focus([State EXCEPT !.cur = m], NoClient)
  <2>1. m \in Monitors
    BY <1>l, FollowingLives
  <2>2. Good(t) /\ Points(t)
    BY <1>0, <2>1, FocusOnKeeps, FocusOnFocused, FocusedPoints DEF Keeps
  <2>3. Idle /\ Step(t)
    BY <1>1 DEF FocusOther
  <2> HIDE DEF t
  <2> QED BY <1>0, <2>2, <2>3, Stepping, Pointed DEF Step
<1>2. ASSUME NEW direction \in {-1, 1}, SendOther(direction)
      PROVE  IInv' /\ (InputIsSelection => InputIsSelection')
  <2>1. PICK ptr : Step(SendMon(State, sel[cur], Following(direction), ptr))
    BY <1>2, Zenon DEF SendOther
  <2>2. Idle /\ sel[cur] # NoClient
    BY <1>2, Zenon DEF SendOther
  <2>3. Following(direction) \in Monitors
    BY <1>l, FollowingLives
  <2>4. sel[cur] \in Clients /\ State.mon[sel[cur]] \in Monitors
    BY <1>0, <1>l, <2>2
  <2> DEFINE t == SendMon(State, sel[cur], Following(direction), ptr)
  <2>5. Good(t)
    BY <1>0, <2>3, <2>4, SendMonGood
  <2>6. InputIsSelection => Points(t)
    <3>1. InputIsSelection => Points(State)
      BY DEF InputIsSelection, Points, State
    <3> QED BY <1>0, <2>3, <2>4, <3>1, SendMonPoints
  <2>7. Step(t)
    BY <2>1
  <2> HIDE DEF t
  <2> QED BY <1>0, <2>2, <2>5, <2>6, <2>7, Stepping, Pointed DEF Step
<1>3. CASE Next
  BY <1>0, <1>3, NextPreserves, NextPoints
<1>4. Next \/ \E direction \in {-1, 1} : FocusOther(direction) \/ SendOther(direction)
  BY <1>l DEF Handler, Next
<1> QED BY <1>1, <1>2, <1>3, <1>4

\* A new list of outputs leaves the window manager with the monitors it kept and made.
LEMMA TopologyKeeps ==
    ASSUME MonitorsInv, NEW report \in Reports, Topology(report)
    PROVE  MonitorsInv' /\ (InputIsSelection => InputIsSelection')
<1>0. /\ IInv /\ Good(State) /\ Lives(State, Living) /\ Living \subseteq Monitors
      /\ State.mon = mon
  BY CurrentState, LivingMonitors DEF MonitorsInv
<1>1. PICK order \in Reordered(report) :
         LET keep == ToSet(order)
             gone == Living \ keep
             lost == {c \in Clients : mon[c] \in gone}
         IN  /\ owners' = order
             /\ \/ order = owners /\ UNCHANGED vars
                \/ \E to \in [lost -> keep], m \in keep :
                   \E arrivals \in Arrivals(to, keep) :
                      Step(Focus([TornDown(Rehomed(State, gone, to, arrivals), gone)
                                      EXCEPT !.cur = m], NoClient))
  BY Zenon DEF Topology
<1>2. Idle
  BY DEF Topology
<1> DEFINE keep == ToSet(order)
           gone == Living \ keep
           lost == {c \in Clients : mon[c] \in gone}
<1>3. /\ order \in Seq(Monitors) /\ order # <<>> /\ IsInjective(order)
      /\ keep \subseteq Monitors
  BY OrderType
<1>4. Living' = keep /\ owners' = order
  BY <1>1 DEF Living
<1>5. CASE order = owners /\ UNCHANGED vars
  <2>1. State' = State /\ dragged' = dragged /\ input' = input /\ sel' = sel /\ cur' = cur
    BY <1>5 DEF vars, State
  <2>2. IInv' /\ (InputIsSelection => InputIsSelection')
    BY <1>0, <2>1 DEF IInv, DraggedIsManaged, InputIsSelection
  <2>3. Living' = Living
    BY <1>4, <1>5 DEF Living
  <2> QED BY <1>0, <1>3, <1>4, <2>1, <2>2, <2>3 DEF MonitorsInv
<1>6. ASSUME NEW to \in [lost -> keep], NEW m \in keep,
             NEW arrivals \in Arrivals(to, keep),
             Step(Focus([TornDown(Rehomed(State, gone, to, arrivals), gone)
                             EXCEPT !.cur = m], NoClient))
      PROVE  MonitorsInv' /\ InputIsSelection'
  <2> DEFINE rehomed == Rehomed(State, gone, to, arrivals)
             torn == TornDown(rehomed, gone)
             at == [torn EXCEPT !.cur = m]
             t == Focus(at, NoClient)
  <2>1. Good(rehomed) /\ rehomed.mon = [c \in Clients |-> IF c \in lost THEN to[c] ELSE mon[c]]
    <3>1. lost = {c \in Clients : State.mon[c] \in gone}
      BY <1>0
    <3>2. gone \subseteq Monitors /\ gone \cap keep = {}
      BY <1>0
    <3>3. PICK u : u = rehomed
      OBVIOUS
    <3> HIDE DEF lost, gone, keep
    <3>4. to \in [lost -> keep] /\ arrivals \in Arrivals(to, keep)
      BY <1>6
    <3>5. Good(u)
      BY <1>0, <1>3, <3>1, <3>2, <3>3, <3>4, RehomedGood, Zenon
    <3>6. u.mon = Moved(State, lost, to)
      BY ONLY <1>0, <1>3, <3>1, <3>2, <3>3, <3>4, RehomedGood, SMTT(60)
    <3>7. Good(rehomed) /\ rehomed.mon = Moved(State, lost, to)
      BY <3>3, <3>5, <3>6
    <3>8. Moved(State, lost, to) = [c \in Clients |-> IF c \in lost THEN to[c] ELSE mon[c]]
      BY <1>0 DEF Moved
    <3> HIDE DEF rehomed
    <3> QED BY <3>7, <3>8
  <2> HIDE DEF rehomed
  <2>2. Good(torn) /\ torn.mon = rehomed.mon
    BY <2>1, TornDownKeeps DEF Keeps
  <2> HIDE DEF torn
  <2>3. Good(at) /\ at.cur = m /\ at.mon = rehomed.mon
    <3>1. m \in Monitors
      BY <1>3
    <3>2. Good(at)
      BY <2>2, <3>1, Selected DEF Keeps
    <3>3. at.cur = m /\ at.mon = torn.mon
      BY <2>2 DEF Good, StateSet
    <3> QED BY <2>2, <3>2, <3>3
  <2> HIDE DEF at
  <2>4. Lives(at, keep)
    <3>1. \A c \in Clients : mon[c] \in Living \cup {NoMonitor}
      BY <1>0 DEF Lives
    <3>2. \A c \in lost : to[c] \in keep
      OBVIOUS
    <3>3. \A c \in Clients \ lost : mon[c] \in keep \cup {NoMonitor}
      BY <3>1
    <3> HIDE DEF lost, keep
    <3>4. \A c \in Clients : at.mon[c] \in keep \cup {NoMonitor}
      BY <2>1, <2>3, <3>2, <3>3
    <3> QED BY <2>3, <3>4 DEF Lives
  <2>5. Good(t) /\ Points(t) /\ Lives(t, keep)
    <3> HIDE DEF keep
    <3> QED BY <2>3, <2>4, FocusKeeps, FocusedPoints, FocusLives DEF Keeps, Focused
  <2>6. Step(t)
    BY <1>6 DEF t, at, torn, rehomed
  <2> HIDE DEF t
  <2>7. IInv' /\ InputIsSelection'
    BY <1>0, <1>2, <2>5, <2>6, Stepping, Pointed DEF Step
  <2>8. Lives(State', Living')
    BY <1>4, <2>5, <2>6, LivesBecome DEF Step
  <2> QED BY <1>3, <1>4, <2>7, <2>8 DEF MonitorsInv
<1> QED BY <1>1, <1>5, <1>6

\* Each step of the composition keeps its invariant.
LEMMA MonitorsPreserve ==
    MonitorsInv /\ [MonitorsNext]_allvars
        => MonitorsInv' /\ (InputIsSelection => InputIsSelection')
<1> SUFFICES ASSUME MonitorsInv, [MonitorsNext]_allvars
             PROVE  MonitorsInv' /\ (InputIsSelection => InputIsSelection')
  OBVIOUS
<1>1. CASE Handle
  <2>1. Handler /\ owners' = owners /\ Living' = Living
    BY <1>1 DEF Handle, Living
  <2>2. IInv' /\ Lives(State', Living) /\ (InputIsSelection => InputIsSelection')
    BY <2>1, HandlerKeeps, HandlerLives
  <2> QED BY <2>1, <2>2 DEF MonitorsInv
<1>2. ASSUME NEW report \in Reports, Topology(report)
      PROVE  MonitorsInv' /\ (InputIsSelection => InputIsSelection')
  BY <1>2, TopologyKeeps
<1>3. CASE UNCHANGED allvars
  <2>1. State' = State /\ dragged' = dragged /\ owners' = owners
        /\ input' = input /\ sel' = sel /\ cur' = cur
    BY <1>3 DEF allvars, vars, State
  <2> QED BY <2>1 DEF MonitorsInv, IInv, DraggedIsManaged, Living, InputIsSelection
<1> QED BY <1>1, <1>2, <1>3 DEF MonitorsNext

\* At startup there is a monitor for each output of the first report.
LEMMA MonitorsEstablished == MonitorsInit => MonitorsInv /\ InputIsSelection
<1> SUFFICES ASSUME MonitorsInit PROVE MonitorsInv /\ InputIsSelection
  OBVIOUS
<1>1. IInv /\ InputIsSelection
  BY InitEstablishes DEF MonitorsInit, Init, InputIsSelection
<1>2. PICK report \in Reports : owners = [i \in DOMAIN report |-> i]
  BY DEF MonitorsInit
<1>3. report \in Seq(Outputs \cup {Unnamed}) /\ report # <<>> /\ Len(report) <= NumMonitors
  BY MonitorsAssumption
<1>4. DOMAIN report = 1..Len(report) /\ Len(report) \in Nat /\ Len(report) # 0
  BY <1>3
<1>5. 1..Len(report) \subseteq Monitors
  BY <1>3, <1>4, ConstantsAssumption DEF Monitors
<1>6. owners = [i \in 1..Len(report) |-> i]
  BY <1>2, <1>4
<1>7. owners \in Seq(Monitors) /\ Len(owners) = Len(report)
  BY <1>4, <1>5, <1>6
<1>8. owners # <<>> /\ IsInjective(owners)
  BY <1>4, <1>6, <1>7 DEF IsInjective
<1>9. 1 \in Living
  <2>1. 1 \in DOMAIN owners /\ owners[1] = 1
    BY <1>4, <1>6
  <2> QED BY <2>1, InToSet DEF Living
<1>10. Lives(State, Living)
  <2>1. State.cur = 1 /\ State.mon = [c \in Clients |-> NoMonitor]
    BY DEF MonitorsInit, Init, State
  <2> QED BY <1>9, <2>1 DEF Lives
<1> QED BY <1>1, <1>7, <1>8, <1>10 DEF MonitorsInv

LEMMA MonitorsInvAlways == MonitorsSpec => [](MonitorsInv /\ InputIsSelection)
<1>1. MonitorsInv /\ InputIsSelection /\ [MonitorsNext]_allvars
        => (MonitorsInv /\ InputIsSelection)'
  BY MonitorsPreserve
<1> QED BY <1>1, MonitorsEstablished, PTL DEF MonitorsSpec

-----------------------------------------------------------------------------
(* Names.                                                                  *)

\* The monitors that have a name have different ones.
NamesDiffer ==
    \A m, n \in Living : name[m] = name[n] /\ name[m] # Unnamed => m = n

\* The monitor of a report's output has its name.
LEMMA NamedByReport ==
    ASSUME NEW report \in Reports, NEW order \in Reordered(report), NEW i \in DOMAIN report
    PROVE  /\ order[i] \in ToSet(order) /\ order[i] \in Monitors
           /\ Named(report, order)[order[i]] = report[i]
<1>1. DOMAIN order = DOMAIN report /\ order \in Seq(Monitors) /\ IsInjective(order)
  BY OrderType DEF Reordered
<1>2. order[i] \in ToSet(order) /\ order[i] \in Monitors
  BY <1>1, InToSet
<1>3. \A j \in DOMAIN order : order[j] = order[i] => j = i
  BY <1>1 DEF IsInjective
<1>4. (CHOOSE j \in DOMAIN order : order[j] = order[i]) = i
  BY <1>1, <1>3
<1> QED BY <1>2, <1>4 DEF Named

\* An output that had a monitor takes that one again.
LEMMA TakesItsOwn ==
    ASSUME MonitorsInv, NamesDiffer,
           NEW report \in Reports, NEW order \in Reordered(report),
           \A i \in DOMAIN report : report[i] # Unnamed,
           NEW i \in DOMAIN report, NEW m \in Living, name[m] = report[i]
    PROVE  order[i] = m
<1> DEFINE unused(j) == {k \in DOMAIN owners : owners[k] \notin {order[h] : h \in 1..(j - 1)}}
           found(j) == Candidates(report[j], unused(j))
           had(n, U) == {k \in U : name[owners[k]] = n}
<1>1. /\ owners \in Seq(Monitors) /\ IsInjective(owners)
      /\ Len(owners) \in Nat /\ DOMAIN owners = 1..Len(owners)
      /\ report \in Seq(Outputs \cup {Unnamed}) /\ Len(report) \in Nat
      /\ DOMAIN report = 1..Len(report)
  BY MonitorsAssumption DEF MonitorsInv
<1>2. PICK k \in DOMAIN owners : owners[k] = m
  BY InToSet DEF Living
<1>3. \A j \in DOMAIN report :
        IF found(j) = {} THEN order[j] \notin Living ELSE order[j] = owners[Min(found(j))]
  BY DEF Reordered
<1>4. ASSUME NEW j \in DOMAIN report
      PROVE  /\ had(report[j], unused(j)) # {} => found(j) = had(report[j], unused(j))
             /\ had(report[j], unused(j)) = {} => found(j) = had(Unnamed, unused(j))
  BY DEF Candidates
<1>5. \A j \in DOMAIN report : found(j) \subseteq 1..Len(owners)
  BY <1>1, <1>4
<1>6. ASSUME NEW j \in 1..(i - 1), order[j] = m PROVE FALSE
  <2>1. j \in DOMAIN report /\ j # i /\ report[j] # Unnamed
    BY <1>1, <1>6
  <2>2. m \in Living /\ report[i] # Unnamed
    OBVIOUS
  <2>3. found(j) # {} /\ m = owners[Min(found(j))]
    BY <1>3, <1>6, <2>1
  <2>4. Min(found(j)) \in found(j)
    BY <1>5, <2>1, <2>3, MinIsLeast
  <2>5. name[m] \in {report[j], Unnamed}
    BY <1>4, <2>1, <2>3, <2>4
  <2>6. report[j] = report[i]
    BY <2>2, <2>5
  <2> QED BY <2>1, <2>6, MonitorsAssumption
<1>7. k \in had(report[i], unused(i))
  BY <1>2, <1>6
<1>8. found(i) = had(report[i], unused(i)) /\ found(i) # {}
  BY <1>4, <1>7
<1>9. Min(found(i)) \in found(i)
  BY <1>5, <1>8, MinIsLeast
<1>10. /\ Min(found(i)) \in DOMAIN owners /\ name[owners[Min(found(i))]] = report[i]
       /\ order[i] = owners[Min(found(i))]
  BY <1>3, <1>8, <1>9
<1>11. owners[Min(found(i))] \in Living
  BY <1>10, InToSet DEF Living
<1> QED BY <1>10, <1>11 DEF NamesDiffer

\* Reports keep names different.
LEMMA NamesStayDifferent ==
    MonitorsInv /\ NamesDiffer /\ [MonitorsNext]_allvars => NamesDiffer'
<1> SUFFICES ASSUME MonitorsInv, NamesDiffer, [MonitorsNext]_allvars PROVE NamesDiffer'
  OBVIOUS
<1>1. CASE owners' = owners /\ name' = name
  BY <1>1 DEF NamesDiffer, Living
<1>2. ASSUME NEW report \in Reports, Topology(report) PROVE NamesDiffer'
  <2>1. PICK order \in Reordered(report) : owners' = order /\ name' = Named(report, order)
    BY <1>2, Zenon DEF Topology
  <2>2. SUFFICES ASSUME NEW m \in ToSet(order), NEW n \in ToSet(order),
                        name'[m] = name'[n], name'[m] # Unnamed
                 PROVE  m = n
    BY <2>1 DEF NamesDiffer, Living
  <2>3. DOMAIN order = DOMAIN report
    BY DEF Reordered
  <2>4. PICK i \in DOMAIN report, j \in DOMAIN report : m = order[i] /\ n = order[j]
    BY <2>3, InToSet
  <2>5. report[i] = name'[m] /\ report[j] = name'[n]
    BY <2>1, <2>4, NamedByReport
  <2> QED BY <2>2, <2>4, <2>5, MonitorsAssumption
<1> QED BY <1>1, <1>2 DEF MonitorsNext, Handle, allvars

LEMMA NamesAlwaysDiffer == MonitorsSpec => []NamesDiffer
<1>1. ASSUME MonitorsInit PROVE NamesDiffer
  <2>1. PICK report \in Reports :
          /\ owners = [i \in DOMAIN report |-> i]
          /\ name = [m \in Monitors |-> IF m \in DOMAIN report THEN report[m] ELSE Unnamed]
    BY <1>1 DEF MonitorsInit
  <2>2. ASSUME NEW m \in Living PROVE m \in DOMAIN report /\ m \in Monitors
    <3>1. m \in DOMAIN report
      BY <2>1, <2>2, InToSet DEF Living
    <3>2. report \in Seq(Outputs \cup {Unnamed}) /\ Len(report) <= NumMonitors
      BY MonitorsAssumption
    <3> QED BY <3>1, <3>2, ConstantsAssumption DEF Monitors
  <2> QED BY <2>1, <2>2, MonitorsAssumption DEF NamesDiffer
<1> QED BY <1>1, NamesStayDifferent, MonitorsInvAlways, PTL DEF MonitorsSpec

\* What the new list of outputs leaves of a monitor that stays.
WorldKept(s, t, m) ==
    /\ t.active[m] = s.active[m] /\ t.overlay[m] = s.overlay[m]
    /\ \A c \in Clients : s.mon[c] = m => t.mon[c] = m

LEMMA StayersKept ==
    ASSUME NEW s, Good(s), NEW gone, gone \subseteq Monitors,
           NEW keep, keep \subseteq Monitors, gone \cap keep = {},
           NEW lost, lost = {c \in Clients : s.mon[c] \in gone},
           NEW to \in [lost -> keep], NEW arrivals \in Arrivals(to, keep),
           NEW m \in keep, NEW n \in keep
    PROVE  WorldKept(s, Focus([TornDown(Rehomed(s, gone, to, arrivals), gone) EXCEPT !.cur = m],
                         NoClient), n)
<1> DEFINE rehomed == Rehomed(s, gone, to, arrivals)
           torn == TornDown(rehomed, gone)
           at == [torn EXCEPT !.cur = m]
           t == Focus(at, NoClient)
<1>1. Good(rehomed) /\ rehomed.mon = Moved(s, lost, to)
  <2>1. PICK u : u = rehomed
    OBVIOUS
  <2> HIDE DEF rehomed
  <2>2. Good(u)
    BY <2>1, RehomedGood, Zenon DEF rehomed
  <2>3. u.mon = Moved(s, lost, to)
    BY ONLY Good(s), gone \subseteq Monitors, keep \subseteq Monitors, gone \cap keep = {},
            lost = {c \in Clients : s.mon[c] \in gone}, to \in [lost -> keep],
            arrivals \in Arrivals(to, keep), <2>1, RehomedGood, SMTT(60) DEF rehomed
  <2> QED BY <2>1, <2>2, <2>3
<1>2. rehomed.active = s.active /\ rehomed.overlay = s.overlay
  BY DEF Rehomed, Good, StateSet
<1> HIDE DEF rehomed
<1>3. Good(torn) /\ torn.mon = rehomed.mon
  BY <1>1, TornDownKeeps DEF Keeps
<1>4. torn.active[n] = rehomed.active[n] /\ torn.overlay[n] = rehomed.overlay[n]
  BY <1>1 DEF TornDown, Good, StateSet
<1> HIDE DEF torn
<1>5. Good(at) /\ at.mon = torn.mon /\ at.active = torn.active /\ at.overlay = torn.overlay
  <2>1. Good(at)
    BY <1>3, Selected DEF Keeps
  <2> QED BY <1>3, <2>1 DEF Good, StateSet
<1> HIDE DEF at
<1>6. t.mon = at.mon /\ t.active = at.active /\ t.overlay = at.overlay
  BY <1>5, FocusKeepsView DEF SameView
<1> HIDE DEF t
<1>7. \A c \in Clients : s.mon[c] = n => Moved(s, lost, to)[c] = n
  BY DEF Moved
<1>8. WorldKept(s, t, n)
  BY <1>1, <1>2, <1>3, <1>4, <1>5, <1>6, <1>7 DEF WorldKept
<1> QED BY <1>8 DEF t, at, torn, rehomed

-----------------------------------------------------------------------------
(* The theorems.                                                           *)

\* Whatever outputs appear, disappear and change places between and during the
\* commands of the user, the selected monitor exists, every managed window is on one
\* that exists, and no list of a monitor that is gone names a window (updategeom).
THEOREM WindowsHaveMonitors == MonitorsSpec => []HomesLive
<1>1. MonitorsInv => HomesLive
  <2> SUFFICES ASSUME MonitorsInv PROVE HomesLive
    OBVIOUS
  <2>1. /\ owners # <<>> /\ IsInjective(owners)
        /\ Living \subseteq Monitors /\ cur \in Living
        /\ \A c \in Clients : Managed(State, c) => mon[c] \in Living
    BY LivingMonitors DEF MonitorsInv
  <2>2. ASSUME NEW m \in Monitors \ Living PROVE stack[m] = <<>> /\ sel[m] = NoClient
    <3>1. /\ stack[m] \in Seq(Clients)
          /\ ToSet(stack[m]) = {c \in Clients : mon[c] = m}
          /\ sel[m] \in Clients \cup {NoClient}
          /\ sel[m] # NoClient => mon[sel[m]] = m
      BY DEF MonitorsInv, IInv, Good, StateSet, ClientListsOf, State
    <3>2. \A c \in Clients : mon[c] # m
      BY <2>1, NoMonitorApart DEF Managed, State
    <3>3. ToSet(stack[m]) = {}
      BY <3>1, <3>2
    <3>4. stack[m] = <<>>
      BY <3>1, <3>3, Emptied
    <3> QED BY <3>1, <3>2, <3>4
  <2> QED BY <2>1, <2>2 DEF HomesLive
<1> QED BY <1>1, MonitorsInvAlways, PTL

\* The focus stacks, the monitors of the clients and the selections describe the same
\* clients while monitors are freed, made and reordered (rehome_clients_from_monitor).
THEOREM ListsAgreeAcrossOutputs == MonitorsSpec => []ClientLists
<1>1. MonitorsInv => ClientLists
  BY DEF MonitorsInv, IInv, Good, ClientLists
<1> QED BY <1>1, MonitorsInvAlways, PTL

\* The keyboard stays on the selection of the selected monitor when that monitor goes.
THEOREM KeyboardSurvivesOutputs == MonitorsSpec => []InputIsSelection
<1>1. MonitorsInv /\ InputIsSelection => InputIsSelection
  OBVIOUS
<1> QED BY <1>1, MonitorsInvAlways, PTL

\* An output that stays connected keeps its monitor, what that shows and all its windows,
\* whatever other outputs do, as long as RandR names every output.
THEOREM OutputsKeepTheirWorld == MonitorsSpec => OutputKeepsItsWorld
<1> DEFINE StaysAs(m) == \A n \in ToSet(owners') : name'[n] = name[m] => n = m /\ WorldKept(State, State', m)
           AllNamed == \A m \in ToSet(owners') : name'[m] # Unnamed
           Body == (owners' # owners \/ name' # name) /\ AllNamed => \A m \in Living : StaysAs(m)
<1>1. ASSUME MonitorsInv, NamesDiffer, [MonitorsNext]_allvars, ~UNCHANGED allvars PROVE Body
  <2>1. SUFFICES ASSUME owners' # owners \/ name' # name, AllNamed PROVE \A m \in Living : StaysAs(m)
    OBVIOUS
  <2>2. PICK report \in Reports : Topology(report)
    BY <1>1, <2>1 DEF MonitorsNext, Handle
  <2>3. PICK order \in Reordered(report) :
          LET keep == ToSet(order)
              gone == Living \ keep
              lost == {c \in Clients : mon[c] \in gone}
          IN  /\ owners' = order /\ name' = Named(report, order)
              /\ \E to \in [lost -> keep], m \in keep :
                 \E arrivals \in Arrivals(to, keep) :
                    Step(Focus([TornDown(Rehomed(State, gone, to, arrivals), gone)
                                    EXCEPT !.cur = m], NoClient))
    BY <2>1, <2>2, Zenon DEF Topology
  <2> DEFINE keep == ToSet(order)
             gone == Living \ keep
             lost == {c \in Clients : mon[c] \in gone}
  <2>4. PICK to \in [lost -> keep], m0 \in keep : \E arrivals \in Arrivals(to, keep) :
           Step(Focus([TornDown(Rehomed(State, gone, to, arrivals), gone)
                           EXCEPT !.cur = m0], NoClient))
    BY <2>3, Zenon
  <2>5. PICK arrivals \in Arrivals(to, keep) :
           Step(Focus([TornDown(Rehomed(State, gone, to, arrivals), gone)
                           EXCEPT !.cur = m0], NoClient))
    BY <2>4, Zenon
  <2>6. /\ Good(State) /\ Living \subseteq Monitors /\ keep \subseteq Monitors
        /\ lost = {c \in Clients : State.mon[c] \in gone}
        /\ DOMAIN order = DOMAIN report
    BY <1>1, CurrentState, LivingMonitors, OrderType DEF MonitorsInv, Reordered
  <2>7. \A i \in DOMAIN report : report[i] # Unnamed
    BY <2>1, <2>3, NamedByReport
  <2>8. ASSUME NEW m \in Living, NEW n \in keep, name'[n] = name[m]
        PROVE  n = m /\ WorldKept(State, State', m)
    <3>1. PICK i \in DOMAIN report : order[i] = n
      BY <2>6, <2>8, InToSet
    <3>2. report[i] = name[m]
      BY <2>3, <2>8, <3>1, NamedByReport
    <3>3. n = m
      BY <1>1, <2>7, <3>1, <3>2, TakesItsOwn
    <3>4. gone \subseteq Monitors /\ gone \cap keep = {} /\ m \in keep
      BY <2>6, <2>8, <3>3
    <3>5. PICK t : t = Focus([TornDown(Rehomed(State, gone, to, arrivals), gone)
                                EXCEPT !.cur = m0], NoClient)
      OBVIOUS
    <3>6. WorldKept(State, t, m)
      <4> HIDE DEF keep, gone, lost
      <4> QED BY <2>4, <2>5, <2>6, <3>4, <3>5, StayersKept, Zenon
    <3>7. Become(t)
      BY <2>5, <3>5 DEF Step
    <3>8. State'.active = t.active /\ State'.overlay = t.overlay /\ State'.mon = t.mon
      BY <3>7 DEF Become, State
    <3> QED BY <3>3, <3>6, <3>8 DEF WorldKept
  <2> QED BY <2>3, <2>8
<1>2. MonitorsInv /\ NamesDiffer /\ [MonitorsNext]_allvars
        => [(owners' # owners \/ name' # name) /\ (\A m \in ToSet(owners') : name'[m] # Unnamed) =>
              \A m \in Living, n \in ToSet(owners') : name'[n] = name[m] =>
                 /\ n = m
                 /\ active'[m] = active[m] /\ overlay'[m] = overlay[m]
                 /\ \A c \in Clients : mon[c] = m => mon'[c] = m]_allvars
  BY <1>1 DEF WorldKept, State
<1> QED BY <1>2, MonitorsInvAlways, NamesAlwaysDiffer, PTL DEF MonitorsSpec, OutputKeepsItsWorld
=============================================================================
