----------------------------- MODULE FocusProofs -----------------------------
(***************************************************************************)
(* Proofs about the keyboard in WorkspaceView: on any number of monitors,  *)
(* with any clients and any configuration, X input is on the selection of  *)
(* the selected monitor or on no client at all; with one monitor the       *)
(* client that has it is visible, and some client has it if any could.     *)
(* Then the action properties: what a step does to overlays, hooks, view   *)
(* and selection, from what it does to who is where (OneMoves).            *)
(***************************************************************************)
EXTENDS WorkspaceViewProofs

\* InputIsSelection of a state record.
Points(s) == s.input # NoClient => s.input = s.sel[s.cur]

\* What focus() returned, whatever the arguments.
Focused(t) == \E s, c : Good(s) /\ t = Focus(s, c)

-----------------------------------------------------------------------------
(* The helpers.                                                            *)

LEMMA FocusedPoints ==
    ASSUME NEW t, Focused(t)
    PROVE  Points(t)
<1>1. PICK s, c : Good(s) /\ t = Focus(s, c)
  BY DEF Focused
<1> DEFINE E == {e \in Clients : Focusable(s, e)}
           d == IF Focusable(s, c) THEN c ELSE Newest(s.stack[s.cur], E)
           m == s.mon[d]
<1>2. /\ s.cur \in Monitors
      /\ s.stack[s.cur] \in Seq(Clients)
      /\ s.mon \in [Clients -> Monitors \cup {NoMonitor}]
  BY <1>1 DEF Good, StateSet
<1>3. d = NoClient \/ (d \in Clients /\ Focusable(s, d))
  <2>1. CASE Focusable(s, c)
    BY <2>1 DEF Focusable, Visible, Managed
  <2>2. CASE ~Focusable(s, c)
    BY <1>2, <2>2, NewestInStack
  <2> QED BY <2>1, <2>2
<1> HIDE DEF d
<1>4. CASE d = NoClient
  <2>1. t = [s EXCEPT !.sel[s.cur] = NoClient, !.input = NoClient]
    BY <1>1, <1>4 DEF Focus, d
  <2>2. t.input = NoClient
    BY <1>1, <2>1 DEF Good, StateSet
  <2> QED BY <2>2 DEF Points
<1>5. CASE d # NoClient
  <2> DEFINE f == ToFront(s, m, d)
  <2>1. d \in Clients /\ m \in Monitors
    BY <1>2, <1>3, <1>5 DEF Focusable, Visible, Managed
  <2>2. t = [f EXCEPT !.cur = m, !.sel[m] = d, !.input = d, !.urgent = @ \ {d}]
    BY <1>1, <1>5 DEF Focus, d
  <2>3. f \in StateSet
    BY <1>1, <2>1, ToFrontKeeps DEF Keeps, Good
  <2> HIDE DEF f
  <2>4. t.input = d /\ t.cur = m /\ t.sel = [f.sel EXCEPT ![m] = d]
        /\ f.sel \in [Monitors -> Clients \cup {NoClient}]
    BY <2>1, <2>2, <2>3 DEF StateSet
  <2> QED BY <2>1, <2>4 DEF Points
<1> QED BY <1>4, <1>5

\* focus() leaves what decides about visibility alone.
LEMMA FocusLeaves ==
    ASSUME NEW s, Good(s), NEW c
    PROVE  /\ Focus(s, c).ws = s.ws
           /\ Focus(s, c).overlay = s.overlay
           /\ Focus(s, c).ruleSilent = s.ruleSilent
<1> DEFINE E == {e \in Clients : Focusable(s, e)}
           d == IF Focusable(s, c) THEN c ELSE Newest(s.stack[s.cur], E)
           m == s.mon[d]
           f == [s EXCEPT !.stack[m] = <<d>> \o RemoveFirst(@, d)]
<1>1. \/ Focus(s, c) = [s EXCEPT !.sel[s.cur] = NoClient, !.input = NoClient]
      \/ Focus(s, c) = [f EXCEPT !.cur = m, !.sel[m] = d, !.input = d, !.urgent = @ \ {d}]
  BY DEF Focus, ToFront
<1> HIDE DEF d, m
<1> QED BY <1>1 DEF Good, StateSet

\* A helper that changes neither input nor the selections.
LEMMA PointsFramed ==
    ASSUME NEW s, Points(s), NEW t, t.input = s.input, t.sel = s.sel, t.cur = s.cur
    PROVE  Points(t)
BY DEF Points

LEMMA HookPoints ==
    ASSUME NEW s, Good(s), Points(s), NEW w
    PROVE  /\ Points(ClientJoined(s, w)) /\ Points(ClientLeft(s, w))
           /\ Points(SpawnIfEmpty(s, w))
<1>1. ASSUME NEW A PROVE Points([s EXCEPT !.armed = A])
  BY PointsFramed DEF Good, StateSet
<1>2. Points(ClientJoined(s, w))
  BY <1>1 DEF ClientJoined
<1>3. Points(ClientLeft(s, w))
  BY <1>1 DEF ClientLeft
<1>4. Points(SpawnIfEmpty(s, w))
  BY <1>1 DEF SpawnIfEmpty
<1> QED BY <1>2, <1>3, <1>4

LEMMA OverlayPoints ==
    ASSUME NEW s, Good(s), Points(s), NEW m, NEW t
    PROVE  Points([s EXCEPT !.overlay[m] = t])
BY PointsFramed DEF Good, StateSet

LEMMA AutohidePoints ==
    ASSUME NEW s, Good(s), Points(s), NEW m
    PROVE  Points(CloseOverlay(s, m)) /\ Points(Autohide(s, m))
BY OverlayPoints DEF CloseOverlay, Autohide

LEMMA FocusOnFocused ==
    ASSUME NEW s, Good(s), NEW m \in Monitors, NEW c
    PROVE  Focused(Focus([s EXCEPT !.cur = m], c))
<1>1. Good([s EXCEPT !.cur = m])
  BY Selected DEF Keeps
<1> QED BY <1>1 DEF Focused

LEMMA OverlayFocusPoints ==
    ASSUME NEW s, Good(s), Points(s), NEW m \in Monitors, NEW ptr
    PROVE  Points(FocusFirstOverlay(s, m, ptr))
<1>1. \A c : Points(Focus([s EXCEPT !.cur = m], c))
  BY FocusOnFocused, FocusedPoints
<1> QED BY <1>1 DEF FocusFirstOverlay

LEMMA HiddenFocused ==
    ASSUME NEW s, Good(s), NEW m \in Monitors, NEW ptr
    PROVE  Focused(FocusAfterHidden(s, m, ptr))
BY FocusOnFocused DEF FocusAfterHidden

LEMMA EnsureOverlayPoints ==
    ASSUME NEW s, Good(s), Points(s), NEW m \in Monitors, NEW t \in Tags, NEW ptr
    PROVE  Points(EnsureOverlay(s, m, t, ptr))
<1> DEFINE u == [s EXCEPT !.overlay[m] = t]
<1>1. Good(u) /\ Points(u)
  BY OverlayKeeps, OverlayPoints DEF Keeps
<1> HIDE DEF u
<1> QED BY <1>1, OverlayFocusPoints DEF EnsureOverlay, u

\* An overlay that is opened shows its tag.
LEMMA EnsureOverlayShows ==
    ASSUME NEW s, Good(s), NEW m \in Monitors, NEW t \in Tags, NEW ptr
    PROVE  LET u == EnsureOverlay(s, m, t, ptr)
           IN  u.overlay[m] = t /\ u.ws = s.ws /\ u.ruleSilent = s.ruleSilent
<1> DEFINE v == [s EXCEPT !.overlay[m] = t]
           u == EnsureOverlay(s, m, t, ptr)
<1>1. Good(v)
  BY OverlayKeeps DEF Keeps
<1>2. v.overlay[m] = t /\ v.ws = s.ws /\ v.ruleSilent = s.ruleSilent
  BY DEF Good, StateSet
<1>3. u = v \/ \E c : u = Focus([v EXCEPT !.cur = m], c)
  BY DEF EnsureOverlay, FocusFirstOverlay
<1> HIDE DEF u, v
<1>4. CASE u = v
  BY <1>2, <1>4 DEF u
<1>5. CASE \E c : u = Focus([v EXCEPT !.cur = m], c)
  <2> DEFINE x == [v EXCEPT !.cur = m]
  <2>1. Good(x)
    BY <1>1, Selected DEF Keeps
  <2>2. x.overlay = v.overlay /\ x.ws = v.ws /\ x.ruleSilent = v.ruleSilent
    BY <1>1 DEF Good, StateSet
  <2>3. PICK c : u = Focus(x, c)
    BY <1>5
  <2> HIDE DEF x
  <2>4. u.overlay = x.overlay /\ u.ws = x.ws /\ u.ruleSilent = x.ruleSilent
    BY <2>1, <2>3, FocusLeaves
  <2> QED BY <1>2, <2>2, <2>4 DEF u
<1> QED BY <1>3, <1>4, <1>5

LEMMA ShowNormalPoints ==
    ASSUME NEW s, Good(s), NEW w \in NormalIds, NEW ptr
    PROVE  Points(ShowNormal(s, w, ptr))
<1> DEFINE m == TargetMonitor(s, w)
           closed == CloseOverlay(s, m)
           shown == [closed EXCEPT !.cur = m, !.active[m] = w]
           focused == Focus(shown, NoClient)
           followed == FollowPointer(focused, ptr)
<1>0. m \in Monitors
  BY TargetMonitorType
<1> HIDE DEF m
<1>1. Good(closed)
  BY <1>0, AutohideKeeps DEF Keeps
<1> HIDE DEF closed
<1>2. Good(shown)
  BY <1>0, <1>1, ActiveKeeps DEF Keeps
<1> HIDE DEF shown
<1>3. Good(focused) /\ Focused(focused)
  BY <1>2, FocusKeeps DEF Keeps, Focused
<1> HIDE DEF focused
<1>4. Good(followed) /\ Points(followed)
  <2>1. followed = focused \/ followed = Focus(focused, ptr)
    BY DEF FollowPointer
  <2>2. Good(Focus(focused, ptr)) /\ Focused(Focus(focused, ptr))
    BY <1>3, FocusKeeps DEF Keeps, Focused
  <2> QED BY <1>3, <2>1, <2>2, FocusedPoints
<1> HIDE DEF followed
<1>5. Points(SpawnIfEmpty(followed, w))
  BY <1>4, HookPoints
<1> QED BY <1>5 DEF ShowNormal, followed, focused, shown, closed, m

LEMMA ViewNormalPoints ==
    ASSUME NEW s, Good(s), Points(s), NEW w \in NormalIds, NEW ptr
    PROVE  Points(ViewNormal(s, w, ptr))
BY ShowNormalPoints DEF ViewNormal

\* view_special_workspace, on the selected monitor.
LEMMA ToggleOverlayPoints ==
    ASSUME NEW s, Good(s), Points(s), NEW t \in Tags, NEW ptr
    PROVE  Points(ToggleOverlay(s, s.cur, t, ptr))
<1> DEFINE m == s.cur
           at == [s EXCEPT !.cur = m]
           closed == CloseOverlay(s, m)
<1>1. m \in Monitors
  BY DEF Good, StateSet
<1>2. Good(at) /\ Points(at)
  <2>1. Good(at)
    BY <1>1, Selected DEF Keeps
  <2>2. at.input = s.input /\ at.sel = s.sel /\ at.cur = s.cur
    BY DEF Good, StateSet
  <2> QED BY <2>1, <2>2, PointsFramed
<1>3. Good(closed)
  BY <1>1, AutohideKeeps DEF Keeps
<1>4. \/ ToggleOverlay(s, m, t, ptr) = EnsureOverlay(at, m, t, ptr)
      \/ ToggleOverlay(s, m, t, ptr) = FocusAfterHidden(closed, m, ptr)
      \/ ToggleOverlay(s, m, t, ptr) = FocusFirstOverlay(s, m, ptr)
  BY DEF ToggleOverlay
<1> HIDE DEF at, closed
<1>5. Points(EnsureOverlay(at, m, t, ptr))
  BY <1>1, <1>2, EnsureOverlayPoints
<1>6. Points(FocusAfterHidden(closed, m, ptr))
  BY <1>1, <1>3, HiddenFocused, FocusedPoints
<1>7. Points(FocusFirstOverlay(s, m, ptr))
  BY <1>1, OverlayFocusPoints
<1> QED BY <1>4, <1>5, <1>6, <1>7

\* movetoworkspace_ref: every way out of it ends in a call of focus().
LEMMA MoveToWorkspacePoints ==
    ASSUME NEW s, Good(s), Points(s), s.sel[s.cur] # NoClient,
           NEW ref \in Workspaces, NEW silent \in BOOLEAN, NEW ptr
    PROVE  Points(MoveToWorkspace(s, ref, silent, ptr))
<1> DEFINE m == s.cur
           c == s.sel[m]
           moved == [s EXCEPT !.ws[c] = ref]
           hidden == Autohide(moved, m)
           emptied == ClientLeft(hidden, s.ws[c])
           left == ClientJoined(emptied, ref)
           viewed == ViewAfterMove(left, ref, silent, ptr)
<1>1. m \in Monitors /\ c \in Clients
  BY DEF Good, StateSet
<1>2. Good(moved) /\ Points(moved)
  <2>1. Good(moved)
    BY <1>1, WorkspaceKeeps DEF Keeps
  <2>2. moved.input = s.input /\ moved.sel = s.sel /\ moved.cur = s.cur
    BY DEF Good, StateSet
  <2> HIDE DEF moved
  <2> QED BY <2>1, <2>2, PointsFramed
<1> HIDE DEF moved
<1>3. Good(hidden) /\ Points(hidden)
  BY <1>1, <1>2, AutohideKeeps, AutohidePoints DEF Keeps
<1> HIDE DEF hidden
<1>4. Good(emptied) /\ Points(emptied)
  BY <1>3, HookKeeps, HookPoints DEF Keeps
<1> HIDE DEF emptied
<1>5. Good(left) /\ Points(left)
  BY <1>4, HookKeeps, HookPoints DEF Keeps
<1> HIDE DEF left
<1>6. ASSUME NEW t, Good(t), silent \/ ref \in NormalIds
      PROVE  Good(ViewAfterMove(t, ref, silent, ptr))
             /\ Points(ViewAfterMove(t, ref, silent, ptr))
  <2>1. Good(Focus(t, NoClient)) /\ Points(Focus(t, NoClient))
    BY <1>6, FocusKeeps, FocusedPoints DEF Keeps, Focused
  <2>2. ref \in NormalIds => Good(ShowNormal(t, ref, ptr)) /\ Points(ShowNormal(t, ref, ptr))
    BY <1>6, ShowNormalKeeps, ShowNormalPoints DEF Keeps
  <2> QED BY <1>6, <2>1, <2>2 DEF ViewAfterMove
<1>7. CASE ref \in Tags /\ ~silent
  <2>1. MoveToWorkspace(s, ref, silent, ptr)
          = EnsureOverlay(IF s.ws[c] = ref THEN s ELSE left, m, ref, ptr)
    <3>1. ~(ref \in NormalIds \/ silent)
      BY <1>7, ConstantsAssumption
    <3> QED BY <1>7, <3>1 DEF MoveToWorkspace, left, emptied, hidden, moved
  <2>2. ASSUME NEW t, Good(t), Points(t) PROVE Points(EnsureOverlay(t, m, ref, ptr))
    BY <1>1, <1>7, <2>2, EnsureOverlayPoints
  <2> QED BY <1>5, <2>1, <2>2
<1>8. CASE silent \/ ref \in NormalIds
  <2>1. ~(ref \in Tags /\ ~silent)
    BY <1>8, ConstantsAssumption
  <2>2. CASE s.ws[c] = ref
    <3>1. MoveToWorkspace(s, ref, silent, ptr) = ViewAfterMove(s, ref, silent, ptr)
      BY <1>8, <2>1, <2>2 DEF MoveToWorkspace
    <3> QED BY <1>6, <1>8, <3>1
  <2>3. CASE s.ws[c] # ref
    <3>1. MoveToWorkspace(s, ref, silent, ptr)
            = IF Autohides(moved, m) THEN FocusAfterHidden(viewed, m, ptr) ELSE viewed
      BY <2>1, <2>3 DEF MoveToWorkspace, left, emptied, hidden, moved
    <3>2. Good(viewed) /\ Points(viewed)
      BY <1>5, <1>6, <1>8
    <3> HIDE DEF viewed
    <3>3. Points(FocusAfterHidden(viewed, m, ptr))
      BY <1>1, <3>2, HiddenFocused, FocusedPoints
    <3> QED BY <3>1, <3>2, <3>3
  <2> QED BY <2>2, <2>3
<1> QED BY <1>7, <1>8 DEF Workspaces

\* sendmon returns early or ends in focus().
LEMMA SendMonPoints ==
    ASSUME NEW s, Good(s), Points(s), NEW c \in Clients, s.mon[c] \in Monitors,
           NEW m \in Monitors, NEW ptr
    PROVE  Points(SendMon(s, c, m, ptr))
<1> DEFINE src == s.mon[c]
           gone == Unlink(s, c)
           linked == [gone EXCEPT !.mon[c] = m, !.ws[c] = s.active[m],
                                  !.stack[m] = <<c>> \o @]
           there == [gone EXCEPT !.mon[c] = m, !.ws[c] = s.active[m],
                                 !.stack[m] = <<c>> \o @, !.input = NoClient]
           hidden == Autohide(there, src)
           settled == Focus(hidden, NoClient)
<1>1. Good(gone) /\ gone.mon[c] = NoMonitor
  <2>1. Good(gone) /\ gone.mon = [s.mon EXCEPT ![c] = NoMonitor]
    BY UnlinkGood
  <2>2. s.mon \in [Clients -> Monitors \cup {NoMonitor}]
    BY DEF Good, StateSet
  <2> HIDE DEF gone
  <2> QED BY <2>1, <2>2
<1>2. s.active[m] \in Workspaces
  BY DEF Good, StateSet, Workspaces
<1> HIDE DEF gone
<1>3. Good(linked)
  BY <1>1, <1>2, LinkGood
<1>4. there = [linked EXCEPT !.input = NoClient]
  BY <1>1 DEF Good, StateSet
<1> HIDE DEF linked, there
<1>5. Good(there)
  <2>1. there \in StateSet
    BY <1>3, <1>4 DEF Good, StateSet
  <2>2. there.mon = linked.mon /\ there.stack = linked.stack /\ there.sel = linked.sel
    BY <1>3, <1>4 DEF Good, StateSet
  <2> QED BY <1>3, <2>1, <2>2, Framed DEF Keeps
<1>6. Good(hidden)
  BY <1>5, AutohideKeeps DEF Keeps
<1> HIDE DEF hidden
<1>7. Good(settled) /\ Points(settled)
  BY <1>6, FocusKeeps, FocusedPoints DEF Keeps, Focused
<1> HIDE DEF settled
<1>8. Points(FocusAfterHidden(settled, src, ptr))
  BY <1>7, HiddenFocused, FocusedPoints
<1>9. \/ SendMon(s, c, m, ptr) = s
      \/ SendMon(s, c, m, ptr) = FocusAfterHidden(settled, src, ptr)
      \/ SendMon(s, c, m, ptr) = settled
  BY DEF SendMon, settled, hidden, there, gone
<1> QED BY <1>7, <1>8, <1>9

\* release_client always ends in focus(), which is what takes the input off the
\* client released.
LEMMA ReleasePoints ==
    ASSUME NEW s, Good(s), NEW c \in Clients, s.mon[c] \in Monitors,
           NEW fallback, NEW ptr
    PROVE  Points(Release(s, c, fallback, ptr))
<1> DEFINE m == s.mon[c]
           unlinked == Unlink(s, c)
           out == [unlinked EXCEPT !.ws[c] = NoWorkspace]
           gone == [unlinked EXCEPT !.ws[c] = NoWorkspace,
                                    !.neverfocus = @ \ {c}, !.urgent = @ \ {c},
                                    !.ruleSilent = @ \ {c}]
           hidden == Autohide(gone, m)
           left == ClientLeft(hidden, s.ws[c])
           settled == Focus(left, fallback)
<1>1. Good(unlinked)
  BY UnlinkGood
<1> HIDE DEF unlinked
<1>2. Good(out)
  BY <1>1, WorkspaceKeeps DEF Keeps
<1>3. gone = [out EXCEPT !.neverfocus = @ \ {c}, !.urgent = @ \ {c},
                         !.ruleSilent = @ \ {c}]
  BY <1>1 DEF Good, StateSet
<1> HIDE DEF out, gone
<1>4. Good(gone)
  <2>1. gone \in StateSet
    BY <1>2, <1>3 DEF Good, StateSet
  <2>2. gone.mon = out.mon /\ gone.stack = out.stack /\ gone.sel = out.sel
    BY <1>2, <1>3 DEF Good, StateSet
  <2> QED BY <1>2, <2>1, <2>2, Framed DEF Keeps
<1>5. Good(left)
  <2>1. Good(hidden)
    BY <1>4, AutohideKeeps DEF Keeps
  <2> HIDE DEF hidden
  <2> QED BY <2>1, HookKeeps DEF Keeps
<1> HIDE DEF left
<1>6. Good(settled) /\ Points(settled)
  BY <1>5, FocusKeeps, FocusedPoints DEF Keeps, Focused
<1> HIDE DEF settled
<1>7. Points(FocusAfterHidden(settled, m, ptr))
  BY <1>6, HiddenFocused, FocusedPoints
<1>8. Release(s, c, fallback, ptr)
        = IF Autohides(gone, m) THEN FocusAfterHidden(settled, m, ptr) ELSE settled
  BY DEF Release, settled, left, hidden, gone, unlinked
<1> QED BY <1>6, <1>7, <1>8

-----------------------------------------------------------------------------
(* Managing a new window.  adopt_client may select the client before it is *)
(* mapped, so the input lags behind the selection until map_window's       *)
(* focus(): Pending is what makes that call certain.                       *)

Pending(r, c) ==
    /\ ~(c \in r.ruleSilent /\ r.ws[c] \in Tags)
    /\ ~UnderOverlay(r, c)

\* The selection of a monitor is the client it is given or the one it had.
LEMMA MaybeSelectPoints ==
    ASSUME NEW s, Good(s), Points(s), NEW c \in Clients,
           ~(c \in s.ruleSilent /\ s.ws[c] \in Tags)
    PROVE  LET r == MaybeSelect(s, c) IN Points(r) \/ Pending(r, c)
<1> DEFINE r == [s EXCEPT !.sel[s.mon[c]] = c]
<1>1. CASE Focusable(s, c) /\ ~UnderOverlay(s, c)
  <2>1. /\ r.ruleSilent = s.ruleSilent /\ r.ws = s.ws
        /\ r.mon = s.mon /\ r.overlay = s.overlay
    BY DEF Good, StateSet
  <2>2. MaybeSelect(s, c) = r
    BY <1>1 DEF MaybeSelect
  <2> HIDE DEF r
  <2> QED BY <1>1, <2>1, <2>2 DEF Pending, UnderOverlay
<1>2. CASE ~(Focusable(s, c) /\ ~UnderOverlay(s, c))
  BY <1>2 DEF MaybeSelect
<1> QED BY <1>1, <1>2

LEMMA LinkedPoints ==
    ASSUME NEW s, Good(s), Points(s), NEW c \in Clients,
           NEW m \in Monitors, NEW w,
           NEW transient, NEW quiet, NEW refuses, NEW wantsAttention
    PROVE  Points(Linked(s, c, m, w, transient, quiet, refuses, wantsAttention))
<1> DEFINE modal == WindowType[c] = "dialog" \/ (transient /\ WindowType[c] # "splash")
           closed == IF w \in NormalIds /\ modal THEN CloseOverlay(s, m) ELSE s
           joined == IF c \in Docks THEN closed ELSE ClientJoined(closed, w)
           u == Linked(s, c, m, w, transient, quiet, refuses, wantsAttention)
<1>1. Good(closed) /\ Points(closed)
  BY AutohideKeeps, AutohidePoints DEF Keeps
<1> HIDE DEF closed
<1>2. Good(joined) /\ Points(joined)
  BY <1>1, HookKeeps, HookPoints DEF Keeps
<1>3. u = [joined EXCEPT !.mon[c] = m, !.ws[c] = w, !.stack[m] = <<c>> \o @,
             !.neverfocus = IF refuses THEN @ \cup {c} ELSE @,
             !.urgent = IF wantsAttention THEN @ \cup {c} ELSE @,
             !.ruleSilent = IF quiet THEN @ \cup {c} ELSE @]
  BY DEF Linked, joined, closed
<1> HIDE DEF joined
<1>4. u.input = joined.input /\ u.sel = joined.sel /\ u.cur = joined.cur
  BY <1>2, <1>3 DEF Good, StateSet
<1> HIDE DEF u
<1>5. Points(u)
  BY <1>2, <1>4, PointsFramed
<1> QED BY <1>5 DEF u

LEMMA RevealedPoints ==
    ASSUME NEW s, Good(s), Points(s), NEW c \in Clients, s.mon[c] \in Monitors,
           NEW byRule, NEW ptr
    PROVE  LET r == Revealed(s, c, byRule, ptr) IN Points(r) \/ Pending(r, c)
<1> DEFINE w == s.ws[c]
           hush == c \in s.ruleSilent /\ w \in Tags
           e == EnsureOverlay(s, s.mon[c], w, ptr)
           r == Revealed(s, c, byRule, ptr)
<1>1. CASE w \in Tags /\ c \notin Docks
  <2>1. r = s \/ (~hush /\ r = MaybeSelect(e, c))
    <3>1. w \notin NormalIds
      BY <1>1, ConstantsAssumption
    <3> QED BY <1>1, <3>1 DEF Revealed
  <2>2. Good(e) /\ Points(e) /\ e.ws = s.ws /\ e.ruleSilent = s.ruleSilent
    BY <1>1, EnsureOverlayKeeps, EnsureOverlayPoints, EnsureOverlayShows DEF Keeps
  <2> HIDE DEF e
  <2>3. ~hush => Points(MaybeSelect(e, c)) \/ Pending(MaybeSelect(e, c), c)
    BY <2>2, MaybeSelectPoints
  <2> QED BY <2>1, <2>3
<1>2. CASE ~(w \in Tags /\ c \notin Docks)
  <2>1. \/ r = s
        \/ w \in NormalIds /\ r = ShowNormal(s, w, ptr)
        \/ ~hush /\ r = MaybeSelect(s, c)
    BY <1>2 DEF Revealed
  <2>2. w \in NormalIds => Points(ShowNormal(s, w, ptr))
    BY ShowNormalPoints
  <2>3. ~hush => Points(MaybeSelect(s, c)) \/ Pending(MaybeSelect(s, c), c)
    BY MaybeSelectPoints
  <2> QED BY <2>1, <2>2, <2>3
<1> QED BY <1>1, <1>2

LEMMA MappedPoints ==
    ASSUME NEW r, Good(r), NEW c \in Clients, r.mon[c] \in Monitors,
           Points(r) \/ Pending(r, c), NEW ptr
    PROVE  Points(Mapped(r, c, ptr))
<1> DEFINE w == r.ws[c]
           hush == c \in r.ruleSilent /\ w \in Tags
           shown == IF w \in Tags THEN EnsureOverlay(r, r.mon[c], w, ptr) ELSE r
           d == IF c \in Docks THEN NoClient ELSE c
<1>1. Mapped(r, c, ptr) = IF hush THEN r
                          ELSE IF UnderOverlay(shown, c) THEN shown
                          ELSE Focus(shown, d)
  BY DEF Mapped
<1>2. Good(shown)
  BY EnsureOverlayKeeps DEF Keeps
<1>3. Points(Focus(shown, d))
  <2> HIDE DEF shown, d
  <2> QED BY <1>2, FocusedPoints DEF Focused
<1>4. CASE Points(r)
  <2>1. Points(shown)
    BY <1>4, EnsureOverlayPoints
  <2> QED BY <1>1, <1>3, <1>4, <2>1
<1>5. CASE Pending(r, c)
  <2>1. ~UnderOverlay(shown, c)
    <3>1. CASE w \in Tags
      <4>1. shown.overlay[r.mon[c]] = w /\ shown.ws = r.ws /\ shown.mon = r.mon
        BY <3>1, EnsureOverlayShows, EnsureOverlayKeeps DEF Keeps
      <4> HIDE DEF shown
      <4> QED BY <4>1 DEF UnderOverlay
    <3>2. CASE w \notin Tags
      BY <1>5, <3>2 DEF Pending
    <3> QED BY <3>1, <3>2
  <2>2. ~hush
    BY <1>5 DEF Pending
  <2> QED BY <1>1, <1>3, <2>1, <2>2
<1> QED BY <1>4, <1>5

\* adopt_client as a whole.
LEMMA AdoptPoints ==
    ASSUME NEW s, Good(s), Points(s), NEW c \in Clients, s.mon[c] = NoMonitor,
           NEW parent, NEW rule \in WindowRules,
           NEW refuses, NEW wantsAttention, NEW ptr,
           NEW t, t = Adopt(s, c, parent, rule, refuses, wantsAttention, ptr)
    PROVE  Points(t)
<1> DEFINE m == AssignedMonitor(s, parent, rule)
           w == AssignedWorkspace(s, parent, rule)
           byRule == rule.workspace # NoWorkspace
           linked == Linked(s, c, m, w, parent # NoClient, byRule /\ rule.silent,
                            refuses, wantsAttention)
           unmapped == IF ptr = c THEN NoClient ELSE ptr
           revealed == Revealed(linked, c, byRule, unmapped)
<1>1. m \in Monitors /\ w \in Workspaces \cup {NoWorkspace}
  BY AssignedTypes
<1> HIDE DEF m, w
<1>2. Good(linked) /\ linked.mon = [s.mon EXCEPT ![c] = m] /\ Points(linked)
  BY <1>1, LinkedGood, LinkedPoints
<1> HIDE DEF linked
<1>3. linked.mon[c] \in Monitors
  BY <1>1, <1>2 DEF Good, StateSet
<1>4. Keeps(linked, revealed) /\ (Points(revealed) \/ Pending(revealed, c))
  BY <1>2, <1>3, RevealedKeeps, RevealedPoints
<1> HIDE DEF revealed
<1>5. Points(Mapped(revealed, c, ptr))
  BY <1>3, <1>4, MappedPoints DEF Keeps
<1>6. Adopt(s, c, parent, rule, refuses, wantsAttention, ptr) = Mapped(revealed, c, ptr)
  BY DEF Adopt, revealed, linked, m, w
<1> QED BY <1>5, <1>6

-----------------------------------------------------------------------------
(* The theorem.                                                            *)

\* Installing a record whose input is its selection.
LEMMA Pointed ==
    ASSUME NEW s, Points(s), Become(s)
    PROVE  InputIsSelection'
BY DEF Points, Become, InputIsSelection

\* unfocus(.., 1) takes the input off the selection that is left behind.
LEMMA SwitchToPoints ==
    ASSUME IInv, InputIsSelection, NEW m \in Monitors
    PROVE  Points(SwitchTo(m))
<1> DEFINE i == IF m = cur \/ sel[cur] = NoClient THEN State.input ELSE NoClient
           t == [State EXCEPT !.cur = m, !.input = i]
<1>1. SwitchTo(m) = t
  BY DEF SwitchTo, State
<1>2. /\ t.cur = m /\ t.input = i /\ t.sel = State.sel
      /\ State.sel = sel /\ State.input = input
  BY DEF State
<1> HIDE DEF t
<1> QED BY <1>1, <1>2 DEF Points, InputIsSelection

\* Every handler keeps the input on the selection; one step per action of Next.
LEMMA NextPoints == IInv /\ InputIsSelection /\ [Next]_vars => InputIsSelection'
<1> SUFFICES ASSUME IInv, InputIsSelection, [Next]_vars PROVE InputIsSelection'
  OBVIOUS
<1>0. /\ Good(State) /\ Points(State)
      /\ State.cur = cur /\ cur \in Monitors
      /\ State.mon = mon /\ State.sel = sel /\ State.ws = ws
      /\ sel \in [Monitors -> Clients \cup {NoClient}]
      /\ \A m \in Monitors : sel[m] # NoClient => mon[sel[m]] = m
  <2>1. State.input = input /\ State.sel = sel /\ State.cur = cur
    BY DEF State
  <2> QED BY <2>1, CurrentState DEF InputIsSelection, Points
<1>f. \A s, c : Good(s) => Points(Focus(s, c))
  BY FocusedPoints DEF Focused
<1>m. \A c \in Clients : Managed(State, c) => mon[c] \in Monitors
  BY CurrentState DEF Managed
<1>s. \A m \in Monitors : Good([State EXCEPT !.cur = m])
  BY <1>0, Selected DEF Keeps
<1>p. ASSUME NEW s, Points(s), Step(s) PROVE InputIsSelection'
  BY <1>p, Pointed DEF Step
<1>1. ASSUME NEW c \in Clients, MapRequest(c) PROVE InputIsSelection'
  <2>1. PICK parent \in Maybe \ {c}, rule \in WindowRules,
             refuses \in IF c \in Hinted THEN BOOLEAN ELSE {c \in Docks},
             wantsAttention \in IF c \in Hinted THEN BOOLEAN ELSE {FALSE},
             ptr \in Maybe :
             Step(Adopt(State, c, parent, rule, refuses, wantsAttention, ptr))
    BY <1>1, Zenon DEF MapRequest
  <2>2. ~Managed(State, c)
    BY <1>1, Zenon DEF MapRequest
  <2>3. State.mon[c] = NoMonitor
    BY <2>2 DEF Managed
  <2>4. PICK s : s = Adopt(State, c, parent, rule, refuses, wantsAttention, ptr)
    OBVIOUS
  <2>5. Points(s)
    BY <1>0, <2>3, <2>4, AdoptPoints, Zenon
  <2> QED BY <1>p, <2>1, <2>4, <2>5
<1>2. ASSUME NEW c \in Clients, Unmap(c) PROVE InputIsSelection'
  <2>1. PICK fallback, ptr : Step(Release(State, c, fallback, ptr))
    BY <1>2, Zenon DEF Unmap
  <2>2. State.mon[c] \in Monitors
    BY <1>0, <1>2, <1>m, Zenon DEF Unmap
  <2>3. Points(Release(State, c, fallback, ptr))
    BY <1>0, <2>2, ReleasePoints
  <2> QED BY <1>p, <2>1, <2>3
<1>3. ASSUME NEW w \in NormalIds, View(w) PROVE InputIsSelection'
  <2>1. PICK ptr : Step(ShowNormal(State, w, ptr))
    BY <1>3, Zenon DEF View
  <2> QED BY <1>0, <1>p, <2>1, ShowNormalPoints
<1>4. ASSUME NEW t \in Tags, ToggleSpecial(t) PROVE InputIsSelection'
  <2>1. PICK ptr : Step(ToggleOverlay(State, cur, t, ptr))
    BY <1>4, Zenon DEF ToggleSpecial
  <2>2. Points(ToggleOverlay(State, State.cur, t, ptr))
    BY <1>0, ToggleOverlayPoints
  <2> QED BY <1>0, <1>p, <2>1, <2>2
<1>5. ASSUME NEW ref \in Workspaces, NEW silent \in BOOLEAN, Move(ref, silent)
      PROVE  InputIsSelection'
  <2>1. PICK ptr : Step(MoveToWorkspace(State, ref, silent, ptr))
    BY <1>5, Zenon DEF Move
  <2>2. sel[cur] # NoClient
    BY <1>5, Zenon DEF Move
  <2>3. Points(MoveToWorkspace(State, ref, silent, ptr))
    BY <1>0, <2>2, MoveToWorkspacePoints
  <2> QED BY <1>p, <2>1, <2>3
<1>6. ASSUME NEW direction \in {-1, 1}, FocusMonitor(direction) PROVE InputIsSelection'
  <2> DEFINE m == Neighbour(cur, direction)
             w == IF DefaultWorkspace[m] = NoWorkspace THEN State.active[m]
                  ELSE DefaultWorkspace[m]
             t == [State EXCEPT !.cur = m, !.active[m] = w]
  <2>1. m \in Monitors
    BY <1>0, NeighbourType
  <2> HIDE DEF m
  <2>2. w \in NormalIds
    BY <1>0, <2>1, ConstantsAssumption DEF Good, StateSet
  <2>3. [State EXCEPT !.cur = m,
                      !.active[m] = IF DefaultWorkspace[m] = NoWorkspace THEN @
                                    ELSE DefaultWorkspace[m]] = t
    BY <1>0 DEF Good, StateSet
  <2>4. Step(Focus(t, NoClient))
    BY <1>6, <2>3 DEF FocusMonitor, m
  <2> HIDE DEF w
  <2>5. Good(t)
    BY <1>0, <2>1, <2>2, ActiveKeeps DEF Keeps
  <2> QED BY <1>f, <1>p, <2>4, <2>5
<1>7. ASSUME NEW direction \in {-1, 1}, MoveToMonitor(direction) PROVE InputIsSelection'
  <2>1. PICK ptr : Step(SendMon(State, sel[cur], Neighbour(cur, direction), ptr))
    BY <1>7, Zenon DEF MoveToMonitor
  <2>2. sel[cur] # NoClient
    BY <1>7, Zenon DEF MoveToMonitor
  <2>3. Neighbour(cur, direction) \in Monitors
    BY <1>0, NeighbourType
  <2>4. sel[cur] \in Clients /\ State.mon[sel[cur]] \in Monitors
    BY <1>0, <2>2
  <2>5. Points(SendMon(State, sel[cur], Neighbour(cur, direction), ptr))
    BY <1>0, <2>3, <2>4, SendMonPoints
  <2> QED BY <1>p, <2>1, <2>5
<1>8. CASE BeginDrag
  BY <1>0, <1>8, Pointed DEF BeginDrag
<1>9. ASSUME NEW m \in Monitors, EndDrag(m) PROVE InputIsSelection'
  <2>1. /\ dragged # NoClient
        /\ \E ptr : Become(IF mon[dragged] = m THEN State
               ELSE Focus([SendMon(State, dragged, m, ptr) EXCEPT !.cur = m], NoClient))
    BY <1>9, Zenon DEF EndDrag, Idle
  <2>2. PICK ptr : Become(IF mon[dragged] = m THEN State
               ELSE Focus([SendMon(State, dragged, m, ptr) EXCEPT !.cur = m], NoClient))
    BY <2>1
  <2>3. dragged \in Clients /\ State.mon[dragged] \in Monitors
    BY <1>0, <1>m, <2>1 DEF IInv, DraggedIsManaged, Managed
  <2>4. Good(SendMon(State, dragged, m, ptr))
    BY <1>0, <2>3, SendMonGood
  <2>5. Points(Focus([SendMon(State, dragged, m, ptr) EXCEPT !.cur = m], NoClient))
    BY <2>4, FocusOnFocused, FocusedPoints
  <2> QED BY <1>0, <2>2, <2>5, Pointed
<1>10. ASSUME NEW c \in Clients, FocusNeighbour(c) PROVE InputIsSelection'
  BY <1>0, <1>f, <1>p, <1>10 DEF FocusNeighbour
<1>11. ASSUME NEW c \in Clients, FocusUrgent(c) PROVE InputIsSelection'
  <2> DEFINE s == [State EXCEPT !.cur = mon[c]]
             V(ptr) == IF Visible(s, c) \/ ws[c] \notin NormalIds THEN s
                       ELSE ViewNormal(s, ws[c], ptr)
  <2>1. \E ptr : Step(Focus(V(ptr), c))
    BY <1>11 DEF FocusUrgent
  <2>2. PICK ptr : Step(Focus(V(ptr), c))
    BY <2>1
  <2>3. Good(s)
    <3>1. mon[c] \in Monitors
      BY <1>11, <1>m DEF FocusUrgent
    <3> QED BY <1>s, <3>1
  <2> HIDE DEF s
  <2>4. Good(V(ptr))
    BY <2>3, ShowNormalKeeps DEF Keeps, ViewNormal
  <2> QED BY <1>f, <1>p, <2>2, <2>4
<1>12. ASSUME NEW c \in Clients, FocusWindow(c) PROVE InputIsSelection'
  <2> DEFINE m == mon[c]
             s == [State EXCEPT !.cur = m]
             t == [s EXCEPT !.active[m] = ws[c]]
             v == IF Visible(s, c) \/ ws[c] \notin NormalIds THEN s ELSE t
  <2>1. m \in Monitors /\ Step(Focus(v, c))
    BY <1>12, <1>m DEF FocusWindow
  <2> HIDE DEF m
  <2>2. Good(s)
    BY <1>s, <2>1
  <2>3. t = [State EXCEPT !.cur = m, !.active[m] = ws[c]]
    BY <1>0 DEF Good, StateSet
  <2> HIDE DEF s, t
  <2>4. ws[c] \in NormalIds => Good(t)
    BY <1>0, <2>1, <2>3, ActiveKeeps DEF Keeps
  <2>5. Good(v)
    BY <2>2, <2>4
  <2> QED BY <1>f, <1>p, <2>1, <2>5
<1>13. ASSUME NEW c \in Clients, Activate(c) PROVE InputIsSelection'
  <2> DEFINE V(ptr) == CASE ~Visible(State, c) /\ ws[c] \in Tags ->
                              EnsureOverlay(State, mon[c], ws[c], ptr)
                         [] ~Visible(State, c) /\ ws[c] \in NormalIds
                            /\ c \notin ruleSilent -> ViewNormal(State, ws[c], ptr)
                         [] OTHER -> State
             U(s) == [s EXCEPT !.urgent = @ \cup {c}]
  <2>1. mon[c] \in Monitors
    BY <1>13, <1>m, Zenon DEF Activate
  <2>2. PICK ptr : Step(IF FocusOnActivate /\ Visible(V(ptr), c) THEN Focus(V(ptr), c)
                        ELSE IF c # sel[cur] /\ c \in Hinted THEN U(V(ptr))
                        ELSE V(ptr))
    BY <1>13 DEF Activate
  <2>3. Good(V(ptr)) /\ Points(V(ptr))
    <3>1. ws[c] \in Tags => /\ Good(EnsureOverlay(State, mon[c], ws[c], ptr))
                            /\ Points(EnsureOverlay(State, mon[c], ws[c], ptr))
      BY <1>0, <2>1, EnsureOverlayKeeps, EnsureOverlayPoints DEF Keeps
    <3>2. ws[c] \in NormalIds => /\ Good(ViewNormal(State, ws[c], ptr))
                                 /\ Points(ViewNormal(State, ws[c], ptr))
      BY <1>0, ShowNormalKeeps, ViewNormalPoints DEF Keeps, ViewNormal
    <3> QED BY <1>0, <3>1, <3>2
  <2>4. ASSUME NEW s, Good(s), Points(s) PROVE Points(U(s))
    <3>1. U(s).input = s.input /\ U(s).sel = s.sel /\ U(s).cur = s.cur
      BY <2>4 DEF Good, StateSet
    <3> QED BY <2>4, <3>1, PointsFramed
  <2> HIDE DEF V, U
  <2> QED BY <1>f, <1>p, <2>2, <2>3, <2>4
<1>14. ASSUME NEW c \in Clients, EnterClient(c) PROVE InputIsSelection'
  <2>1. mon[c] \in Monitors
    BY <1>14, <1>m DEF EnterClient
  <2>2. Good(SwitchTo(mon[c])) /\ Points(SwitchTo(mon[c]))
    BY <2>1, SwitchToGood, SwitchToPoints DEF Keeps
  <2> QED BY <1>14, <1>f, <1>p, <2>2 DEF EnterClient
<1>15. ASSUME NEW m \in Monitors, EnterMonitor(m) PROVE InputIsSelection'
  BY <1>15, <1>p, SwitchToPoints DEF EnterMonitor
<1>16. ASSUME NEW c \in Clients, ButtonPress(c) PROVE InputIsSelection'
  <2> DEFINE s == IF mon[c] = cur THEN State ELSE Focus(SwitchTo(mon[c]), NoClient)
  <2>1. mon[c] \in Monitors
        /\ Step(IF c \in neverfocus \/ FollowMouse = 3 THEN s ELSE Focus(s, c))
    BY <1>16, <1>m DEF ButtonPress
  <2>2. Good(s) /\ Points(s)
    BY <1>0, <1>f, <2>1, SwitchToGood, FocusKeeps DEF Keeps
  <2> HIDE DEF s
  <2> QED BY <1>f, <1>p, <2>1, <2>2
<1>17. ASSUME NEW m \in Monitors, PointerCrosses(m) PROVE InputIsSelection'
  BY <1>17, <1>f, <1>p, <1>s DEF PointerCrosses
<1>18. CASE FocusIn
  <2> DEFINE t == [State EXCEPT !.input = sel[cur]]
  <2>1. t.input = sel[cur] /\ t.sel = sel /\ t.cur = cur
    BY DEF State
  <2>2. Points(t)
    BY <2>1 DEF Points
  <2> QED BY <1>18, <1>p, <2>2 DEF FocusIn
<1>19. ASSUME NEW c \in Clients, WmHints(c) PROVE InputIsSelection'
  BY <1>19 DEF WmHints, Step, Become, State, InputIsSelection
<1>20. CASE UNCHANGED vars
  BY <1>20 DEF vars, InputIsSelection
<1> QED
  BY <1>1, <1>2, <1>3, <1>4, <1>5, <1>6, <1>7, <1>8, <1>9, <1>10, <1>11, <1>12,
     <1>13, <1>14, <1>15, <1>16, <1>17, <1>18, <1>19, <1>20 DEF Next

\* On any number of monitors, with any clients, rules and focus settings, X input
\* is on the selection of the selected monitor or on no client: the commands that
\* act on the selection act on the client that is being typed into.
THEOREM KeyboardOnSelection == Spec => []InputIsSelection
<1>1. Init => InputIsSelection
  BY DEF Init, InputIsSelection
<1> QED BY <1>1, NextPoints, IInvAlways, PTL DEF Spec

-----------------------------------------------------------------------------
(* One monitor: what is typed is seen, and somebody has the keyboard.      *)
(* Attended is the inductive part: the selection, which FocusIn gives the  *)
(* input back to, is visible itself, and nobody who could have the input   *)
(* waits for it on screen while it is on the root window.                  *)

\* A newest client is found whenever the stack has one in the set.
LEMMA NewestFound ==
    ASSUME NEW q \in Seq(Clients), NEW S, Newest(q, S) = NoClient
    PROVE  ToSet(q) \cap S = {}
<1> DEFINE I == {i \in 1..Len(q) : q[i] \in S}
<1>0. Len(q) \in Nat /\ DOMAIN q = 1..Len(q)
      /\ \A i \in 1..Len(q) : q[i] \in Clients
  OBVIOUS
<1>1. CASE I = {}
  BY <1>0, <1>1 DEF ToSet
<1>2. CASE I # {}
  <2>1. Min(I) \in I
    <3>1. I \subseteq Nat
      BY <1>0
    <3> QED BY <3>1, <1>2, MinIsLeast
  <2>2. Newest(q, S) = q[Min(I)]
    BY <1>0, <1>2, <2>1 DEF Newest, SelectInSeq
  <2>3. Newest(q, S) \in Clients
    BY <1>0, <2>1, <2>2
  <2> QED BY <2>3, ConstantsAssumption
<1> QED BY <1>1, <1>2

\* What decides about visibility, and who may be passed over for the input.
SameView(s, t) ==
    t.mon = s.mon /\ t.ws = s.ws /\ t.active = s.active /\ t.overlay = s.overlay
Excused(s) == s.neverfocus \cup Hinted \cup s.ruleSilent

\* Nothing else decides about it.
LEMMA SameViewSeen ==
    ASSUME NEW s, NEW t, SameView(s, t), NEW c
    PROVE  /\ Visible(t, c) <=> Visible(s, c)
           /\ OnScreen(t, c) <=> OnScreen(s, c)
BY DEF SameView, Visible, OnScreen, Managed

\* One monitor, no special workspace with an empty tag.
OneScreen == NumMonitors = 1 /\ EmptyTag \notin Tags

Attended(s) ==
    /\ \A m \in Monitors : s.sel[m] # NoClient => Visible(s, s.sel[m])
    /\ s.input = NoClient => \A c \in Clients : OnScreen(s, c) => c \in Excused(s)

\* A step that changes neither the view, the selections nor the input.
LEMMA AttendedFramed ==
    ASSUME NEW s, Attended(s), NEW t, SameView(s, t), t.sel = s.sel,
           t.input = s.input, Excused(s) \subseteq Excused(t)
    PROVE  Attended(t)
BY SameViewSeen DEF Attended

\* focus() changes neither the view nor who refuses input.
LEMMA FocusKeepsView ==
    ASSUME NEW s, Good(s), NEW c
    PROVE  /\ SameView(s, Focus(s, c))
           /\ Focus(s, c).neverfocus = s.neverfocus
           /\ Focus(s, c).ruleSilent = s.ruleSilent
<1> DEFINE E == {e \in Clients : Focusable(s, e)}
           d == IF Focusable(s, c) THEN c ELSE Newest(s.stack[s.cur], E)
           m == s.mon[d]
           f == [s EXCEPT !.stack[m] = <<d>> \o RemoveFirst(@, d)]
<1>1. \/ Focus(s, c) = [s EXCEPT !.sel[s.cur] = NoClient, !.input = NoClient]
      \/ Focus(s, c) = [f EXCEPT !.cur = m, !.sel[m] = d, !.input = d, !.urgent = @ \ {d}]
  BY DEF Focus, ToFront
<1> HIDE DEF d, m
<1> QED BY <1>1 DEF SameView, Good, StateSet

\* focus() finds whoever can have the input, and selects nobody else.
LEMMA FocusAttends ==
    ASSUME OneScreen, NEW t, Focused(t)
    PROVE  Attended(t)
<1>1. PICK s, c : Good(s) /\ t = Focus(s, c)
  BY DEF Focused
<1> DEFINE E == {e \in Clients : Focusable(s, e)}
           d == IF Focusable(s, c) THEN c ELSE Newest(s.stack[s.cur], E)
           m == s.mon[d]
<1>2. /\ s.cur \in Monitors
      /\ s.stack[s.cur] \in Seq(Clients)
      /\ s.mon \in [Clients -> Monitors \cup {NoMonitor}]
      /\ s.sel \in [Monitors -> Clients \cup {NoClient}]
  BY <1>1 DEF Good, StateSet
<1>3. Monitors = {1} /\ s.cur = 1
  BY <1>2 DEF OneScreen, Monitors
<1>4. d = NoClient \/ (d \in Clients /\ Focusable(s, d))
  <2>1. CASE Focusable(s, c)
    BY <2>1 DEF Focusable, Visible, Managed
  <2>2. CASE ~Focusable(s, c)
    BY <1>2, <2>2, NewestInStack
  <2> QED BY <2>1, <2>2
<1>5. SameView(s, t) /\ t.neverfocus = s.neverfocus
  BY <1>1, FocusKeepsView
<1>6. CASE d = NoClient
  <2>1. t = [s EXCEPT !.sel[s.cur] = NoClient, !.input = NoClient]
    BY <1>1, <1>6 DEF Focus
  <2>2. t.sel = [s.sel EXCEPT ![s.cur] = NoClient]
    BY <1>1, <2>1 DEF Good, StateSet
  <2>3. \A n \in Monitors : t.sel[n] = NoClient
    BY <1>2, <1>3, <2>2
  <2>4. ToSet(s.stack[s.cur]) \cap E = {}
    <3>1. Newest(s.stack[s.cur], E) = NoClient
      <4>1. CASE Focusable(s, c)
        BY <1>6, <4>1, ConstantsAssumption DEF Focusable, Visible, Managed
      <4>2. CASE ~Focusable(s, c)
        BY <1>6, <4>2
      <4> QED BY <4>1, <4>2
    <3> HIDE DEF E
    <3> QED BY <1>2, <3>1, NewestFound
  <2>5. \A e \in Clients : Visible(s, e) => e \in s.neverfocus
    <3>1. ToSet(s.stack[s.cur]) = {e \in Clients : s.mon[e] = s.cur}
      BY <1>1, <1>2 DEF Good, ClientListsOf
    <3>2. ASSUME NEW e \in Clients, Visible(s, e) PROVE e \in s.neverfocus
      <4>1. s.mon[e] = s.cur
        BY <1>2, <1>3, <3>2 DEF Visible, Managed
      <4>2. e \notin E
        BY <2>4, <3>1, <4>1
      <4> QED BY <3>2, <4>2 DEF Focusable
    <3> QED BY <3>2
  <2>6. \A e \in Clients : OnScreen(t, e) => e \in Excused(t)
    BY <1>5, <2>5, SameViewSeen DEF OnScreen, Excused
  <2> QED BY <2>3, <2>6 DEF Attended
<1>7. CASE d # NoClient
  <2> HIDE DEF d
  <2> DEFINE f == ToFront(s, m, d)
  <2>1. d \in Clients /\ m \in Monitors /\ Visible(s, d)
    BY <1>2, <1>4, <1>7 DEF Focusable, Visible, Managed
  <2>2. t = [f EXCEPT !.cur = m, !.sel[m] = d, !.input = d, !.urgent = @ \ {d}]
    BY <1>1, <1>7 DEF Focus, d
  <2>3. f \in StateSet
    BY <1>1, <2>1, ToFrontKeeps DEF Keeps, Good
  <2> HIDE DEF f
  <2>4. t.input = d /\ t.sel = [f.sel EXCEPT ![m] = d]
        /\ f.sel \in [Monitors -> Clients \cup {NoClient}]
    BY <2>1, <2>2, <2>3 DEF StateSet
  <2>5. \A n \in Monitors : t.sel[n] = d
    BY <1>3, <2>1, <2>4
  <2>6. Visible(t, d)
    BY <1>5, <2>1, SameViewSeen
  <2> QED BY <1>7, <2>4, <2>5, <2>6 DEF Attended
<1> QED BY <1>6, <1>7

\* An overlay that is opened focuses one of its clients, or looks for another.
LEMMA EnsureOverlayAttends ==
    ASSUME OneScreen, NEW s, Good(s), NEW m \in Monitors, NEW t \in Tags, NEW ptr
    PROVE  Attended(EnsureOverlay(s, m, t, ptr))
<1> DEFINE v == [s EXCEPT !.overlay[m] = t]
<1>1. Good(v)
  BY OverlayKeeps DEF Keeps
<1>2. v.overlay[m] \notin {NoTag, EmptyTag}
  <2>1. v.overlay[m] = t
    BY DEF Good, StateSet
  <2> QED BY <2>1, ConstantsAssumption DEF OneScreen, Workspaces
<1> HIDE DEF v
<1>3. \E c : FocusFirstOverlay(v, m, ptr) = Focus([v EXCEPT !.cur = m], c)
  BY <1>2 DEF FocusFirstOverlay
<1>4. \A c : Attended(Focus([v EXCEPT !.cur = m], c))
  BY <1>1, FocusOnFocused, FocusAttends
<1> QED BY <1>3, <1>4 DEF EnsureOverlay, v

\* Running a hook changes nothing on screen.
LEMMA SpawnAttends ==
    ASSUME NEW s, Good(s), Attended(s), NEW w
    PROVE  Attended(SpawnIfEmpty(s, w))
<1>1. ASSUME NEW A PROVE Attended([s EXCEPT !.armed = A])
  <2> DEFINE t == [s EXCEPT !.armed = A]
  <2>1. SameView(s, t) /\ t.sel = s.sel /\ t.input = s.input /\ Excused(t) = Excused(s)
    BY DEF Good, StateSet, SameView, Excused
  <2> HIDE DEF t
  <2>2. Attended(t)
    BY <2>1, AttendedFramed
  <2> QED BY <2>2 DEF t
<1> QED BY <1>1 DEF SpawnIfEmpty

\* apply_normal_workspace_view closes the overlay and focuses.
LEMMA ShowNormalAttends ==
    ASSUME OneScreen, NEW s, Good(s), NEW w \in NormalIds, NEW ptr
    PROVE  /\ Attended(ShowNormal(s, w, ptr))
           /\ ShowNormal(s, w, ptr).overlay = [m \in Monitors |-> NoTag]
           /\ ShowNormal(s, w, ptr).ws = s.ws
<1> DEFINE m == TargetMonitor(s, w)
           closed == CloseOverlay(s, m)
           shown == [closed EXCEPT !.cur = m, !.active[m] = w]
           focused == Focus(shown, NoClient)
           followed == FollowPointer(focused, ptr)
<1>0. m \in Monitors /\ Monitors = {1}
  BY TargetMonitorType DEF OneScreen, Monitors
<1> HIDE DEF m
<1>1. Good(closed) /\ closed.overlay = [n \in Monitors |-> NoTag] /\ closed.ws = s.ws
  <2>1. Good(closed)
    BY <1>0, AutohideKeeps DEF Keeps
  <2>2. closed.overlay = [s.overlay EXCEPT ![m] = NoTag] /\ closed.ws = s.ws
        /\ s.overlay \in [Monitors -> Tags \cup {NoTag}]
    BY DEF CloseOverlay, Good, StateSet
  <2> QED BY <1>0, <2>1, <2>2
<1> HIDE DEF closed
<1>2. Good(shown) /\ shown.overlay = closed.overlay /\ shown.ws = s.ws
  <2>1. Good(shown)
    BY <1>0, <1>1, ActiveKeeps DEF Keeps
  <2>2. shown.overlay = closed.overlay /\ shown.ws = s.ws
    BY <1>1 DEF Good, StateSet
  <2> QED BY <2>1, <2>2
<1> HIDE DEF shown
<1>3. Good(focused) /\ Focused(focused) /\ focused.overlay = closed.overlay
      /\ focused.ws = s.ws
  BY <1>2, FocusKeeps, FocusKeepsView DEF Keeps, Focused, SameView
<1> HIDE DEF focused
<1>4. Good(followed) /\ Attended(followed) /\ followed.overlay = closed.overlay
      /\ followed.ws = s.ws
  <2>1. followed = focused \/ followed = Focus(focused, ptr)
    BY DEF FollowPointer
  <2>2. Good(Focus(focused, ptr)) /\ Focused(Focus(focused, ptr))
        /\ Focus(focused, ptr).overlay = closed.overlay
        /\ Focus(focused, ptr).ws = s.ws
    BY <1>3, FocusKeeps, FocusKeepsView DEF Keeps, Focused, SameView
  <2> QED BY <1>3, <2>1, <2>2, FocusAttends
<1> HIDE DEF followed
<1>5. Attended(SpawnIfEmpty(followed, w))
  BY <1>4, SpawnAttends
<1>6. /\ SpawnIfEmpty(followed, w).overlay = followed.overlay
      /\ SpawnIfEmpty(followed, w).ws = followed.ws
  BY <1>4 DEF SpawnIfEmpty, Good, StateSet
<1>7. SpawnIfEmpty(followed, w) = ShowNormal(s, w, ptr)
  BY DEF ShowNormal, followed, focused, shown, closed, m
<1> QED BY <1>1, <1>4, <1>5, <1>6, <1>7

\* So does wm_focus_after_special_overlay_hidden.
LEMMA HiddenAttends ==
    ASSUME OneScreen, NEW s, Good(s), NEW m \in Monitors, NEW ptr
    PROVE  Attended(FocusAfterHidden(s, m, ptr))
BY HiddenFocused, FocusAttends

\* view_special_workspace: every way out of it focuses.
LEMMA ToggleOverlayAttends ==
    ASSUME OneScreen, NEW s, Good(s), NEW t \in Tags, NEW ptr
    PROVE  Attended(ToggleOverlay(s, s.cur, t, ptr))
<1> DEFINE m == s.cur
           at == [s EXCEPT !.cur = m]
           closed == CloseOverlay(s, m)
<1>1. m \in Monitors
  BY DEF Good, StateSet
<1>2. Good(at) /\ Good(closed)
  BY <1>1, Selected, AutohideKeeps DEF Keeps
<1>3. \/ ToggleOverlay(s, m, t, ptr) = EnsureOverlay(at, m, t, ptr)
      \/ ToggleOverlay(s, m, t, ptr) = FocusAfterHidden(closed, m, ptr)
      \/ /\ s.overlay[m] = t
         /\ ToggleOverlay(s, m, t, ptr) = FocusFirstOverlay(s, m, ptr)
  BY DEF ToggleOverlay
<1>4. Attended(EnsureOverlay(at, m, t, ptr))
  <2> HIDE DEF at
  <2> QED BY <1>1, <1>2, EnsureOverlayAttends
<1>5. Attended(FocusAfterHidden(closed, m, ptr))
  <2> HIDE DEF closed
  <2> QED BY <1>1, <1>2, HiddenAttends
<1>6. s.overlay[m] = t => Attended(FocusFirstOverlay(s, m, ptr))
  <2>1. s.overlay[m] = t => \E c : FocusFirstOverlay(s, m, ptr) = Focus(at, c)
    BY ConstantsAssumption DEF FocusFirstOverlay, OneScreen, Workspaces
  <2>2. \A c : Attended(Focus(at, c))
    BY <1>1, FocusOnFocused, FocusAttends
  <2> QED BY <2>1, <2>2
<1> HIDE DEF at, closed
<1> QED BY <1>3, <1>4, <1>5, <1>6

\* movetoworkspace_ref: the client that leaves the screen loses the input.
LEMMA MoveToWorkspaceAttends ==
    ASSUME OneScreen, NEW s, Good(s), s.sel[s.cur] # NoClient,
           NEW ref \in Workspaces, NEW silent \in BOOLEAN, NEW ptr
    PROVE  Attended(MoveToWorkspace(s, ref, silent, ptr))
<1> DEFINE m == s.cur
           c == s.sel[m]
           moved == [s EXCEPT !.ws[c] = ref]
           hidden == Autohide(moved, m)
           emptied == ClientLeft(hidden, s.ws[c])
           left == ClientJoined(emptied, ref)
           viewed == ViewAfterMove(left, ref, silent, ptr)
<1>1. m \in Monitors /\ c \in Clients
  BY DEF Good, StateSet
<1>2. Good(moved)
  BY <1>1, WorkspaceKeeps DEF Keeps
<1> HIDE DEF moved
<1>3. Good(hidden)
  BY <1>1, <1>2, AutohideKeeps DEF Keeps
<1> HIDE DEF hidden
<1>4. Good(emptied)
  BY <1>3, HookKeeps DEF Keeps
<1> HIDE DEF emptied
<1>5. Good(left)
  BY <1>4, HookKeeps DEF Keeps
<1> HIDE DEF left
<1>6. ASSUME NEW t, Good(t), silent \/ ref \in NormalIds
      PROVE  Good(ViewAfterMove(t, ref, silent, ptr))
             /\ Attended(ViewAfterMove(t, ref, silent, ptr))
  <2>1. Good(Focus(t, NoClient)) /\ Attended(Focus(t, NoClient))
    BY <1>6, FocusKeeps, FocusAttends DEF Keeps, Focused
  <2>2. ref \in NormalIds => Good(ShowNormal(t, ref, ptr)) /\ Attended(ShowNormal(t, ref, ptr))
    BY <1>6, ShowNormalKeeps, ShowNormalAttends DEF Keeps
  <2> QED BY <1>6, <2>1, <2>2 DEF ViewAfterMove
<1>7. CASE ref \in Tags /\ ~silent
  <2>1. MoveToWorkspace(s, ref, silent, ptr)
          = EnsureOverlay(IF s.ws[c] = ref THEN s ELSE left, m, ref, ptr)
    <3>1. ~(ref \in NormalIds \/ silent)
      BY <1>7, ConstantsAssumption
    <3> QED BY <1>7, <3>1 DEF MoveToWorkspace, left, emptied, hidden, moved
  <2>2. ASSUME NEW t, Good(t) PROVE Attended(EnsureOverlay(t, m, ref, ptr))
    BY <1>1, <1>7, <2>2, EnsureOverlayAttends
  <2> QED BY <1>5, <2>1, <2>2
<1>8. CASE silent \/ ref \in NormalIds
  <2>1. ~(ref \in Tags /\ ~silent)
    BY <1>8, ConstantsAssumption
  <2>2. CASE s.ws[c] = ref
    <3>1. MoveToWorkspace(s, ref, silent, ptr) = ViewAfterMove(s, ref, silent, ptr)
      BY <1>8, <2>1, <2>2 DEF MoveToWorkspace
    <3> QED BY <1>6, <1>8, <3>1
  <2>3. CASE s.ws[c] # ref
    <3>1. MoveToWorkspace(s, ref, silent, ptr)
            = IF Autohides(moved, m) THEN FocusAfterHidden(viewed, m, ptr) ELSE viewed
      BY <2>1, <2>3 DEF MoveToWorkspace, left, emptied, hidden, moved
    <3>2. Good(viewed) /\ Attended(viewed)
      BY <1>5, <1>6, <1>8
    <3> HIDE DEF viewed
    <3>3. Attended(FocusAfterHidden(viewed, m, ptr))
      BY <1>1, <3>2, HiddenAttends
    <3> QED BY <3>1, <3>2, <3>3
  <2> QED BY <2>2, <2>3
<1> QED BY <1>7, <1>8 DEF Workspaces

\* release_client ends in focus().
LEMMA ReleaseAttends ==
    ASSUME OneScreen, NEW s, Good(s), NEW c \in Clients, s.mon[c] \in Monitors,
           NEW fallback, NEW ptr
    PROVE  Attended(Release(s, c, fallback, ptr))
<1> DEFINE m == s.mon[c]
           unlinked == Unlink(s, c)
           out == [unlinked EXCEPT !.ws[c] = NoWorkspace]
           gone == [unlinked EXCEPT !.ws[c] = NoWorkspace,
                                    !.neverfocus = @ \ {c}, !.urgent = @ \ {c},
                                    !.ruleSilent = @ \ {c}]
           hidden == Autohide(gone, m)
           left == ClientLeft(hidden, s.ws[c])
           settled == Focus(left, fallback)
<1>1. Good(unlinked)
  BY UnlinkGood
<1> HIDE DEF unlinked
<1>2. Good(out)
  BY <1>1, WorkspaceKeeps DEF Keeps
<1>3. gone = [out EXCEPT !.neverfocus = @ \ {c}, !.urgent = @ \ {c},
                         !.ruleSilent = @ \ {c}]
  BY <1>1 DEF Good, StateSet
<1> HIDE DEF out, gone
<1>4. Good(gone)
  <2>1. gone \in StateSet
    BY <1>2, <1>3 DEF Good, StateSet
  <2>2. gone.mon = out.mon /\ gone.stack = out.stack /\ gone.sel = out.sel
    BY <1>2, <1>3 DEF Good, StateSet
  <2> QED BY <1>2, <2>1, <2>2, Framed DEF Keeps
<1>5. Good(left)
  <2>1. Good(hidden)
    BY <1>4, AutohideKeeps DEF Keeps
  <2> HIDE DEF hidden
  <2> QED BY <2>1, HookKeeps DEF Keeps
<1> HIDE DEF left
<1>6. Good(settled) /\ Attended(settled)
  BY <1>5, FocusKeeps, FocusAttends DEF Keeps, Focused
<1> HIDE DEF settled
<1>7. Attended(FocusAfterHidden(settled, m, ptr))
  BY <1>6, HiddenAttends
<1>8. Release(s, c, fallback, ptr)
        = IF Autohides(gone, m) THEN FocusAfterHidden(settled, m, ptr) ELSE settled
  BY DEF Release, settled, left, hidden, gone, unlinked
<1> QED BY <1>6, <1>7, <1>8

\* A window that is linked and gets no focus, because a silent rule keeps it on a
\* special workspace or because it is under an overlay that stays open, leaves the
\* others as visible as they were and is itself excused or not on screen.
Passed(u, c) ==
    \/ c \in u.ruleSilent /\ u.ws[c] \in Tags
    \/ u.ws[c] \notin Tags /\ UnderOverlay(u, c)

LEMMA LinkedAttends ==
    ASSUME OneScreen, NEW s, Good(s), Attended(s), NEW c \in Clients, s.mon[c] = NoMonitor,
           NEW m \in Monitors, NEW w \in Workspaces \cup {NoWorkspace},
           NEW transient, NEW quiet, NEW refuses, NEW wantsAttention,
           c \in Docks /\ c \notin Hinted => refuses,
           NEW u, u = Linked(s, c, m, w, transient, quiet, refuses, wantsAttention),
           Passed(u, c)
    PROVE  Attended(u)
<1> DEFINE modal == WindowType[c] = "dialog" \/ (transient /\ WindowType[c] # "splash")
           closed == IF w \in NormalIds /\ modal THEN CloseOverlay(s, m) ELSE s
           joined == IF c \in Docks THEN closed ELSE ClientJoined(closed, w)
<1>0. Monitors = {1} /\ m = 1
  BY DEF OneScreen, Monitors
<1>1. Good(closed)
  BY AutohideKeeps DEF Keeps
<1>2. /\ closed.mon = s.mon /\ closed.ws = s.ws /\ closed.active = s.active
      /\ closed.sel = s.sel /\ closed.input = s.input
      /\ closed.neverfocus = s.neverfocus /\ closed.ruleSilent = s.ruleSilent
      /\ closed.overlay = IF w \in NormalIds /\ modal
                          THEN [s.overlay EXCEPT ![m] = NoTag] ELSE s.overlay
  BY DEF CloseOverlay, Good, StateSet
<1> HIDE DEF closed
<1>3. /\ joined.mon = s.mon /\ joined.ws = s.ws /\ joined.active = s.active
      /\ joined.sel = s.sel /\ joined.input = s.input
      /\ joined.neverfocus = s.neverfocus /\ joined.ruleSilent = s.ruleSilent
      /\ joined.overlay = closed.overlay
      /\ joined \in StateSet
  BY <1>1, <1>2, HookKeeps DEF ClientJoined, Keeps, Good, StateSet
<1>4. u = [joined EXCEPT !.mon[c] = m, !.ws[c] = w, !.stack[m] = <<c>> \o @,
             !.neverfocus = IF refuses THEN @ \cup {c} ELSE @,
             !.urgent = IF wantsAttention THEN @ \cup {c} ELSE @,
             !.ruleSilent = IF quiet THEN @ \cup {c} ELSE @]
  BY DEF Linked, joined, closed
<1> HIDE DEF joined, modal
<1>5. /\ u.mon = [s.mon EXCEPT ![c] = m] /\ u.ws = [s.ws EXCEPT ![c] = w]
      /\ u.active = s.active /\ u.overlay = closed.overlay
      /\ u.sel = s.sel /\ u.input = s.input
      /\ u.neverfocus = IF refuses THEN s.neverfocus \cup {c} ELSE s.neverfocus
      /\ u.ruleSilent = IF quiet THEN s.ruleSilent \cup {c} ELSE s.ruleSilent
  <2> DEFINE N == IF refuses THEN joined.neverfocus \cup {c} ELSE joined.neverfocus
             U == IF wantsAttention THEN joined.urgent \cup {c} ELSE joined.urgent
             R == IF quiet THEN joined.ruleSilent \cup {c} ELSE joined.ruleSilent
  <2>1. u = [joined EXCEPT !.mon[c] = m, !.ws[c] = w, !.stack[m] = <<c>> \o @,
                           !.neverfocus = N, !.urgent = U, !.ruleSilent = R]
    BY <1>3, <1>4 DEF StateSet
  <2> HIDE DEF N, U, R
  <2>2. /\ u.mon = [joined.mon EXCEPT ![c] = m] /\ u.ws = [joined.ws EXCEPT ![c] = w]
        /\ u.active = joined.active /\ u.overlay = joined.overlay
        /\ u.sel = joined.sel /\ u.input = joined.input
        /\ u.neverfocus = N /\ u.ruleSilent = R
    BY <1>3, <2>1 DEF StateSet
  <2> QED BY <1>3, <2>2 DEF N, R
<1>6. /\ s.mon \in [Clients -> Monitors \cup {NoMonitor}]
      /\ s.ws \in [Clients -> Workspaces \cup {NoWorkspace}]
      /\ s.overlay \in [Monitors -> Tags \cup {NoTag}]
      /\ s.sel \in [Monitors -> Clients \cup {NoClient}]
      /\ s.neverfocus \subseteq Clients /\ s.ruleSilent \subseteq Clients
  BY DEF Good, StateSet
<1>7. u.overlay = s.overlay
  <2>1. u.ws[c] = w /\ u.mon[c] = m
    BY <1>5, <1>6
  <2>2. CASE w \in Tags
    BY <1>2, <1>5, <2>2, ConstantsAssumption
  <2>3. CASE w \notin Tags
    <3>1. u.overlay[m] # NoTag
      BY <2>1, <2>3 DEF Passed, UnderOverlay
    <3> QED BY <1>2, <1>5, <1>6, <3>1
  <2> QED BY <2>2, <2>3
<1>8. \A e \in Clients \ {c} : /\ Visible(u, e) <=> Visible(s, e)
                               /\ OnScreen(u, e) <=> OnScreen(s, e)
  BY <1>5, <1>6, <1>7 DEF Visible, OnScreen, Managed
<1>9. ASSUME NEW n \in Monitors, u.sel[n] # NoClient PROVE Visible(u, u.sel[n])
  <2>1. Visible(s, s.sel[n]) /\ u.sel[n] = s.sel[n]
    BY <1>5, <1>9 DEF Attended
  <2>2. s.sel[n] \in Clients \ {c}
    BY <2>1 DEF Visible, Managed
  <2> QED BY <1>8, <2>1, <2>2
<1>10. ASSUME u.input = NoClient, NEW e \in Clients, OnScreen(u, e)
       PROVE  e \in Excused(u)
  <2>1. CASE e # c
    <3>1. e \in Excused(s)
      BY <1>5, <1>8, <1>10, <2>1 DEF Attended
    <3> QED BY <1>5, <3>1 DEF Excused
  <2>2. CASE e = c
    <3>1. CASE c \in u.ruleSilent
      BY <2>2, <3>1 DEF Excused
    <3>2. CASE u.ws[c] \notin Tags /\ UnderOverlay(u, c)
      <4>1. c \in Docks
        BY <1>10, <2>2, <3>2 DEF OnScreen, UnderOverlay
      <4> QED BY <1>5, <2>2, <4>1 DEF Excused
    <3> QED BY <3>1, <3>2 DEF Passed
  <2> QED BY <2>1, <2>2
<1> QED BY <1>9, <1>10 DEF Attended

\* Selecting a client changes no view.
LEMMA MaybeSelectKeepsView ==
    ASSUME NEW s, Good(s), NEW c
    PROVE  LET r == MaybeSelect(s, c)
           IN  SameView(s, r) /\ r.ruleSilent = s.ruleSilent
BY DEF MaybeSelect, SameView, Good, StateSet

\* adopt_client: a new client that gets no focus is one that was passed over.
LEMMA AdoptAttends ==
    ASSUME OneScreen, NEW s, Good(s), Attended(s), NEW c \in Clients, s.mon[c] = NoMonitor,
           NEW parent, NEW rule \in WindowRules,
           NEW refuses, c \in Docks /\ c \notin Hinted => refuses,
           NEW wantsAttention, NEW ptr,
           NEW t, t = Adopt(s, c, parent, rule, refuses, wantsAttention, ptr)
    PROVE  Attended(t)
<1> DEFINE m == AssignedMonitor(s, parent, rule)
           w == AssignedWorkspace(s, parent, rule)
           byRule == rule.workspace # NoWorkspace
           linked == Linked(s, c, m, w, parent # NoClient, byRule /\ rule.silent,
                            refuses, wantsAttention)
           unmapped == IF ptr = c THEN NoClient ELSE ptr
           r == Revealed(linked, c, byRule, unmapped)
           shown == IF r.ws[c] \in Tags THEN EnsureOverlay(r, r.mon[c], r.ws[c], ptr) ELSE r
           d == IF c \in Docks THEN NoClient ELSE c
           hush == c \in linked.ruleSilent /\ linked.ws[c] \in Tags
<1>1. m \in Monitors /\ w \in Workspaces \cup {NoWorkspace}
  BY AssignedTypes
<1>2. t = IF c \in r.ruleSilent /\ r.ws[c] \in Tags THEN r
          ELSE IF UnderOverlay(shown, c) THEN shown ELSE Focus(shown, d)
  BY DEF Adopt, Mapped
<1> HIDE DEF m, w
<1>3. Good(linked) /\ linked.mon = [s.mon EXCEPT ![c] = m]
  BY <1>1, LinkedGood
<1>4. Passed(linked, c) => Attended(linked)
  BY <1>1, LinkedAttends
<1> HIDE DEF linked
<1>5. linked.mon[c] \in Monitors
  BY <1>1, <1>3 DEF Good, StateSet
<1>6. Good(r) /\ r.mon = linked.mon
  <2>1. Keeps(linked, r)
    BY <1>3, <1>5, RevealedKeeps
  <2> HIDE DEF r
  <2> QED BY <2>1 DEF Keeps
<1>7. \A x : Good(x) => Attended(Focus(x, d))
  BY FocusAttends DEF Focused
<1>8. NormalIds \cap Tags = {}
  BY ConstantsAssumption
<1>9. CASE hush
  <2>1. r = linked
    BY <1>8, <1>9 DEF Revealed
  <2>2. t = linked
    BY <1>2, <1>9, <2>1
  <2> QED BY <1>4, <1>9, <2>2 DEF Passed
<1>10. CASE linked.ws[c] \in Tags /\ ~hush
  <2> DEFINE e == EnsureOverlay(linked, linked.mon[c], linked.ws[c], unmapped)
  <2>1. r = MaybeSelect(e, c) \/ r = MaybeSelect(linked, c)
    BY <1>8, <1>10 DEF Revealed
  <2>2. Good(e) /\ e.ws = linked.ws /\ e.ruleSilent = linked.ruleSilent
    BY <1>3, <1>5, <1>10, EnsureOverlayKeeps, EnsureOverlayShows DEF Keeps
  <2> HIDE DEF e
  <2>3. r.ws = linked.ws /\ r.ruleSilent = linked.ruleSilent
    <3> HIDE DEF r
    <3> QED BY <1>3, <2>1, <2>2, MaybeSelectKeepsView DEF SameView
  <2> HIDE DEF r
  <2>4. shown = EnsureOverlay(r, r.mon[c], r.ws[c], ptr)
    BY <1>10, <2>3
  <2>5. Good(shown) /\ Attended(shown)
    BY <1>5, <1>6, <1>10, <2>3, <2>4, EnsureOverlayKeeps, EnsureOverlayAttends DEF Keeps
  <2>6. t = shown \/ t = Focus(shown, d)
    BY <1>2, <1>10, <2>3
  <2> HIDE DEF shown
  <2> QED BY <1>7, <2>5, <2>6
<1>11. CASE linked.ws[c] \notin Tags
  <2>1. \/ r = linked
        \/ linked.ws[c] \in NormalIds /\ r = ShowNormal(linked, linked.ws[c], unmapped)
        \/ r = MaybeSelect(linked, c)
    BY <1>11 DEF Revealed
  <2>2. \/ r = linked
        \/ r.ws = linked.ws /\ ~UnderOverlay(r, c)
    <3>1. CASE r = linked
      BY <3>1
    <3>2. CASE linked.ws[c] \in NormalIds /\ r = ShowNormal(linked, linked.ws[c], unmapped)
      <4>1. r.ws = linked.ws /\ r.overlay = [n \in Monitors |-> NoTag]
        BY <1>3, <3>2, ShowNormalAttends
      <4>2. r.mon[c] \in Monitors
        BY <1>5, <1>6
      <4> HIDE DEF r
      <4> QED BY <4>1, <4>2 DEF UnderOverlay
    <3>3. CASE r = MaybeSelect(linked, c)
      <4>1. SameView(linked, MaybeSelect(linked, c))
        BY <1>3, MaybeSelectKeepsView
      <4>2. CASE UnderOverlay(linked, c)
        BY <3>3, <4>2 DEF MaybeSelect
      <4>3. CASE ~UnderOverlay(linked, c)
        <5> HIDE DEF r
        <5> QED BY <3>3, <4>1, <4>3 DEF SameView, UnderOverlay
      <4> QED BY <4>2, <4>3
    <3> QED BY <2>1, <3>1, <3>2, <3>3
  <2> HIDE DEF r
  <2>3. r.ws[c] \notin Tags /\ shown = r
    BY <1>11, <2>2
  <2>4. t = IF UnderOverlay(r, c) THEN r ELSE Focus(r, d)
    BY <1>2, <2>3
  <2>5. CASE UnderOverlay(r, c)
    <3>1. r = linked /\ t = linked
      BY <2>2, <2>4, <2>5
    <3> QED BY <1>4, <1>11, <2>5, <3>1 DEF Passed
  <2>6. CASE ~UnderOverlay(r, c)
    BY <1>6, <1>7, <2>4, <2>6
  <2> QED BY <2>5, <2>6
<1> QED BY <1>9, <1>10, <1>11

\* With one monitor every handler either focuses somebody or leaves what is on
\* screen, selected and focused as it was; one step per action of Next.
LEMMA NextAttends ==
    ASSUME OneScreen
    PROVE  IInv /\ Attended(State) /\ [Next]_vars => Attended(State')
<1> SUFFICES ASSUME IInv, Attended(State), [Next]_vars PROVE Attended(State')
  OBVIOUS
<1>0. /\ Good(State)
      /\ State.cur = cur /\ cur \in Monitors
      /\ State.mon = mon /\ State.sel = sel /\ State.ws = ws
      /\ sel \in [Monitors -> Clients \cup {NoClient}]
      /\ \A m \in Monitors : sel[m] # NoClient => mon[sel[m]] = m
  BY CurrentState
<1>1x. Monitors = {1} /\ NumMonitors = 1 /\ cur = 1
  BY <1>0 DEF OneScreen, Monitors
<1>f. \A s, c : Good(s) => Attended(Focus(s, c))
  BY FocusAttends DEF Focused
<1>m. \A c \in Clients : Managed(State, c) => mon[c] \in Monitors
  BY CurrentState DEF Managed
<1>s. \A m \in Monitors : Good([State EXCEPT !.cur = m])
  BY <1>0, Selected DEF Keeps
<1>b. ASSUME NEW s, Attended(s), Become(s) PROVE Attended(State')
  <2>1. SameView(s, State') /\ State'.sel = s.sel /\ State'.input = s.input
        /\ Excused(State') = Excused(s)
    BY <1>b DEF Become, State, SameView, Excused
  <2> QED BY <1>b, <2>1, AttendedFramed
<1>p. ASSUME NEW s, Attended(s), Step(s) PROVE Attended(State')
  BY <1>b, <1>p DEF Step
<1>1. ASSUME NEW c \in Clients, MapRequest(c) PROVE Attended(State')
  <2>1. PICK parent \in Maybe \ {c}, rule \in WindowRules,
             refuses \in IF c \in Hinted THEN BOOLEAN ELSE {c \in Docks},
             wantsAttention \in IF c \in Hinted THEN BOOLEAN ELSE {FALSE},
             ptr \in Maybe :
             Step(Adopt(State, c, parent, rule, refuses, wantsAttention, ptr))
    BY <1>1, Zenon DEF MapRequest
  <2>2. ~Managed(State, c)
    BY <1>1, Zenon DEF MapRequest
  <2>3. State.mon[c] = NoMonitor
    BY <2>2 DEF Managed
  <2>4. PICK s : s = Adopt(State, c, parent, rule, refuses, wantsAttention, ptr)
    OBVIOUS
  <2>5. c \in Docks /\ c \notin Hinted => refuses
    OBVIOUS
  <2>6. Attended(s)
    BY <1>0, <2>3, <2>4, <2>5, AdoptAttends, Zenon
  <2> QED BY <1>p, <2>1, <2>4, <2>6
<1>2. ASSUME NEW c \in Clients, Unmap(c) PROVE Attended(State')
  <2>1. PICK fallback, ptr : Step(Release(State, c, fallback, ptr))
    BY <1>2, Zenon DEF Unmap
  <2>2. State.mon[c] \in Monitors
    BY <1>0, <1>2, <1>m, Zenon DEF Unmap
  <2>3. Attended(Release(State, c, fallback, ptr))
    BY <1>0, <2>2, ReleaseAttends
  <2> QED BY <1>p, <2>1, <2>3
<1>3. ASSUME NEW w \in NormalIds, View(w) PROVE Attended(State')
  <2>1. PICK ptr : Step(ShowNormal(State, w, ptr))
    BY <1>3, Zenon DEF View
  <2> QED BY <1>0, <1>p, <2>1, ShowNormalAttends
<1>4. ASSUME NEW t \in Tags, ToggleSpecial(t) PROVE Attended(State')
  <2>1. PICK ptr : Step(ToggleOverlay(State, cur, t, ptr))
    BY <1>4, Zenon DEF ToggleSpecial
  <2>2. Attended(ToggleOverlay(State, State.cur, t, ptr))
    BY <1>0, ToggleOverlayAttends
  <2> QED BY <1>0, <1>p, <2>1, <2>2
<1>5. ASSUME NEW ref \in Workspaces, NEW silent \in BOOLEAN, Move(ref, silent)
      PROVE  Attended(State')
  <2>1. PICK ptr : Step(MoveToWorkspace(State, ref, silent, ptr))
    BY <1>5, Zenon DEF Move
  <2>2. sel[cur] # NoClient
    BY <1>5, Zenon DEF Move
  <2>3. Attended(MoveToWorkspace(State, ref, silent, ptr))
    BY <1>0, <2>2, MoveToWorkspaceAttends
  <2> QED BY <1>p, <2>1, <2>3
<1>6. ASSUME NEW direction \in {-1, 1}, FocusMonitor(direction) PROVE FALSE
  BY <1>0, <1>1x, <1>6, NeighbourType DEF FocusMonitor
<1>7. ASSUME NEW direction \in {-1, 1}, MoveToMonitor(direction) PROVE FALSE
  BY <1>1x, <1>7 DEF MoveToMonitor
<1>8. CASE BeginDrag
  BY <1>8, <1>b DEF BeginDrag
<1>9. ASSUME NEW m \in Monitors, EndDrag(m) PROVE Attended(State')
  <2>1. /\ dragged # NoClient
        /\ \E ptr : Become(IF mon[dragged] = m THEN State
               ELSE Focus([SendMon(State, dragged, m, ptr) EXCEPT !.cur = m], NoClient))
    BY <1>9, Zenon DEF EndDrag, Idle
  <2>2. dragged \in Clients /\ mon[dragged] \in Monitors
    BY <1>0, <1>m, <2>1 DEF IInv, DraggedIsManaged, Managed
  <2>3. Become(State)
    BY <1>1x, <2>1, <2>2
  <2> QED BY <1>b, <2>3
<1>10. ASSUME NEW c \in Clients, FocusNeighbour(c) PROVE Attended(State')
  BY <1>0, <1>f, <1>p, <1>10 DEF FocusNeighbour
<1>11. ASSUME NEW c \in Clients, FocusUrgent(c) PROVE Attended(State')
  <2> DEFINE s == [State EXCEPT !.cur = mon[c]]
             V(ptr) == IF Visible(s, c) \/ ws[c] \notin NormalIds THEN s
                       ELSE ViewNormal(s, ws[c], ptr)
  <2>1. \E ptr : Step(Focus(V(ptr), c))
    BY <1>11 DEF FocusUrgent
  <2>2. PICK ptr : Step(Focus(V(ptr), c))
    BY <2>1
  <2>3. Good(s)
    <3>1. mon[c] \in Monitors
      BY <1>11, <1>m DEF FocusUrgent
    <3> QED BY <1>s, <3>1
  <2> HIDE DEF s
  <2>4. Good(V(ptr))
    BY <2>3, ShowNormalKeeps DEF Keeps, ViewNormal
  <2> QED BY <1>f, <1>p, <2>2, <2>4
<1>12. ASSUME NEW c \in Clients, FocusWindow(c) PROVE Attended(State')
  <2> DEFINE m == mon[c]
             s == [State EXCEPT !.cur = m]
             t == [s EXCEPT !.active[m] = ws[c]]
             v == IF Visible(s, c) \/ ws[c] \notin NormalIds THEN s ELSE t
  <2>1. m \in Monitors /\ Step(Focus(v, c))
    BY <1>12, <1>m DEF FocusWindow
  <2> HIDE DEF m
  <2>2. Good(s)
    BY <1>s, <2>1
  <2>3. t = [State EXCEPT !.cur = m, !.active[m] = ws[c]]
    BY <1>0 DEF Good, StateSet
  <2> HIDE DEF s, t
  <2>4. ws[c] \in NormalIds => Good(t)
    BY <1>0, <2>1, <2>3, ActiveKeeps DEF Keeps
  <2>5. Good(v)
    BY <2>2, <2>4
  <2> QED BY <1>f, <1>p, <2>1, <2>5
<1>13. ASSUME NEW c \in Clients, Activate(c) PROVE Attended(State')
  <2> DEFINE V(ptr) == CASE ~Visible(State, c) /\ ws[c] \in Tags ->
                              EnsureOverlay(State, mon[c], ws[c], ptr)
                         [] ~Visible(State, c) /\ ws[c] \in NormalIds
                            /\ c \notin ruleSilent -> ViewNormal(State, ws[c], ptr)
                         [] OTHER -> State
             U(s) == [s EXCEPT !.urgent = @ \cup {c}]
  <2>1. mon[c] \in Monitors
    BY <1>13, <1>m, Zenon DEF Activate
  <2>2. PICK ptr : Step(IF FocusOnActivate /\ Visible(V(ptr), c) THEN Focus(V(ptr), c)
                        ELSE IF c # sel[cur] /\ c \in Hinted THEN U(V(ptr))
                        ELSE V(ptr))
    BY <1>13 DEF Activate
  <2>3. Good(V(ptr)) /\ Attended(V(ptr))
    <3>1. ws[c] \in Tags => /\ Good(EnsureOverlay(State, mon[c], ws[c], ptr))
                            /\ Attended(EnsureOverlay(State, mon[c], ws[c], ptr))
      BY <1>0, <2>1, EnsureOverlayKeeps, EnsureOverlayAttends DEF Keeps
    <3>2. ws[c] \in NormalIds => /\ Good(ViewNormal(State, ws[c], ptr))
                                 /\ Attended(ViewNormal(State, ws[c], ptr))
      BY <1>0, ShowNormalKeeps, ShowNormalAttends DEF Keeps, ViewNormal
    <3> QED BY <1>0, <3>1, <3>2
  <2>4. ASSUME NEW s, Good(s), Attended(s) PROVE Attended(U(s))
    <3>1. SameView(s, U(s)) /\ U(s).sel = s.sel /\ U(s).input = s.input
          /\ Excused(U(s)) = Excused(s)
      BY <2>4 DEF Good, StateSet, SameView, Excused
    <3> QED BY <2>4, <3>1, AttendedFramed
  <2> HIDE DEF V, U
  <2> QED BY <1>f, <1>p, <2>2, <2>3, <2>4
<1>14. ASSUME NEW c \in Clients, EnterClient(c) PROVE Attended(State')
  <2> DEFINE t == SwitchTo(mon[c])
  <2>1. mon[c] \in Monitors
    BY <1>14, <1>m DEF EnterClient
  <2>2. Good(t)
    BY <2>1, SwitchToGood DEF Keeps
  <2>3. Attended(t)
    <3>1. mon[c] = cur
      BY <1>1x, <2>1
    <3>2. SameView(State, t) /\ t.sel = State.sel /\ t.input = State.input
          /\ Excused(t) = Excused(State)
      BY <3>1 DEF SwitchTo, State, SameView, Excused
    <3> HIDE DEF t
    <3> QED BY <3>2, AttendedFramed
  <2> QED BY <1>14, <1>f, <1>p, <2>2, <2>3 DEF EnterClient
<1>15. ASSUME NEW m \in Monitors, EnterMonitor(m) PROVE FALSE
  BY <1>1x, <1>15 DEF EnterMonitor
<1>16. ASSUME NEW c \in Clients, ButtonPress(c) PROVE Attended(State')
  <2>1. mon[c] = cur
    BY <1>1x, <1>16, <1>m DEF ButtonPress
  <2>2. Step(IF c \in neverfocus \/ FollowMouse = 3 THEN State ELSE Focus(State, c))
    BY <1>16, <2>1 DEF ButtonPress
  <2> QED BY <1>0, <1>f, <1>p, <2>2
<1>17. ASSUME NEW m \in Monitors, PointerCrosses(m) PROVE FALSE
  BY <1>1x, <1>17 DEF PointerCrosses
<1>18. CASE FocusIn
  <2> DEFINE t == [State EXCEPT !.input = sel[cur]]
  <2>1. t.input # NoClient /\ SameView(State, t) /\ t.sel = State.sel
    BY <1>18 DEF FocusIn, State, SameView
  <2>2. Attended(t)
    BY <2>1, SameViewSeen DEF Attended
  <2> QED BY <1>18, <1>p, <2>2 DEF FocusIn
<1>19. ASSUME NEW c \in Clients, WmHints(c) PROVE Attended(State')
  <2>1. c \in Hinted
    BY <1>19 DEF WmHints
  <2>2. /\ mon' = mon /\ ws' = ws /\ active' = active /\ overlay' = overlay
        /\ sel' = sel /\ input' = input /\ ruleSilent' = ruleSilent
        /\ neverfocus' = neverfocus \cup {c} \/ neverfocus' = neverfocus \ {c}
    BY <1>19 DEF WmHints, Step, Become, State
  <2>3. SameView(State, State') /\ State'.sel = State.sel /\ State'.input = State.input
    BY <2>2 DEF State, SameView
  <2>4. Excused(State) \subseteq Excused(State')
    BY <2>1, <2>2 DEF State, Excused
  <2> QED BY <2>3, <2>4, AttendedFramed
<1>20. CASE UNCHANGED vars
  <2>1. State' = State
    BY <1>20 DEF vars, State
  <2> QED BY <2>1
<1> QED
  BY <1>1, <1>2, <1>3, <1>4, <1>5, <1>6, <1>7, <1>8, <1>9, <1>10, <1>11, <1>12,
     <1>13, <1>14, <1>15, <1>16, <1>17, <1>18, <1>19, <1>20 DEF Next

LEMMA AttendedAlways == Spec => [](OneScreen => Attended(State))
<1>1. Init => (OneScreen => Attended(State))
  BY DEF Init, State, Attended, OnScreen, Visible, Managed
<1>2. IInv /\ (OneScreen => Attended(State)) /\ [Next]_vars
        => (OneScreen => Attended(State))'
  BY NextAttends DEF OneScreen
<1> QED BY <1>1, <1>2, IInvAlways, PTL DEF Spec

\* On one monitor, with any clients, overlays, rules and settings, what is typed goes
\* to a window that is shown, or to none.
THEOREM KeyboardOnVisible == Spec => [](OneScreen => InputIsVisible)
<1>1. IInv /\ InputIsSelection /\ (OneScreen => Attended(State))
        => (OneScreen => InputIsVisible)
  <2> SUFFICES ASSUME IInv, InputIsSelection, Attended(State) PROVE InputIsVisible
    OBVIOUS
  <2>1. cur \in Monitors /\ State.sel = sel
    BY CurrentState
  <2> QED BY <2>1 DEF InputIsSelection, InputIsVisible, Attended
<1> QED BY <1>1, AttendedAlways, IInvAlways, KeyboardOnSelection, PTL

\* On one monitor the keyboard rests on the root window only while nobody on screen
\* could have been given it.
THEOREM KeyboardNeverDropped == Spec => [](OneScreen => KeyboardNotLost)
<1>1. (OneScreen => Attended(State)) => (OneScreen => KeyboardNotLost)
  <2>1. State.input = input /\ State.neverfocus = neverfocus /\ State.ruleSilent = ruleSilent
    BY DEF State
  <2> QED BY <2>1 DEF Attended, Excused, KeyboardNotLost
<1> QED BY <1>1, AttendedAlways, PTL

-----------------------------------------------------------------------------
(* Who moves.  Every step is one of five: nobody changes workspace or      *)
(* monitor, a window is managed, the selected client changes workspace, a  *)
(* client is released, or one is sent to another monitor.  Overlays that   *)
(* hide with their last client and hooks that are armed by the last one    *)
(* that leaves follow from what the step did to the two registries.        *)

\* The hook after c has left the workspace it had in s.
ArmedWithout(s, t, c) ==
    IF s.ws[c] \in Hooked /\ ~Occupied(t, s.ws[c]) THEN s.armed \cup {s.ws[c]} ELSE s.armed

\* The overlay of n is left as it was only if c was not its last client.
KeepsOpen(s, t, c, n) ==
    t.overlay[n] = s.overlay[n] /\ (s.mon[c] = n => ~Autohides(t, n))

\* Every managed client has a workspace.
Housed(s) == \A c \in Clients : s.mon[c] # NoMonitor => s.ws[c] \in Workspaces

Stays(s, t) == t.mon = s.mon /\ t.ws = s.ws /\ t.armed \subseteq s.armed

Arrives(s, t, c) ==
    /\ s.mon[c] = NoMonitor
    /\ \E m \in Monitors : t.mon = [s.mon EXCEPT ![c] = m]
    /\ \E w \in Workspaces \cup {NoWorkspace} :
         /\ Housed(s) => w \in Workspaces
         /\ t.ws = [s.ws EXCEPT ![c] = w]
    /\ t.armed \subseteq s.armed

Moves(s, t, c, ref) ==
    /\ s.mon[c] \in Monitors /\ s.ws[c] # ref
    /\ t.mon = s.mon /\ t.ws = [s.ws EXCEPT ![c] = ref]
    /\ t.armed = ArmedWithout(s, t, c) \ {ref}
    /\ \A n \in Monitors : t.overlay[n] \in {NoTag, ref} \/ KeepsOpen(s, t, c, n)

Leaves(s, t, c) ==
    /\ s.mon[c] \in Monitors
    /\ t.mon = [s.mon EXCEPT ![c] = NoMonitor] /\ t.ws = [s.ws EXCEPT ![c] = NoWorkspace]
    /\ t.armed = ArmedWithout(s, t, c)
    /\ \A n \in Monitors : t.overlay[n] = NoTag \/ KeepsOpen(s, t, c, n)

Sent(s, t, c, m) ==
    /\ s.mon[c] \in Monitors \ {m}
    /\ t.mon = [s.mon EXCEPT ![c] = m] /\ t.ws = [s.ws EXCEPT ![c] = s.active[m]]
    /\ \A n \in Monitors : t.overlay[n] = NoTag \/ KeepsOpen(s, t, c, n)

\* focus() leaves the hooks alone.
LEMMA FocusKeepsHooks ==
    ASSUME NEW s, Good(s), NEW c
    PROVE  Focus(s, c).armed = s.armed
<1> DEFINE E == {e \in Clients : Focusable(s, e)}
           d == IF Focusable(s, c) THEN c ELSE Newest(s.stack[s.cur], E)
           m == s.mon[d]
           f == [s EXCEPT !.stack[m] = <<d>> \o RemoveFirst(@, d)]
<1>1. \/ Focus(s, c) = [s EXCEPT !.sel[s.cur] = NoClient, !.input = NoClient]
      \/ Focus(s, c) = [f EXCEPT !.cur = m, !.sel[m] = d, !.input = d, !.urgent = @ \ {d}]
  BY DEF Focus, ToFront
<1> HIDE DEF d, m
<1> QED BY <1>1 DEF Good, StateSet

\* t shows and hooks what s does.
Alike(s, t) == SameView(s, t) /\ t.armed = s.armed /\ t.ruleSilent = s.ruleSilent

\* The helpers that only focus.
LEMMA FocusAlike ==
    ASSUME NEW s, Good(s), NEW c
    PROVE  Alike(s, Focus(s, c)) /\ Good(Focus(s, c))
BY FocusKeepsView, FocusKeepsHooks, FocusKeeps DEF Alike, Keeps

LEMMA SelectedAlike ==
    ASSUME NEW s, Good(s), NEW m \in Monitors
    PROVE  Alike(s, [s EXCEPT !.cur = m]) /\ Good([s EXCEPT !.cur = m])
<1>1. Good([s EXCEPT !.cur = m])
  BY Selected DEF Keeps
<1>2. Alike(s, [s EXCEPT !.cur = m])
  BY DEF Alike, SameView, Good, StateSet
<1> QED BY <1>1, <1>2

LEMMA FocusOnAlike ==
    ASSUME NEW s, Good(s), NEW m \in Monitors, NEW c
    PROVE  Alike(s, Focus([s EXCEPT !.cur = m], c)) /\ Good(Focus([s EXCEPT !.cur = m], c))
<1> DEFINE t == [s EXCEPT !.cur = m]
<1>1. Alike(s, t) /\ Good(t)
  BY SelectedAlike
<1> HIDE DEF t
<1>2. Alike(t, Focus(t, c)) /\ Good(Focus(t, c))
  BY <1>1, FocusAlike
<1>3. Alike(s, Focus(t, c))
  BY <1>1, <1>2 DEF Alike, SameView
<1> QED BY <1>2, <1>3 DEF t

LEMMA HiddenAlike ==
    ASSUME NEW s, Good(s), NEW m \in Monitors, NEW ptr
    PROVE  Alike(s, FocusAfterHidden(s, m, ptr)) /\ Good(FocusAfterHidden(s, m, ptr))
BY FocusOnAlike DEF FocusAfterHidden

LEMMA OverlayFocusAlike ==
    ASSUME NEW s, Good(s), NEW m \in Monitors, NEW ptr
    PROVE  Alike(s, FocusFirstOverlay(s, m, ptr)) /\ Good(FocusFirstOverlay(s, m, ptr))
<1>1. \A c : Alike(s, Focus([s EXCEPT !.cur = m], c)) /\ Good(Focus([s EXCEPT !.cur = m], c))
  BY FocusOnAlike
<1>2. Alike(s, s)
  BY DEF Alike, SameView
<1>3. \/ FocusFirstOverlay(s, m, ptr) = s
      \/ \E c : FocusFirstOverlay(s, m, ptr) = Focus([s EXCEPT !.cur = m], c)
  BY DEF FocusFirstOverlay
<1> QED BY <1>1, <1>2, <1>3

\* An overlay that is opened changes the view of its monitor and nothing else.
Opened(s, u, m, t) ==
    /\ Good(u)
    /\ u.mon = s.mon /\ u.ws = s.ws /\ u.active = s.active /\ u.armed = s.armed
    /\ u.ruleSilent = s.ruleSilent
    /\ u.overlay = [s.overlay EXCEPT ![m] = t]

LEMMA EnsureOverlayAlike ==
    ASSUME NEW s, Good(s), NEW m \in Monitors, NEW t \in Tags, NEW ptr
    PROVE  Opened(s, EnsureOverlay(s, m, t, ptr), m, t)
<1> DEFINE v == [s EXCEPT !.overlay[m] = t]
<1>1. Good(v)
  BY OverlayKeeps DEF Keeps
<1>2. /\ v.mon = s.mon /\ v.ws = s.ws /\ v.active = s.active /\ v.armed = s.armed
      /\ v.ruleSilent = s.ruleSilent
      /\ v.overlay = [s.overlay EXCEPT ![m] = t]
  BY DEF Good, StateSet
<1> DEFINE u == EnsureOverlay(s, m, t, ptr)
<1>3. u = FocusFirstOverlay(v, m, ptr)
  BY DEF EnsureOverlay
<1> HIDE DEF v, u
<1>4. Alike(v, u) /\ Good(u)
  BY <1>1, <1>3, OverlayFocusAlike
<1>5. Opened(s, u, m, t)
  BY <1>2, <1>4 DEF Alike, SameView, Opened
<1> QED BY <1>5 DEF u

\* apply_normal_workspace_view moves nobody, and runs the hook of an empty workspace.
Viewed(s, u, w) ==
    /\ Good(u)
    /\ u.mon = s.mon /\ u.ws = s.ws /\ u.ruleSilent = s.ruleSilent
    /\ u.armed = IF Occupied(s, w) THEN s.armed ELSE s.armed \ {w}
    /\ u.active = [s.active EXCEPT ![TargetMonitor(s, w)] = w]
    /\ u.overlay = [s.overlay EXCEPT ![TargetMonitor(s, w)] = NoTag]

LEMMA ShowNormalAlike ==
    ASSUME NEW s, Good(s), NEW w \in NormalIds, NEW ptr
    PROVE  Viewed(s, ShowNormal(s, w, ptr), w)
<1> DEFINE u == ShowNormal(s, w, ptr)
<1> DEFINE m == TargetMonitor(s, w)
           closed == CloseOverlay(s, m)
           shown == [closed EXCEPT !.cur = m, !.active[m] = w]
           focused == Focus(shown, NoClient)
           followed == FollowPointer(focused, ptr)
<1>0. m \in Monitors
  BY TargetMonitorType
<1>a. u = SpawnIfEmpty(followed, w)
  BY DEF ShowNormal
<1> HIDE DEF m, u
<1>1. /\ Good(closed)
      /\ closed.mon = s.mon /\ closed.ws = s.ws /\ closed.ruleSilent = s.ruleSilent
      /\ closed.armed = s.armed /\ closed.active = s.active
      /\ closed.overlay = [s.overlay EXCEPT ![m] = NoTag]
  <2>1. Good(closed)
    BY <1>0, AutohideKeeps DEF Keeps
  <2>2. closed = [s EXCEPT !.overlay[m] = NoTag]
    BY DEF CloseOverlay
  <2> QED BY <2>1, <2>2 DEF Good, StateSet
<1> HIDE DEF closed
<1>2. /\ Good(shown)
      /\ shown.mon = closed.mon /\ shown.ws = closed.ws
      /\ shown.ruleSilent = closed.ruleSilent /\ shown.armed = closed.armed
      /\ shown.active = [closed.active EXCEPT ![m] = w]
      /\ shown.overlay = closed.overlay
  <2>1. Good(shown)
    BY <1>0, <1>1, ActiveKeeps DEF Keeps
  <2> QED BY <1>1, <2>1 DEF Good, StateSet
<1> HIDE DEF shown
<1>3. Alike(shown, focused) /\ Good(focused)
  BY <1>2, FocusAlike
<1> HIDE DEF focused
<1>4. Alike(shown, followed) /\ Good(followed)
  <2>1. followed = focused \/ followed = Focus(focused, ptr)
    BY DEF FollowPointer
  <2>2. Alike(focused, Focus(focused, ptr)) /\ Good(Focus(focused, ptr))
    BY <1>3, FocusAlike
  <2> QED BY <1>3, <2>1, <2>2 DEF Alike, SameView
<1> HIDE DEF followed
<1>5. /\ followed.mon = s.mon /\ followed.ws = s.ws /\ followed.ruleSilent = s.ruleSilent
      /\ followed.armed = s.armed
      /\ followed.active = [s.active EXCEPT ![m] = w]
      /\ followed.overlay = [s.overlay EXCEPT ![m] = NoTag]
  BY <1>1, <1>2, <1>4 DEF Alike, SameView
<1>6. Occupied(followed, w) <=> Occupied(s, w)
  BY <1>5 DEF Occupied, Members
<1>7. /\ Good(u)
      /\ u.mon = followed.mon /\ u.ws = followed.ws /\ u.ruleSilent = followed.ruleSilent
      /\ u.active = followed.active /\ u.overlay = followed.overlay
      /\ u.armed = IF Occupied(followed, w) THEN followed.armed ELSE followed.armed \ {w}
  <2>1. Good(u)
    BY <1>4, <1>a, HookKeeps DEF Keeps
  <2> QED BY <1>4, <1>a, <2>1 DEF SpawnIfEmpty, Good, StateSet
<1>8. Viewed(s, u, w)
  BY <1>5, <1>6, <1>7 DEF Viewed, m
<1> QED BY <1>8 DEF u

\* The helper that only closes an overlay.
LEMMA AutohideAlike ==
    ASSUME NEW s, Good(s), NEW m \in Monitors, NEW u, u = Autohide(s, m)
    PROVE  /\ Good(u)
           /\ u.mon = s.mon /\ u.ws = s.ws /\ u.active = s.active /\ u.armed = s.armed
           /\ u.overlay = IF Autohides(s, m) THEN [s.overlay EXCEPT ![m] = NoTag]
                          ELSE s.overlay
<1>1. Good(u)
  BY AutohideKeeps DEF Keeps
<1>2. u = IF Autohides(s, m) THEN [s EXCEPT !.overlay[m] = NoTag] ELSE s
  BY DEF Autohide, CloseOverlay
<1> QED BY <1>1, <1>2 DEF Good, StateSet

\* view_special_workspace moves nobody.
LEMMA ToggleOverlayStays ==
    ASSUME NEW s, Good(s), NEW t \in Tags, NEW ptr, NEW u, u = ToggleOverlay(s, s.cur, t, ptr)
    PROVE  Stays(s, u)
<1> DEFINE m == s.cur
           at == [s EXCEPT !.cur = m]
           closed == CloseOverlay(s, m)
<1>1. m \in Monitors
  BY DEF Good, StateSet
<1>2. \/ u = EnsureOverlay(at, m, t, ptr)
      \/ u = FocusAfterHidden(closed, m, ptr)
      \/ u = FocusFirstOverlay(s, m, ptr)
  BY DEF ToggleOverlay
<1>3. Good(at) /\ Alike(s, at)
  BY <1>1, SelectedAlike
<1>4. Good(closed) /\ closed.mon = s.mon /\ closed.ws = s.ws /\ closed.armed = s.armed
  <2>1. Good(closed)
    BY <1>1, AutohideKeeps DEF Keeps
  <2>2. closed = [s EXCEPT !.overlay[m] = NoTag]
    BY DEF CloseOverlay
  <2> QED BY <2>1, <2>2 DEF Good, StateSet
<1> HIDE DEF at, closed, m
<1>5. CASE u = EnsureOverlay(at, m, t, ptr)
  <2>1. Opened(at, EnsureOverlay(at, m, t, ptr), m, t)
    BY <1>1, <1>3, EnsureOverlayAlike
  <2>2. Opened(at, u, m, t)
    BY <1>5, <2>1
  <2> QED BY <1>3, <2>2 DEF Opened, Alike, SameView, Stays
<1>6. CASE u = FocusAfterHidden(closed, m, ptr)
  BY <1>1, <1>4, <1>6, HiddenAlike DEF Alike, SameView, Stays
<1>7. CASE u = FocusFirstOverlay(s, m, ptr)
  BY <1>1, <1>7, OverlayFocusAlike DEF Alike, SameView, Stays
<1> QED BY <1>2, <1>5, <1>6, <1>7

\* The hook's two calls around a client that changes hands.
LEMMA LeftAlike ==
    ASSUME NEW s, Good(s), NEW w, NEW u, u = ClientLeft(s, w)
    PROVE  /\ Good(u) /\ SameView(s, u)
           /\ u.armed = IF w \in Hooked /\ ~Occupied(s, w) THEN s.armed \cup {w} ELSE s.armed
<1>1. Good(u)
  BY HookKeeps DEF Keeps
<1> QED BY <1>1 DEF ClientLeft, Good, StateSet, SameView

LEMMA JoinedAlike ==
    ASSUME NEW s, Good(s), NEW w, NEW u, u = ClientJoined(s, w)
    PROVE  Good(u) /\ SameView(s, u) /\ u.armed = s.armed \ {w}
<1>1. Good(u)
  BY HookKeeps DEF Keeps
<1> QED BY <1>1 DEF ClientJoined, Good, StateSet, SameView

\* Who is where decides which workspaces are occupied.
LEMMA SameOccupied ==
    ASSUME NEW s, NEW t, t.mon = s.mon, t.ws = s.ws, NEW w
    PROVE  /\ Occupied(t, w) <=> Occupied(s, w)
           /\ \A m : Members(t, m, w) = Members(s, m, w)
BY DEF Occupied, Members

\* What is done after wm_special_overlay_autohide_if_empty keeps its effect.
LEMMA HidesWithLast ==
    ASSUME NEW s, NEW x, Good(x), x.overlay = s.overlay, NEW c, NEW m \in Monitors,
           s.mon[c] = m, NEW u, u.mon = x.mon, u.ws = x.ws,
           u.overlay = Autohide(x, m).overlay
    PROVE  \A n \in Monitors : u.overlay[n] = NoTag \/ KeepsOpen(s, u, c, n)
<1> DEFINE hidden == Autohide(x, m)
<1>1. hidden.overlay = IF Autohides(x, m) THEN [x.overlay EXCEPT ![m] = NoTag]
                       ELSE x.overlay
  BY AutohideAlike
<1> HIDE DEF hidden
<1>2. x.overlay \in [Monitors -> Tags \cup {NoTag}]
  BY DEF Good, StateSet
<1>3. CASE Autohides(x, m)
  BY <1>1, <1>2, <1>3 DEF KeepsOpen, hidden
<1>4. CASE ~Autohides(x, m)
  <2>1. u.overlay = x.overlay
    BY <1>1, <1>4 DEF hidden
  <2>2. ~Autohides(u, m)
    BY <1>4, <2>1, SameOccupied DEF Autohides
  <2> QED BY <2>1, <2>2 DEF KeepsOpen
<1> QED BY <1>3, <1>4

\* movetoworkspace_ref.
LEMMA MoveToWorkspaceMoves ==
    ASSUME NEW s, Good(s), s.sel[s.cur] # NoClient,
           NEW ref \in Workspaces, NEW silent \in BOOLEAN, NEW ptr,
           NEW u, u = MoveToWorkspace(s, ref, silent, ptr)
    PROVE  Stays(s, u) \/ Moves(s, u, s.sel[s.cur], ref)
<1> DEFINE m == s.cur
           c == s.sel[m]
           moved == [s EXCEPT !.ws[c] = ref]
           hidden == Autohide(moved, m)
           emptied == ClientLeft(hidden, s.ws[c])
           left == ClientJoined(emptied, ref)
           viewed == ViewAfterMove(left, ref, silent, ptr)
<1>1. m \in Monitors /\ c \in Clients /\ s.mon[c] = m
  BY DEF Good, StateSet, ClientListsOf
<1>2. NormalIds \cap Tags = {} /\ ref \in NormalIds \cup Tags
  BY ConstantsAssumption DEF Workspaces
<1>3. ASSUME NEW t, Good(t), silent \/ ref \in NormalIds,
             NEW v, v = ViewAfterMove(t, ref, silent, ptr)
      PROVE  /\ Good(v) /\ v.mon = t.mon /\ v.ws = t.ws
             /\ v.armed \in {t.armed, t.armed \ {ref}}
             /\ \A n \in Monitors : v.overlay[n] = t.overlay[n] \/ v.overlay[n] = NoTag
  <2>1. v = Focus(t, NoClient) \/ (ref \in NormalIds /\ v = ShowNormal(t, ref, ptr))
    BY <1>3 DEF ViewAfterMove
  <2>2. CASE v = Focus(t, NoClient)
    BY <1>3, <2>2, FocusAlike DEF Alike, SameView
  <2>3. CASE ref \in NormalIds /\ v = ShowNormal(t, ref, ptr)
    <3>1. /\ Good(v) /\ v.mon = t.mon /\ v.ws = t.ws
          /\ v.armed = IF Occupied(t, ref) THEN t.armed ELSE t.armed \ {ref}
          /\ v.overlay = [t.overlay EXCEPT ![TargetMonitor(t, ref)] = NoTag]
      <4>1. Good(t) /\ ref \in NormalIds /\ v = ShowNormal(t, ref, ptr)
        BY <1>3, <2>3
      <4>2. Viewed(t, ShowNormal(t, ref, ptr), ref)
        BY <4>1, ShowNormalAlike
      <4> QED BY <4>1, <4>2 DEF Viewed
    <3>2. t.overlay \in [Monitors -> Tags \cup {NoTag}]
      BY <1>3 DEF Good, StateSet
    <3> QED BY <3>1, <3>2
  <2> QED BY <2>1, <2>2, <2>3
<1>4. CASE s.ws[c] = ref
  <2>1. \/ ref \in Tags /\ u = EnsureOverlay(s, m, ref, ptr)
        \/ (silent \/ ref \in NormalIds) /\ u = ViewAfterMove(s, ref, silent, ptr)
    <3>1. CASE ref \in Tags /\ ~silent
      <4>1. u = EnsureOverlay(IF s.ws[c] = ref THEN s ELSE left, m, ref, ptr)
        BY <1>2, <3>1 DEF MoveToWorkspace
      <4> QED BY <1>4, <3>1, <4>1
    <3>2. CASE ~(ref \in Tags /\ ~silent)
      BY <1>2, <1>4, <3>2 DEF MoveToWorkspace
    <3> QED BY <3>1, <3>2
  <2>2. CASE ref \in Tags /\ u = EnsureOverlay(s, m, ref, ptr)
    <3>1. Opened(s, EnsureOverlay(s, m, ref, ptr), m, ref)
      BY <1>1, <2>2, EnsureOverlayAlike
    <3> QED BY <2>2, <3>1 DEF Opened, Stays
  <2>3. CASE (silent \/ ref \in NormalIds) /\ u = ViewAfterMove(s, ref, silent, ptr)
    <3>1. u.mon = s.mon /\ u.ws = s.ws /\ u.armed \subseteq s.armed
      BY <1>3, <2>3
    <3> QED BY <3>1 DEF Stays
  <2> QED BY <2>1, <2>2, <2>3
<1>5. CASE s.ws[c] # ref
  <2>0. \/ ref \in Tags /\ u = EnsureOverlay(left, m, ref, ptr)
        \/ /\ silent \/ ref \in NormalIds
           /\ u = IF Autohides(moved, m) THEN FocusAfterHidden(viewed, m, ptr) ELSE viewed
    BY <1>2, <1>5 DEF MoveToWorkspace
  <2>1. /\ Good(moved) /\ moved.mon = s.mon /\ moved.ws = [s.ws EXCEPT ![c] = ref]
        /\ moved.overlay = s.overlay /\ moved.armed = s.armed
    <3>1. Good(moved)
      BY <1>1, WorkspaceKeeps DEF Keeps
    <3> QED BY <3>1 DEF Good, StateSet
  <2> HIDE DEF moved
  <2>2. /\ Good(hidden)
        /\ hidden.mon = moved.mon /\ hidden.ws = moved.ws /\ hidden.armed = moved.armed
        /\ hidden.overlay = IF Autohides(moved, m) THEN [moved.overlay EXCEPT ![m] = NoTag]
                            ELSE moved.overlay
    BY <1>1, <2>1, AutohideAlike
  <2> HIDE DEF hidden
  <2>3. /\ Good(emptied) /\ SameView(hidden, emptied)
        /\ emptied.armed = IF s.ws[c] \in Hooked /\ ~Occupied(hidden, s.ws[c])
                           THEN hidden.armed \cup {s.ws[c]} ELSE hidden.armed
    BY <2>2, LeftAlike
  <2> HIDE DEF emptied
  <2>4. Good(left) /\ SameView(emptied, left) /\ left.armed = emptied.armed \ {ref}
    BY <2>3, JoinedAlike
  <2> HIDE DEF left
  <2>5. /\ left.mon = s.mon /\ left.ws = [s.ws EXCEPT ![c] = ref]
        /\ left.armed = ArmedWithout(s, left, c) \ {ref}
    <3>1. left.mon = hidden.mon /\ left.ws = hidden.ws
      BY <2>3, <2>4 DEF SameView
    <3>2. Occupied(left, s.ws[c]) <=> Occupied(hidden, s.ws[c])
      BY <3>1, SameOccupied
    <3> QED BY <2>1, <2>2, <2>3, <2>4, <3>1, <3>2 DEF ArmedWithout
  <2>6. \A n \in Monitors : left.overlay[n] = NoTag \/ KeepsOpen(s, left, c, n)
    <3>1. left.overlay = hidden.overlay /\ left.mon = moved.mon /\ left.ws = moved.ws
      BY <2>2, <2>3, <2>4 DEF SameView
    <3> QED BY <1>1, <2>1, <3>1, HidesWithLast DEF hidden
  \* What follows leaves everybody in place and closes overlays only.
  <2>8. ASSUME NEW n \in Monitors, u.mon = left.mon, u.ws = left.ws,
               u.overlay[n] = left.overlay[n]
        PROVE  u.overlay[n] = NoTag \/ KeepsOpen(s, u, c, n)
    <3>1. Autohides(u, n) <=> Autohides(left, n)
      BY <2>8, SameOccupied DEF Autohides
    <3> QED BY <2>6, <2>8, <3>1 DEF KeepsOpen
  <2>9. ASSUME u.mon = left.mon, u.ws = left.ws, u.armed = left.armed,
               \A n \in Monitors : u.overlay[n] \in {left.overlay[n], NoTag, ref}
        PROVE  Moves(s, u, c, ref)
    <3>1. ArmedWithout(s, u, c) = ArmedWithout(s, left, c)
      BY <2>9, SameOccupied DEF ArmedWithout
    <3> QED BY <1>1, <1>5, <2>5, <2>8, <2>9, <3>1 DEF Moves
  <2>10. CASE ref \in Tags /\ u = EnsureOverlay(left, m, ref, ptr)
    <3>1. /\ u.mon = left.mon /\ u.ws = left.ws /\ u.armed = left.armed
          /\ u.overlay = [left.overlay EXCEPT ![m] = ref]
      BY <1>1, <2>4, <2>10, EnsureOverlayAlike DEF Opened
    <3>2. left.overlay \in [Monitors -> Tags \cup {NoTag}]
      BY <2>4 DEF Good, StateSet
    <3> QED BY <2>9, <3>1, <3>2
  <2>11. CASE /\ silent \/ ref \in NormalIds
              /\ u = IF Autohides(moved, m) THEN FocusAfterHidden(viewed, m, ptr) ELSE viewed
    <3>1. /\ Good(viewed) /\ viewed.mon = left.mon /\ viewed.ws = left.ws
          /\ viewed.armed = left.armed
          /\ \A n \in Monitors : viewed.overlay[n] \in {left.overlay[n], NoTag}
      BY <1>3, <2>4, <2>11
    <3> HIDE DEF viewed
    <3>2. Alike(viewed, u)
      <4>1. Alike(viewed, FocusAfterHidden(viewed, m, ptr)) /\ Alike(viewed, viewed)
        BY <1>1, <3>1, HiddenAlike DEF Alike, SameView
      <4> QED BY <2>11, <4>1
    <3> QED BY <2>9, <3>1, <3>2 DEF Alike, SameView
  <2> QED BY <2>0, <2>10, <2>11
<1> QED BY <1>4, <1>5

\* client_unlink changes no workspace, view or hook.
LEMMA UnlinkAlike ==
    ASSUME NEW s, Good(s), NEW c \in Clients
    PROVE  LET u == Unlink(s, c)
           IN  /\ u.ws = s.ws /\ u.overlay = s.overlay /\ u.active = s.active
               /\ u.armed = s.armed
<1> DEFINE m == s.mon[c]
           t == [s EXCEPT !.stack[m] = RemoveFirst(@, c), !.mon[c] = NoMonitor]
<1>1. \/ Unlink(s, c) = t
      \/ \E d : Unlink(s, c) = [t EXCEPT !.sel[m] = d]
  BY DEF Unlink
<1> QED BY <1>1 DEF Good, StateSet

\* release_client.
LEMMA ReleaseLeaves ==
    ASSUME NEW s, Good(s), NEW c \in Clients, s.mon[c] \in Monitors,
           NEW fallback, NEW ptr, NEW u, u = Release(s, c, fallback, ptr)
    PROVE  Leaves(s, u, c)
<1> DEFINE m == s.mon[c]
           unlinked == Unlink(s, c)
           out == [unlinked EXCEPT !.ws[c] = NoWorkspace]
           gone == [unlinked EXCEPT !.ws[c] = NoWorkspace,
                                    !.neverfocus = @ \ {c}, !.urgent = @ \ {c},
                                    !.ruleSilent = @ \ {c}]
           hidden == Autohide(gone, m)
           left == ClientLeft(hidden, s.ws[c])
           settled == Focus(left, fallback)
<1>0. u = IF Autohides(gone, m) THEN FocusAfterHidden(settled, m, ptr) ELSE settled
  BY DEF Release
<1>1. /\ Good(unlinked) /\ unlinked.mon = [s.mon EXCEPT ![c] = NoMonitor]
      /\ unlinked.ws = s.ws /\ unlinked.overlay = s.overlay /\ unlinked.armed = s.armed
  BY UnlinkGood, UnlinkAlike
<1> HIDE DEF unlinked
<1>2. Good(out)
  BY <1>1, WorkspaceKeeps DEF Keeps
<1>3. gone = [out EXCEPT !.neverfocus = @ \ {c}, !.urgent = @ \ {c},
                         !.ruleSilent = @ \ {c}]
  BY <1>1 DEF Good, StateSet
<1>4. /\ gone.mon = unlinked.mon /\ gone.ws = [unlinked.ws EXCEPT ![c] = NoWorkspace]
      /\ gone.overlay = unlinked.overlay /\ gone.armed = unlinked.armed
  BY <1>1 DEF Good, StateSet
<1> HIDE DEF out, gone
<1>5. Good(gone)
  <2>1. gone \in StateSet
    BY <1>2, <1>3 DEF Good, StateSet
  <2>2. gone.mon = out.mon /\ gone.stack = out.stack /\ gone.sel = out.sel
    BY <1>2, <1>3 DEF Good, StateSet
  <2> QED BY <1>2, <2>1, <2>2, Framed DEF Keeps
<1>6. /\ Good(hidden)
      /\ hidden.mon = gone.mon /\ hidden.ws = gone.ws /\ hidden.armed = gone.armed
  BY <1>5, AutohideAlike
<1> HIDE DEF hidden
<1>7. /\ Good(left) /\ SameView(hidden, left)
      /\ left.armed = IF s.ws[c] \in Hooked /\ ~Occupied(hidden, s.ws[c])
                      THEN hidden.armed \cup {s.ws[c]} ELSE hidden.armed
  BY <1>6, LeftAlike
<1> HIDE DEF left
<1>8. Alike(left, settled) /\ Good(settled)
  BY <1>7, FocusAlike
<1> HIDE DEF settled
<1>9. Alike(settled, FocusAfterHidden(settled, m, ptr)) /\ Alike(settled, settled)
  BY <1>8, HiddenAlike DEF Alike, SameView
<1>10. Alike(left, u)
  BY <1>0, <1>8, <1>9 DEF Alike, SameView
<1>11. /\ u.mon = gone.mon /\ u.ws = gone.ws /\ u.overlay = hidden.overlay
       /\ u.armed = left.armed
  BY <1>6, <1>7, <1>10 DEF Alike, SameView
<1>12. u.armed = ArmedWithout(s, u, c)
  <2>1. Occupied(u, s.ws[c]) <=> Occupied(hidden, s.ws[c])
    BY <1>6, <1>11, SameOccupied
  <2> QED BY <1>1, <1>4, <1>6, <1>7, <1>11, <2>1 DEF ArmedWithout
<1>13. \A n \in Monitors : u.overlay[n] = NoTag \/ KeepsOpen(s, u, c, n)
  BY <1>1, <1>4, <1>5, <1>11, HidesWithLast DEF hidden
<1> QED BY <1>1, <1>4, <1>11, <1>12, <1>13 DEF Leaves

\* sendmon.
LEMMA SendMonSent ==
    ASSUME NEW s, Good(s), NEW c \in Clients, s.mon[c] \in Monitors,
           NEW m \in Monitors, NEW ptr, NEW u, u = SendMon(s, c, m, ptr)
    PROVE  u = s \/ Sent(s, u, c, m)
<1> DEFINE src == s.mon[c]
           gone == Unlink(s, c)
           linked == [gone EXCEPT !.mon[c] = m, !.ws[c] = s.active[m],
                                  !.stack[m] = <<c>> \o @]
           there == [gone EXCEPT !.mon[c] = m, !.ws[c] = s.active[m],
                                 !.stack[m] = <<c>> \o @, !.input = NoClient]
           hidden == Autohide(there, src)
           settled == Focus(hidden, NoClient)
<1>0. \/ u = s
      \/ src # m /\ u = IF Autohides(there, src)
                        THEN FocusAfterHidden(settled, src, ptr) ELSE settled
  BY DEF SendMon
<1>1. /\ Good(gone) /\ gone.mon = [s.mon EXCEPT ![c] = NoMonitor]
      /\ gone.ws = s.ws /\ gone.overlay = s.overlay
  BY UnlinkGood, UnlinkAlike
<1>2. gone.mon[c] = NoMonitor /\ s.active[m] \in Workspaces
  <2>1. s.mon \in [Clients -> Monitors \cup {NoMonitor}]
    BY DEF Good, StateSet
  <2> HIDE DEF gone
  <2> QED BY <1>1, <2>1 DEF Good, StateSet, Workspaces
<1> HIDE DEF gone
<1>3. Good(linked)
  BY <1>1, <1>2, LinkGood
<1>4. there = [linked EXCEPT !.input = NoClient]
  BY <1>1 DEF Good, StateSet
<1>5. /\ there.mon = [s.mon EXCEPT ![c] = m] /\ there.ws = [s.ws EXCEPT ![c] = s.active[m]]
      /\ there.overlay = s.overlay
  <2>1. there.mon = [gone.mon EXCEPT ![c] = m] /\ there.ws = [gone.ws EXCEPT ![c] = s.active[m]]
        /\ there.overlay = gone.overlay
    BY <1>1 DEF Good, StateSet
  <2> HIDE DEF there
  <2> QED BY <1>1, <2>1
<1> HIDE DEF linked, there
<1>6. Good(there)
  <2>1. there \in StateSet
    BY <1>3, <1>4 DEF Good, StateSet
  <2>2. there.mon = linked.mon /\ there.stack = linked.stack /\ there.sel = linked.sel
    BY <1>3, <1>4 DEF Good, StateSet
  <2> QED BY <1>3, <2>1, <2>2, Framed DEF Keeps
<1>7. Good(hidden) /\ hidden.mon = there.mon /\ hidden.ws = there.ws
  BY <1>6, AutohideAlike
<1> HIDE DEF hidden
<1>8. Alike(hidden, settled) /\ Good(settled)
  BY <1>7, FocusAlike
<1> HIDE DEF settled
<1>9. Alike(settled, FocusAfterHidden(settled, src, ptr)) /\ Alike(settled, settled)
  BY <1>8, HiddenAlike DEF Alike, SameView
<1>10. ASSUME u # s PROVE Sent(s, u, c, m)
  <2>1. u.mon = there.mon /\ u.ws = there.ws /\ u.overlay = hidden.overlay
    BY <1>0, <1>7, <1>8, <1>9, <1>10 DEF Alike, SameView
  <2>2. \A n \in Monitors : u.overlay[n] = NoTag \/ KeepsOpen(s, u, c, n)
    BY <1>5, <1>6, <2>1, HidesWithLast DEF hidden
  <2> QED BY <1>0, <1>5, <1>10, <2>1, <2>2 DEF Sent
<1> QED BY <1>10

\* adopt_client: the new client gets its place first, and nobody else moves.
LEMMA LinkedArrives ==
    ASSUME NEW s, Good(s), NEW c \in Clients, s.mon[c] = NoMonitor,
           NEW m \in Monitors, NEW w \in Workspaces \cup {NoWorkspace},
           Housed(s) => w \in Workspaces,
           NEW transient, NEW quiet, NEW refuses, NEW wantsAttention
    PROVE  Arrives(s, Linked(s, c, m, w, transient, quiet, refuses, wantsAttention), c)
<1> DEFINE modal == WindowType[c] = "dialog" \/ (transient /\ WindowType[c] # "splash")
           closed == IF w \in NormalIds /\ modal THEN CloseOverlay(s, m) ELSE s
           joined == IF c \in Docks THEN closed ELSE ClientJoined(closed, w)
           N == IF refuses THEN joined.neverfocus \cup {c} ELSE joined.neverfocus
           U == IF wantsAttention THEN joined.urgent \cup {c} ELSE joined.urgent
           R == IF quiet THEN joined.ruleSilent \cup {c} ELSE joined.ruleSilent
           u == Linked(s, c, m, w, transient, quiet, refuses, wantsAttention)
<1>1. Good(closed) /\ closed.mon = s.mon /\ closed.ws = s.ws /\ closed.armed = s.armed
  <2>1. Good(closed)
    BY AutohideKeeps DEF Keeps
  <2>2. closed = s \/ closed = [s EXCEPT !.overlay[m] = NoTag]
    BY DEF CloseOverlay
  <2> QED BY <2>1, <2>2 DEF Good, StateSet
<1> HIDE DEF closed
<1>2. /\ Good(joined) /\ joined.mon = s.mon /\ joined.ws = s.ws
      /\ joined.armed \subseteq s.armed
  <2>1. /\ Good(ClientJoined(closed, w)) /\ SameView(closed, ClientJoined(closed, w))
        /\ ClientJoined(closed, w).armed = closed.armed \ {w}
    BY <1>1, JoinedAlike
  <2> QED BY <1>1, <2>1 DEF SameView
<1>3. u = [joined EXCEPT !.mon[c] = m, !.ws[c] = w, !.stack[m] = <<c>> \o @,
             !.neverfocus = N, !.urgent = U, !.ruleSilent = R]
  <2>1. u = [joined EXCEPT !.mon[c] = m, !.ws[c] = w, !.stack[m] = <<c>> \o @,
               !.neverfocus = IF refuses THEN @ \cup {c} ELSE @,
               !.urgent = IF wantsAttention THEN @ \cup {c} ELSE @,
               !.ruleSilent = IF quiet THEN @ \cup {c} ELSE @]
    BY DEF Linked, joined, closed
  <2> HIDE DEF joined, u
  <2> QED BY <1>2, <2>1 DEF Good, StateSet
<1> HIDE DEF joined, N, U, R
<1>4. u.mon = [joined.mon EXCEPT ![c] = m] /\ u.ws = [joined.ws EXCEPT ![c] = w]
      /\ u.armed = joined.armed
  BY <1>2, <1>3 DEF Good, StateSet
<1> HIDE DEF u
<1>5. Arrives(s, u, c)
  BY <1>2, <1>4 DEF Arrives
<1> QED BY <1>5 DEF u

\* The rest of adopt_client moves nobody.
LEMMA MaybeSelectAlike ==
    ASSUME NEW s, Good(s), NEW c
    PROVE  Alike(s, MaybeSelect(s, c))
BY DEF MaybeSelect, Alike, SameView, Good, StateSet

LEMMA RevealedStays ==
    ASSUME NEW s, Good(s), NEW c \in Clients, s.mon[c] \in Monitors, NEW byRule, NEW ptr
    PROVE  Stays(s, Revealed(s, c, byRule, ptr))
<1> DEFINE w == s.ws[c]
           e == EnsureOverlay(s, s.mon[c], w, ptr)
           n == ShowNormal(s, w, ptr)
           r == Revealed(s, c, byRule, ptr)
<1>1. \/ r = s
      \/ w \in Tags /\ r = MaybeSelect(e, c)
      \/ w \in NormalIds /\ r = n
      \/ r = MaybeSelect(s, c)
  BY DEF Revealed
<1>2. w \in Tags => Good(e) /\ Stays(s, e)
  <2>1. w \in Tags => Opened(s, e, s.mon[c], w)
    BY EnsureOverlayAlike
  <2> QED BY <2>1 DEF Opened, Stays
<1>3. w \in NormalIds => Stays(s, n)
  <2>1. w \in NormalIds => Viewed(s, n, w)
    BY ShowNormalAlike
  <2> QED BY <2>1 DEF Viewed, Stays
<1> HIDE DEF e, n, r
<1>4. Alike(s, MaybeSelect(s, c)) /\ (w \in Tags => Alike(e, MaybeSelect(e, c)))
  BY <1>2, MaybeSelectAlike
<1>5. Stays(s, r)
  BY <1>1, <1>2, <1>3, <1>4 DEF Alike, SameView, Stays
<1> QED BY <1>5 DEF r

LEMMA MappedStays ==
    ASSUME NEW r, Good(r), NEW c \in Clients, r.mon[c] \in Monitors, NEW ptr
    PROVE  Stays(r, Mapped(r, c, ptr))
<1> DEFINE w == r.ws[c]
           e == EnsureOverlay(r, r.mon[c], w, ptr)
           shown == IF w \in Tags THEN e ELSE r
           d == IF c \in Docks THEN NoClient ELSE c
           t == Mapped(r, c, ptr)
<1>1. t = r \/ t = shown \/ t = Focus(shown, d)
  BY DEF Mapped
<1>2. Good(shown) /\ Stays(r, shown)
  <2>1. w \in Tags => Opened(r, e, r.mon[c], w)
    BY EnsureOverlayAlike
  <2> HIDE DEF e
  <2> QED BY <2>1 DEF Opened, Stays
<1> HIDE DEF shown, d, t
<1>3. Alike(shown, Focus(shown, d))
  BY <1>2, FocusAlike
<1>4. Stays(r, t)
  BY <1>1, <1>2, <1>3 DEF Alike, SameView, Stays
<1> QED BY <1>4 DEF t

\* A map request manages its client and moves nobody else.
LEMMA AdoptArrives ==
    ASSUME NEW s, Good(s), NEW c \in Clients, s.mon[c] = NoMonitor,
           NEW parent, NEW rule \in WindowRules,
           NEW refuses, NEW wantsAttention, NEW ptr,
           NEW t, t = Adopt(s, c, parent, rule, refuses, wantsAttention, ptr)
    PROVE  Arrives(s, t, c)
<1> DEFINE m == AssignedMonitor(s, parent, rule)
           w == AssignedWorkspace(s, parent, rule)
           byRule == rule.workspace # NoWorkspace
           linked == Linked(s, c, m, w, parent # NoClient, byRule /\ rule.silent,
                            refuses, wantsAttention)
           unmapped == IF ptr = c THEN NoClient ELSE ptr
           revealed == Revealed(linked, c, byRule, unmapped)
<1>0. t = Mapped(revealed, c, ptr)
  BY DEF Adopt
<1>1. m \in Monitors /\ w \in Workspaces \cup {NoWorkspace}
  BY AssignedTypes
<1>w. Housed(s) => w \in Workspaces
  <2>1. /\ m \in Monitors => s.active[m] \in Workspaces
        /\ m \in Monitors => s.overlay[m] \in Workspaces \cup {NoTag}
    BY DEF Good, StateSet, Workspaces
  <2>2. rule.workspace \in Workspaces \cup {NoWorkspace}
    BY ConstantsAssumption DEF RuleSet
  <2> QED BY <1>1, <2>1, <2>2 DEF Housed, AssignedWorkspace, Managed
<1> HIDE DEF m, w
<1>2. Good(linked) /\ linked.mon = [s.mon EXCEPT ![c] = m] /\ Arrives(s, linked, c)
  BY <1>1, <1>w, LinkedGood, LinkedArrives
<1> HIDE DEF linked
<1>3. linked.mon[c] \in Monitors
  BY <1>1, <1>2 DEF Good, StateSet
<1>4. Keeps(linked, revealed) /\ Stays(linked, revealed)
  BY <1>2, <1>3, RevealedKeeps, RevealedStays
<1> HIDE DEF revealed
<1>5. Stays(revealed, Mapped(revealed, c, ptr))
  BY <1>3, <1>4, MappedStays DEF Keeps
<1> QED BY <1>0, <1>2, <1>4, <1>5 DEF Stays, Arrives

\* What a step does to who is where: one of the five.
Rearranges(s, t) ==
    \/ Stays(s, t)
    \/ \E c \in Clients :
         \/ \E ref \in Workspaces : Moves(s, t, c, ref)
         \/ Leaves(s, t, c)
         \/ \E m \in Monitors : Sent(s, t, c, m)

OneMoves(s, t) == Rearranges(s, t) \/ \E c \in Clients : Arrives(s, t, c)

\* A handler ends in the record it installs.
LEMMA BecomesIt ==
    ASSUME NEW s, Good(s), Become(s)
    PROVE  State' = s
BY DEF Good, StateSet, State, Become

\* Sending a client and then selecting a monitor is sending it.
LEMMA SentAlike ==
    ASSUME NEW s, NEW u, NEW t, NEW c, NEW m, Sent(s, u, c, m), Alike(u, t)
    PROVE  Sent(s, t, c, m)
<1>1. t.mon = u.mon /\ t.ws = u.ws /\ t.overlay = u.overlay
  BY DEF Alike, SameView
<1>2. \A n : Autohides(t, n) <=> Autohides(u, n)
  BY <1>1, SameOccupied DEF Autohides
<1> QED BY <1>1, <1>2 DEF Sent, KeepsOpen

LEMMA ViewNormalStays ==
    ASSUME NEW s, Good(s), NEW w \in NormalIds, NEW ptr
    PROVE  Good(ViewNormal(s, w, ptr)) /\ Stays(s, ViewNormal(s, w, ptr))
<1>1. Viewed(s, ShowNormal(s, w, ptr), w)
  BY ShowNormalAlike
<1>2. Good(ShowNormal(s, w, ptr)) /\ Stays(s, ShowNormal(s, w, ptr))
  BY <1>1 DEF Viewed, Stays
<1> QED BY <1>2 DEF ViewNormal, Stays

\* One step per action of Next.
LEMMA NextRearranges ==
    IInv /\ [Next]_vars => \/ Rearranges(State, State')
                           \/ \E c \in Clients : MapRequest(c) /\ Arrives(State, State', c)
<1> SUFFICES ASSUME IInv, [Next]_vars
             PROVE  \/ Rearranges(State, State')
                    \/ \E c \in Clients : MapRequest(c) /\ Arrives(State, State', c)
  OBVIOUS
<1>0. /\ Good(State) /\ State.cur = cur /\ cur \in Monitors
      /\ State.mon = mon /\ State.sel = sel /\ State.ws = ws
      /\ \A m \in Monitors : sel[m] # NoClient => mon[sel[m]] = m
  BY CurrentState
<1>m. \A c \in Clients : Managed(State, c) => mon[c] \in Monitors
  BY CurrentState DEF Managed
<1>s. \A m \in Monitors : Good([State EXCEPT !.cur = m]) /\ Stays(State, [State EXCEPT !.cur = m])
  BY <1>0, SelectedAlike DEF Alike, SameView, Stays
<1>f. \A s, c : Good(s) /\ Stays(State, s)
                  => Good(Focus(s, c)) /\ Stays(State, Focus(s, c))
  BY FocusAlike DEF Alike, SameView, Stays
<1>b. ASSUME NEW s, Good(s), Stays(State, s), Become(s) PROVE Rearranges(State, State')
  BY <1>b, BecomesIt DEF Rearranges
<1>r. Stays(State, State)
  BY DEF Stays
<1>1. ASSUME NEW c \in Clients, MapRequest(c) PROVE Arrives(State, State', c)
  <2>1. PICK parent \in Maybe \ {c}, rule \in WindowRules,
             refuses \in IF c \in Hinted THEN BOOLEAN ELSE {c \in Docks},
             wantsAttention \in IF c \in Hinted THEN BOOLEAN ELSE {FALSE},
             ptr \in Maybe :
             Step(Adopt(State, c, parent, rule, refuses, wantsAttention, ptr))
    BY <1>1, Zenon DEF MapRequest
  <2>2. ~Managed(State, c)
    BY <1>1, Zenon DEF MapRequest
  <2>3. State.mon[c] = NoMonitor
    BY <2>2 DEF Managed
  <2>4. PICK s : s = Adopt(State, c, parent, rule, refuses, wantsAttention, ptr)
    OBVIOUS
  <2>5. Arrives(State, s, c)
    BY <1>0, <2>3, <2>4, AdoptArrives, Zenon
  <2>6. Good(s)
    BY <1>0, <2>3, <2>4, AdoptGood, Zenon
  <2>7. State' = s
    BY <2>1, <2>4, <2>6, BecomesIt DEF Step
  <2> QED BY <2>5, <2>7
<1>2. ASSUME NEW c \in Clients, Unmap(c) PROVE Rearranges(State, State')
  <2>1. PICK fallback, ptr : Step(Release(State, c, fallback, ptr))
    BY <1>2, Zenon DEF Unmap
  <2>2. State.mon[c] \in Monitors
    BY <1>0, <1>2, <1>m, Zenon DEF Unmap
  <2>3. PICK s : s = Release(State, c, fallback, ptr)
    OBVIOUS
  <2>4. Leaves(State, s, c)
    BY <1>0, <2>2, <2>3, ReleaseLeaves
  <2>5. Good(s)
    BY <1>0, <2>2, <2>3, ReleaseGood
  <2>6. State' = s
    BY <2>1, <2>3, <2>5, BecomesIt DEF Step
  <2> QED BY <2>4, <2>6 DEF Rearranges
<1>3. ASSUME NEW w \in NormalIds, View(w) PROVE Rearranges(State, State')
  <2>1. PICK ptr : Step(ShowNormal(State, w, ptr))
    BY <1>3, Zenon DEF View
  <2>2. Viewed(State, ShowNormal(State, w, ptr), w)
    BY <1>0, ShowNormalAlike
  <2> QED BY <1>b, <2>1, <2>2 DEF Step, Viewed, Stays
<1>4. ASSUME NEW t \in Tags, ToggleSpecial(t) PROVE Rearranges(State, State')
  <2>1. PICK ptr : Step(ToggleOverlay(State, cur, t, ptr))
    BY <1>4, Zenon DEF ToggleSpecial
  <2>2. PICK s : s = ToggleOverlay(State, State.cur, t, ptr)
    OBVIOUS
  <2>3. Good(s) /\ Stays(State, s)
    BY <1>0, <2>2, ToggleOverlayKeeps, ToggleOverlayStays DEF Keeps
  <2> QED BY <1>0, <1>b, <2>1, <2>2, <2>3 DEF Step
<1>5. ASSUME NEW ref \in Workspaces, NEW silent \in BOOLEAN, Move(ref, silent)
      PROVE  Rearranges(State, State')
  <2>1. PICK ptr : Step(MoveToWorkspace(State, ref, silent, ptr))
    BY <1>5, Zenon DEF Move
  <2>2. State.sel[State.cur] # NoClient
    BY <1>0, <1>5, Zenon DEF Move
  <2>3. PICK s : s = MoveToWorkspace(State, ref, silent, ptr)
    OBVIOUS
  <2>4. Stays(State, s) \/ Moves(State, s, State.sel[State.cur], ref)
    BY <1>0, <2>2, <2>3, MoveToWorkspaceMoves
  <2>5. Good(s)
    BY <1>0, <2>2, <2>3, MoveToWorkspaceKeeps DEF Keeps
  <2>6. State' = s
    BY <2>1, <2>3, <2>5, BecomesIt DEF Step
  <2>7. State.sel[State.cur] \in Clients
    BY <1>0, <2>2 DEF Good, StateSet
  <2> QED BY <2>4, <2>6, <2>7 DEF Rearranges
<1>6. ASSUME NEW direction \in {-1, 1}, FocusMonitor(direction) PROVE Rearranges(State, State')
  <2> DEFINE m == Neighbour(cur, direction)
             w == DefaultWorkspace[m]
             t == [State EXCEPT !.cur = m, !.active[m] = IF w = NoWorkspace THEN @ ELSE w]
             W == IF w = NoWorkspace THEN State.active[m] ELSE w
             v == [State EXCEPT !.cur = m, !.active[m] = W]
  <2>1. Step(Focus(t, NoClient))
    BY <1>6 DEF FocusMonitor
  <2>2. m \in Monitors
    BY <1>0, <1>6, NeighbourType
  <2>3. W \in NormalIds
    BY <1>0, <2>2, ConstantsAssumption DEF Good, StateSet
  <2>4. t = v
    BY <1>0 DEF Good, StateSet
  <2> HIDE DEF m, t, W
  <2>5. Good(v)
    BY <1>0, <2>2, <2>3, ActiveKeeps DEF Keeps
  <2>6. Stays(State, v)
    BY <1>0 DEF Stays, Good, StateSet
  <2> HIDE DEF v
  <2> QED BY <1>b, <1>f, <2>1, <2>4, <2>5, <2>6 DEF Step
<1>7. ASSUME NEW direction \in {-1, 1}, MoveToMonitor(direction)
      PROVE  Rearranges(State, State')
  <2> DEFINE m == Neighbour(cur, direction)
             c == sel[cur]
  <2>1. PICK ptr : Step(SendMon(State, c, m, ptr))
    BY <1>7, Zenon DEF MoveToMonitor
  <2>2. c # NoClient
    BY <1>7, Zenon DEF MoveToMonitor
  <2>3. m \in Monitors
    BY <1>0, <1>7, NeighbourType
  <2>4. c \in Clients /\ State.mon[c] \in Monitors
    BY <1>0, <2>2 DEF Good, StateSet
  <2> HIDE DEF m, c
  <2>5. PICK s : s = SendMon(State, c, m, ptr)
    OBVIOUS
  <2>6. s = State \/ Sent(State, s, c, m)
    BY <1>0, <2>3, <2>4, <2>5, SendMonSent
  <2>7. Good(s)
    BY <1>0, <2>3, <2>4, <2>5, SendMonGood
  <2>8. State' = s
    BY <2>1, <2>5, <2>7, BecomesIt DEF Step
  <2> QED BY <1>r, <2>3, <2>4, <2>6, <2>8 DEF Rearranges
<1>8. CASE BeginDrag
  BY <1>0, <1>8, <1>b, <1>r DEF BeginDrag
<1>9. ASSUME NEW m \in Monitors, EndDrag(m) PROVE Rearranges(State, State')
  <2>1. /\ dragged # NoClient
        /\ \E ptr : Become(IF mon[dragged] = m THEN State
               ELSE Focus([SendMon(State, dragged, m, ptr) EXCEPT !.cur = m], NoClient))
    BY <1>9, Zenon DEF EndDrag, Idle
  <2>2. dragged \in Clients /\ State.mon[dragged] \in Monitors
    BY <1>0, <1>m, <2>1 DEF IInv, Maybe, DraggedIsManaged
  <2>3. CASE Become(State)
    BY <1>0, <1>b, <1>r, <2>3
  <2>4. CASE ~Become(State)
    <3>1. PICK ptr : Become(Focus([SendMon(State, dragged, m, ptr) EXCEPT !.cur = m], NoClient))
      BY <2>1, <2>4
    <3>2. PICK s : s = SendMon(State, dragged, m, ptr)
      OBVIOUS
    <3>3. s = State \/ Sent(State, s, dragged, m)
      BY <1>0, <2>2, <3>2, SendMonSent
    <3>4. Good(s)
      BY <1>0, <2>2, <3>2, SendMonGood
    <3>5. PICK t : t = Focus([s EXCEPT !.cur = m], NoClient)
      OBVIOUS
    <3>6. Alike(s, t) /\ Good(t)
      BY <3>4, <3>5, FocusOnAlike
    <3>7. State' = t
      BY <3>1, <3>2, <3>5, <3>6, BecomesIt
    <3>8. CASE s = State
      BY <3>6, <3>7, <3>8 DEF Alike, SameView, Stays, Rearranges
    <3>9. CASE Sent(State, s, dragged, m)
      <4>1. Sent(State, t, dragged, m)
        BY <3>6, <3>9, SentAlike
      <4> QED BY <2>2, <3>7, <4>1 DEF Rearranges
    <3> QED BY <3>3, <3>8, <3>9
  <2> QED BY <2>3, <2>4
<1>10. ASSUME NEW c \in Clients, FocusNeighbour(c) PROVE Rearranges(State, State')
  BY <1>0, <1>b, <1>f, <1>r, <1>10 DEF FocusNeighbour, Step
<1>11. ASSUME NEW c \in Clients, FocusUrgent(c) PROVE Rearranges(State, State')
  <2> DEFINE s == [State EXCEPT !.cur = mon[c]]
             V(ptr) == IF Visible(s, c) \/ ws[c] \notin NormalIds THEN s
                       ELSE ViewNormal(s, ws[c], ptr)
  <2>1. \E ptr : Step(Focus(V(ptr), c))
    BY <1>11 DEF FocusUrgent
  <2>2. PICK ptr : Step(Focus(V(ptr), c))
    BY <2>1
  <2>3. Good(s) /\ Stays(State, s)
    BY <1>11, <1>m, <1>s DEF FocusUrgent
  <2> HIDE DEF s
  <2>4. ws[c] \in NormalIds => Good(ViewNormal(s, ws[c], ptr)) /\ Stays(s, ViewNormal(s, ws[c], ptr))
    BY <2>3, ViewNormalStays
  <2>5. Good(V(ptr)) /\ Stays(State, V(ptr))
    BY <2>3, <2>4 DEF Stays
  <2> HIDE DEF V
  <2> QED BY <1>b, <1>f, <2>2, <2>5 DEF Step
<1>12. ASSUME NEW c \in Clients, FocusWindow(c) PROVE Rearranges(State, State')
  <2> DEFINE m == mon[c]
             s == [State EXCEPT !.cur = m]
             t == [s EXCEPT !.active[m] = ws[c]]
             v == IF Visible(s, c) \/ ws[c] \notin NormalIds THEN s ELSE t
  <2>1. m \in Monitors /\ Step(Focus(v, c))
    BY <1>12, <1>m DEF FocusWindow
  <2> HIDE DEF m
  <2>2. Good(s) /\ Stays(State, s)
    BY <1>s, <2>1
  <2>3. t = [State EXCEPT !.cur = m, !.active[m] = ws[c]]
    BY <1>0 DEF Good, StateSet
  <2>4. Stays(s, t)
    BY <2>2 DEF Good, StateSet, Stays
  <2> HIDE DEF s, t
  <2>5. ws[c] \in NormalIds => Good(t)
    BY <1>0, <2>1, <2>3, ActiveKeeps DEF Keeps
  <2>6. Good(v) /\ Stays(State, v)
    BY <2>2, <2>4, <2>5 DEF Stays
  <2> HIDE DEF v
  <2> QED BY <1>b, <1>f, <2>1, <2>6 DEF Step
<1>13. ASSUME NEW c \in Clients, Activate(c) PROVE Rearranges(State, State')
  <2> DEFINE V(ptr) == CASE ~Visible(State, c) /\ ws[c] \in Tags ->
                              EnsureOverlay(State, mon[c], ws[c], ptr)
                         [] ~Visible(State, c) /\ ws[c] \in NormalIds
                            /\ c \notin ruleSilent -> ViewNormal(State, ws[c], ptr)
                         [] OTHER -> State
             U(s) == [s EXCEPT !.urgent = @ \cup {c}]
  <2>1. mon[c] \in Monitors
    BY <1>13, <1>m, Zenon DEF Activate
  <2>2. PICK ptr : Step(IF FocusOnActivate /\ Visible(V(ptr), c) THEN Focus(V(ptr), c)
                        ELSE IF c # sel[cur] /\ c \in Hinted THEN U(V(ptr))
                        ELSE V(ptr))
    BY <1>13 DEF Activate
  <2>3. Good(V(ptr)) /\ Stays(State, V(ptr))
    <3>1. ws[c] \in Tags => Opened(State, EnsureOverlay(State, mon[c], ws[c], ptr), mon[c], ws[c])
      BY <1>0, <2>1, EnsureOverlayAlike
    <3>2. ws[c] \in NormalIds => /\ Good(ViewNormal(State, ws[c], ptr))
                                 /\ Stays(State, ViewNormal(State, ws[c], ptr))
      BY <1>0, ViewNormalStays
    <3> QED BY <1>0, <1>r, <3>1, <3>2 DEF Opened, Stays
  <2>4. ASSUME NEW s, Good(s), Stays(State, s) PROVE Good(U(s)) /\ Stays(State, U(s))
    <3>1. U(s) \in StateSet
      BY <2>4 DEF Good, StateSet
    <3>2. /\ U(s).mon = s.mon /\ U(s).stack = s.stack /\ U(s).sel = s.sel
          /\ U(s).ws = s.ws /\ U(s).armed = s.armed
      BY <2>4 DEF Good, StateSet
    <3> HIDE DEF U
    <3> QED BY <2>4, <3>1, <3>2, Framed DEF Keeps, Stays
  <2> HIDE DEF V, U
  <2> QED BY <1>b, <1>f, <2>2, <2>3, <2>4 DEF Step
<1>t. ASSUME NEW m \in Monitors PROVE Good(SwitchTo(m)) /\ Stays(State, SwitchTo(m))
  <2>1. Good(SwitchTo(m))
    BY <1>t, SwitchToGood DEF Keeps
  <2> QED BY <2>1 DEF SwitchTo, State, Stays
<1>14. ASSUME NEW c \in Clients, EnterClient(c) PROVE Rearranges(State, State')
  <2>1. mon[c] \in Monitors
    BY <1>14, <1>m DEF EnterClient
  <2> QED BY <1>14, <1>b, <1>f, <1>t, <2>1 DEF EnterClient, Step
<1>15. ASSUME NEW m \in Monitors, EnterMonitor(m) PROVE Rearranges(State, State')
  BY <1>15, <1>b, <1>t DEF EnterMonitor, Step
<1>16. ASSUME NEW c \in Clients, ButtonPress(c) PROVE Rearranges(State, State')
  <2> DEFINE s == IF mon[c] = cur THEN State ELSE Focus(SwitchTo(mon[c]), NoClient)
  <2>1. Step(IF c \in neverfocus \/ FollowMouse = 3 THEN s ELSE Focus(s, c))
    BY <1>16 DEF ButtonPress
  <2>2. mon[c] \in Monitors
    BY <1>16, <1>m DEF ButtonPress
  <2>3. Good(s) /\ Stays(State, s)
    BY <1>0, <1>f, <1>r, <1>t, <2>2
  <2> HIDE DEF s
  <2> QED BY <1>b, <1>f, <2>1, <2>3 DEF Step
<1>17. ASSUME NEW m \in Monitors, PointerCrosses(m) PROVE Rearranges(State, State')
  BY <1>17, <1>b, <1>f, <1>s DEF PointerCrosses, Step
<1>18. CASE FocusIn
  BY <1>18 DEF FocusIn, Step, Become, State, Rearranges, Stays
<1>19. ASSUME NEW c \in Clients, WmHints(c) PROVE Rearranges(State, State')
  BY <1>19 DEF WmHints, Step, Become, State, Rearranges, Stays
<1>20. CASE UNCHANGED vars
  BY <1>20 DEF vars, State, Rearranges, Stays
<1> QED
  BY <1>1, <1>2, <1>3, <1>4, <1>5, <1>6, <1>7, <1>8, <1>9, <1>10, <1>11, <1>12,
     <1>13, <1>14, <1>15, <1>16, <1>17, <1>18, <1>19, <1>20 DEF Next

LEMMA NextMoves == IInv /\ [Next]_vars => OneMoves(State, State')
BY NextRearranges DEF OneMoves

\* Only a map request manages a client.
LEMMA NextMaps ==
    ASSUME IInv, [Next]_vars, NEW c \in Clients, mon[c] = NoMonitor, mon'[c] # NoMonitor
    PROVE  MapRequest(c)
<1> DEFINE s == State
           t == State'
<1>0. s.mon = mon /\ t.mon = mon' /\ s.mon \in [Clients -> Monitors \cup {NoMonitor}]
  BY CurrentState DEF State
<1>1. Rearranges(s, t) \/ \E d \in Clients : MapRequest(d) /\ Arrives(s, t, d)
  BY NextRearranges
<1> HIDE DEF s, t
<1>2. CASE Stays(s, t)
  BY <1>0, <1>2 DEF Stays
<1>3. ASSUME NEW d \in Clients, NEW ref \in Workspaces, Moves(s, t, d, ref) PROVE FALSE
  BY <1>0, <1>3 DEF Moves
<1>4. ASSUME NEW d \in Clients, Leaves(s, t, d) PROVE FALSE
  BY <1>0, <1>4 DEF Leaves
<1>5. ASSUME NEW d \in Clients, NEW m \in Monitors, Sent(s, t, d, m) PROVE FALSE
  BY <1>0, <1>5, NoMonitorApart DEF Sent
<1>6. ASSUME NEW d \in Clients, MapRequest(d), Arrives(s, t, d) PROVE MapRequest(c)
  <2>1. d = c
    BY <1>0, <1>6 DEF Arrives
  <2> QED BY <1>6, <2>1
<1> QED BY <1>1, <1>2, <1>3, <1>4, <1>5, <1>6 DEF Rearranges

-----------------------------------------------------------------------------
(* What a step may never do.                                              *)

\* A special overlay that loses its last client never stays open over the desktop,
\* however many monitors, clients and overlays there are.
THEOREM OverlaysHideWithLastClient == Spec => OverlayHidesWithLastClient
<1> DEFINE Kept(m) ==
        /\ overlay[m] \notin {NoTag, EmptyTag}
        /\ overlay'[m] = overlay[m]
        /\ Members(State, m, overlay[m]) # {}
        => Members(State', m, overlay[m]) # {}
<1>1. IInv /\ [Next]_vars => \A m \in Monitors : Kept(m)
  <2> SUFFICES ASSUME IInv, [Next]_vars, NEW m \in Monitors,
                      overlay[m] \notin {NoTag, EmptyTag},
                      overlay'[m] = overlay[m],
                      Members(State, m, overlay[m]) # {}
               PROVE  Members(State', m, overlay[m]) # {}
    OBVIOUS
  <2> DEFINE s == State
             t == State'
             o == overlay[m]
  <2>0. /\ s.mon \in [Clients -> Monitors \cup {NoMonitor}]
        /\ s.ws \in [Clients -> Workspaces \cup {NoWorkspace}]
        /\ s.overlay[m] = o /\ t.overlay[m] = o /\ o \notin {NoTag, EmptyTag}
    BY CurrentState DEF Good, StateSet, State
  <2>1. OneMoves(s, t)
    BY NextMoves
  <2>2. PICK x \in Clients \ Docks : s.mon[x] = m /\ s.ws[x] = o
    BY DEF Members, State
  <2> SUFFICES Members(t, m, o) # {}
    OBVIOUS
  <2> HIDE DEF s, t, o
  <2>3. ASSUME t.mon[x] = s.mon[x], t.ws[x] = s.ws[x] PROVE Members(t, m, o) # {}
    BY <2>2, <2>3 DEF Members
  <2>4. CASE Stays(s, t)
    BY <2>3, <2>4 DEF Stays
  <2>5. ASSUME NEW c \in Clients, Arrives(s, t, c) PROVE Members(t, m, o) # {}
    <3>1. c # x
      BY <2>2, <2>5, NoMonitorApart DEF Arrives
    <3> QED BY <2>0, <2>3, <2>5, <3>1 DEF Arrives
  \* An overlay that stays open is left by another client, or not by its last.
  <2>6. ASSUME NEW c \in Clients, c # x => t.mon[x] = s.mon[x] /\ t.ws[x] = s.ws[x],
               KeepsOpen(s, t, c, m)
        PROVE  Members(t, m, o) # {}
    BY <2>0, <2>2, <2>3, <2>6 DEF KeepsOpen, Autohides
  <2>7. ASSUME NEW c \in Clients, NEW ref \in Workspaces, Moves(s, t, c, ref)
        PROVE  Members(t, m, o) # {}
    <3>1. c # x => t.mon[x] = s.mon[x] /\ t.ws[x] = s.ws[x]
      BY <2>0, <2>7 DEF Moves
    <3>2. o = ref \/ KeepsOpen(s, t, c, m)
      BY <2>0, <2>7 DEF Moves
    <3>3. o = ref => c # x
      BY <2>2, <2>7 DEF Moves
    <3> QED BY <2>3, <2>6, <3>1, <3>2, <3>3
  <2>8. ASSUME NEW c \in Clients, Leaves(s, t, c) PROVE Members(t, m, o) # {}
    <3>1. c # x => t.mon[x] = s.mon[x] /\ t.ws[x] = s.ws[x]
      BY <2>0, <2>8 DEF Leaves
    <3>2. KeepsOpen(s, t, c, m)
      BY <2>0, <2>8 DEF Leaves
    <3> QED BY <2>6, <3>1, <3>2
  <2>9. ASSUME NEW c \in Clients, NEW n \in Monitors, Sent(s, t, c, n)
        PROVE  Members(t, m, o) # {}
    <3>1. c # x => t.mon[x] = s.mon[x] /\ t.ws[x] = s.ws[x]
      BY <2>0, <2>9 DEF Sent
    <3>2. KeepsOpen(s, t, c, m)
      BY <2>0, <2>9 DEF Sent
    <3> QED BY <2>6, <3>1, <3>2
  <2> QED BY <2>1, <2>4, <2>5, <2>7, <2>8, <2>9 DEF OneMoves, Rearranges
<1> QED BY <1>1, IInvAlways, PTL DEF Spec, OverlayHidesWithLastClient

\* On one monitor without docks, the on-created-empty hook of a workspace is armed by
\* its last client leaving and by nothing else, and is armed whenever that happens.
THEOREM HookArmedByLastClient ==
    ASSUME NumMonitors = 1, Docks = {}
    PROVE  Spec => HookRearmsExactly
<1> DEFINE Exact(w) ==
        LET emptied == Occupied(State, w) /\ ~Occupied(State', w)
        IN  /\ w \in armed' \ armed => emptied
            /\ emptied => w \in armed'
<1>1. IInv /\ [Next]_vars => \A w \in Hooked : Exact(w)
  <2> SUFFICES ASSUME IInv, [Next]_vars, NEW w \in Hooked PROVE Exact(w)
    OBVIOUS
  <2> DEFINE s == State
             t == State'
  <2>0. /\ s.mon \in [Clients -> Monitors \cup {NoMonitor}]
        /\ s.ws \in [Clients -> Workspaces \cup {NoWorkspace}]
        /\ s.armed = armed /\ t.armed = armed'
    BY CurrentState DEF Good, StateSet, State
  <2>1. OneMoves(s, t)
    BY NextMoves
  <2> SUFFICES /\ w \in t.armed \ s.armed => Occupied(s, w) /\ ~Occupied(t, w)
               /\ Occupied(s, w) /\ ~Occupied(t, w) => w \in t.armed
    BY <2>0
  <2> HIDE DEF s, t
  <2>w. w \in NormalIds /\ w # NoWorkspace
    BY ConstantsAssumption DEF Workspaces
  <2>o. \A u : Occupied(u, w) <=> \E x \in Clients : u.mon[x] \in Monitors /\ u.ws[x] = w
    BY DEF Occupied, Members
  <2>2. CASE Stays(s, t)
    BY <2>2, SameOccupied DEF Stays
  <2>3. ASSUME NEW c \in Clients, Arrives(s, t, c)
        PROVE  t.armed \subseteq s.armed /\ (Occupied(s, w) => Occupied(t, w))
    <3>1. \A x \in Clients \ {c} : t.mon[x] = s.mon[x] /\ t.ws[x] = s.ws[x]
      BY <2>0, <2>3 DEF Arrives
    <3>2. ASSUME NEW x \in Clients, s.mon[x] \in Monitors, s.ws[x] = w
          PROVE  t.mon[x] \in Monitors /\ t.ws[x] = w
      <4>1. x # c
        BY <2>3, <3>2, NoMonitorApart DEF Arrives
      <4> QED BY <3>1, <3>2, <4>1
    <3>3. t.armed \subseteq s.armed
      BY <2>3 DEF Arrives
    <3> QED BY <2>o, <3>2, <3>3, Zenon
  \* The clients but c stay; if w is emptied it was c that left it.
  <2>4. ASSUME NEW c \in Clients, s.mon[c] \in Monitors, t.ws[c] # s.ws[c],
               \A x \in Clients \ {c} : t.mon[x] = s.mon[x] /\ t.ws[x] = s.ws[x]
        PROVE  /\ Occupied(s, w) /\ ~Occupied(t, w) => s.ws[c] = w
               /\ s.ws[c] = w => Occupied(s, w)
    BY <2>4, <2>o
  <2>5. ASSUME NEW c \in Clients, NEW ref \in Workspaces, Moves(s, t, c, ref)
        PROVE  /\ w \in t.armed \ s.armed => Occupied(s, w) /\ ~Occupied(t, w)
               /\ Occupied(s, w) /\ ~Occupied(t, w) => w \in t.armed
    <3>1. /\ t.mon = s.mon /\ t.ws = [s.ws EXCEPT ![c] = ref] /\ s.ws[c] # ref
          /\ s.mon[c] \in Monitors /\ t.armed = ArmedWithout(s, t, c) \ {ref}
      BY <2>5 DEF Moves
    <3>2. ref = w => Occupied(t, w)
      BY <2>0, <2>o, <3>1
    <3>3. /\ Occupied(s, w) /\ ~Occupied(t, w) => s.ws[c] = w
          /\ s.ws[c] = w => Occupied(s, w)
      BY <2>0, <2>4, <3>1
    <3> QED BY <3>1, <3>2, <3>3 DEF ArmedWithout
  <2>6. ASSUME NEW c \in Clients, Leaves(s, t, c)
        PROVE  /\ w \in t.armed \ s.armed => Occupied(s, w) /\ ~Occupied(t, w)
               /\ Occupied(s, w) /\ ~Occupied(t, w) => w \in t.armed
    <3>1. /\ t.mon = [s.mon EXCEPT ![c] = NoMonitor] /\ t.ws = [s.ws EXCEPT ![c] = NoWorkspace]
          /\ s.mon[c] \in Monitors /\ t.armed = ArmedWithout(s, t, c)
      BY <2>6 DEF Leaves
    <3>2. \A x \in Clients \ {c} : t.mon[x] = s.mon[x] /\ t.ws[x] = s.ws[x]
      BY <2>0, <3>1
    <3>3. /\ Occupied(s, w) /\ ~Occupied(t, w) => s.ws[c] = w
          /\ s.ws[c] = w => Occupied(s, w)
      <4>1. ASSUME NEW x \in Clients, s.mon[x] \in Monitors, s.ws[x] = w, s.ws[c] # w
            PROVE  t.mon[x] \in Monitors /\ t.ws[x] = w
        BY <3>2, <4>1
      <4>2. s.ws[c] = w => Occupied(s, w)
        BY <2>o, <3>1
      <4>3. Occupied(s, w) /\ s.ws[c] # w => Occupied(t, w)
        BY <2>o, <4>1, Zenon
      <4> QED BY <4>2, <4>3
    <3> QED BY <3>1, <3>3 DEF ArmedWithout
  <2>7. ASSUME NEW c \in Clients, NEW n \in Monitors, Sent(s, t, c, n) PROVE FALSE
    BY <2>7 DEF Sent, Monitors
  <2> QED BY <2>1, <2>2, <2>3, <2>5, <2>6, <2>7 DEF OneMoves, Rearranges
<1> QED BY <1>1, IInvAlways, PTL DEF Spec, HookRearmsExactly

\* Every managed client has a workspace, whatever handed it out.
LEMMA HousedAlways == Spec => []Housed(State)
<1>1. Init => Housed(State)
  BY DEF Init, State, Housed
<1>2. IInv /\ Housed(State) /\ [Next]_vars => Housed(State)'
  <2> SUFFICES ASSUME IInv, Housed(State), [Next]_vars PROVE Housed(State')
    OBVIOUS
  <2> DEFINE s == State
             t == State'
  <2>0. /\ s.mon \in [Clients -> Monitors \cup {NoMonitor}]
        /\ s.ws \in [Clients -> Workspaces \cup {NoWorkspace}]
        /\ \A m \in Monitors : s.active[m] \in Workspaces
    BY CurrentState DEF Good, StateSet, Workspaces
  <2>1. OneMoves(s, t) /\ Housed(s)
    BY NextMoves
  <2> SUFFICES Housed(t)
    OBVIOUS
  <2> HIDE DEF s, t
  <2>2. CASE Stays(s, t)
    BY <2>1, <2>2 DEF Stays, Housed
  <2>3. ASSUME NEW c \in Clients, Arrives(s, t, c) PROVE Housed(t)
    BY <2>0, <2>1, <2>3 DEF Arrives, Housed
  <2>4. ASSUME NEW c \in Clients, NEW ref \in Workspaces, Moves(s, t, c, ref) PROVE Housed(t)
    BY <2>0, <2>1, <2>4 DEF Moves, Housed
  <2>5. ASSUME NEW c \in Clients, Leaves(s, t, c) PROVE Housed(t)
    BY <2>0, <2>1, <2>5 DEF Leaves, Housed
  <2>6. ASSUME NEW c \in Clients, NEW m \in Monitors, Sent(s, t, c, m) PROVE Housed(t)
    BY <2>0, <2>1, <2>6 DEF Sent, Housed
  <2> QED BY <2>1, <2>2, <2>3, <2>4, <2>5, <2>6 DEF OneMoves, Rearranges
<1> QED BY <1>1, <1>2, IInvAlways, PTL DEF Spec

\* focus() gives the keyboard to the client it is asked for if that one can have it.
LEMMA FocusGives ==
    ASSUME NEW s, Good(s), NEW c, Focusable(s, c)
    PROVE  Focus(s, c).input = c /\ Focus(s, c).cur = s.mon[c]
<1> DEFINE m == s.mon[c]
           f == ToFront(s, m, c)
<1>1. c \in Clients /\ m \in Monitors /\ c # NoClient
  BY ConstantsAssumption DEF Focusable, Visible, Managed, Good, StateSet
<1>2. Focus(s, c) = [f EXCEPT !.cur = m, !.sel[m] = c, !.input = c, !.urgent = @ \ {c}]
  BY <1>1 DEF Focus
<1>3. f \in StateSet
  BY <1>1, ToFrontKeeps DEF Keeps, Good
<1> HIDE DEF f
<1> QED BY <1>2, <1>3 DEF StateSet

\* Only a client of another monitor takes the focus there.
LEMMA FocusStaysOn ==
    ASSUME NEW s, Good(s), NEW c, Focusable(s, c) => s.mon[c] = s.cur
    PROVE  Focus(s, c).cur = s.cur
<1>1. CASE Focusable(s, c)
  BY <1>1, FocusGives
<1>2. CASE ~Focusable(s, c)
  <2> DEFINE E == {e \in Clients : Focusable(s, e)}
             d == Newest(s.stack[s.cur], E)
  <2>1. CASE d = NoClient
    <3>1. Focus(s, c) = [s EXCEPT !.sel[s.cur] = NoClient, !.input = NoClient]
      BY <1>2, <2>1 DEF Focus
    <3> QED BY <3>1 DEF Good, StateSet
  <2>2. CASE d # NoClient
    <3>1. d \in Clients /\ s.mon[d] = s.cur
      <4>1. s.stack[s.cur] \in Seq(Clients) /\ s.cur \in Monitors
        BY DEF Good, StateSet
      <4>2. d \in ToSet(s.stack[s.cur]) \cap E
        BY <2>2, <4>1, NewestInStack
      <4>3. ToSet(s.stack[s.cur]) = {e \in Clients : s.mon[e] = s.cur}
        BY <4>1 DEF Good, ClientListsOf
      <4> QED BY <4>2, <4>3
    <3> HIDE DEF d
    <3> DEFINE f == ToFront(s, s.cur, d)
    <3>2. Focus(s, c) = [f EXCEPT !.cur = s.cur, !.sel[s.cur] = d, !.input = d,
                                  !.urgent = @ \ {d}]
      BY <1>2, <2>2, <3>1 DEF Focus, d
    <3>3. f \in StateSet
      <4>1. s.cur \in Monitors
        BY DEF Good, StateSet
      <4> QED BY <3>1, <4>1, ToFrontKeeps DEF Keeps, Good
    <3> HIDE DEF f
    <3> QED BY <3>2, <3>3 DEF StateSet
  <2> QED BY <2>1, <2>2
<1> QED BY <1>1, <1>2

\* A toggle that leaves an overlay open has found a client for the keyboard.
LEMMA OverlayFocusReaches ==
    ASSUME NEW s, Good(s), NEW m \in Monitors, NEW t \in Tags \ {EmptyTag}, s.overlay[m] = t,
           NEW ptr, NEW u, u = FocusFirstOverlay(s, m, ptr),
           Members(s, m, t) \ s.neverfocus # {}
    PROVE  u.input \in Members(u, u.cur, t)
<1> DEFINE candidates == Members(s, m, t) \ s.neverfocus
           x == [s EXCEPT !.cur = m]
<1>1. t # NoTag
  BY ConstantsAssumption DEF Workspaces
<1>2. PICK c \in candidates : u = Focus(x, c)
  <2>1. u = Focus(x, CASE ptr \in candidates -> ptr
                      [] ptr \notin candidates /\ s.sel[m] \in candidates -> s.sel[m]
                      [] candidates = {} -> NoClient
                      [] OTHER -> CHOOSE c \in candidates : TRUE)
    BY <1>1 DEF FocusFirstOverlay
  <2> DEFINE first == CHOOSE c \in candidates : TRUE
  <2>2. first \in candidates
    OBVIOUS
  <2> HIDE DEF first
  <2>3. u = Focus(x, CASE ptr \in candidates -> ptr
                      [] ptr \notin candidates /\ s.sel[m] \in candidates -> s.sel[m]
                      [] candidates = {} -> NoClient
                      [] OTHER -> first)
    BY <2>1 DEF first
  <2> HIDE DEF candidates, x
  <2>4. CASE ptr \in candidates
    BY <2>3, <2>4
  <2>5. CASE ptr \notin candidates /\ s.sel[m] \in candidates
    BY <2>3, <2>5
  <2>6. CASE ptr \notin candidates /\ s.sel[m] \notin candidates
    <3>1. candidates # {}
      BY DEF candidates
    <3> QED BY <2>2, <2>3, <2>6, <3>1
  <2> QED BY <2>4, <2>5, <2>6
<1>3. Good(x) /\ Alike(s, x) /\ x.neverfocus = s.neverfocus
  BY SelectedAlike DEF Good, StateSet
<1>4. c \in Clients \ Docks /\ s.mon[c] = m /\ s.ws[c] = t /\ c \notin s.neverfocus
  BY <1>2 DEF Members
<1>5. Focusable(x, c) /\ x.mon[c] = m
  BY <1>3, <1>4, NoMonitorApart DEF Alike, SameView, Focusable, Visible, Managed
<1> HIDE DEF x, candidates
<1>6. u.input = c /\ u.cur = m
  BY <1>2, <1>3, <1>5, FocusGives
<1>7. u.mon = s.mon /\ u.ws = s.ws
  BY <1>2, <1>3, FocusAlike DEF Alike, SameView
<1> QED BY <1>4, <1>6, <1>7 DEF Members

\* view_special_workspace: the overlay is closed, or one of its clients is focused.
LEMMA ToggleReaches ==
    ASSUME EmptyTag \notin Tags, NEW s, Good(s), NEW t \in Tags, NEW ptr,
           NEW u, u = ToggleOverlay(s, s.cur, t, ptr),
           u.overlay[u.cur] = t, Members(u, u.cur, t) \ u.neverfocus # {}
    PROVE  u.input \in Members(u, u.cur, t)
<1> DEFINE m == s.cur
           v == [[s EXCEPT !.cur = m] EXCEPT !.overlay[m] = t]
           closed == CloseOverlay(s, m)
<1>0. m \in Monitors /\ t \in Tags \ {EmptyTag} /\ t # NoTag
  BY ConstantsAssumption DEF Good, StateSet, Workspaces
<1>1. \/ u = FocusFirstOverlay(v, m, ptr)
      \/ u = FocusAfterHidden(closed, m, ptr)
      \/ s.overlay[m] = t /\ u = FocusFirstOverlay(s, m, ptr)
  BY DEF ToggleOverlay, EnsureOverlay
\* The monitor of the overlay stays selected, and its clients where they are.
<1>2. ASSUME NEW x, Good(x), NEW y, Good(y), Alike(x, y), y.neverfocus = x.neverfocus,
             y.cur = m, x.overlay[m] = t, y = FocusFirstOverlay(x, m, ptr),
             Members(y, y.cur, t) \ y.neverfocus # {}
      PROVE  y.input \in Members(y, y.cur, t)
  <2>1. Members(x, m, t) \ x.neverfocus # {}
    BY <1>2 DEF Members, Alike, SameView
  <2> QED BY <1>0, <1>2, <2>1, OverlayFocusReaches
<1>3. ASSUME NEW x, Good(x), x.overlay[m] = t, NEW y, y = FocusFirstOverlay(x, m, ptr)
      PROVE  Good(y) /\ Alike(x, y) /\ y.neverfocus = x.neverfocus /\ y.cur = m
  <2> DEFINE candidates == Members(x, m, t) \ x.neverfocus
             z == [x EXCEPT !.cur = m]
             first == CHOOSE c \in candidates : TRUE
  <2>1. Good(z) /\ z.neverfocus = x.neverfocus /\ z.cur = m /\ z.mon = x.mon
    BY <1>0, <1>3, SelectedAlike DEF Good, StateSet
  <2>2. PICK d : y = Focus(z, d) /\ (d \in candidates \/ d = NoClient)
    <3>1. y = Focus(z, CASE ptr \in candidates -> ptr
                        [] ptr \notin candidates /\ x.sel[m] \in candidates -> x.sel[m]
                        [] candidates = {} -> NoClient
                        [] OTHER -> first)
      BY <1>0, <1>3 DEF FocusFirstOverlay
    <3>2. candidates # {} => first \in candidates
      OBVIOUS
    <3> HIDE DEF candidates, z, first
    <3>3. CASE ptr \in candidates
      BY <3>1, <3>3
    <3>4. CASE ptr \notin candidates /\ x.sel[m] \in candidates
      BY <3>1, <3>4
    <3>5. CASE ptr \notin candidates /\ x.sel[m] \notin candidates
      BY <3>1, <3>2, <3>5
    <3> QED BY <3>3, <3>4, <3>5
  <2>3. Focusable(z, d) => z.mon[d] = z.cur
    BY <2>1, <2>2, ConstantsAssumption DEF Members, Focusable, Visible, Managed
  <2> HIDE DEF z, candidates
  <2>4. Focus(z, d).cur = m
    BY <2>1, <2>3, FocusStaysOn
  <2>5. Focus(z, d).neverfocus = z.neverfocus
    BY <2>1, FocusKeepsView
  <2>6. Alike(x, y) /\ Good(y)
    BY <1>0, <1>3, OverlayFocusAlike
  <2> QED BY <2>1, <2>2, <2>4, <2>5, <2>6
<1>4. CASE u = FocusFirstOverlay(v, m, ptr)
  <2>1. Good(v) /\ v.overlay[m] = t
    <3> DEFINE a == [s EXCEPT !.cur = m]
    <3>1. Good(a)
      BY <1>0, SelectedAlike
    <3> HIDE DEF a
    <3>2. Good([a EXCEPT !.overlay[m] = t])
      BY <1>0, <3>1, OverlayKeeps DEF Keeps
    <3>3. [a EXCEPT !.overlay[m] = t].overlay[m] = t
      BY <1>0, <3>1 DEF Good, StateSet
    <3> QED BY <3>2, <3>3 DEF a
  <2> HIDE DEF v, m
  <2> QED BY <1>2, <1>3, <1>4, <2>1
<1>5. CASE s.overlay[m] = t /\ u = FocusFirstOverlay(s, m, ptr)
  <2> HIDE DEF m
  <2> QED BY <1>2, <1>3, <1>5
<1>6. CASE u = FocusAfterHidden(closed, m, ptr)
  <2>1. Good(closed) /\ closed.overlay[m] = NoTag
    <3>1. Good(closed)
      BY <1>0, AutohideKeeps DEF Keeps
    <3> QED BY <1>0, <3>1 DEF CloseOverlay, Good, StateSet
  <2> DEFINE z == [closed EXCEPT !.cur = m]
             d == IF OnScreen(closed, ptr) /\ closed.mon[ptr] = m THEN ptr ELSE NoClient
  <2>2. u = Focus(z, d)
    BY <1>6 DEF FocusAfterHidden
  <2> HIDE DEF closed
  <2>3. Good(z) /\ z.cur = m /\ z.mon = closed.mon /\ z.overlay[m] = NoTag
    BY <1>0, <2>1, SelectedAlike DEF Good, StateSet
  <2>4. Focusable(z, d) => z.mon[d] = z.cur
    BY <2>3, ConstantsAssumption DEF Focusable, Visible, Managed
  <2> HIDE DEF z, d
  <2>5. u.cur = m /\ u.overlay = z.overlay
    BY <2>2, <2>3, <2>4, FocusStaysOn, FocusKeepsView DEF SameView
  <2> QED BY <1>0, <2>3, <2>5
<1> QED BY <1>1, <1>4, <1>5, <1>6

\* A toggle that leaves an overlay open gives the keyboard to one of its clients if one
\* accepts it, unless it is the overlay of the empty tag.
THEOREM TogglesReachOverlay ==
    ASSUME EmptyTag \notin Tags
    PROVE  Spec => ToggleReachesOverlay
<1> DEFINE Reached(t) ==
        /\ overlay'[cur'] = t
        /\ Members(State', cur', t) \ neverfocus' # {}
        /\ input' \notin Members(State', cur', t)
        => ~ToggleSpecial(t)
<1>1. IInv /\ [Next]_vars => \A t \in Tags : Reached(t)
  <2> SUFFICES ASSUME IInv, NEW t \in Tags, ToggleSpecial(t), overlay'[cur'] = t,
                      Members(State', cur', t) \ neverfocus' # {}
               PROVE  input' \in Members(State', cur', t)
    OBVIOUS
  <2>1. PICK ptr : Step(ToggleOverlay(State, cur, t, ptr))
    BY Zenon DEF ToggleSpecial
  <2>2. Good(State) /\ State.cur = cur
    BY CurrentState
  <2>3. PICK u : u = ToggleOverlay(State, State.cur, t, ptr)
    OBVIOUS
  <2>4. Good(u)
    <3>1. State.cur \in Monitors
      BY <2>2, CurrentState
    <3> QED BY <2>2, <2>3, <3>1, ToggleOverlayKeeps DEF Keeps
  <2>5. State' = u
    BY <2>1, <2>2, <2>3, <2>4, BecomesIt DEF Step
  <2>6. u.overlay = overlay' /\ u.cur = cur' /\ u.neverfocus = neverfocus' /\ u.input = input'
    BY <2>5 DEF State
  <2>7. u.input \in Members(u, u.cur, t)
    BY <2>2, <2>3, <2>5, <2>6, ToggleReaches
  <2> QED BY <2>5, <2>6, <2>7
<1> QED BY <1>1, IInvAlways, PTL DEF Spec, ToggleReachesOverlay

Quiet(s, u) ==
    /\ u.cur = s.cur /\ u.active = s.active
    /\ \A n \in Monitors :
         u.overlay[n] # s.overlay[n] => Autohides([s EXCEPT !.ws = u.ws], n)

\* A silent movetoworkspace_ref shows nothing else, and hides the overlay it emptied.
LEMMA SilentMove ==
    ASSUME NEW s, Good(s), s.sel[s.cur] # NoClient,
           NEW ref \in Workspaces, NEW ptr,
           NEW u, u = MoveToWorkspace(s, ref, TRUE, ptr)
    PROVE  Quiet(s, u)
<1> DEFINE m == s.cur
           c == s.sel[m]
           moved == [s EXCEPT !.ws[c] = ref]
           hidden == Autohide(moved, m)
           emptied == ClientLeft(hidden, s.ws[c])
           left == ClientJoined(emptied, ref)
           focused == Focus(left, NoClient)
<1>1. m \in Monitors /\ c \in Clients
  BY DEF Good, StateSet
<1>2. NormalIds \cap Tags = {} /\ ref \in NormalIds \cup Tags
  BY ConstantsAssumption DEF Workspaces
<1>n. \A x : ~Focusable(x, NoClient)
  BY ConstantsAssumption DEF Focusable, Visible, Managed
<1>3. CASE s.ws[c] = ref
  <2>1. u = Focus(s, NoClient)
    BY <1>2, <1>3 DEF MoveToWorkspace, ViewAfterMove
  <2>2. Focus(s, NoClient).cur = s.cur
    BY <1>n, FocusStaysOn
  <2>3. Alike(s, Focus(s, NoClient))
    BY FocusAlike
  <2> QED BY <2>1, <2>2, <2>3 DEF Alike, SameView, Quiet
<1>4. CASE s.ws[c] # ref
  <2>1. u = IF Autohides(moved, m) THEN FocusAfterHidden(focused, m, ptr) ELSE focused
    BY <1>2, <1>4 DEF MoveToWorkspace, ViewAfterMove
  <2>2. /\ Good(moved) /\ moved.cur = m /\ moved.active = s.active
        /\ moved.overlay = s.overlay /\ moved = [s EXCEPT !.ws = moved.ws]
    <3>1. Good(moved)
      BY <1>1, WorkspaceKeeps DEF Keeps
    <3> QED BY <3>1 DEF Good, StateSet
  <2> HIDE DEF moved
  <2>3. /\ Good(hidden) /\ hidden.ws = moved.ws /\ hidden.active = moved.active
        /\ hidden.overlay = IF Autohides(moved, m) THEN [moved.overlay EXCEPT ![m] = NoTag]
                            ELSE moved.overlay
    BY <1>1, <2>2, AutohideAlike
  <2>4. hidden.cur = m
    BY <2>2 DEF Autohide, CloseOverlay, Good, StateSet
  <2> HIDE DEF hidden
  <2>5. Good(emptied) /\ SameView(hidden, emptied) /\ emptied.cur = m
    <3>1. Good(emptied) /\ SameView(hidden, emptied)
      BY <2>3, LeftAlike
    <3> QED BY <2>3, <2>4, <3>1 DEF ClientLeft, Good, StateSet
  <2> HIDE DEF emptied
  <2>6. Good(left) /\ SameView(emptied, left) /\ left.cur = m
    <3>1. Good(left) /\ SameView(emptied, left)
      BY <2>5, JoinedAlike
    <3> QED BY <2>5, <3>1 DEF ClientJoined, Good, StateSet
  <2> HIDE DEF left
  <2>7. Good(focused) /\ Alike(left, focused) /\ focused.cur = m
    BY <1>n, <2>6, FocusAlike, FocusStaysOn
  <2> HIDE DEF focused
  <2>8. Alike(focused, u) /\ u.cur = m
    <3>1. CASE u = focused
      BY <2>7, <3>1 DEF Alike, SameView
    <3>2. CASE u = FocusAfterHidden(focused, m, ptr)
      <4>1. Alike(focused, u)
        BY <1>1, <2>7, <3>2, HiddenAlike
      <4> DEFINE z == [focused EXCEPT !.cur = m]
                 d == IF OnScreen(focused, ptr) /\ focused.mon[ptr] = m THEN ptr ELSE NoClient
      <4>2. u = Focus(z, d)
        BY <3>2 DEF FocusAfterHidden
      <4>3. z = focused
        BY <2>7 DEF Good, StateSet
      <4>4. Focusable(focused, d) => focused.mon[d] = focused.cur
        BY <1>n, <2>7
      <4> HIDE DEF z, d
      <4>5. Focus(focused, d).cur = focused.cur
        BY <2>7, <4>4, FocusStaysOn
      <4>6. u.cur = m
        BY <2>7, <4>2, <4>3, <4>5
      <4> QED BY <4>1, <4>6
    <3> QED BY <2>1, <3>1, <3>2
  <2>9. /\ u.cur = s.cur /\ u.active = s.active /\ u.ws = moved.ws
        /\ u.overlay = hidden.overlay
    BY <2>2, <2>3, <2>5, <2>6, <2>7, <2>8 DEF Alike, SameView
  <2>10. s.overlay \in [Monitors -> Tags \cup {NoTag}]
    BY DEF Good, StateSet
  <2>11. ASSUME NEW n \in Monitors, u.overlay[n] # s.overlay[n] PROVE Autohides(moved, n)
    BY <2>2, <2>3, <2>9, <2>10, <2>11
  <2>12. moved = [s EXCEPT !.ws = u.ws]
    BY <2>2, <2>9
  <2> QED BY <2>9, <2>11, <2>12 DEF Quiet
<1> QED BY <1>3, <1>4

\* A silent move shows no other workspace or monitor, and opens and closes no overlay
\* but the one it took the last client of.
THEOREM SilentMovesKeepView == Spec => SilentMoveKeepsView
<1> DEFINE Changed ==
        \/ cur' # cur
        \/ active' # active
        \/ \E m \in Monitors :
             overlay'[m] # overlay[m] /\ ~Autohides([State EXCEPT !.ws = ws'], m)
<1>1. IInv /\ [Next]_vars => (Changed => ~\E ref \in Workspaces : Move(ref, TRUE))
  <2> SUFFICES ASSUME IInv, NEW ref \in Workspaces, Move(ref, TRUE) PROVE ~Changed
    OBVIOUS
  <2>1. PICK ptr : Step(MoveToWorkspace(State, ref, TRUE, ptr))
    BY Zenon DEF Move
  <2>2. Good(State) /\ State.cur = cur /\ State.sel = sel
    BY CurrentState
  <2>3. State.sel[State.cur] # NoClient
    BY <2>2, Zenon DEF Move
  <2>4. PICK u : u = MoveToWorkspace(State, ref, TRUE, ptr)
    OBVIOUS
  <2>5. Good(u)
    BY <2>2, <2>3, <2>4, MoveToWorkspaceKeeps DEF Keeps
  <2>6. State' = u
    BY <2>1, <2>4, <2>5, BecomesIt DEF Step
  <2>7. /\ u.overlay = overlay' /\ u.cur = cur' /\ u.active = active' /\ u.ws = ws'
        /\ State.overlay = overlay /\ State.active = active
    BY <2>6 DEF State
  <2>8. Quiet(State, u)
    BY <2>2, <2>3, <2>4, SilentMove
  <2> QED BY <2>2, <2>7, <2>8 DEF Quiet
<1> QED BY <1>1, IInvAlways, PTL DEF Spec, SilentMoveKeepsView

\* On one monitor a client that is not visible is so once its workspace is shown.
LEMMA ShownIsVisible ==
    ASSUME NumMonitors = 1, NEW s, Good(s), Housed(s), NEW c \in Clients,
           s.mon[c] \in Monitors, NEW quiet, quiet => s.ws[c] \notin NormalIds, NEW ptr,
           NEW v, v = CASE ~Visible(s, c) /\ s.ws[c] \in Tags ->
                             EnsureOverlay(s, s.mon[c], s.ws[c], ptr)
                        [] ~Visible(s, c) /\ s.ws[c] \in NormalIds /\ ~quiet ->
                             ViewNormal(s, s.ws[c], ptr)
                        [] OTHER -> s
    PROVE  Good(v) /\ Visible(v, c)
<1> DEFINE m == s.mon[c]
           w == s.ws[c]
           e == EnsureOverlay(s, m, w, ptr)
           n == ShowNormal(s, w, ptr)
<1>0. Monitors = {1} /\ m = 1 /\ s.cur = 1 /\ m # NoMonitor
  BY NoMonitorApart DEF Monitors, Good, StateSet
<1>1. w \in NormalIds \cup Tags /\ NormalIds \cap Tags = {}
  BY <1>0, ConstantsAssumption DEF Housed, Workspaces
<1>2. CASE Visible(s, c)
  BY <1>2
<1>3. CASE ~Visible(s, c) /\ w \in Tags
  <2>1. Opened(s, e, m, w)
    BY <1>3, EnsureOverlayAlike
  <2>2. v = e
    <3> HIDE DEF e
    <3> QED BY <1>1, <1>3 DEF e
  <2> HIDE DEF e
  <2>3. s.overlay \in [Monitors -> Tags \cup {NoTag}]
    BY DEF Good, StateSet
  <2>4. v.overlay[m] = w /\ v.mon = s.mon /\ v.ws = s.ws /\ Good(v)
    BY <2>1, <2>2, <2>3 DEF Opened
  <2> QED BY <1>0, <2>4 DEF Visible, Managed
<1>4. CASE ~Visible(s, c) /\ w \in NormalIds
  <2>1. Viewed(s, n, w)
    BY <1>4, ShowNormalAlike
  <2>2. v = n
    <3>1. v = ViewNormal(s, w, ptr)
      BY <1>1, <1>4
    <3>2. s.active[m] # w
      BY <1>0, <1>4 DEF Visible, Managed
    <3> QED BY <1>0, <3>1, <3>2 DEF ViewNormal, AlreadyViewed
  <2>3. TargetMonitor(s, w) = m
    BY <1>0, <1>4, TargetMonitorType
  <2> HIDE DEF n
  <2>4. s.active \in [Monitors -> NormalIds]
    BY DEF Good, StateSet
  <2>5. v.active[m] = w /\ v.mon = s.mon /\ v.ws = s.ws /\ Good(v)
    BY <2>1, <2>2, <2>3, <2>4 DEF Viewed
  <2> QED BY <1>0, <2>5 DEF Visible, Managed
<1> QED BY <1>1, <1>2, <1>3, <1>4

\* On one monitor an activation request leaves its client visible whatever the setting,
\* unless a rule marked silent placed it.
THEOREM ActivationShowsClient ==
    ASSUME NumMonitors = 1
    PROVE  Spec => ActivationReveals
<1> DEFINE Shown(c) ==
        Managed(State, c) /\ ~Visible(State', c) /\ c \notin ruleSilent => ~Activate(c)
<1>1. IInv /\ Housed(State) /\ [Next]_vars => \A c \in Clients : Shown(c)
  <2> SUFFICES ASSUME IInv, Housed(State), NEW c \in Clients, Managed(State, c),
                      c \notin ruleSilent, Activate(c)
               PROVE  Visible(State', c)
    OBVIOUS
  <2>0. /\ Good(State) /\ State.mon = mon /\ State.ws = ws /\ State.mon[c] \in Monitors
    BY CurrentState DEF Managed
  <2> DEFINE V(ptr) == CASE ~Visible(State, c) /\ ws[c] \in Tags ->
                              EnsureOverlay(State, mon[c], ws[c], ptr)
                         [] ~Visible(State, c) /\ ws[c] \in NormalIds
                            /\ c \notin ruleSilent -> ViewNormal(State, ws[c], ptr)
                         [] OTHER -> State
             U(s) == [s EXCEPT !.urgent = @ \cup {c}]
  <2>1. PICK ptr : Step(IF FocusOnActivate /\ Visible(V(ptr), c) THEN Focus(V(ptr), c)
                        ELSE IF c # sel[cur] /\ c \in Hinted THEN U(V(ptr))
                        ELSE V(ptr))
    BY DEF Activate
  <2>2. Good(V(ptr)) /\ Visible(V(ptr), c)
    <3>1. PICK v : v = CASE ~Visible(State, c) /\ State.ws[c] \in Tags ->
                              EnsureOverlay(State, State.mon[c], State.ws[c], ptr)
                         [] ~Visible(State, c) /\ State.ws[c] \in NormalIds /\ ~FALSE ->
                              ViewNormal(State, State.ws[c], ptr)
                         [] OTHER -> State
      OBVIOUS
    <3>2. v = V(ptr)
      BY <2>0, <3>1
    <3> HIDE DEF V
    <3>3. Good(v) /\ Visible(v, c)
      BY ONLY <2>0, <3>1, NumMonitors = 1, Housed(State), c \in Clients, ShownIsVisible,
              SMTT(60)
    <3> QED BY <3>2, <3>3
  <2>3. PICK v : v = V(ptr)
    OBVIOUS
  <2> HIDE DEF V
  <2>4. Good(U(v)) /\ SameView(v, U(v))
    <3>0. Good(v)
      BY <2>2, <2>3
    <3>1. U(v) \in StateSet /\ SameView(v, U(v))
      BY <3>0 DEF Good, StateSet, SameView
    <3>2. U(v).mon = v.mon /\ U(v).stack = v.stack /\ U(v).sel = v.sel
      BY <3>0 DEF Good, StateSet
    <3> HIDE DEF U
    <3> QED BY <3>0, <3>1, <3>2, Framed DEF Keeps
  <2> HIDE DEF U
  <2>5. Good(Focus(v, c)) /\ SameView(v, Focus(v, c))
    BY <2>2, <2>3, FocusAlike DEF Alike
  <2>6. \E u : u \in {v, U(v), Focus(v, c)} /\ Step(u)
    BY <2>1, <2>3
  <2>7. PICK u : u \in {v, U(v), Focus(v, c)} /\ Step(u)
    BY <2>6
  <2>8. Good(u) /\ SameView(v, u)
    BY <2>2, <2>3, <2>4, <2>5, <2>7 DEF SameView
  <2>9. State' = u
    BY <2>7, <2>8, BecomesIt DEF Step
  <2>10. Visible(u, c)
    BY <2>2, <2>3, <2>8, SameViewSeen
  <2> QED BY <2>9, <2>10
<1> QED BY <1>1, IInvAlways, HousedAlways, PTL DEF Spec, ActivationReveals

\* Neither the selections nor the keyboard nor the selected monitor change.
Undisturbed(s, t) == t.input = s.input /\ t.cur = s.cur /\ t.sel = s.sel

LEMMA LinkedDisturbs ==
    ASSUME NEW s, Good(s), NEW c \in Clients, NEW m \in Monitors, NEW w,
           NEW transient, NEW quiet, NEW refuses, NEW wantsAttention
    PROVE  /\ Undisturbed(s, Linked(s, c, m, w, transient, quiet, refuses, wantsAttention))
           /\ s.ws \in [Clients -> Workspaces \cup {NoWorkspace}] =>
                Linked(s, c, m, w, transient, quiet, refuses, wantsAttention).ws[c] = w
<1> DEFINE modal == WindowType[c] = "dialog" \/ (transient /\ WindowType[c] # "splash")
           closed == IF w \in NormalIds /\ modal THEN CloseOverlay(s, m) ELSE s
           joined == IF c \in Docks THEN closed ELSE ClientJoined(closed, w)
           u == Linked(s, c, m, w, transient, quiet, refuses, wantsAttention)
<1>1. Good(closed) /\ Undisturbed(s, closed)
  <2>1. Good(CloseOverlay(s, m))
    BY AutohideKeeps DEF Keeps
  <2> QED BY <2>1 DEF CloseOverlay, Good, StateSet, Undisturbed
<1> HIDE DEF closed
<1>2. Good(joined) /\ Undisturbed(s, joined)
  <2>1. Good(ClientJoined(closed, w))
    BY <1>1, HookKeeps DEF Keeps
  <2> QED BY <1>1, <2>1 DEF ClientJoined, Good, StateSet, Undisturbed
<1>3. u = [joined EXCEPT !.mon[c] = m, !.ws[c] = w, !.stack[m] = <<c>> \o @,
             !.neverfocus = IF refuses THEN @ \cup {c} ELSE @,
             !.urgent = IF wantsAttention THEN @ \cup {c} ELSE @,
             !.ruleSilent = IF quiet THEN @ \cup {c} ELSE @]
  BY DEF Linked, joined, closed
<1> HIDE DEF joined
<1>4. u.input = joined.input /\ u.sel = joined.sel /\ u.cur = joined.cur
      /\ u.ws = [joined.ws EXCEPT ![c] = w]
  BY <1>2, <1>3 DEF Good, StateSet
<1>5. joined.ws \in [Clients -> Workspaces \cup {NoWorkspace}]
  BY <1>2 DEF Good, StateSet
<1> HIDE DEF u
<1>6. Undisturbed(s, u) /\ u.ws[c] = w
  BY <1>2, <1>4, <1>5 DEF Undisturbed
<1> QED BY <1>6 DEF u

\* adopt_client under an overlay that is still open at its end.
LEMMA AdoptBeneath ==
    ASSUME NumMonitors = 1, NEW s, Good(s), NEW c \in Clients, s.mon[c] = NoMonitor,
           NEW parent, NEW rule \in WindowRules, NEW refuses, NEW wantsAttention, NEW ptr,
           NEW t, t = Adopt(s, c, parent, rule, refuses, wantsAttention, ptr),
           t.ws[c] \in NormalIds, \A n \in Monitors : t.overlay[n] # NoTag
    PROVE  Undisturbed(s, t)
<1> DEFINE m == AssignedMonitor(s, parent, rule)
           w == AssignedWorkspace(s, parent, rule)
           byRule == rule.workspace # NoWorkspace
           linked == Linked(s, c, m, w, parent # NoClient, byRule /\ rule.silent,
                            refuses, wantsAttention)
           unmapped == IF ptr = c THEN NoClient ELSE ptr
           revealed == Revealed(linked, c, byRule, unmapped)
<1>0. t = Mapped(revealed, c, ptr)
  BY DEF Adopt
<1>1. m \in Monitors /\ w \in Workspaces \cup {NoWorkspace} /\ Monitors = {1}
  BY AssignedTypes DEF Monitors
<1> HIDE DEF m, w
<1>2. /\ Good(linked) /\ linked.mon = [s.mon EXCEPT ![c] = m]
      /\ Undisturbed(s, linked)
  BY <1>1, LinkedGood, LinkedDisturbs
<1> HIDE DEF linked
<1>3. linked.mon[c] \in Monitors
  BY <1>1, <1>2 DEF Good, StateSet
<1>4. /\ Keeps(linked, revealed) /\ Stays(linked, revealed)
      /\ Stays(revealed, t)
  <2>1. Keeps(linked, revealed) /\ Stays(linked, revealed)
    BY <1>2, <1>3, RevealedKeeps, RevealedStays
  <2> HIDE DEF revealed
  <2>2. Stays(revealed, Mapped(revealed, c, ptr))
    BY <1>3, <2>1, MappedStays DEF Keeps
  <2> QED BY <1>0, <2>1, <2>2
<1>5. /\ linked.ws[c] = t.ws[c] /\ revealed.ws[c] = t.ws[c]
      /\ linked.mon[c] = 1 /\ revealed.mon[c] = 1
  BY <1>1, <1>3, <1>4 DEF Stays, Keeps
<1>6. t.ws[c] \notin Tags
  BY ConstantsAssumption
<1>7. t = revealed
  <2> HIDE DEF revealed
  <2>1. \/ UnderOverlay(revealed, c) /\ t = revealed
        \/ ~UnderOverlay(revealed, c)
           /\ t = Focus(revealed, IF c \in Docks THEN NoClient ELSE c)
    BY <1>0, <1>5, <1>6 DEF Mapped
  <2>2. ASSUME NEW d, t = Focus(revealed, d) PROVE UnderOverlay(revealed, c)
    <3>1. t.overlay = revealed.overlay
      BY <1>4, <2>2, FocusAlike DEF Keeps, Alike, SameView
    <3>2. revealed.overlay[1] \in Tags
      BY <1>1, <1>4, <3>1 DEF Keeps, Good, StateSet
    <3> QED BY <1>1, <1>5, <1>6, <3>1, <3>2 DEF UnderOverlay
  <2> QED BY <2>1, <2>2
<1>8. revealed = linked
  <2> DEFINE v == ShowNormal(linked, linked.ws[c], unmapped)
  <2>1. revealed = linked \/ revealed = v \/ revealed = MaybeSelect(linked, c)
    BY <1>5, <1>6 DEF Revealed
  <2>2. CASE revealed = v
    <3>1. Viewed(linked, v, linked.ws[c])
      BY <1>2, <1>5, ShowNormalAlike
    <3>2. TargetMonitor(linked, linked.ws[c]) \in Monitors
      BY <1>2, <1>5, TargetMonitorType
    <3>3. linked.overlay \in [Monitors -> Tags \cup {NoTag}]
      BY <1>2 DEF Good, StateSet
    <3> HIDE DEF v, revealed
    <3> QED BY <1>7, <2>2, <3>1, <3>2, <3>3 DEF Viewed
  <2>3. CASE revealed = MaybeSelect(linked, c)
    <3> HIDE DEF revealed
    <3>1. linked.overlay = t.overlay
      BY <1>2, <1>7, <2>3, MaybeSelectAlike DEF Alike, SameView
    <3>2. linked.overlay[1] \in Tags
      BY <1>1, <1>2, <3>1 DEF Good, StateSet
    <3> QED BY <1>1, <1>5, <1>6, <2>3, <3>1, <3>2 DEF MaybeSelect, UnderOverlay
  <2> QED BY <2>1, <2>2, <2>3
<1> QED BY <1>2, <1>7, <1>8

\* On one monitor a window that is mapped on the desktop beneath an open overlay takes
\* neither the keyboard nor the selection.
THEOREM OverlayKeepsKeyboard ==
    ASSUME NumMonitors = 1
    PROVE  Spec => MapsUnderOverlayKeepFocus
<1> DEFINE Beneath(c) ==
        mon[c] = NoMonitor /\ mon'[c] # NoMonitor /\ ws'[c] \in NormalIds
        /\ overlay[mon'[c]] # NoTag /\ overlay'[mon'[c]] = overlay[mon'[c]]
        => input' = input /\ cur' = cur /\ sel' = sel
<1>1. IInv /\ [Next]_vars => \A c \in Clients : Beneath(c)
  <2> SUFFICES ASSUME IInv, [Next]_vars, NEW c \in Clients,
                      mon[c] = NoMonitor, mon'[c] # NoMonitor, ws'[c] \in NormalIds,
                      overlay[mon'[c]] # NoTag, overlay'[mon'[c]] = overlay[mon'[c]]
               PROVE  input' = input /\ cur' = cur /\ sel' = sel
    OBVIOUS
  <2>0. /\ Good(State) /\ State.mon = mon /\ mon \in [Clients -> Monitors \cup {NoMonitor}]
    BY CurrentState
  <2>1. MapRequest(c)
    BY <2>0, NextMaps
  <2>2. PICK parent \in Maybe \ {c}, rule \in WindowRules,
             refuses \in IF c \in Hinted THEN BOOLEAN ELSE {c \in Docks},
             wantsAttention \in IF c \in Hinted THEN BOOLEAN ELSE {FALSE},
             ptr \in Maybe :
             Step(Adopt(State, c, parent, rule, refuses, wantsAttention, ptr))
    BY <2>1, Zenon DEF MapRequest
  <2>3. PICK t : t = Adopt(State, c, parent, rule, refuses, wantsAttention, ptr)
    OBVIOUS
  <2>4. State.mon[c] = NoMonitor
    BY <2>0
  <2>5. Good(t)
    BY <2>0, <2>3, <2>4, AdoptGood, Zenon
  <2>6. State' = t
    BY <2>2, <2>3, <2>5, BecomesIt DEF Step
  <2>7. /\ t.mon = mon' /\ t.ws = ws' /\ t.overlay = overlay'
        /\ t.input = input' /\ t.cur = cur' /\ t.sel = sel'
    BY <2>6 DEF State
  <2>8. mon'[c] \in Monitors /\ Monitors = {1}
    BY <2>5, <2>7 DEF Good, StateSet, Monitors
  <2>9. t.ws[c] \in NormalIds /\ \A n \in Monitors : t.overlay[n] # NoTag
    BY <2>7, <2>8
  <2>10. Undisturbed(State, t)
    BY <2>0, <2>3, <2>4, <2>9, AdoptBeneath, Zenon
  <2> QED BY <2>7, <2>10 DEF Undisturbed, State
<1> QED BY <1>1, IInvAlways, PTL DEF Spec, MapsUnderOverlayKeepFocus

=============================================================================
