------------------------- MODULE WorkspaceViewProofs -------------------------
(***************************************************************************)
(* Proofs about WorkspaceView for every number of monitors, clients,       *)
(* workspaces and every configuration.                                     *)
(***************************************************************************)
EXTENDS WorkspaceView, SequenceTheorems, WellFoundedInduction, TLAPS

-----------------------------------------------------------------------------
(* Sequences.                                                              *)

\* A non-empty set of naturals has the least element that Min chooses.
LEMMA MinIsLeast ==
    ASSUME NEW T, T \subseteq Nat, T # {}
    PROVE  Min(T) \in T /\ \A y \in T : Min(T) <= y
<1>1. PICK x \in T : \A y \in T : ~(<<y, x>> \in OpToRel(<, Nat))
  <2>1. IsWellFoundedOn(OpToRel(<, Nat), Nat)
    BY NatLessThanWellFounded
  <2> QED BY <2>1, WFMin, Zenon
<1>2. \A y \in T : x <= y
  <2> SUFFICES ASSUME NEW y \in T PROVE x <= y OBVIOUS
  <2>1. y \in Nat /\ x \in Nat OBVIOUS
  <2>2. ~(y < x) BY <1>1, <2>1 DEF OpToRel
  <2> QED BY <2>1, <2>2
<1> QED BY <1>1, <1>2 DEF Min

\* The elements of a sequence.
LEMMA InToSet ==
    ASSUME NEW q
    PROVE  \A x : x \in ToSet(q) <=> \E i \in DOMAIN q : x = q[i]
BY DEF ToSet

\* A client put in front of a stack it is not in.
LEMMA Pushed ==
    ASSUME NEW C, NEW q \in Seq(C), NEW c \in C,
           IsInjective(q), c \notin ToSet(q)
    PROVE  /\ <<c>> \o q \in Seq(C)
           /\ IsInjective(<<c>> \o q)
           /\ ToSet(<<c>> \o q) = ToSet(q) \cup {c}
<1> DEFINE p == <<c>> \o q
<1>1. /\ p \in Seq(C)
      /\ DOMAIN p = 1..Len(q) + 1
      /\ Len(q) \in Nat
      /\ DOMAIN q = 1..Len(q)
      /\ p[1] = c
      /\ \A i \in 2..Len(q) + 1 : p[i] = q[i - 1]
  OBVIOUS
<1> HIDE DEF p
<1>2. IsInjective(p)
  <2> SUFFICES ASSUME NEW a \in DOMAIN p, NEW b \in DOMAIN p, p[a] = p[b]
               PROVE  a = b
    BY DEF IsInjective
  <2>1. \A i \in 2..Len(q) + 1 : p[i] # c
    BY <1>1 DEF ToSet
  <2>2. CASE a = 1 \/ b = 1
    BY <1>1, <2>1, <2>2
  <2>3. CASE a # 1 /\ b # 1
    <3>1. a - 1 \in DOMAIN q /\ b - 1 \in DOMAIN q /\ q[a - 1] = q[b - 1]
      BY <1>1, <2>3
    <3> QED BY <1>1, <3>1 DEF IsInjective
  <2> QED BY <2>2, <2>3
<1>3. ToSet(p) = ToSet(q) \cup {c}
  <2>1. \A i \in DOMAIN q : i + 1 \in DOMAIN p /\ p[i + 1] = q[i]
    BY <1>1
  <2>2. \A i \in DOMAIN p : i = 1 \/ (i - 1 \in DOMAIN q /\ p[i] = q[i - 1])
    BY <1>1
  <2>3. 1 \in DOMAIN p
    BY <1>1
  <2>4. ToSet(p) \subseteq ToSet(q) \cup {c}
    <3> SUFFICES ASSUME NEW i \in DOMAIN p PROVE p[i] \in ToSet(q) \cup {c}
      BY InToSet
    <3>1. CASE i = 1 BY <1>1, <3>1
    <3>2. CASE i # 1 BY <2>2, <3>2, InToSet
    <3> QED BY <3>1, <3>2
  <2>5. c \in ToSet(p)
    BY <1>1, <2>3, InToSet
  <2>6. ToSet(q) \subseteq ToSet(p)
    <3> SUFFICES ASSUME NEW i \in DOMAIN q PROVE q[i] \in ToSet(p)
      BY InToSet
    <3> QED BY <2>1, InToSet
  <2> QED BY <2>4, <2>5, <2>6
<1> QED BY <1>1, <1>2, <1>3 DEF p

\* RemoveFirst takes a client out of a stack that lists it at most once.
LEMMA Removed ==
    ASSUME NEW C, NEW q \in Seq(C), NEW c, IsInjective(q)
    PROVE  /\ RemoveFirst(q, c) \in Seq(C)
           /\ IsInjective(RemoveFirst(q, c))
           /\ ToSet(RemoveFirst(q, c)) = ToSet(q) \ {c}
<1>0. Len(q) \in Nat /\ DOMAIN q = 1..Len(q) /\ \A i \in 1..Len(q) : q[i] \in C
  OBVIOUS
<1>1. CASE ~\E i \in 1..Len(q) : q[i] = c
  BY <1>0, <1>1 DEF RemoveFirst, ToSet
<1>2. CASE \E i \in 1..Len(q) : q[i] = c
  <2> DEFINE I == {i \in 1..Len(q) : q[i] = c}
             k == Min(I)
             r == [i \in 1..Len(q) - 1 |-> IF i < k THEN q[i] ELSE q[i + 1]]
  <2>1. I # {} /\ I \subseteq Nat
    BY <1>2
  <2>2. k \in 1..Len(q) /\ q[k] = c
    BY <2>1, MinIsLeast
  <2>3. RemoveFirst(q, c) = RemoveAt(q, k)
    BY <1>2, <2>1 DEF RemoveFirst, SelectInSeq
  <2> HIDE DEF k
  <2>4. RemoveAt(q, k) = r
    <3>1. SubSeq(q, 1, k - 1) \in Seq(C) /\ Len(SubSeq(q, 1, k - 1)) = k - 1
          /\ \A i \in 1..k - 1 : SubSeq(q, 1, k - 1)[i] = q[i]
      BY <1>0, <2>2, SubSeqProperties
    <3> DEFINE u == SubSeq(q, 1, k - 1)
               v == SubSeq(q, k + 1, Len(q))
    <3>2. /\ v \in Seq(C)
          /\ Len(v) = Len(q) - k
          /\ \A i \in 1..Len(q) - k : v[i] = q[k + i]
      <4>1. k + 1 \in Int /\ Len(q) \in Int /\ \A i \in k + 1..Len(q) : q[i] \in C
        BY <1>0, <2>2
      <4>2. /\ v \in Seq(C)
            /\ Len(v) = IF k + 1 <= Len(q) THEN Len(q) - (k + 1) + 1 ELSE 0
            /\ \A i \in 1..Len(q) - (k + 1) + 1 : v[i] = q[k + 1 + i - 1]
        BY <4>1, SubSeqProperties
      <4> HIDE DEF v
      <4>0. k \in Int /\ Len(q) \in Int /\ k <= Len(q)
        BY <1>0, <2>2
      <4>3. Len(v) = Len(q) - k /\ Len(q) - (k + 1) + 1 = Len(q) - k
        <5>1. Len(q) - (k + 1) + 1 = Len(q) - k
          BY <4>0
        <5>2. CASE k + 1 <= Len(q) BY <4>2, <5>1, <5>2
        <5>3. CASE ~(k + 1 <= Len(q))
          <6>1. Len(q) - k = 0 BY <4>0, <5>3
          <6> QED BY <4>2, <5>1, <5>3, <6>1
        <5> QED BY <5>1, <5>2, <5>3
      <4>4. \A i \in 1..Len(q) - k : k + 1 + i - 1 = k + i
        BY <1>0, <2>2
      <4> QED BY <4>2, <4>3, <4>4
    <3> HIDE DEF u, v
    <3>3. /\ u \o v \in Seq(C)
          /\ Len(u \o v) = Len(q) - 1
          /\ \A i \in 1..Len(q) - 1 : (u \o v)[i] = r[i]
      <4>1. u \in Seq(C) /\ Len(u) = k - 1 /\ \A i \in 1..k - 1 : u[i] = q[i]
        BY <3>1 DEF u
      <4>2. /\ u \o v \in Seq(C)
            /\ Len(u \o v) = Len(u) + Len(v)
            /\ \A i \in 1..Len(u) + Len(v) :
                 (u \o v)[i] = IF i <= Len(u) THEN u[i] ELSE v[i - Len(u)]
        BY <4>1, <3>2, ConcatProperties
      <4>3. Len(u) + Len(v) = Len(q) - 1
        BY <1>0, <2>2, <4>1, <3>2
      <4>4. ASSUME NEW i \in 1..Len(q) - 1 PROVE (u \o v)[i] = r[i]
        <5>1. CASE i < k
          BY <1>0, <2>2, <4>1, <4>2, <4>3, <5>1
        <5>2. CASE i >= k
          <6>1. i - (k - 1) \in 1..Len(q) - k /\ k + (i - (k - 1)) = i + 1
            BY <1>0, <2>2, <5>2
          <6>2. (u \o v)[i] = v[i - (k - 1)]
            BY <1>0, <2>2, <4>1, <4>2, <4>3, <5>2
          <6>3. v[i - (k - 1)] = q[i + 1]
            BY <3>2, <6>1
          <6>4. r[i] = q[i + 1]
            <7>1. ~(i < k) BY <1>0, <2>2, <5>2
            <7> QED BY <7>1
          <6> QED BY <6>2, <6>3, <6>4
        <5>3. i < k \/ i >= k BY <1>0, <2>2
        <5> QED BY <5>1, <5>2, <5>3
      <4> QED BY <4>2, <4>3, <4>4
    <3>4. r \in Seq(C) /\ Len(r) = Len(q) - 1
      BY <1>0, <2>2
    <3>5. u \o v = r
      BY <3>3, <3>4, SeqEqual
    <3> QED BY <3>5 DEF RemoveAt, u, v
  <2>5. r \in Seq(C) /\ DOMAIN r = 1..Len(q) - 1
    BY <1>0, <2>2
  <2>6. IsInjective(r)
    BY <1>0, <2>2, <2>5 DEF IsInjective
  <2>7. ToSet(r) = ToSet(q) \ {c}
    <3>1. \A i \in DOMAIN r : \E j \in DOMAIN q : j # k /\ r[i] = q[j]
      BY <1>0, <2>2, <2>5
    <3>2. \A j \in DOMAIN q : j # k => \E i \in DOMAIN r : r[i] = q[j]
      <4> SUFFICES ASSUME NEW j \in DOMAIN q, j # k
                   PROVE  \E i \in DOMAIN r : r[i] = q[j]
        OBVIOUS
      <4>1. CASE j < k
        BY <1>0, <2>2, <2>5, <4>1
      <4>2. CASE j > k
        <5>1. j - 1 \in DOMAIN r /\ r[j - 1] = q[j]
          BY <1>0, <2>2, <2>5, <4>2
        <5> QED BY <5>1
      <4> QED BY <1>0, <2>2, <4>1, <4>2
    <3>3. \A j \in DOMAIN q : q[j] = c <=> j = k
      BY <1>0, <2>2 DEF IsInjective
    <3> HIDE DEF r
    <3>4. ToSet(r) \subseteq ToSet(q) \ {c}
      <4> SUFFICES ASSUME NEW i \in DOMAIN r PROVE r[i] \in ToSet(q) \ {c}
        BY InToSet
      <4> QED BY <3>1, <3>3, InToSet
    <3>5. ToSet(q) \ {c} \subseteq ToSet(r)
      <4> SUFFICES ASSUME NEW j \in DOMAIN q, q[j] # c PROVE q[j] \in ToSet(r)
        BY InToSet
      <4> QED BY <3>2, <3>3, InToSet
    <3> QED BY <3>4, <3>5
  <2> QED BY <2>3, <2>4, <2>5, <2>6, <2>7
<1> QED BY <1>1, <1>2

\* Newest returns a client of the stack that is in the set, or none.
LEMMA NewestInStack ==
    ASSUME NEW C, NEW q \in Seq(C), NEW S
    PROVE  Newest(q, S) = NoClient \/ Newest(q, S) \in ToSet(q) \cap S
<1> DEFINE I == {i \in 1..Len(q) : q[i] \in S}
<1>0. Len(q) \in Nat /\ DOMAIN q = 1..Len(q)
  OBVIOUS
<1>1. CASE I = {}
  BY <1>1 DEF Newest, SelectInSeq
<1>2. CASE I # {}
  <2>1. Min(I) \in I
    <3>1. I \subseteq Nat
      BY <1>0
    <3> QED BY <3>1, <1>2, MinIsLeast
  <2>2. Newest(q, S) = q[Min(I)]
    BY <1>0, <1>2, <2>1 DEF Newest, SelectInSeq
  <2> QED BY <1>0, <2>1, <2>2 DEF ToSet
<1> QED BY <1>1, <1>2

-----------------------------------------------------------------------------
(* The helpers of the handlers keep every state record well formed.        *)

Good(s) == s \in StateSet /\ ClientListsOf(s)

\* t is well formed and manages the clients of s on the same monitors.
Keeps(s, t) == Good(t) /\ t.mon = s.mon

\* The lists depend on mon, stack and sel only.
LEMMA Framed ==
    ASSUME NEW s, Good(s), NEW t \in StateSet,
           t.mon = s.mon, t.stack = s.stack, t.sel = s.sel
    PROVE  Keeps(s, t)
BY DEF Good, Keeps, ClientListsOf

\* Changing only the selected monitor.
LEMMA Selected ==
    ASSUME NEW s, Good(s), NEW m \in Monitors
    PROVE  Keeps(s, [s EXCEPT !.cur = m])
<1> DEFINE t == [s EXCEPT !.cur = m]
<1>1. t \in StateSet
  BY DEF Good, StateSet
<1>2. t.mon = s.mon /\ t.stack = s.stack /\ t.sel = s.sel
  BY DEF Good, StateSet
<1> QED BY <1>1, <1>2, Framed

\* client_link_stack after client_unlink_stack.
LEMMA ToFrontKeeps ==
    ASSUME NEW s, Good(s), NEW m \in Monitors, NEW c \in Clients, s.mon[c] = m
    PROVE  Keeps(s, ToFront(s, m, c)) /\ ToFront(s, m, c).sel = s.sel
<1> DEFINE p == RemoveFirst(s.stack[m], c)
           q == <<c>> \o p
           t == ToFront(s, m, c)
<1>1. s.stack[m] \in Seq(Clients) /\ IsInjective(s.stack[m])
      /\ ToSet(s.stack[m]) = {d \in Clients : s.mon[d] = m}
  BY DEF Good, StateSet, ClientListsOf
<1>2. p \in Seq(Clients) /\ IsInjective(p) /\ ToSet(p) = ToSet(s.stack[m]) \ {c}
  BY <1>1, Removed
<1>3. q \in Seq(Clients) /\ IsInjective(q) /\ ToSet(q) = ToSet(p) \cup {c}
  BY <1>2, Pushed
<1>4. ToSet(q) = {d \in Clients : s.mon[d] = m}
  BY <1>1, <1>2, <1>3
<1> HIDE DEF q
<1>5. t = [s EXCEPT !.stack[m] = q]
  BY DEF ToFront, q, p
<1>6. t \in StateSet
  <2>1. [s.stack EXCEPT ![m] = q] \in [Monitors -> Seq(Clients)]
    BY <1>3 DEF Good, StateSet
  <2>2. t = [s EXCEPT !.stack = [s.stack EXCEPT ![m] = q]]
    BY <1>5 DEF Good, StateSet
  <2> QED BY <2>1, <2>2 DEF Good, StateSet
<1>7. /\ t.mon = s.mon /\ t.sel = s.sel
      /\ t.stack = [s.stack EXCEPT ![m] = q]
  BY <1>5 DEF Good, StateSet
<1>8. ClientListsOf(t)
  <2> SUFFICES ASSUME NEW n \in Monitors
               PROVE  /\ IsInjective(t.stack[n])
                      /\ ToSet(t.stack[n]) = {d \in Clients : t.mon[d] = n}
                      /\ t.sel[n] # NoClient => t.mon[t.sel[n]] = n
    BY DEF ClientListsOf
  <2>1. s.stack \in [Monitors -> Seq(Clients)]
    BY DEF Good, StateSet
  <2>2. CASE n = m
    BY <1>3, <1>4, <1>7, <2>1, <2>2 DEF Good, ClientListsOf
  <2>3. CASE n # m
    BY <1>7, <2>1, <2>3 DEF Good, ClientListsOf
  <2> QED BY <2>2, <2>3
<1> QED BY <1>6, <1>7, <1>8 DEF Good, Keeps

\* focus(c) for any argument, null or not focusable ones included.
LEMMA FocusKeeps ==
    ASSUME NEW s, Good(s), NEW c
    PROVE  Keeps(s, Focus(s, c))
<1> DEFINE E == {e \in Clients : Focusable(s, e)}
           d == IF Focusable(s, c) THEN c ELSE Newest(s.stack[s.cur], E)
           m == s.mon[d]
<1>1. /\ s.cur \in Monitors
      /\ s.stack[s.cur] \in Seq(Clients)
      /\ s.mon \in [Clients -> Monitors \cup {NoMonitor}]
  BY DEF Good, StateSet
<1>2. d = NoClient \/ (d \in Clients /\ Focusable(s, d))
  <2>1. CASE Focusable(s, c)
    BY <2>1 DEF Focusable, Visible, Managed
  <2>2. CASE ~Focusable(s, c)
    BY <1>1, <2>2, NewestInStack
  <2> QED BY <2>1, <2>2
<1> HIDE DEF d
<1>3. CASE d = NoClient
  <2> DEFINE t == [s EXCEPT !.sel[s.cur] = NoClient, !.input = NoClient]
  <2>1. Focus(s, c) = t
    BY <1>3 DEF Focus, d
  <2>2. t \in StateSet
    BY <1>1 DEF Good, StateSet
  <2>3. /\ t.mon = s.mon /\ t.stack = s.stack
        /\ t.sel = [s.sel EXCEPT ![s.cur] = NoClient]
        /\ s.sel \in [Monitors -> Clients \cup {NoClient}]
    BY DEF Good, StateSet
  <2>4. ClientListsOf(t)
    BY <1>1, <2>3 DEF Good, ClientListsOf
  <2> QED BY <2>1, <2>2, <2>3, <2>4 DEF Good, Keeps
<1>4. CASE d # NoClient
  <2> DEFINE f == ToFront(s, m, d)
             t == [f EXCEPT !.cur = m, !.sel[m] = d, !.input = d, !.urgent = @ \ {d}]
  <2>1. d \in Clients /\ m \in Monitors
    BY <1>1, <1>2, <1>4 DEF Focusable, Visible, Managed
  <2>2. Focus(s, c) = t
    BY <1>4 DEF Focus, d
  <2>3. Keeps(s, f) /\ f.sel = s.sel
    BY <2>1, ToFrontKeeps
  <2> HIDE DEF f
  <2>4. t \in StateSet
    BY <2>1, <2>3 DEF Keeps, Good, StateSet
  <2>5. /\ t.mon = f.mon /\ t.stack = f.stack
        /\ t.sel = [f.sel EXCEPT ![m] = d]
        /\ f.sel \in [Monitors -> Clients \cup {NoClient}]
    BY <2>3 DEF Keeps, Good, StateSet
  <2>6. f.mon[d] = m
    BY <2>3 DEF Keeps
  <2>7. ClientListsOf(t)
    BY <2>1, <2>3, <2>5, <2>6 DEF Keeps, Good, ClientListsOf
  <2> QED BY <2>2, <2>3, <2>4, <2>5, <2>7 DEF Keeps, Good
<1> QED BY <1>3, <1>4

\* Handlers compose helpers: what each keeps, the composition keeps.
LEMMA KeepsTransitive ==
    ASSUME NEW s, NEW t, NEW u, Keeps(s, t), Keeps(t, u)
    PROVE  Keeps(s, u) /\ Good(u)
BY DEF Keeps

\* A helper that returns early keeps everything.
LEMMA KeepsReflexive ==
    ASSUME NEW s, Good(s)
    PROVE  Keeps(s, s)
BY DEF Keeps

\* The hook's helpers change armed only.
LEMMA HookKeeps ==
    ASSUME NEW s, Good(s), NEW w
    PROVE  /\ Keeps(s, ClientJoined(s, w))
           /\ Keeps(s, ClientLeft(s, w))
           /\ Keeps(s, SpawnIfEmpty(s, w))
<1>1. ASSUME NEW A, A \subseteq Hooked
      PROVE  Keeps(s, [s EXCEPT !.armed = A])
  <2> DEFINE t == [s EXCEPT !.armed = A]
  <2>1. t \in StateSet
    BY <1>1 DEF Good, StateSet
  <2>2. t.mon = s.mon /\ t.stack = s.stack /\ t.sel = s.sel
    BY DEF Good, StateSet
  <2> QED BY <2>1, <2>2, Framed
<1>2. s.armed \subseteq Hooked
  BY DEF Good, StateSet
<1>3. Keeps(s, ClientJoined(s, w))
  BY <1>1, <1>2 DEF ClientJoined
<1>4. Keeps(s, ClientLeft(s, w))
  BY <1>1, <1>2, KeepsReflexive DEF ClientLeft
<1>5. Keeps(s, SpawnIfEmpty(s, w))
  BY <1>1, <1>2, KeepsReflexive DEF SpawnIfEmpty
<1> QED BY <1>3, <1>4, <1>5

\* Opening or closing an overlay.
LEMMA OverlayKeeps ==
    ASSUME NEW s, Good(s), NEW m \in Monitors, NEW t \in Tags \cup {NoTag}
    PROVE  Keeps(s, [s EXCEPT !.overlay[m] = t])
<1> DEFINE u == [s EXCEPT !.overlay[m] = t]
<1>1. u \in StateSet
  <2>1. [s.overlay EXCEPT ![m] = t] \in [Monitors -> Tags \cup {NoTag}]
    BY DEF Good, StateSet
  <2>2. u = [s EXCEPT !.overlay = [s.overlay EXCEPT ![m] = t]]
    BY DEF Good, StateSet
  <2> QED BY <2>1, <2>2 DEF Good, StateSet
<1>2. u.mon = s.mon /\ u.stack = s.stack /\ u.sel = s.sel
  BY DEF Good, StateSet
<1> QED BY <1>1, <1>2, Framed

\* wm_special_overlay_autohide_if_empty changes only the overlay.
LEMMA AutohideKeeps ==
    ASSUME NEW s, Good(s), NEW m \in Monitors
    PROVE  Keeps(s, CloseOverlay(s, m)) /\ Keeps(s, Autohide(s, m))
BY OverlayKeeps, KeepsReflexive DEF CloseOverlay, Autohide

\* Focusing on a monitor that is selected first.
LEMMA FocusOnKeeps ==
    ASSUME NEW s, Good(s), NEW m \in Monitors, NEW c
    PROVE  Keeps(s, Focus([s EXCEPT !.cur = m], c))
<1> DEFINE t == [s EXCEPT !.cur = m]
<1>1. Keeps(s, t)
  BY Selected
<1> HIDE DEF t
<1>2. Keeps(t, Focus(t, c))
  BY <1>1, FocusKeeps DEF Keeps
<1> QED BY <1>1, <1>2, KeepsTransitive DEF t

\* wm_focus_first_special_overlay_client and wm_focus_after_special_overlay_hidden.
LEMMA OverlayFocusKeeps ==
    ASSUME NEW s, Good(s), NEW m \in Monitors, NEW ptr
    PROVE  /\ Keeps(s, FocusFirstOverlay(s, m, ptr))
           /\ Keeps(s, FocusAfterHidden(s, m, ptr))
<1>1. Keeps(s, FocusFirstOverlay(s, m, ptr))
  BY FocusOnKeeps, KeepsReflexive DEF FocusFirstOverlay
<1>2. Keeps(s, FocusAfterHidden(s, m, ptr))
  BY FocusOnKeeps DEF FocusAfterHidden
<1> QED BY <1>1, <1>2

\* Opening the overlay of a tag and focusing one of its clients.
LEMMA EnsureOverlayKeeps ==
    ASSUME NEW s, Good(s), NEW m \in Monitors, NEW t \in Tags, NEW ptr
    PROVE  Keeps(s, EnsureOverlay(s, m, t, ptr))
<1> DEFINE u == [s EXCEPT !.overlay[m] = t]
<1>1. Keeps(s, u)
  BY OverlayKeeps
<1> HIDE DEF u
<1>2. Keeps(u, FocusFirstOverlay(u, m, ptr))
  BY <1>1, OverlayFocusKeeps DEF Keeps
<1> QED BY <1>1, <1>2, KeepsTransitive DEF EnsureOverlay, u

\* Setting the numbered workspace of a monitor, which a handler also selects.
LEMMA ActiveKeeps ==
    ASSUME NEW s, Good(s), NEW m \in Monitors, NEW n \in Monitors, NEW w \in NormalIds
    PROVE  Keeps(s, [s EXCEPT !.cur = n, !.active[m] = w])
<1> DEFINE A == [s.active EXCEPT ![m] = w]
           u == [s EXCEPT !.cur = n, !.active[m] = w]
<1>1. A \in [Monitors -> NormalIds]
  BY DEF Good, StateSet
<1>2. u = [[s EXCEPT !.cur = n] EXCEPT !.active = A]
  BY DEF Good, StateSet
<1> HIDE DEF A
<1>3. u \in StateSet
  BY <1>1, <1>2 DEF Good, StateSet
<1>4. u.mon = s.mon /\ u.stack = s.stack /\ u.sel = s.sel
  BY <1>2 DEF Good, StateSet
<1> QED BY <1>3, <1>4, Framed

\* The monitor a workspace is viewed on exists.
LEMMA TargetMonitorType ==
    ASSUME NEW s, Good(s), NEW w \in NormalIds
    PROVE  TargetMonitor(s, w) \in Monitors
BY ConstantsAssumption DEF TargetMonitor, Good, StateSet

\* apply_normal_workspace_view.
LEMMA ShowNormalKeeps ==
    ASSUME NEW s, Good(s), NEW w \in NormalIds, NEW ptr
    PROVE  Keeps(s, ShowNormal(s, w, ptr)) /\ Keeps(s, ViewNormal(s, w, ptr))
<1> DEFINE m == TargetMonitor(s, w)
           closed == CloseOverlay(s, m)
           shown == [closed EXCEPT !.cur = m, !.active[m] = w]
           focused == Focus(shown, NoClient)
           followed == FollowPointer(focused, ptr)
<1>0. m \in Monitors
  BY TargetMonitorType
<1> HIDE DEF m
<1>1. Keeps(s, closed)
  BY <1>0, AutohideKeeps
<1> HIDE DEF closed
<1>2. Keeps(closed, shown)
  <2>1. Good(closed)
    BY <1>1 DEF Keeps
  <2> QED BY <1>0, <2>1, ActiveKeeps
<1> HIDE DEF shown
<1>3. Keeps(shown, focused)
  BY <1>2, FocusKeeps DEF Keeps
<1> HIDE DEF focused
<1>4. Keeps(focused, followed)
  BY <1>3, FocusKeeps DEF Keeps, FollowPointer
<1> HIDE DEF followed
<1>5. Keeps(followed, SpawnIfEmpty(followed, w))
  BY <1>4, HookKeeps DEF Keeps
<1>6. Keeps(s, SpawnIfEmpty(followed, w))
  BY <1>1, <1>2, <1>3, <1>4, <1>5 DEF Keeps
<1>7. ShowNormal(s, w, ptr) = SpawnIfEmpty(followed, w)
  BY DEF ShowNormal, followed, focused, shown, closed, m
<1> QED BY <1>6, <1>7, KeepsReflexive DEF ViewNormal

\* view_special_workspace.
LEMMA ToggleOverlayKeeps ==
    ASSUME NEW s, Good(s), NEW m \in Monitors, NEW t \in Tags, NEW ptr
    PROVE  Keeps(s, ToggleOverlay(s, m, t, ptr))
<1> DEFINE at == [s EXCEPT !.cur = m]
           closed == CloseOverlay(s, m)
<1>1. Keeps(s, at) /\ Keeps(s, closed)
  BY Selected, AutohideKeeps
<1> HIDE DEF at, closed
<1>2. Keeps(at, EnsureOverlay(at, m, t, ptr))
  BY <1>1, EnsureOverlayKeeps DEF Keeps
<1>3. Keeps(closed, FocusAfterHidden(closed, m, ptr))
  BY <1>1, OverlayFocusKeeps DEF Keeps
<1>4. Keeps(s, FocusFirstOverlay(s, m, ptr))
  BY OverlayFocusKeeps
<1>5. \/ ToggleOverlay(s, m, t, ptr) = EnsureOverlay(at, m, t, ptr)
      \/ ToggleOverlay(s, m, t, ptr) = FocusAfterHidden(closed, m, ptr)
      \/ ToggleOverlay(s, m, t, ptr) = FocusFirstOverlay(s, m, ptr)
  BY DEF ToggleOverlay, at, closed
<1> QED BY <1>1, <1>2, <1>3, <1>4, <1>5 DEF Keeps

-----------------------------------------------------------------------------
(* Clients that change hands.                                              *)

\* The index that stands for "not managed" is no monitor.
LEMMA NoMonitorApart == NoMonitor \notin Monitors
BY ConstantsAssumption DEF NoMonitor, Monitors

\* Changing the workspace of a client leaves the lists alone.
LEMMA WorkspaceKeeps ==
    ASSUME NEW s, Good(s), NEW c \in Clients, NEW w \in Workspaces \cup {NoWorkspace}
    PROVE  Keeps(s, [s EXCEPT !.ws[c] = w])
<1> DEFINE W == [s.ws EXCEPT ![c] = w]
           u == [s EXCEPT !.ws[c] = w]
<1>1. W \in [Clients -> Workspaces \cup {NoWorkspace}]
  BY DEF Good, StateSet
<1>2. u = [s EXCEPT !.ws = W]
  BY DEF Good, StateSet
<1> HIDE DEF W
<1>3. u \in StateSet
  BY <1>1, <1>2 DEF Good, StateSet
<1>4. u.mon = s.mon /\ u.stack = s.stack /\ u.sel = s.sel
  BY <1>2 DEF Good, StateSet
<1> QED BY <1>3, <1>4, Framed

\* client_unlink: the lists stay well formed, and only c is no longer managed.
LEMMA UnlinkGood ==
    ASSUME NEW s, Good(s), NEW c \in Clients, s.mon[c] \in Monitors
    PROVE  /\ Good(Unlink(s, c))
           /\ Unlink(s, c).mon = [s.mon EXCEPT ![c] = NoMonitor]
<1> DEFINE m == s.mon[c]
           q == RemoveFirst(s.stack[m], c)
           M == [s.mon EXCEPT ![c] = NoMonitor]
           Q == [s.stack EXCEPT ![m] = q]
           t == [s EXCEPT !.stack = Q, !.mon = M]
           d == Newest(t.stack[m], {e \in Clients : Visible(t, e)})
           u == [t EXCEPT !.sel[m] = d]
<1>1. /\ s.stack \in [Monitors -> Seq(Clients)]
      /\ s.mon \in [Clients -> Monitors \cup {NoMonitor}]
      /\ s.sel \in [Monitors -> Clients \cup {NoClient}]
  BY DEF Good, StateSet
<1>2. /\ IsInjective(s.stack[m])
      /\ ToSet(s.stack[m]) = {e \in Clients : s.mon[e] = m}
  BY DEF Good, ClientListsOf
<1>3. q \in Seq(Clients) /\ IsInjective(q) /\ ToSet(q) = ToSet(s.stack[m]) \ {c}
  BY <1>1, <1>2, Removed
<1>4. M \in [Clients -> Monitors \cup {NoMonitor}] /\ Q \in [Monitors -> Seq(Clients)]
  BY <1>1, <1>3
<1>5. \A n \in Monitors : /\ IsInjective(Q[n])
                          /\ ToSet(Q[n]) = {e \in Clients : M[e] = n}
  <2> SUFFICES ASSUME NEW n \in Monitors
               PROVE  IsInjective(Q[n]) /\ ToSet(Q[n]) = {e \in Clients : M[e] = n}
    OBVIOUS
  <2> HIDE DEF q
  <2>1. CASE n = m
    BY <1>1, <1>2, <1>3, <2>1, NoMonitorApart
  <2>2. CASE n # m
    <3>1. Q[n] = s.stack[n] /\ c \notin {e \in Clients : s.mon[e] = n}
      BY <1>1, <2>2
    <3>2. {e \in Clients : M[e] = n} = {e \in Clients : s.mon[e] = n}
      BY <1>1, <2>2, NoMonitorApart
    <3> QED BY <3>1, <3>2 DEF Good, ClientListsOf
  <2> QED BY <2>1, <2>2
<1>6. Unlink(s, c) = IF s.sel[m] # c THEN t ELSE u
  <2>1. [s EXCEPT !.stack[m] = RemoveFirst(@, c), !.mon[c] = NoMonitor] = t
    BY DEF Good, StateSet
  <2> QED BY <2>1 DEF Unlink
<1> HIDE DEF q, M, Q
<1>7. t \in StateSet /\ t.mon = M /\ t.stack = Q /\ t.sel = s.sel
  BY <1>4 DEF Good, StateSet
<1>8. CASE s.sel[m] # c
  <2>1. \A n \in Monitors : s.sel[n] # NoClient => M[s.sel[n]] = n
    BY <1>1, <1>8 DEF Good, ClientListsOf, M
  <2>2. ClientListsOf(t)
    BY <1>5, <1>7, <2>1 DEF ClientListsOf
  <2> QED BY <1>6, <1>7, <1>8, <2>2 DEF Good, M
<1>9. CASE s.sel[m] = c
  <2>1. d = NoClient \/ (d \in Clients /\ M[d] = m)
    <3>1. d = NoClient \/ d \in ToSet(Q[m])
      BY <1>4, <1>7, NewestInStack
    <3> QED BY <1>5, <3>1
  <2> HIDE DEF d, t
  <2>2. u \in StateSet /\ u.mon = M /\ u.stack = Q /\ u.sel = [s.sel EXCEPT ![m] = d]
    <3>1. [s.sel EXCEPT ![m] = d] \in [Monitors -> Clients \cup {NoClient}]
      BY <1>1, <2>1
    <3>2. u = [t EXCEPT !.sel = [s.sel EXCEPT ![m] = d]]
      BY <1>7 DEF StateSet
    <3> QED BY <1>7, <3>1, <3>2 DEF StateSet
  <2>3. \A n \in Monitors : n # m /\ s.sel[n] # NoClient => M[s.sel[n]] = n
    BY <1>1 DEF Good, ClientListsOf, M
  <2>4. ClientListsOf(u)
    BY <1>1, <1>5, <2>1, <2>2, <2>3 DEF ClientListsOf
  <2> QED BY <1>6, <1>9, <2>2, <2>4 DEF Good, M
<1> QED BY <1>8, <1>9

\* client_link and client_link_stack of a client that is in no list.
LEMMA LinkGood ==
    ASSUME NEW s, Good(s), NEW c \in Clients, s.mon[c] = NoMonitor,
           NEW m \in Monitors, NEW w \in Workspaces \cup {NoWorkspace},
           NEW u, u = [s EXCEPT !.mon[c] = m, !.ws[c] = w, !.stack[m] = <<c>> \o @]
    PROVE  Good(u) /\ u.mon = [s.mon EXCEPT ![c] = m]
<1> DEFINE q == <<c>> \o s.stack[m]
           M == [s.mon EXCEPT ![c] = m]
           Q == [s.stack EXCEPT ![m] = q]
           W == [s.ws EXCEPT ![c] = w]
<1>1. /\ s.stack \in [Monitors -> Seq(Clients)]
      /\ s.mon \in [Clients -> Monitors \cup {NoMonitor}]
      /\ s.sel \in [Monitors -> Clients \cup {NoClient}]
      /\ s.ws \in [Clients -> Workspaces \cup {NoWorkspace}]
  BY DEF Good, StateSet
<1>2. /\ IsInjective(s.stack[m])
      /\ ToSet(s.stack[m]) = {e \in Clients : s.mon[e] = m}
      /\ c \notin ToSet(s.stack[m])
  BY NoMonitorApart DEF Good, ClientListsOf
<1>3. q \in Seq(Clients) /\ IsInjective(q) /\ ToSet(q) = ToSet(s.stack[m]) \cup {c}
  BY <1>1, <1>2, Pushed
<1>4. /\ M \in [Clients -> Monitors \cup {NoMonitor}]
      /\ Q \in [Monitors -> Seq(Clients)]
      /\ W \in [Clients -> Workspaces \cup {NoWorkspace}]
  BY <1>1, <1>3
<1>5. \A n \in Monitors : /\ IsInjective(Q[n])
                          /\ ToSet(Q[n]) = {e \in Clients : M[e] = n}
                          /\ s.sel[n] # NoClient => M[s.sel[n]] = n
  <2> SUFFICES ASSUME NEW n \in Monitors
               PROVE  /\ IsInjective(Q[n])
                      /\ ToSet(Q[n]) = {e \in Clients : M[e] = n}
                      /\ s.sel[n] # NoClient => M[s.sel[n]] = n
    OBVIOUS
  <2> HIDE DEF q
  <2>1. s.sel[n] # NoClient => s.mon[s.sel[n]] = n
    BY DEF Good, ClientListsOf
  <2>2. s.sel[n] # NoClient => M[s.sel[n]] = n
    BY <1>1, <2>1, NoMonitorApart
  <2>3. CASE n = m
    BY <1>1, <1>2, <1>3, <2>2, <2>3
  <2>4. CASE n # m
    <3>1. Q[n] = s.stack[n]
      BY <1>1, <2>4
    <3>2. {e \in Clients : M[e] = n} = {e \in Clients : s.mon[e] = n}
      BY <1>1, <2>4, NoMonitorApart
    <3> QED BY <2>2, <3>1, <3>2 DEF Good, ClientListsOf
  <2> QED BY <2>3, <2>4
<1>6. u = [s EXCEPT !.mon = M, !.ws = W, !.stack = Q]
  BY DEF Good, StateSet
<1> HIDE DEF q, M, Q, W
<1>7. u \in StateSet /\ u.mon = M /\ u.stack = Q /\ u.sel = s.sel
  BY <1>4, <1>6 DEF Good, StateSet
<1> QED BY <1>5, <1>7 DEF Good, ClientListsOf, M

\* movetoworkspace_ref, in each of its cases, moves a client between workspaces
\* and never between lists.
LEMMA MoveToWorkspaceKeeps ==
    ASSUME NEW s, Good(s), s.sel[s.cur] # NoClient,
           NEW ref \in Workspaces, NEW silent \in BOOLEAN, NEW ptr
    PROVE  Keeps(s, MoveToWorkspace(s, ref, silent, ptr))
<1> DEFINE m == s.cur
           c == s.sel[m]
           moved == [s EXCEPT !.ws[c] = ref]
           hidden == Autohide(moved, m)
           emptied == ClientLeft(hidden, s.ws[c])
           left == ClientJoined(emptied, ref)
           viewed == ViewAfterMove(left, ref, silent, ptr)
<1>1. m \in Monitors /\ c \in Clients
  BY DEF Good, StateSet
<1>2. Keeps(s, moved)
  BY <1>1, WorkspaceKeeps
<1> HIDE DEF moved
<1>3. Keeps(moved, hidden)
  BY <1>1, <1>2, AutohideKeeps DEF Keeps
<1> HIDE DEF hidden
<1>4. Keeps(hidden, emptied)
  BY <1>3, HookKeeps DEF Keeps
<1> HIDE DEF emptied
<1>5. Keeps(emptied, left)
  BY <1>4, HookKeeps DEF Keeps
<1> HIDE DEF left
<1>6. Keeps(s, left)
  BY <1>2, <1>3, <1>4, <1>5 DEF Keeps
<1>7. ASSUME NEW t, Good(t), silent \/ ref \in NormalIds
      PROVE  Keeps(t, ViewAfterMove(t, ref, silent, ptr))
  BY <1>7, FocusKeeps, ShowNormalKeeps DEF ViewAfterMove
<1>8. (ref \in Tags /\ ~silent) \/ silent \/ ref \in NormalIds
  BY DEF Workspaces
<1>9. CASE ref \in Tags /\ ~silent
  <2>1. ASSUME NEW t, Keeps(s, t)
        PROVE  Keeps(s, EnsureOverlay(t, m, ref, ptr))
    BY <1>1, <1>9, <2>1, EnsureOverlayKeeps DEF Keeps
  <2>2. MoveToWorkspace(s, ref, silent, ptr)
          = EnsureOverlay(IF s.ws[c] = ref THEN s ELSE left, m, ref, ptr)
    <3>1. ~(ref \in NormalIds \/ silent)
      BY <1>9, ConstantsAssumption
    <3> QED BY <1>9, <3>1 DEF MoveToWorkspace, left, emptied, hidden, moved
  <2> QED BY <1>6, <2>1, <2>2, KeepsReflexive
<1>10. CASE silent \/ ref \in NormalIds
  <2>1. ~(ref \in Tags /\ ~silent)
    BY <1>10, ConstantsAssumption
  <2>2. CASE s.ws[c] = ref
    <3>1. MoveToWorkspace(s, ref, silent, ptr) = ViewAfterMove(s, ref, silent, ptr)
      BY <1>10, <2>1, <2>2 DEF MoveToWorkspace
    <3> QED BY <1>7, <1>10, <3>1
  <2>3. CASE s.ws[c] # ref
    <3>1. MoveToWorkspace(s, ref, silent, ptr)
            = IF Autohides(moved, m) THEN FocusAfterHidden(viewed, m, ptr) ELSE viewed
      BY <2>1, <2>3 DEF MoveToWorkspace, left, emptied, hidden, moved
    <3>2. Keeps(left, viewed)
      BY <1>6, <1>7, <1>10 DEF Keeps
    <3> HIDE DEF viewed
    <3>3. Keeps(viewed, FocusAfterHidden(viewed, m, ptr))
      BY <1>1, <3>2, OverlayFocusKeeps DEF Keeps
    <3> QED BY <1>6, <3>1, <3>2, <3>3 DEF Keeps
  <2> QED BY <2>2, <2>3
<1> QED BY <1>8, <1>9, <1>10

\* sendmon: the client leaves the list of one monitor and joins that of another.
LEMMA SendMonGood ==
    ASSUME NEW s, Good(s), NEW c \in Clients, s.mon[c] \in Monitors,
           NEW m \in Monitors, NEW ptr
    PROVE  Good(SendMon(s, c, m, ptr))
<1> DEFINE src == s.mon[c]
           gone == Unlink(s, c)
           linked == [gone EXCEPT !.mon[c] = m, !.ws[c] = s.active[m],
                                  !.stack[m] = <<c>> \o @]
           there == [gone EXCEPT !.mon[c] = m, !.ws[c] = s.active[m],
                                 !.stack[m] = <<c>> \o @, !.input = NoClient]
           hidden == Autohide(there, src)
           settled == Focus(hidden, NoClient)
<1>1. Good(gone) /\ gone.mon[c] = NoMonitor
  <2>1. Good(gone) /\ gone.mon = [s.mon EXCEPT ![c] = NoMonitor]
    BY UnlinkGood
  <2>2. s.mon \in [Clients -> Monitors \cup {NoMonitor}]
    BY DEF Good, StateSet
  <2> HIDE DEF gone
  <2> QED BY <2>1, <2>2
<1>2. s.active[m] \in Workspaces
  BY DEF Good, StateSet, Workspaces
<1> HIDE DEF gone
<1>3. Good(linked)
  BY <1>1, <1>2, LinkGood
<1>4. there = [linked EXCEPT !.input = NoClient]
  BY <1>1 DEF Good, StateSet
<1> HIDE DEF linked, there
<1>5. Good(there)
  <2>1. there \in StateSet
    BY <1>3, <1>4 DEF Good, StateSet
  <2>2. there.mon = linked.mon /\ there.stack = linked.stack /\ there.sel = linked.sel
    BY <1>3, <1>4 DEF Good, StateSet
  <2> QED BY <1>3, <2>1, <2>2, Framed DEF Keeps
<1>6. Good(hidden)
  BY <1>5, AutohideKeeps DEF Keeps
<1> HIDE DEF hidden
<1>7. Good(settled)
  BY <1>6, FocusKeeps DEF Keeps
<1> HIDE DEF settled
<1>8. Good(FocusAfterHidden(settled, src, ptr))
  BY <1>7, OverlayFocusKeeps DEF Keeps
<1>9. \/ SendMon(s, c, m, ptr) = s
      \/ SendMon(s, c, m, ptr) = FocusAfterHidden(settled, src, ptr)
      \/ SendMon(s, c, m, ptr) = settled
  BY DEF SendMon, settled, hidden, there, gone
<1> QED BY <1>7, <1>8, <1>9

\* release_client: only the client released stops being managed.
LEMMA ReleaseGood ==
    ASSUME NEW s, Good(s), NEW c \in Clients, s.mon[c] \in Monitors,
           NEW fallback, NEW ptr
    PROVE  Good(Release(s, c, fallback, ptr))
<1> DEFINE m == s.mon[c]
           w == s.ws[c]
           unlinked == Unlink(s, c)
           out == [unlinked EXCEPT !.ws[c] = NoWorkspace]
           gone == [unlinked EXCEPT !.ws[c] = NoWorkspace,
                                    !.neverfocus = @ \ {c}, !.urgent = @ \ {c},
                                    !.ruleSilent = @ \ {c}]
           hidden == Autohide(gone, m)
           left == ClientLeft(hidden, w)
           settled == Focus(left, fallback)
<1>1. Good(unlinked)
  BY UnlinkGood
<1> HIDE DEF unlinked
<1>2. Good(out)
  BY <1>1, WorkspaceKeeps DEF Keeps
<1>3. gone = [out EXCEPT !.neverfocus = @ \ {c}, !.urgent = @ \ {c},
                         !.ruleSilent = @ \ {c}]
  BY <1>1 DEF Good, StateSet
<1> HIDE DEF out, gone
<1>4. Good(gone)
  <2>1. gone \in StateSet
    BY <1>2, <1>3 DEF Good, StateSet
  <2>2. gone.mon = out.mon /\ gone.stack = out.stack /\ gone.sel = out.sel
    BY <1>2, <1>3 DEF Good, StateSet
  <2> QED BY <1>2, <2>1, <2>2, Framed DEF Keeps
<1>5. Good(hidden)
  BY <1>4, AutohideKeeps DEF Keeps
<1> HIDE DEF hidden
<1>6. Good(left)
  BY <1>5, HookKeeps DEF Keeps
<1> HIDE DEF left
<1>7. Good(settled)
  BY <1>6, FocusKeeps DEF Keeps
<1> HIDE DEF settled
<1>8. Good(FocusAfterHidden(settled, m, ptr))
  BY <1>7, OverlayFocusKeeps DEF Keeps
<1>9. Release(s, c, fallback, ptr)
        = IF Autohides(gone, m) THEN FocusAfterHidden(settled, m, ptr) ELSE settled
  BY DEF Release, settled, left, hidden, gone, unlinked
<1> QED BY <1>7, <1>8, <1>9

-----------------------------------------------------------------------------
(* Managing a new window.                                                  *)

\* applyrules gives a new client a monitor and a workspace that exist.
LEMMA AssignedTypes ==
    ASSUME NEW s, Good(s), NEW parent, NEW rule \in WindowRules
    PROVE  /\ AssignedMonitor(s, parent, rule) \in Monitors
           /\ AssignedWorkspace(s, parent, rule) \in Workspaces \cup {NoWorkspace}
<1>1. /\ rule.output \in Monitors \cup {NoMonitor}
      /\ rule.workspace \in Workspaces \cup {NoWorkspace}
  BY ConstantsAssumption DEF RuleSet
<1>2. AssignedMonitor(s, parent, rule) \in Monitors
  BY <1>1 DEF AssignedMonitor, Managed, Good, StateSet
<1> DEFINE m == AssignedMonitor(s, parent, rule)
<1> HIDE DEF m
<1>3. /\ s.overlay[m] # NoTag => s.overlay[m] \in Workspaces
      /\ s.active[m] \in Workspaces
      /\ Managed(s, parent) => s.ws[parent] \in Workspaces \cup {NoWorkspace}
  BY <1>2 DEF m, Managed, Good, StateSet, Workspaces
<1> QED BY <1>1, <1>2, <1>3 DEF AssignedWorkspace, m

\* adopt_client up to client_link_stack: the new client is in the list of its monitor.
LEMMA LinkedGood ==
    ASSUME NEW s, Good(s), NEW c \in Clients, s.mon[c] = NoMonitor,
           NEW m \in Monitors, NEW w \in Workspaces \cup {NoWorkspace},
           NEW transient, NEW quiet, NEW refuses, NEW wantsAttention
    PROVE  LET u == Linked(s, c, m, w, transient, quiet, refuses, wantsAttention)
           IN  Good(u) /\ u.mon = [s.mon EXCEPT ![c] = m]
<1> DEFINE modal == WindowType[c] = "dialog" \/ (transient /\ WindowType[c] # "splash")
           closed == IF w \in NormalIds /\ modal THEN CloseOverlay(s, m) ELSE s
           joined == IF c \in Docks THEN closed ELSE ClientJoined(closed, w)
           linked == [joined EXCEPT !.mon[c] = m, !.ws[c] = w, !.stack[m] = <<c>> \o @]
           N == IF refuses THEN linked.neverfocus \cup {c} ELSE linked.neverfocus
           U == IF wantsAttention THEN linked.urgent \cup {c} ELSE linked.urgent
           R == IF quiet THEN linked.ruleSilent \cup {c} ELSE linked.ruleSilent
           u == Linked(s, c, m, w, transient, quiet, refuses, wantsAttention)
<1>1. Keeps(s, closed)
  BY AutohideKeeps, KeepsReflexive
<1> HIDE DEF closed
<1>2. Keeps(closed, joined)
  BY <1>1, HookKeeps, KeepsReflexive DEF Keeps
<1>3. u = [joined EXCEPT !.mon[c] = m, !.ws[c] = w, !.stack[m] = <<c>> \o @,
             !.neverfocus = IF refuses THEN @ \cup {c} ELSE @,
             !.urgent = IF wantsAttention THEN @ \cup {c} ELSE @,
             !.ruleSilent = IF quiet THEN @ \cup {c} ELSE @]
  BY DEF Linked, joined, closed
<1> HIDE DEF joined
<1>4. Good(joined) /\ joined.mon = s.mon
  BY <1>1, <1>2 DEF Keeps
<1>5. Good(linked) /\ linked.mon = [joined.mon EXCEPT ![c] = m]
  <2>1. joined.mon[c] = NoMonitor
    BY <1>4
  <2>2. Good(joined)
    BY <1>4
  <2>3. Good(linked)
    BY <2>1, <2>2, LinkGood
  <2>4. linked.mon = [joined.mon EXCEPT ![c] = m]
    BY <2>2 DEF Good, StateSet
  <2> QED BY <2>3, <2>4
<1>6. u = [linked EXCEPT !.neverfocus = N, !.urgent = U, !.ruleSilent = R]
  BY <1>3, <1>4 DEF Good, StateSet
<1> HIDE DEF linked, u
<1>7. N \subseteq Clients /\ U \subseteq Clients /\ R \subseteq Clients
  BY <1>5 DEF Good, StateSet
<1> HIDE DEF N, U, R
<1>8. u \in StateSet /\ u.mon = linked.mon /\ u.stack = linked.stack /\ u.sel = linked.sel
  BY <1>5, <1>6, <1>7 DEF Good, StateSet
<1>9. Keeps(linked, u)
  BY <1>5, <1>8, Framed
<1> QED BY <1>4, <1>5, <1>9 DEF Keeps, u

\* A monitor selects the new client only if it is its own.
LEMMA MaybeSelectKeeps ==
    ASSUME NEW s, Good(s), NEW c \in Clients
    PROVE  Keeps(s, MaybeSelect(s, c))
<1> DEFINE m == s.mon[c]
           S == [s.sel EXCEPT ![m] = c]
           u == [s EXCEPT !.sel = S]
<1>1. CASE m \in Monitors
  <2>1. S \in [Monitors -> Clients \cup {NoClient}]
    BY <1>1 DEF Good, StateSet
  <2>2. [s EXCEPT !.sel[m] = c] = u
    BY DEF Good, StateSet
  <2> HIDE DEF S
  <2>3. u \in StateSet /\ u.mon = s.mon /\ u.stack = s.stack /\ u.sel = S
    BY <2>1 DEF Good, StateSet
  <2>4. \A n \in Monitors : S[n] # NoClient => s.mon[S[n]] = n
    BY <1>1 DEF S, Good, StateSet, ClientListsOf
  <2>5. ClientListsOf(u)
    BY <2>3, <2>4 DEF Good, ClientListsOf
  <2> QED BY <2>2, <2>3, <2>5, KeepsReflexive DEF MaybeSelect, Keeps, Good
<1>2. CASE m \notin Monitors
  <2>1. m = NoMonitor
    BY <1>2 DEF Good, StateSet
  <2> QED BY <2>1, KeepsReflexive DEF MaybeSelect, Focusable, Visible, Managed
<1> QED BY <1>1, <1>2

\* adopt_client between the lists and map_window.
LEMMA RevealedKeeps ==
    ASSUME NEW s, Good(s), NEW c \in Clients, s.mon[c] \in Monitors,
           NEW byRule, NEW ptr
    PROVE  Keeps(s, Revealed(s, c, byRule, ptr))
<1> DEFINE w == s.ws[c]
           e == EnsureOverlay(s, s.mon[c], w, ptr)
<1>1. CASE w \in Tags /\ c \notin Docks
  <2>1. Keeps(s, e)
    BY <1>1, EnsureOverlayKeeps
  <2>2. Revealed(s, c, byRule, ptr) = s \/ Revealed(s, c, byRule, ptr) = MaybeSelect(e, c)
    <3>1. w \notin NormalIds
      BY <1>1, ConstantsAssumption
    <3> QED BY <1>1, <3>1 DEF Revealed
  <2> HIDE DEF e
  <2>3. Keeps(e, MaybeSelect(e, c))
    BY <2>1, MaybeSelectKeeps DEF Keeps
  <2> QED BY <2>1, <2>2, <2>3, KeepsReflexive DEF Keeps
<1>2. CASE ~(w \in Tags /\ c \notin Docks)
  <2>1. \/ Revealed(s, c, byRule, ptr) = s
        \/ w \in NormalIds /\ Revealed(s, c, byRule, ptr) = ShowNormal(s, w, ptr)
        \/ Revealed(s, c, byRule, ptr) = MaybeSelect(s, c)
    BY <1>2 DEF Revealed
  <2>2. Keeps(s, s) /\ Keeps(s, MaybeSelect(s, c))
    BY KeepsReflexive, MaybeSelectKeeps
  <2>3. w \in NormalIds => Keeps(s, ShowNormal(s, w, ptr))
    BY ShowNormalKeeps
  <2> QED BY <2>1, <2>2, <2>3
<1> QED BY <1>1, <1>2

\* adopt_client after map_window.
LEMMA MappedKeeps ==
    ASSUME NEW s, Good(s), NEW c \in Clients, s.mon[c] \in Monitors, NEW ptr
    PROVE  Keeps(s, Mapped(s, c, ptr))
<1> DEFINE w == s.ws[c]
           shown == IF w \in Tags THEN EnsureOverlay(s, s.mon[c], w, ptr) ELSE s
           d == IF c \in Docks THEN NoClient ELSE c
<1>1. Keeps(s, shown)
  BY EnsureOverlayKeeps, KeepsReflexive
<1>2. Mapped(s, c, ptr) \in {s, shown, Focus(shown, d)}
  BY DEF Mapped
<1> HIDE DEF shown
<1>3. Keeps(shown, Focus(shown, d))
  BY <1>1, FocusKeeps DEF Keeps
<1> QED BY <1>1, <1>2, <1>3, KeepsReflexive DEF Keeps

\* adopt_client as a whole: only the client adopted becomes managed.
LEMMA AdoptGood ==
    ASSUME NEW s, Good(s), NEW c \in Clients, s.mon[c] = NoMonitor,
           NEW parent, NEW rule \in WindowRules,
           NEW refuses, NEW wantsAttention, NEW ptr,
           NEW t, t = Adopt(s, c, parent, rule, refuses, wantsAttention, ptr)
    PROVE  Good(t) /\ \E m \in Monitors : t.mon = [s.mon EXCEPT ![c] = m]
<1> DEFINE m == AssignedMonitor(s, parent, rule)
           w == AssignedWorkspace(s, parent, rule)
           byRule == rule.workspace # NoWorkspace
           linked == Linked(s, c, m, w, parent # NoClient, byRule /\ rule.silent,
                            refuses, wantsAttention)
           unmapped == IF ptr = c THEN NoClient ELSE ptr
           revealed == Revealed(linked, c, byRule, unmapped)
<1>1. m \in Monitors /\ w \in Workspaces \cup {NoWorkspace}
  BY AssignedTypes
<1> HIDE DEF m, w
<1>2. Good(linked) /\ linked.mon = [s.mon EXCEPT ![c] = m]
  BY <1>1, LinkedGood
<1> HIDE DEF linked
<1>3. linked.mon[c] \in Monitors
  BY <1>1, <1>2 DEF Good, StateSet
<1>4. Keeps(linked, revealed)
  BY <1>2, <1>3, RevealedKeeps
<1> HIDE DEF revealed
<1>5. Keeps(revealed, Mapped(revealed, c, ptr))
  BY <1>3, <1>4, MappedKeeps DEF Keeps
<1>6. Adopt(s, c, parent, rule, refuses, wantsAttention, ptr) = Mapped(revealed, c, ptr)
  BY DEF Adopt, revealed, linked, m, w
<1> QED BY <1>1, <1>2, <1>4, <1>5, <1>6 DEF Keeps

-----------------------------------------------------------------------------
(* The inductive invariant: a well-formed state whose mouse loop, if one   *)
(* runs, holds a managed client.  MapRequest is the only handler that runs *)
(* inside a loop, and EndDrag needs the monitor of the client it sends.    *)

IInv ==
    /\ Good(State)
    /\ dragged \in Maybe
    /\ DraggedIsManaged

\* A handler that ends with a well-formed record leaves a well-formed state.
LEMMA Becoming ==
    ASSUME NEW s, Good(s), Become(s)
    PROVE  Good(State') /\ mon' = s.mon
<1>1. State' \in StateSet
  BY DEF Good, StateSet, State, Become
<1>2. State'.mon = s.mon /\ State'.stack = s.stack /\ State'.sel = s.sel
  BY DEF State, Become
<1>3. Good(State')
  BY <1>1, <1>2 DEF Good, ClientListsOf
<1> QED BY <1>3 DEF Become

\* A handler of the main loop.
LEMMA Stepping ==
    ASSUME IInv, Idle, NEW s, Good(s), Step(s)
    PROVE  IInv'
<1>1. Good(State')
  BY Becoming DEF Step
<1>2. dragged' = NoClient
  BY DEF Step, Idle
<1> QED BY <1>1, <1>2 DEF IInv, Maybe, DraggedIsManaged

\* The invariant holds before the first window is mapped.
LEMMA InitEstablishes == Init => IInv
<1> SUFFICES ASSUME Init PROVE IInv
  OBVIOUS
<1>1. 1 \in Monitors
  BY ConstantsAssumption DEF Monitors
<1>2. State \in StateSet
  BY <1>1, ConstantsAssumption DEF Init, State, StateSet, Workspaces
<1>3. ClientListsOf(State)
  <2> SUFFICES ASSUME NEW m \in Monitors
               PROVE  /\ IsInjective(stack[m])
                      /\ ToSet(stack[m]) = {c \in Clients : mon[c] = m}
                      /\ sel[m] = NoClient
    BY DEF ClientListsOf, State
  <2>1. stack[m] = <<>> /\ sel[m] = NoClient
    BY DEF Init
  <2>2. {c \in Clients : mon[c] = m} = {}
    BY NoMonitorApart DEF Init
  <2>3. DOMAIN stack[m] = {}
    BY <2>1
  <2> QED BY <2>1, <2>2, <2>3 DEF IsInjective, ToSet
<1> QED BY <1>2, <1>3 DEF IInv, Good, Init, Maybe, DraggedIsManaged

\* The fields of the current state, as the handlers' lemmas need them.
LEMMA CurrentState ==
    ASSUME IInv
    PROVE  /\ Good(State)
           /\ State.cur = cur /\ cur \in Monitors
           /\ State.mon = mon /\ mon \in [Clients -> Monitors \cup {NoMonitor}]
           /\ State.sel = sel /\ sel \in [Monitors -> Clients \cup {NoClient}]
           /\ State.ws = ws
           /\ \A m \in Monitors : sel[m] # NoClient => mon[sel[m]] = m
<1>1. Good(State)
  BY DEF IInv
<1>2. /\ State.cur = cur /\ State.mon = mon /\ State.sel = sel /\ State.ws = ws
  BY DEF State
<1>3. /\ cur \in Monitors
      /\ mon \in [Clients -> Monitors \cup {NoMonitor}]
      /\ sel \in [Monitors -> Clients \cup {NoClient}]
  BY <1>1, <1>2 DEF Good, StateSet
<1>4. \A m \in Monitors : sel[m] # NoClient => mon[sel[m]] = m
  BY <1>1, <1>2 DEF Good, ClientListsOf
<1> QED BY <1>1, <1>2, <1>3, <1>4

\* dirtomon_from_chain returns a monitor.
LEMMA NeighbourType ==
    ASSUME NEW m \in Monitors, NEW direction \in {-1, 1}
    PROVE  Neighbour(m, direction) \in Monitors
<1>1. NumMonitors \in Nat /\ NumMonitors > 0 /\ m \in 1..NumMonitors
  BY ConstantsAssumption DEF Monitors
<1> DEFINE a == m - 1 + direction + NumMonitors
<1>2. a \in Int
  BY <1>1
<1> HIDE DEF a
<1>3. a % NumMonitors \in 0..NumMonitors - 1
  BY <1>1, <1>2
<1>4. (a % NumMonitors) + 1 \in 1..NumMonitors
  BY <1>1, <1>3
<1> QED BY <1>4 DEF Neighbour, Monitors, a

\* SwitchTo changes the selected monitor and the input only.
LEMMA SwitchToGood ==
    ASSUME IInv, NEW m \in Monitors
    PROVE  Keeps(State, SwitchTo(m))
<1> DEFINE i == IF m = cur \/ sel[cur] = NoClient THEN State.input ELSE NoClient
           t == [State EXCEPT !.cur = m, !.input = i]
<1>1. SwitchTo(m) = t
  BY DEF SwitchTo, State
<1>2. Good(State) /\ i \in Clients \cup {NoClient}
  BY DEF IInv, Good, StateSet
<1> HIDE DEF i
<1>3. t \in StateSet
  BY <1>2 DEF Good, StateSet
<1>4. t.mon = State.mon /\ t.stack = State.stack /\ t.sel = State.sel
  BY <1>2 DEF Good, StateSet
<1> QED BY <1>1, <1>2, <1>3, <1>4, Framed

\* Every handler keeps the invariant; one step per action of Next.
LEMMA NextPreserves == IInv /\ [Next]_vars => IInv'
<1> SUFFICES ASSUME IInv, [Next]_vars PROVE IInv'
  OBVIOUS
<1>0. /\ Good(State)
      /\ State.cur = cur /\ cur \in Monitors
      /\ State.mon = mon /\ mon \in [Clients -> Monitors \cup {NoMonitor}]
      /\ State.sel = sel /\ sel \in [Monitors -> Clients \cup {NoClient}]
      /\ State.ws = ws
      /\ \A m \in Monitors : sel[m] # NoClient => mon[sel[m]] = m
  BY CurrentState
<1>f. \A s, c : Good(s) => Good(Focus(s, c))
  BY FocusKeeps DEF Keeps
<1>m. \A c \in Clients : Managed(State, c) => mon[c] \in Monitors
  BY <1>0 DEF Managed
<1>s. \A m \in Monitors : Good([State EXCEPT !.cur = m])
  BY <1>0, Selected DEF Keeps
<1>1. ASSUME NEW c \in Clients, MapRequest(c) PROVE IInv'
  <2>1. PICK parent \in Maybe \ {c}, rule \in WindowRules,
             refuses \in IF c \in Hinted THEN BOOLEAN ELSE {c \in Docks},
             wantsAttention \in IF c \in Hinted THEN BOOLEAN ELSE {FALSE},
             ptr \in Maybe :
             Step(Adopt(State, c, parent, rule, refuses, wantsAttention, ptr))
    BY <1>1, Zenon DEF MapRequest
  <2> DEFINE s == Adopt(State, c, parent, rule, refuses, wantsAttention, ptr)
  <2>2. ~Managed(State, c)
    BY <1>1, Zenon DEF MapRequest
  <2>3. State.mon[c] = NoMonitor
    BY <2>2 DEF Managed
  <2>4. Good(s) /\ \E m \in Monitors : s.mon = [mon EXCEPT ![c] = m]
    <3>1. Good(State) /\ State.mon = mon
      BY <1>0
    <3>2. s = Adopt(State, c, parent, rule, refuses, wantsAttention, ptr)
      OBVIOUS
    <3> HIDE DEF s
    <3>3. Good(s)
      BY <2>3, <3>1, <3>2, AdoptGood, Zenon
    <3>4. \E m \in Monitors : s.mon = [State.mon EXCEPT ![c] = m]
      BY <2>3, <3>1, <3>2, AdoptGood, SMTT(60)
    <3> QED BY <3>1, <3>3, <3>4
  <2> HIDE DEF s
  <2>5. Good(State') /\ mon' = s.mon /\ dragged' = dragged
    BY <2>1, <2>4, Becoming DEF Step, s
  <2>6. dragged' # NoClient => dragged' \in Clients /\ mon'[dragged'] # NoMonitor
    <3>1. dragged # NoClient => dragged \in Clients \ {c} /\ mon[dragged] # NoMonitor
      BY <1>0, <2>2 DEF IInv, DraggedIsManaged, Managed
    <3> QED BY <1>0, <2>4, <2>5, <3>1
  <2>7. State'.mon = mon'
    BY DEF State
  <2> QED BY <2>5, <2>6, <2>7 DEF IInv, Maybe, DraggedIsManaged, Managed
<1>2. ASSUME NEW c \in Clients, Unmap(c) PROVE IInv'
  <2>1. PICK fallback, ptr : Step(Release(State, c, fallback, ptr))
    BY <1>2, Zenon DEF Unmap
  <2>2. Idle /\ State.mon[c] \in Monitors
    BY <1>0, <1>2, <1>m, Zenon DEF Unmap
  <2>3. Good(Release(State, c, fallback, ptr))
    BY <1>0, <2>2, ReleaseGood
  <2> QED BY <2>1, <2>2, <2>3, Stepping
<1>3. ASSUME NEW w \in NormalIds, View(w) PROVE IInv'
  <2>1. PICK ptr : Step(ShowNormal(State, w, ptr))
    BY <1>3, Zenon DEF View
  <2>2. Good(ShowNormal(State, w, ptr))
    BY <1>0, ShowNormalKeeps DEF Keeps
  <2>3. Idle
    BY <1>3, Zenon DEF View
  <2> QED BY <2>1, <2>2, <2>3, Stepping
<1>4. ASSUME NEW t \in Tags, ToggleSpecial(t) PROVE IInv'
  <2>1. PICK ptr : Step(ToggleOverlay(State, cur, t, ptr))
    BY <1>4, Zenon DEF ToggleSpecial
  <2>2. Good(ToggleOverlay(State, cur, t, ptr))
    BY <1>0, ToggleOverlayKeeps DEF Keeps
  <2>3. Idle
    BY <1>4, Zenon DEF ToggleSpecial
  <2> QED BY <2>1, <2>2, <2>3, Stepping
<1>5. ASSUME NEW ref \in Workspaces, NEW silent \in BOOLEAN, Move(ref, silent)
      PROVE  IInv'
  <2>1. PICK ptr : Step(MoveToWorkspace(State, ref, silent, ptr))
    BY <1>5, Zenon DEF Move
  <2>2. Idle /\ sel[cur] # NoClient
    BY <1>5, Zenon DEF Move
  <2>3. Good(MoveToWorkspace(State, ref, silent, ptr))
    BY <1>0, <2>2, MoveToWorkspaceKeeps DEF Keeps
  <2> QED BY <2>1, <2>2, <2>3, Stepping
<1>6. ASSUME NEW direction \in {-1, 1}, FocusMonitor(direction) PROVE IInv'
  <2> DEFINE m == Neighbour(cur, direction)
             w == IF DefaultWorkspace[m] = NoWorkspace THEN State.active[m]
                  ELSE DefaultWorkspace[m]
             t == [State EXCEPT !.cur = m, !.active[m] = w]
  <2>1. m \in Monitors
    BY <1>0, NeighbourType
  <2> HIDE DEF m
  <2>2. w \in NormalIds
    BY <1>0, <2>1, ConstantsAssumption DEF Good, StateSet
  <2>3. [State EXCEPT !.cur = m,
                      !.active[m] = IF DefaultWorkspace[m] = NoWorkspace THEN @
                                    ELSE DefaultWorkspace[m]] = t
    BY <1>0 DEF Good, StateSet
  <2>4. Idle /\ Step(Focus(t, NoClient))
    BY <1>6, <2>3 DEF FocusMonitor, m
  <2> HIDE DEF w
  <2>5. Good(t)
    BY <1>0, <2>1, <2>2, ActiveKeeps DEF Keeps
  <2> QED BY <1>f, <2>4, <2>5, Stepping
<1>7. ASSUME NEW direction \in {-1, 1}, MoveToMonitor(direction) PROVE IInv'
  <2>1. PICK ptr : Step(SendMon(State, sel[cur], Neighbour(cur, direction), ptr))
    BY <1>7, Zenon DEF MoveToMonitor
  <2>2. Idle /\ sel[cur] # NoClient
    BY <1>7, Zenon DEF MoveToMonitor
  <2>3. Neighbour(cur, direction) \in Monitors
    BY <1>0, NeighbourType
  <2>4. sel[cur] \in Clients /\ State.mon[sel[cur]] \in Monitors
    BY <1>0, <2>2
  <2>5. Good(SendMon(State, sel[cur], Neighbour(cur, direction), ptr))
    BY <1>0, <2>3, <2>4, SendMonGood
  <2> QED BY <2>1, <2>2, <2>5, Stepping
<1>8. CASE BeginDrag
  <2>1. Good(State') /\ mon' = mon
    BY <1>0, <1>8, Becoming DEF BeginDrag
  <2>2. dragged' \in Clients /\ mon'[dragged'] # NoMonitor
    BY <1>0, <1>8, <2>1, NoMonitorApart DEF BeginDrag
  <2> QED BY <2>1, <2>2 DEF IInv, Maybe, DraggedIsManaged, Managed, State
<1>9. ASSUME NEW m \in Monitors, EndDrag(m) PROVE IInv'
  <2>1. /\ dragged' = NoClient /\ dragged # NoClient
        /\ \E ptr : Become(IF mon[dragged] = m THEN State
               ELSE Focus([SendMon(State, dragged, m, ptr) EXCEPT !.cur = m], NoClient))
    BY <1>9, Zenon DEF EndDrag, Idle
  <2>2. PICK ptr : Become(IF mon[dragged] = m THEN State
               ELSE Focus([SendMon(State, dragged, m, ptr) EXCEPT !.cur = m], NoClient))
    BY <2>1
  <2>3. dragged \in Clients /\ State.mon[dragged] \in Monitors
    BY <1>0, <2>1 DEF IInv, DraggedIsManaged, Managed
  <2>4. Good(SendMon(State, dragged, m, ptr))
    BY <1>0, <2>3, SendMonGood
  <2>5. Good(Focus([SendMon(State, dragged, m, ptr) EXCEPT !.cur = m], NoClient))
    BY <2>4, FocusOnKeeps DEF Keeps
  <2>6. Good(State')
    BY <1>0, <2>2, <2>5, Becoming
  <2> QED BY <2>1, <2>6 DEF IInv, Maybe, DraggedIsManaged
<1>10. ASSUME NEW c \in Clients, FocusNeighbour(c) PROVE IInv'
  BY <1>0, <1>f, <1>10, Stepping DEF FocusNeighbour
<1>11. ASSUME NEW c \in Clients, FocusUrgent(c) PROVE IInv'
  <2> DEFINE s == [State EXCEPT !.cur = mon[c]]
             V(ptr) == IF Visible(s, c) \/ ws[c] \notin NormalIds THEN s
                       ELSE ViewNormal(s, ws[c], ptr)
  <2>1. Idle /\ \E ptr : Step(Focus(V(ptr), c))
    BY <1>11 DEF FocusUrgent
  <2>2. PICK ptr : Step(Focus(V(ptr), c))
    BY <2>1
  <2>3. Good(s)
    <3>1. mon[c] \in Monitors
      BY <1>11, <1>m DEF FocusUrgent
    <3> QED BY <1>s, <3>1
  <2> HIDE DEF s
  <2>4. Good(V(ptr))
    BY <2>3, ShowNormalKeeps DEF Keeps
  <2> QED BY <1>f, <2>1, <2>2, <2>4, Stepping
<1>12. ASSUME NEW c \in Clients, FocusWindow(c) PROVE IInv'
  <2> DEFINE m == mon[c]
             s == [State EXCEPT !.cur = m]
             t == [s EXCEPT !.active[m] = ws[c]]
             v == IF Visible(s, c) \/ ws[c] \notin NormalIds THEN s ELSE t
  <2>1. Idle /\ m \in Monitors /\ Step(Focus(v, c))
    BY <1>12, <1>m DEF FocusWindow
  <2> HIDE DEF m
  <2>2. Good(s)
    BY <1>s, <2>1
  <2>3. t = [State EXCEPT !.cur = m, !.active[m] = ws[c]]
    BY <1>0 DEF Good, StateSet
  <2> HIDE DEF s, t
  <2>4. ws[c] \in NormalIds => Good(t)
    BY <1>0, <2>1, <2>3, ActiveKeeps DEF Keeps
  <2>5. Good(v)
    BY <2>2, <2>4
  <2> QED BY <1>f, <2>1, <2>5, Stepping
<1>13. ASSUME NEW c \in Clients, Activate(c) PROVE IInv'
  <2> DEFINE V(ptr) == CASE ~Visible(State, c) /\ ws[c] \in Tags ->
                              EnsureOverlay(State, mon[c], ws[c], ptr)
                         [] ~Visible(State, c) /\ ws[c] \in NormalIds
                            /\ c \notin ruleSilent -> ViewNormal(State, ws[c], ptr)
                         [] OTHER -> State
             U(s) == [s EXCEPT !.urgent = @ \cup {c}]
  <2>1. Idle /\ Managed(State, c)
    BY <1>13, Zenon DEF Activate
  <2>2. PICK ptr : Step(IF FocusOnActivate /\ Visible(V(ptr), c) THEN Focus(V(ptr), c)
                        ELSE IF c # sel[cur] /\ c \in Hinted THEN U(V(ptr))
                        ELSE V(ptr))
    BY <1>13 DEF Activate
  <2>3. Good(V(ptr))
    <3>1. mon[c] \in Monitors
      BY <1>m, <2>1
    <3>2. /\ ws[c] \in Tags => Good(EnsureOverlay(State, mon[c], ws[c], ptr))
          /\ ws[c] \in NormalIds => Good(ViewNormal(State, ws[c], ptr))
      BY <1>0, <3>1, EnsureOverlayKeeps, ShowNormalKeeps DEF Keeps
    <3> QED BY <1>0, <3>2
  <2>4. ASSUME NEW s, Good(s) PROVE Good(U(s))
    <3>1. U(s) \in StateSet
      BY <2>4 DEF Good, StateSet
    <3>2. U(s).mon = s.mon /\ U(s).stack = s.stack /\ U(s).sel = s.sel
      BY <2>4 DEF Good, StateSet
    <3> QED BY <2>4, <3>1, <3>2, Framed DEF Keeps
  <2> HIDE DEF V, U
  <2> QED BY <1>f, <2>1, <2>2, <2>3, <2>4, Stepping
<1>14. ASSUME NEW c \in Clients, EnterClient(c) PROVE IInv'
  <2>1. Idle /\ mon[c] \in Monitors
    BY <1>14, <1>m DEF EnterClient
  <2>2. Good(SwitchTo(mon[c]))
    BY <2>1, SwitchToGood DEF Keeps
  <2> QED BY <1>14, <1>f, <2>1, <2>2, Stepping DEF EnterClient
<1>15. ASSUME NEW m \in Monitors, EnterMonitor(m) PROVE IInv'
  BY <1>15, SwitchToGood, Stepping DEF EnterMonitor, Keeps
<1>16. ASSUME NEW c \in Clients, ButtonPress(c) PROVE IInv'
  <2> DEFINE s == IF mon[c] = cur THEN State ELSE Focus(SwitchTo(mon[c]), NoClient)
  <2>1. Idle /\ mon[c] \in Monitors
        /\ Step(IF c \in neverfocus \/ FollowMouse = 3 THEN s ELSE Focus(s, c))
    BY <1>16, <1>m DEF ButtonPress
  <2>2. Good(s)
    BY <1>0, <1>f, <2>1, SwitchToGood DEF Keeps
  <2> HIDE DEF s
  <2> QED BY <1>f, <2>1, <2>2, Stepping
<1>17. ASSUME NEW m \in Monitors, PointerCrosses(m) PROVE IInv'
  BY <1>17, <1>f, <1>s, Stepping DEF PointerCrosses
<1>18. CASE FocusIn
  <2> DEFINE t == [State EXCEPT !.input = sel[cur]]
  <2>1. t \in StateSet
    BY <1>0 DEF Good, StateSet
  <2>2. t.mon = State.mon /\ t.stack = State.stack /\ t.sel = State.sel
    BY <1>0 DEF Good, StateSet
  <2>3. Good(t)
    BY <1>0, <2>1, <2>2, Framed DEF Keeps
  <2> QED BY <1>18, <2>3, Stepping DEF FocusIn
<1>19. ASSUME NEW c \in Clients, WmHints(c) PROVE IInv'
  <2>1. PICK wantsAttention \in BOOLEAN, refuses \in BOOLEAN :
          Step([State EXCEPT
             !.urgent = CASE wantsAttention /\ c = sel[cur] -> @
                          [] wantsAttention /\ c # sel[cur] -> @ \cup {c}
                          [] OTHER -> @ \ {c},
             !.neverfocus = IF refuses THEN @ \cup {c} ELSE @ \ {c}])
    BY <1>19 DEF WmHints
  <2> DEFINE U == CASE wantsAttention /\ c = sel[cur] -> State.urgent
                    [] wantsAttention /\ c # sel[cur] -> State.urgent \cup {c}
                    [] OTHER -> State.urgent \ {c}
             N == IF refuses THEN State.neverfocus \cup {c} ELSE State.neverfocus \ {c}
             t == [State EXCEPT !.urgent = U, !.neverfocus = N]
  <2>2. Idle
    BY <1>19 DEF WmHints
  <2>3. Step(t)
    BY <1>0, <2>1 DEF Good, StateSet
  <2>4. U \subseteq Clients /\ N \subseteq Clients
    BY <1>0 DEF Good, StateSet
  <2> HIDE DEF U, N
  <2>5. t \in StateSet
    BY <1>0, <2>4 DEF Good, StateSet
  <2>6. t.mon = State.mon /\ t.stack = State.stack /\ t.sel = State.sel
    BY <1>0 DEF Good, StateSet
  <2>7. Good(t)
    BY <1>0, <2>5, <2>6, Framed DEF Keeps
  <2> HIDE DEF t
  <2> QED BY <2>2, <2>3, <2>7, Stepping
<1>20. CASE UNCHANGED vars
  <2>1. State' = State /\ dragged' = dragged
    BY <1>20 DEF vars, State
  <2> QED BY <2>1 DEF IInv, DraggedIsManaged
<1> QED
  BY <1>1, <1>2, <1>3, <1>4, <1>5, <1>6, <1>7, <1>8, <1>9, <1>10, <1>11, <1>12,
     <1>13, <1>14, <1>15, <1>16, <1>17, <1>18, <1>19, <1>20 DEF Next

-----------------------------------------------------------------------------
(* The theorems.                                                           *)

\* The inductive invariant is an invariant.
LEMMA IInvAlways == Spec => []IInv
BY InitEstablishes, NextPreserves, PTL DEF Spec

\* Type correctness.
THEOREM TypeCorrect == Spec => []TypeOK
<1>1. IInv => TypeOK
  BY DEF IInv, Good, TypeOK
<1> QED BY IInvAlways, <1>1, PTL

\* However handlers interleave, on any number of monitors, the focus stacks, the
\* monitors of the clients and the selections describe the same clients.
THEOREM ListsAgree == Spec => []ClientLists
<1>1. IInv => ClientLists
  BY DEF IInv, Good, ClientLists
<1> QED BY IInvAlways, <1>1, PTL

\* The client a mouse loop holds is managed whatever is mapped meanwhile.
THEOREM DragHoldsManagedClient == Spec => []DraggedIsManaged
<1>1. IInv => DraggedIsManaged
  BY DEF IInv
<1> QED BY IInvAlways, <1>1, PTL
=============================================================================
