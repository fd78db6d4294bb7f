--------------------------- MODULE KeyBindsProofs ---------------------------
(***************************************************************************)
(* Proofs about the binds: for any keyboard, layouts and entries, the      *)
(* grabs follow the layout, cooldowns hold, and no press of a free key is  *)
(* taken for a repeat.                                                     *)
(***************************************************************************)
EXTENDS KeyBinds, SequenceTheorems, WellFoundedInduction, TLAPS

USE KeyBindsAssumption DEF KeyBindsAssumption, server, wm

\* The events under way.  Only a press can be fresh.
Events ==
    {FocusInEvent, MappingEvent}
    \cup [type : {"press"}, key : Keycodes, mods : Mods, fresh : BOOLEAN]
    \cup [type : {"release"}, key : Keycodes, mods : Mods, fresh : {FALSE}]

ServerTyped ==
    /\ down \subseteq Keycodes /\ mods \in Mods
    /\ repeating \in down \cup {Nothing}
    /\ grab \in Keycodes \cup {Nothing}
    /\ focused \in BOOLEAN
    /\ layout \in DOMAIN Layouts

WmTyped ==
    /\ grabs \subseteq Keycodes \X Mods
    /\ pressed \subseteq Keycodes
    /\ until \in [Keys -> Nat]
    /\ deadline \in Nat \cup {Nothing}
    /\ now \in Nat
    /\ fired \subseteq Keys
    /\ ran \in [Keys -> Nat \cup {Nothing}]

\* The server's variables, the events and zestwm's variables keep their types.
KeyBindsTyped == ServerTyped /\ queue \in Seq(Events) /\ WmTyped

\* A bind that ran has a cooldown, which ends that long after it ran.
CooldownsCounted ==
    \A b \in Keys :
        ran[b] # Nothing =>
            /\ Entries[b].cooldown > 0
            /\ until[b] = ran[b] + Entries[b].cooldown
            /\ ran[b] <= now

Presses(e, k) == e.type = "press" /\ e.key = k
Clears(e, k) == e.type = "focusin" \/ (e.type = "release" /\ e.key = k)

\* Whether k is taken to be held once the first n events of q are handled, if p is
\* what is taken to be held before them.
Held(q, p, k, n) ==
    \/ k \in p /\ \A m \in 1..n : ~Clears(q[m], k)
    \/ \E j \in 1..n :
          Presses(q[j], k) /\ \A m \in 1..n : m > j => ~Clears(q[m], k)

WillBeHeld(q, p, k) == Held(q, p, k, Len(q))

\* No fresh press will find its key taken to be held.
FreshStays(q, p) == \A i \in 1..Len(q) : q[i].fresh => ~Held(q, p, q[i].key, i - 1)

\* While a client has the focus, a key that will be taken to be held is held, and a
\* grab is active, so that its release or a FocusIn will come.
HeldIsDown ==
    \A k \in Keycodes :
        focused /\ WillBeHeld(queue, pressed, k) => k \in down /\ grab # Nothing

KeyBindsInv ==
    /\ KeyBindsTyped
    /\ CooldownsCounted
    /\ GrabsFollowLayout
    /\ FreshStays(queue, pressed)
    /\ HeldIsDown

-----------------------------------------------------------------------------
(* Events.                                                                 *)

LEMMA EventFacts ==
    /\ FocusInEvent \in Events /\ MappingEvent \in Events
    /\ \A e \in Events :
          /\ e.fresh \in BOOLEAN
          /\ e.type \in {"press", "release", "focusin", "mapping"}
          /\ e.type \in {"press", "release"} => e.key \in Keycodes /\ e # MappingEvent
          /\ e.type = "focusin" <=> e = FocusInEvent
          /\ e.type = "mapping" <=> e = MappingEvent
          /\ e.fresh => e.type = "press"
<1>1. FocusInEvent \in Events /\ MappingEvent \in Events BY DEF Events
<1>2. FocusInEvent.type = "focusin" /\ MappingEvent.type = "mapping"
      /\ FocusInEvent.fresh = FALSE /\ MappingEvent.fresh = FALSE
  BY DEF FocusInEvent, MappingEvent
<1>3. ASSUME NEW e \in Events
      PROVE  \/ e = FocusInEvent \/ e = MappingEvent
             \/ /\ e.type \in {"press", "release"} /\ e.key \in Keycodes /\ e.fresh \in BOOLEAN
                /\ e.type = "release" => ~e.fresh
  BY DEF Events
<1> QED BY <1>1, <1>2, <1>3

LEMMA KeyEventsTyped ==
    ASSUME mods \in Mods, NEW k \in Keycodes
    PROVE  /\ \A f \in BOOLEAN : KeyEvent("press", k, f) \in Events
           /\ KeyEvent("release", k, FALSE) \in Events
BY DEF KeyEvent, Events

\* One more event: what is held after the others decides unless the event does.
LEMMA HeldAfterOneMore ==
    ASSUME NEW q \in Seq(Events), NEW e \in Events, NEW p, NEW k
    PROVE  /\ \A n \in 0..Len(q) : Held(Append(q, e), p, k, n) <=> Held(q, p, k, n)
           /\ Held(Append(q, e), p, k, Len(Append(q, e)))
                 <=> Presses(e, k) \/ (~Clears(e, k) /\ Held(q, p, k, Len(q)))
<1> DEFINE r == Append(q, e)
<1>1. /\ Len(r) = Len(q) + 1 /\ Len(q) \in Nat /\ r[Len(q) + 1] = e
      /\ \A i \in 1..Len(q) : r[i] = q[i]
  BY AppendProperties
<1> HIDE DEF r
<1>2. ASSUME NEW n \in 0..Len(q) PROVE Held(r, p, k, n) <=> Held(q, p, k, n)
  <2>1. \A i \in 1..n : r[i] = q[i] BY <1>1
  <2> QED BY <2>1 DEF Held
<1>3. Held(r, p, k, Len(q)) <=> Held(q, p, k, Len(q)) BY <1>1, <1>2
<1>4. ~(Presses(e, k) /\ Clears(e, k)) BY DEF Presses, Clears
<1>5. Presses(e, k) => Held(r, p, k, Len(r))
  <2>1. Presses(e, k) => Presses(r[Len(q) + 1], k) BY <1>1
  <2> QED BY <1>1, <2>1 DEF Held
<1>6. ASSUME ~Presses(e, k)
      PROVE  Held(r, p, k, Len(r)) <=> ~Clears(e, k) /\ Held(r, p, k, Len(q))
  <2>1. \A m \in 1..Len(r) : m \in 1..Len(q) \/ m = Len(q) + 1 BY <1>1
  <2>2. 1..Len(q) \subseteq 1..Len(r) /\ (Len(q) + 1) \in 1..Len(r) BY <1>1
  <2>3. (\A m \in 1..Len(r) : ~Clears(r[m], k))
           <=> ~Clears(e, k) /\ \A m \in 1..Len(q) : ~Clears(r[m], k)
    BY <1>1, <2>1, <2>2
  <2>4. ASSUME NEW j \in 1..Len(r), Presses(r[j], k) PROVE j \in 1..Len(q)
    BY <1>1, <1>6, <2>1, <2>4
  <2>5. ASSUME NEW j \in 1..Len(q)
        PROVE  (\A m \in 1..Len(r) : m > j => ~Clears(r[m], k))
                 <=> ~Clears(e, k) /\ \A m \in 1..Len(q) : m > j => ~Clears(r[m], k)
    <3>1. Len(q) + 1 > j BY <1>1
    <3> QED BY <1>1, <2>1, <2>2, <3>1
  <2> QED BY <2>2, <2>3, <2>4, <2>5 DEF Held
<1> QED BY <1>1, <1>2, <1>3, <1>4, <1>5, <1>6 DEF r

\* One more event is fresh only for a key that will not be taken to be held.
LEMMA FreshAfterOneMore ==
    ASSUME NEW q \in Seq(Events), NEW e \in Events, NEW p, FreshStays(q, p),
           e.fresh => ~Held(q, p, e.key, Len(q))
    PROVE  FreshStays(Append(q, e), p)
<1> DEFINE r == Append(q, e)
<1>1. /\ Len(r) = Len(q) + 1 /\ Len(q) \in Nat /\ r[Len(q) + 1] = e
      /\ \A i \in 1..Len(q) : r[i] = q[i]
  BY AppendProperties
<1>2. \A k : \A n \in 0..Len(q) : Held(r, p, k, n) <=> Held(q, p, k, n)
  BY HeldAfterOneMore
<1> HIDE DEF r
<1>3. ASSUME NEW i \in 1..Len(r), r[i].fresh PROVE ~Held(r, p, r[i].key, i - 1)
  <2>1. (i - 1) \in 0..Len(q) BY <1>1
  <2>2. CASE i = Len(q) + 1 BY <1>1, <1>2, <1>3, <2>1, <2>2
  <2>3. CASE i \in 1..Len(q) BY <1>1, <1>2, <1>3, <2>1, <2>3 DEF FreshStays
  <2> QED BY <1>1, <2>2, <2>3
<1> QED BY <1>3 DEF FreshStays, r

\* The first event is handled, and becomes part of what is taken to be held.
LEMMA HeldAfterOneHandled ==
    ASSUME NEW q \in Seq(Events), q # <<>>, NEW p, NEW s, NEW k,
           k \in s <=> Presses(Head(q), k) \/ (k \in p /\ ~Clears(Head(q), k))
    PROVE  \A n \in 0..Len(Tail(q)) : Held(Tail(q), s, k, n) => Held(q, p, k, n + 1)
<1> DEFINE t == Tail(q)
<1>1. /\ Len(q) \in Nat /\ Len(q) = Len(t) + 1 /\ Len(t) \in Nat /\ Head(q) = q[1]
      /\ \A i \in 1..Len(t) : t[i] = q[i + 1]
  BY HeadTailProperties, EmptySeq, LenProperties
<1> HIDE DEF t
<1>2. SUFFICES ASSUME NEW n \in 0..Len(t), Held(t, s, k, n)
               PROVE  Held(q, p, k, n + 1)
  BY DEF t
<1>3. \A m \in 1..(n + 1) : m = 1 \/ ((m - 1) \in 1..n /\ q[m] = t[m - 1])
  <2> SUFFICES ASSUME NEW m \in 1..(n + 1), m # 1
               PROVE  (m - 1) \in 1..n /\ q[m] = t[m - 1]
    OBVIOUS
  <2>1. (m - 1) \in 1..n /\ (m - 1) \in 1..Len(t) /\ (m - 1) + 1 = m BY <1>1
  <2> QED BY <1>1, <2>1
<1>4. 1 \in 1..(n + 1) BY <1>1
<1>5. CASE k \in s /\ \A m \in 1..n : ~Clears(t[m], k)
  <2>1. \A m \in 1..(n + 1) : m > 1 => ~Clears(q[m], k) BY <1>3, <1>5
  <2>2. CASE Presses(Head(q), k)
    BY <1>1, <1>4, <2>1, <2>2 DEF Held
  <2>3. CASE k \in p /\ ~Clears(Head(q), k)
    <3>1. \A m \in 1..(n + 1) : ~Clears(q[m], k) BY <1>1, <1>3, <1>5, <2>3
    <3> QED BY <2>3, <3>1 DEF Held
  <2> QED BY <1>5, <2>2, <2>3
<1>6. CASE \E j \in 1..n :
              Presses(t[j], k) /\ \A m \in 1..n : m > j => ~Clears(t[m], k)
  <2>1. PICK j \in 1..n :
           Presses(t[j], k) /\ \A m \in 1..n : m > j => ~Clears(t[m], k)
    BY <1>6
  <2>2. /\ j + 1 \in 1..(n + 1) /\ q[j + 1] = t[j]
    BY <1>1
  <2>3. \A m \in 1..(n + 1) : m > j + 1 => ~Clears(q[m], k)
    <3> SUFFICES ASSUME NEW m \in 1..(n + 1), m > j + 1 PROVE ~Clears(q[m], k)
      OBVIOUS
    <3>1. m # 1 /\ m - 1 > j BY <1>1
    <3>2. (m - 1) \in 1..n /\ q[m] = t[m - 1] BY <1>3, <3>1
    <3> QED BY <2>1, <3>1, <3>2
  <2> QED BY <2>1, <2>2, <2>3 DEF Held
<1> QED BY <1>2, <1>5, <1>6 DEF Held

LEMMA FreshAfterOneHandled ==
    ASSUME NEW q \in Seq(Events), q # <<>>, NEW p, NEW s, FreshStays(q, p),
           \A k \in Keycodes :
              k \in s <=> Presses(Head(q), k) \/ (k \in p /\ ~Clears(Head(q), k))
    PROVE  FreshStays(Tail(q), s)
<1> DEFINE t == Tail(q)
<1>1. /\ Len(q) \in Nat /\ Len(q) = Len(t) + 1 /\ Len(t) \in Nat /\ t \in Seq(Events)
      /\ \A i \in 1..Len(t) : t[i] = q[i + 1]
  BY HeadTailProperties, EmptySeq, LenProperties
<1>2. ASSUME NEW i \in 1..Len(t), t[i].fresh PROVE ~Held(t, s, t[i].key, i - 1)
  <2>1. t[i] \in Events BY <1>1, ElementOfSeq
  <2>2. t[i].key \in Keycodes BY <1>2, <2>1, EventFacts
  <2>3. (i - 1) \in 0..Len(t) /\ (i - 1) + 1 = (i + 1) - 1 /\ i + 1 \in 1..Len(q)
    BY <1>1
  <2>4. ~Held(q, p, t[i].key, i)
    BY <1>1, <1>2, <2>3 DEF FreshStays
  <2>5. \A n \in 0..Len(Tail(q)) : Held(Tail(q), s, t[i].key, n) => Held(q, p, t[i].key, n + 1)
    <3> HIDE DEF t
    <3> DEFINE k == t[i].key
    <3>1. k \in s <=> Presses(Head(q), k) \/ (k \in p /\ ~Clears(Head(q), k)) BY <2>2
    <3> HIDE DEF k
    <3>2. \A n \in 0..Len(Tail(q)) : Held(Tail(q), s, k, n) => Held(q, p, k, n + 1)
      BY <3>1, HeldAfterOneHandled
    <3> QED BY <3>2 DEF k
  <2> QED BY <2>3, <2>4, <2>5
<1> QED BY <1>2 DEF FreshStays

LEMMA OneMoreEvent ==
    ASSUME NEW q \in Seq(Events), NEW e \in Events, NEW p, FreshStays(q, p),
           e.fresh => ~WillBeHeld(q, p, e.key)
    PROVE  /\ q \o <<e>> = Append(q, e) /\ Append(q, e) \in Seq(Events)
           /\ FreshStays(Append(q, e), p)
           /\ \A k : WillBeHeld(Append(q, e), p, k)
                        <=> Presses(e, k) \/ (~Clears(e, k) /\ WillBeHeld(q, p, k))
           /\ Contains(Append(q, e), MappingEvent)
                 <=> Contains(q, MappingEvent) \/ e = MappingEvent
<1>1. q \o <<e>> = Append(q, e) /\ Append(q, e) \in Seq(Events)
  BY AppendProperties, AppendIsConcat
<1>2. FreshStays(Append(q, e), p) BY FreshAfterOneMore DEF WillBeHeld
<1>3. \A k : WillBeHeld(Append(q, e), p, k)
                <=> Presses(e, k) \/ (~Clears(e, k) /\ WillBeHeld(q, p, k))
  BY HeldAfterOneMore DEF WillBeHeld
<1>4. Contains(Append(q, e), MappingEvent)
         <=> Contains(q, MappingEvent) \/ e = MappingEvent
  <2>1. /\ Len(Append(q, e)) = Len(q) + 1 /\ Len(q) \in Nat
        /\ Append(q, e)[Len(q) + 1] = e
        /\ \A i \in 1..Len(q) : Append(q, e)[i] = q[i]
    BY AppendProperties
  <2>2. \A i \in 1..(Len(q) + 1) : i \in 1..Len(q) \/ i = Len(q) + 1 BY <2>1
  <2>3. 1..Len(q) \subseteq 1..(Len(q) + 1) /\ Len(q) + 1 \in 1..(Len(q) + 1) BY <2>1
  <2> HIDE DEF MappingEvent
  <2> QED BY <2>1, <2>2, <2>3 DEF Contains
<1> QED BY <1>1, <1>2, <1>3, <1>4

\* The first event is handled: what will be held after the last one stays the same.
LEMMA OneEventHandled ==
    ASSUME NEW q \in Seq(Events), q # <<>>, NEW p, NEW s, FreshStays(q, p),
           \A k \in Keycodes :
              k \in s <=> Presses(Head(q), k) \/ (k \in p /\ ~Clears(Head(q), k))
    PROVE  /\ Head(q) \in Events /\ Tail(q) \in Seq(Events)
           /\ FreshStays(Tail(q), s)
           /\ \A k \in Keycodes : WillBeHeld(Tail(q), s, k) => WillBeHeld(q, p, k)
           /\ Contains(q, MappingEvent) /\ Head(q) # MappingEvent
                 => Contains(Tail(q), MappingEvent)
           /\ Head(q).fresh => Head(q).key \notin p
<1>1. /\ Len(q) \in Nat /\ Len(q) = Len(Tail(q)) + 1 /\ Len(Tail(q)) \in Nat
      /\ Tail(q) \in Seq(Events) /\ Head(q) = q[1] /\ Head(q) \in Events
      /\ \A i \in 1..Len(Tail(q)) : Tail(q)[i] = q[i + 1]
  BY HeadTailProperties, EmptySeq, LenProperties
<1>2. FreshStays(Tail(q), s) BY FreshAfterOneHandled
<1>3. ASSUME NEW k \in Keycodes, WillBeHeld(Tail(q), s, k) PROVE WillBeHeld(q, p, k)
  <2>1. \A n \in 0..Len(Tail(q)) : Held(Tail(q), s, k, n) => Held(q, p, k, n + 1)
    BY HeldAfterOneHandled
  <2> QED BY <1>1, <1>3, <2>1 DEF WillBeHeld
<1>4. ASSUME Contains(q, MappingEvent), Head(q) # MappingEvent
      PROVE  Contains(Tail(q), MappingEvent)
  <2>1. PICK i \in 1..Len(q) : q[i] = MappingEvent BY <1>4 DEF Contains
  <2>2. i # 1 BY <1>1, <1>4, <2>1
  <2>3. (i - 1) \in 1..Len(Tail(q)) /\ (i - 1) + 1 = i BY <1>1, <2>2
  <2>4. Tail(q)[i - 1] = MappingEvent BY <1>1, <2>1, <2>3
  <2> QED BY <2>3, <2>4 DEF Contains
<1>5. Head(q).fresh => Head(q).key \notin p
  <2>1. 1 \in 1..Len(q) /\ 1 - 1 = 0 BY <1>1
  <2>2. Head(q).fresh => ~Held(q, p, Head(q).key, 0) BY <1>1, <2>1 DEF FreshStays
  <2>3. Head(q).key \in p => Held(q, p, Head(q).key, 0) BY DEF Held
  <2> QED BY <2>2, <2>3
<1> QED BY <1>1, <1>2, <1>3, <1>4, <1>5

-----------------------------------------------------------------------------
(* Binds.                                                                  *)

LEMMA KeysTyped ==
    /\ Keys \subseteq Nat
    /\ \A b \in Keys : Entries[b].cooldown \in Nat /\ Entries[b].repeat \in BOOLEAN
    /\ \A l : Grabbed(l) \subseteq Keycodes \X Mods
<1>1. DOMAIN Entries = 1..Len(Entries) /\ Len(Entries) \in Nat
      /\ \A b \in 1..Len(Entries) : Entries[b] \in EntrySet
  BY LenProperties, ElementOfSeq
<1>2. Keys \subseteq 1..Len(Entries) BY <1>1 DEF Keys, Parsed
<1> QED BY <1>1, <1>2 DEF EntrySet, Grabbed

LEMMA FirstAnswers ==
    ASSUME NEW T, T \subseteq Nat, T # {}
    PROVE  First(T) \in T
<1>1. PICK x \in T : \A y \in T : ~(<<y, x>> \in OpToRel(<, Nat))
  <2>1. IsWellFoundedOn(OpToRel(<, Nat), Nat) BY NatLessThanWellFounded
  <2> QED BY <2>1, WFMin, Zenon
<1>2. ASSUME NEW y \in T PROVE x <= y
  <2>1. y \in Nat /\ x \in Nat OBVIOUS
  <2>2. ~(y < x) BY <1>1, <2>1 DEF OpToRel
  <2> QED BY <2>1, <2>2
<1> QED BY <1>2 DEF First

-----------------------------------------------------------------------------
(* The invariant, action by action.                                        *)

LEMMA InitEstablishes == Init => KeyBindsInv
<1> SUFFICES ASSUME Init PROVE KeyBindsInv OBVIOUS
<1>1. ServerTyped BY DEF Init, ServerTyped
<1>2. queue = <<>> /\ queue \in Seq(Events) /\ Len(queue) = 0 BY DEF Init
<1>3. WmTyped BY KeysTyped DEF Init, WmTyped
<1>4. CooldownsCounted BY DEF Init, CooldownsCounted
<1>5. GrabsFollowLayout BY DEF Init, GrabsFollowLayout
<1>6. FreshStays(queue, pressed) BY <1>2 DEF FreshStays
<1>7. \A k : ~WillBeHeld(queue, pressed, k) BY <1>2 DEF WillBeHeld, Held, Init
<1> QED BY <1>1, <1>2, <1>3, <1>4, <1>5, <1>6, <1>7 DEF KeyBindsInv, KeyBindsTyped, HeldIsDown

\* What the user does leaves zestwm's variables as they are.
LEMMA UserKeeps ==
    ASSUME KeyBindsInv, UserActs
    PROVE  WmTyped' /\ CooldownsCounted' /\ pressed' = pressed /\ grabs' = grabs
BY DEF UserActs, KeyBindsInv, KeyBindsTyped, WmTyped, CooldownsCounted

LEMMA NoEventMore ==
    ASSUME NEW q \in Seq(Events)
    PROVE  q \o <<>> = q
BY ConcatEmptySeq

LEMMA TwoEventsMore ==
    ASSUME NEW q \in Seq(Events), NEW d \in Events, NEW e \in Events
    PROVE  q \o <<d, e>> = Append(Append(q, d), e)
<1>1. /\ <<d>> \in Seq(Events) /\ <<e>> \in Seq(Events) /\ <<d, e>> \in Seq(Events)
      /\ Append(q, d) \in Seq(Events)
  OBVIOUS
<1>2. <<d>> \o <<e>> = Append(<<d>>, e) BY <1>1, AppendIsConcat
<1>3. Append(<<d>>, e) = <<d, e>>
  <2>1. /\ Len(Append(<<d>>, e)) = 2 /\ Append(<<d>>, e) \in Seq(Events)
        /\ Append(<<d>>, e)[1] = d /\ Append(<<d>>, e)[2] = e
    BY <1>1, AppendProperties
  <2>2. Len(<<d, e>>) = 2 /\ <<d, e>>[1] = d /\ <<d, e>>[2] = e OBVIOUS
  <2>3. \A i \in 1..2 : i = 1 \/ i = 2 OBVIOUS
  <2> QED BY <1>1, <2>1, <2>2, <2>3, SeqEqual
<1>4. q \o <<d, e>> = (q \o <<d>>) \o <<e>>
  <2>1. q \o (<<d>> \o <<e>>) = (q \o <<d>>) \o <<e>> BY <1>1, ConcatAssociative
  <2> QED BY <1>2, <1>3, <2>1
<1> QED BY <1>1, <1>4, AppendIsConcat

\* A FocusIn will clear everything.
LEMMA FocusInMore ==
    ASSUME NEW q \in Seq(Events), NEW p, FreshStays(q, p)
    PROVE  /\ q \o <<FocusInEvent>> = Append(q, FocusInEvent)
           /\ Append(q, FocusInEvent) \in Seq(Events)
           /\ FreshStays(Append(q, FocusInEvent), p)
           /\ \A c : ~WillBeHeld(Append(q, FocusInEvent), p, c)
           /\ Contains(Append(q, FocusInEvent), MappingEvent) <=> Contains(q, MappingEvent)
<1>1. /\ ~\E c : Presses(FocusInEvent, c)
      /\ \A c : Clears(FocusInEvent, c)
      /\ FocusInEvent.fresh = FALSE
  BY DEF Presses, Clears, FocusInEvent
<1>2. FocusInEvent \in Events /\ FocusInEvent # MappingEvent
  BY EventFacts DEF FocusInEvent, MappingEvent
<1> HIDE DEF FocusInEvent
<1> QED BY <1>1, <1>2, OneMoreEvent

LEMMA PressKeyKeeps ==
    ASSUME KeyBindsInv, NEW k \in Keycodes, PressKey(k)
    PROVE  KeyBindsInv'
<1> USE DEF KeyBindsInv, KeyBindsTyped
<1>1. WmTyped' /\ CooldownsCounted' /\ pressed' = pressed /\ grabs' = grabs
  BY UserKeeps DEF PressKey
<1>2. ServerTyped' /\ down' = down \cup {k} /\ focused' = focused /\ layout' = layout
      /\ k \notin down
  BY DEF PressKey, ServerTyped
<1>3. grab' = Nothing => grab = Nothing BY DEF PressKey
<1>4. CASE grab' = Nothing
  <2>1. queue' = queue BY <1>4, NoEventMore DEF PressKey, Deliver
  <2>2. GrabsFollowLayout' BY <1>1, <1>2, <2>1 DEF GrabsFollowLayout
  <2>3. HeldIsDown' BY <1>1, <1>2, <1>3, <1>4, <2>1 DEF HeldIsDown
  <2> QED BY <1>1, <1>2, <2>1, <2>2, <2>3
<1>5. CASE grab' # Nothing
  <2> DEFINE e == KeyEvent("press", k, focused)
             q == Append(queue, e)
  <2>1. e \in Events /\ e.type = "press" /\ e.key = k /\ e.fresh = focused
    BY KeyEventsTyped DEF ServerTyped, KeyEvent
  <2>2. e # MappingEvent BY <2>1, EventFacts
  <2>3. queue' = queue \o <<e>> BY <1>5 DEF PressKey, Deliver
  <2> HIDE DEF e, q
  <2>4. e.fresh => ~WillBeHeld(queue, pressed, e.key) BY <1>2, <2>1 DEF HeldIsDown
  <2>5. /\ queue \o <<e>> = q /\ q \in Seq(Events) /\ FreshStays(q, pressed)
        /\ \A c : WillBeHeld(q, pressed, c) <=> Presses(e, c) \/ (~Clears(e, c) /\ WillBeHeld(queue, pressed, c))
        /\ Contains(q, MappingEvent) <=> Contains(queue, MappingEvent)
    BY <2>1, <2>2, <2>4, OneMoreEvent DEF q
  <2>6. GrabsFollowLayout' BY <1>1, <1>2, <2>3, <2>5 DEF GrabsFollowLayout, MappingEvent
  <2>7. HeldIsDown' BY <1>1, <1>2, <1>5, <2>1, <2>3, <2>5 DEF HeldIsDown, Presses
  <2> QED BY <1>1, <1>2, <2>3, <2>5, <2>6, <2>7
<1> QED BY <1>4, <1>5

LEMMA RepeatKeyKeeps ==
    ASSUME KeyBindsInv, RepeatKey
    PROVE  KeyBindsInv'
<1> USE DEF KeyBindsInv, KeyBindsTyped
<1>1. WmTyped' /\ CooldownsCounted' /\ pressed' = pressed /\ grabs' = grabs
  BY UserKeeps DEF RepeatKey
<1>2. /\ ServerTyped' /\ down' = down /\ focused' = focused /\ layout' = layout
      /\ grab' = grab /\ repeating \in down /\ repeating \in Keycodes
  BY DEF RepeatKey, ServerTyped
<1>4. CASE grab = Nothing
  <2>1. queue' = queue BY <1>4, NoEventMore DEF RepeatKey, Deliver
  <2> QED BY <1>1, <1>2, <2>1 DEF GrabsFollowLayout, HeldIsDown
<1>5. CASE grab # Nothing
  <2> DEFINE r == KeyEvent("release", repeating, FALSE)
             e == KeyEvent("press", repeating, FALSE)
             q == Append(queue, r)
  <2>1. /\ e \in Events /\ e.type = "press" /\ e.key = repeating /\ e.fresh = FALSE
        /\ r \in Events /\ r.type = "release" /\ r.key = repeating /\ r.fresh = FALSE
    BY <1>2, KeyEventsTyped DEF ServerTyped, KeyEvent
  <2>2. e # MappingEvent /\ r # MappingEvent BY <2>1, EventFacts
  <2>3. queue' = queue \o <<r, e>> BY <1>5 DEF RepeatKey, Deliver
  <2> HIDE DEF e, r
  <2>4. queue' = Append(q, e) BY <2>1, <2>3, TwoEventsMore
  <2>6. /\ queue \o <<r>> = q /\ q \in Seq(Events) /\ FreshStays(q, pressed)
        /\ \A c : WillBeHeld(q, pressed, c) <=> Presses(r, c) \/ (~Clears(r, c) /\ WillBeHeld(queue, pressed, c))
        /\ Contains(q, MappingEvent) <=> Contains(queue, MappingEvent)
    BY <2>1, <2>2, OneMoreEvent
  <2> HIDE DEF q
  <2>5. ~(e.fresh) BY <2>1
  <2>7. /\ Append(q, e) \in Seq(Events) /\ FreshStays(Append(q, e), pressed)
        /\ \A c : WillBeHeld(Append(q, e), pressed, c) <=> Presses(e, c) \/ (~Clears(e, c) /\ WillBeHeld(q, pressed, c))
        /\ Contains(Append(q, e), MappingEvent) <=> Contains(q, MappingEvent)
    BY <2>1, <2>2, <2>5, <2>6, OneMoreEvent
  <2>8. GrabsFollowLayout' BY <1>1, <1>2, <2>4, <2>6, <2>7 DEF GrabsFollowLayout, MappingEvent
  <2>9. HeldIsDown' BY <1>1, <1>2, <1>5, <2>1, <2>4, <2>6, <2>7 DEF HeldIsDown, Presses
  <2> QED BY <1>1, <1>2, <2>4, <2>7, <2>8, <2>9
<1> QED BY <1>4, <1>5

LEMMA ReleaseKeyKeeps ==
    ASSUME KeyBindsInv, NEW k \in Keycodes, ReleaseKey(k)
    PROVE  KeyBindsInv'
<1> USE DEF KeyBindsInv, KeyBindsTyped
<1> DEFINE r == KeyEvent("release", k, FALSE)
           q == Append(queue, r)
<1>1. WmTyped' /\ CooldownsCounted' /\ pressed' = pressed /\ grabs' = grabs
  BY UserKeeps DEF ReleaseKey
<1>2. /\ ServerTyped' /\ down' = down \ {k} /\ focused' = focused /\ layout' = layout
      /\ grab' = IF grab = k THEN Nothing ELSE grab
  BY DEF ReleaseKey, ServerTyped
<1>3. /\ r \in Events /\ r.type = "release" /\ r.key = k /\ r.fresh = FALSE
      /\ r # MappingEvent
  <2>1. r \in Events /\ r.type = "release" /\ r.key = k /\ r.fresh = FALSE
    BY KeyEventsTyped DEF ServerTyped, KeyEvent
  <2> QED BY <2>1, EventFacts
<1>4. queue' = queue \o ((IF grab = Nothing THEN <<>> ELSE <<r>>)
                         \o (IF grab = k /\ focused THEN <<FocusInEvent>> ELSE <<>>))
  BY DEF ReleaseKey, Deliver
<1> HIDE DEF r
<1>5. <<r>> \in Seq(Events) /\ <<FocusInEvent>> \in Seq(Events) BY <1>3, EventFacts
<1>6. /\ queue \o <<r>> = q /\ q \in Seq(Events) /\ FreshStays(q, pressed)
      /\ \A c : WillBeHeld(q, pressed, c) <=> Presses(r, c) \/ (~Clears(r, c) /\ WillBeHeld(queue, pressed, c))
      /\ Contains(q, MappingEvent) <=> Contains(queue, MappingEvent)
  BY <1>3, OneMoreEvent
<1>7. ~\E c : Presses(r, c) BY <1>3 DEF Presses
<1>8. Clears(r, k) BY <1>3 DEF Clears
<1> HIDE DEF q
<1>9. CASE grab = Nothing
  <2>1. grab # k BY <1>9
  <2>2. queue' = queue \o (<<>> \o <<>>) BY <1>4, <1>9, <2>1
  <2>3. queue' = queue BY <2>2, NoEventMore
  <2> QED BY <1>1, <1>2, <1>9, <2>3 DEF GrabsFollowLayout, HeldIsDown
<1>10. CASE grab # Nothing /\ ~(grab = k /\ focused)
  <2>1. queue' = queue \o (<<r>> \o <<>>) BY <1>4, <1>10
  <2>2. <<r>> \o <<>> = <<r>> BY <1>5, NoEventMore
  <2>3. queue' = q BY <1>6, <2>1, <2>2
  <2>4. GrabsFollowLayout' BY <1>1, <1>2, <1>6, <2>3 DEF GrabsFollowLayout, MappingEvent
  <2>5. HeldIsDown' BY <1>1, <1>2, <1>6, <1>7, <1>8, <1>10, <2>3 DEF HeldIsDown
  <2> QED BY <1>1, <1>2, <1>6, <2>3, <2>4, <2>5
<1>11. CASE grab # Nothing /\ grab = k /\ focused
  <2>1. queue' = queue \o (<<r>> \o <<FocusInEvent>>) BY <1>4, <1>11
  <2>2. queue' = q \o <<FocusInEvent>> BY <1>5, <1>6, <2>1, ConcatAssociative
  <2>6. /\ queue' \in Seq(Events) /\ FreshStays(queue', pressed)
        /\ \A c : ~WillBeHeld(queue', pressed, c)
        /\ Contains(queue', MappingEvent) <=> Contains(queue, MappingEvent)
    <3>1. /\ q \o <<FocusInEvent>> = Append(q, FocusInEvent)
          /\ Append(q, FocusInEvent) \in Seq(Events)
          /\ FreshStays(Append(q, FocusInEvent), pressed)
          /\ \A c : ~WillBeHeld(Append(q, FocusInEvent), pressed, c)
          /\ Contains(Append(q, FocusInEvent), MappingEvent) <=> Contains(q, MappingEvent)
      BY <1>6, FocusInMore
    <3> QED BY <1>1, <1>6, <2>2, <3>1
  <2>7. GrabsFollowLayout' BY <1>1, <1>2, <2>6 DEF GrabsFollowLayout, MappingEvent
  <2> QED BY <1>1, <1>2, <2>6, <2>7 DEF HeldIsDown
<1> QED BY <1>9, <1>10, <1>11

LEMMA FocusMovesKeeps ==
    ASSUME KeyBindsInv, FocusMoves
    PROVE  KeyBindsInv'
<1> USE DEF KeyBindsInv, KeyBindsTyped
<1>1. WmTyped' /\ CooldownsCounted' /\ pressed' = pressed /\ grabs' = grabs
  BY UserKeeps DEF FocusMoves
<1>2. ServerTyped' /\ down' = down /\ grab' = grab /\ layout' = layout
  BY DEF FocusMoves, ServerTyped
<1>3. CASE focused' = FALSE /\ queue' = queue
  BY <1>1, <1>2, <1>3 DEF GrabsFollowLayout, HeldIsDown
<1>4. CASE focused' = TRUE /\ queue' = queue \o <<FocusInEvent>>
  <2>1. /\ queue' \in Seq(Events) /\ FreshStays(queue', pressed)
        /\ \A c : ~WillBeHeld(queue', pressed, c)
        /\ Contains(queue', MappingEvent) <=> Contains(queue, MappingEvent)
    <3>1. /\ queue \o <<FocusInEvent>> = Append(queue, FocusInEvent)
          /\ Append(queue, FocusInEvent) \in Seq(Events)
          /\ FreshStays(Append(queue, FocusInEvent), pressed)
          /\ \A c : ~WillBeHeld(Append(queue, FocusInEvent), pressed, c)
          /\ Contains(Append(queue, FocusInEvent), MappingEvent)
                <=> Contains(queue, MappingEvent)
      BY FocusInMore
    <3> QED BY <1>1, <1>4, <3>1
  <2> QED BY <1>1, <1>2, <2>1 DEF GrabsFollowLayout, HeldIsDown, MappingEvent
<1> QED BY <1>3, <1>4 DEF FocusMoves, Deliver

\* A change of the layout leaves a mapping event under way.
LEMMA MappingMore ==
    ASSUME NEW q \in Seq(Events), NEW p, FreshStays(q, p)
    PROVE  /\ q \o <<MappingEvent>> = Append(q, MappingEvent)
           /\ Append(q, MappingEvent) \in Seq(Events)
           /\ FreshStays(Append(q, MappingEvent), p)
           /\ \A c : WillBeHeld(Append(q, MappingEvent), p, c) <=> WillBeHeld(q, p, c)
           /\ Contains(Append(q, MappingEvent), MappingEvent)
<1>1. /\ ~\E c : Presses(MappingEvent, c)
      /\ ~\E c : Clears(MappingEvent, c)
      /\ MappingEvent.fresh = FALSE
  BY DEF Presses, Clears, MappingEvent
<1>2. MappingEvent \in Events BY EventFacts
<1> HIDE DEF MappingEvent
<1> QED BY <1>1, <1>2, OneMoreEvent

LEMMA LayoutSet ==
    ASSUME KeyBindsInv, NEW l \in DOMAIN Layouts, SetLayout(l), pressed' = pressed,
           UNCHANGED <<down, mods, repeating, grab, focused>>
    PROVE  /\ ServerTyped' /\ queue' \in Seq(Events) /\ GrabsFollowLayout'
           /\ FreshStays(queue', pressed') /\ HeldIsDown'
<1> USE DEF KeyBindsInv, KeyBindsTyped
<1>1. ServerTyped' BY DEF SetLayout, ServerTyped
<1>2. queue' = queue \o <<MappingEvent>> BY DEF SetLayout, Deliver
<1>3. /\ queue' \in Seq(Events) /\ FreshStays(queue', pressed)
      /\ \A c : WillBeHeld(queue', pressed, c) <=> WillBeHeld(queue, pressed, c)
      /\ Contains(queue', MappingEvent)
  BY <1>2, MappingMore
<1>4. GrabsFollowLayout' BY <1>3 DEF GrabsFollowLayout, MappingEvent
<1>5. HeldIsDown' BY <1>3 DEF HeldIsDown
<1> QED BY <1>1, <1>3, <1>4, <1>5

LEMMA RemapKeeps ==
    ASSUME KeyBindsInv, NEW l \in DOMAIN Layouts, Remap(l)
    PROVE  KeyBindsInv'
<1>1. WmTyped' /\ CooldownsCounted' /\ pressed' = pressed BY UserKeeps DEF Remap
<1>2. /\ ServerTyped' /\ queue' \in Seq(Events) /\ GrabsFollowLayout'
      /\ FreshStays(queue', pressed') /\ HeldIsDown'
  BY <1>1, LayoutSet DEF Remap
<1> QED BY <1>1, <1>2 DEF KeyBindsInv, KeyBindsTyped

LEMMA ReapplyKeeps ==
    ASSUME KeyBindsInv, Reapply
    PROVE  KeyBindsInv'
<1>1. WmTyped' /\ CooldownsCounted' /\ pressed' = pressed
  BY DEF Reapply, KeyBindsInv, KeyBindsTyped, WmTyped, CooldownsCounted
<1>2. CASE SetLayout(Configured)
  <2>1. /\ ServerTyped' /\ queue' \in Seq(Events) /\ GrabsFollowLayout'
        /\ FreshStays(queue', pressed') /\ HeldIsDown'
    BY <1>1, <1>2, LayoutSet DEF Reapply
  <2> QED BY <1>1, <2>1 DEF KeyBindsInv, KeyBindsTyped
<1>3. CASE UNCHANGED <<layout, queue>>
  BY <1>1, <1>3
  DEF Reapply, KeyBindsInv, KeyBindsTyped, ServerTyped, GrabsFollowLayout, HeldIsDown
<1> QED BY <1>2, <1>3 DEF Reapply

LEMMA QuietStepsKeep ==
    ASSUME KeyBindsInv, (\E m \in Mods : ChangeMods(m)) \/ Tick \/ UNCHANGED vars
    PROVE  KeyBindsInv'
<1> USE DEF KeyBindsInv, KeyBindsTyped, ServerTyped, GrabsFollowLayout, HeldIsDown
<1>1. CASE \E m \in Mods : ChangeMods(m)
  <2>1. WmTyped' /\ CooldownsCounted' /\ pressed' = pressed /\ grabs' = grabs
    BY <1>1, UserKeeps DEF ChangeMods
  <2> QED BY <1>1, <2>1 DEF ChangeMods
<1>2. CASE Tick BY <1>2 DEF Tick, WmTyped, CooldownsCounted
<1>3. CASE UNCHANGED vars BY <1>3 DEF vars, WmTyped, CooldownsCounted
<1> QED BY <1>1, <1>2, <1>3

\* What a handler leaves for the others: the rest of the events, to which a FocusIn may
\* be added.
LEMMA RestKeeps ==
    ASSUME KeyBindsInv, queue # <<>>, UNCHANGED <<down, mods, repeating, grab, layout>>,
           \A k \in Keycodes :
              k \in pressed'
                 <=> Presses(Head(queue), k) \/ (k \in pressed /\ ~Clears(Head(queue), k)),
           \/ focused' \in {focused, FALSE} /\ queue' = Tail(queue)
           \/ focused' = TRUE /\ queue' = Append(Tail(queue), FocusInEvent),
           \/ grabs' = Grabbed(layout)
           \/ grabs' = grabs /\ Head(queue) # MappingEvent
    PROVE  /\ ServerTyped' /\ queue' \in Seq(Events) /\ GrabsFollowLayout'
           /\ FreshStays(queue', pressed') /\ HeldIsDown'
<1> USE DEF KeyBindsInv, KeyBindsTyped
<1>1. ServerTyped' BY DEF ServerTyped
<1>2. /\ Tail(queue) \in Seq(Events)
      /\ FreshStays(Tail(queue), pressed')
      /\ \A k \in Keycodes :
            WillBeHeld(Tail(queue), pressed', k) => WillBeHeld(queue, pressed, k)
      /\ Contains(queue, MappingEvent) /\ Head(queue) # MappingEvent
            => Contains(Tail(queue), MappingEvent)
  BY OneEventHandled
<1>3. CASE focused' \in {focused, FALSE} /\ queue' = Tail(queue)
  <2>1. GrabsFollowLayout' BY <1>2, <1>3 DEF GrabsFollowLayout, MappingEvent
  <2>2. HeldIsDown' BY <1>1, <1>2, <1>3 DEF HeldIsDown, ServerTyped
  <2> QED BY <1>1, <1>2, <1>3, <2>1, <2>2
<1>4. CASE focused' = TRUE /\ queue' = Append(Tail(queue), FocusInEvent)
  <2>1. /\ queue' \in Seq(Events) /\ FreshStays(queue', pressed')
        /\ \A c : ~WillBeHeld(queue', pressed', c)
        /\ Contains(queue', MappingEvent) <=> Contains(Tail(queue), MappingEvent)
    BY <1>2, <1>4, FocusInMore
  <2>2. GrabsFollowLayout' BY <1>2, <2>1 DEF GrabsFollowLayout, MappingEvent
  <2> QED BY <1>1, <2>1, <2>2 DEF HeldIsDown
<1> QED BY <1>3, <1>4

\* The bind that a press runs is one that answers it, and its cooldown counts from now.
LEMMA PressRunsOne ==
    ASSUME KeyBindsInv, NEW e \in Events, e.type = "press", NEW rest, Press(e, rest),
           UNCHANGED <<now, deadline>>
    PROVE  /\ WmTyped' /\ CooldownsCounted'
           /\ fired' \subseteq Answers(e)
           /\ Answers(e) # {} => fired' # {}
<1> USE DEF KeyBindsInv, KeyBindsTyped
<1> DEFINE first == First(Answers(e))
<1>1. Answers(e) \subseteq Keys /\ Answers(e) \subseteq Nat
  BY KeysTyped DEF Answers, Ready
<1>2. Answers(e) # {} => first \in Answers(e) BY <1>1, FirstAnswers
<1>3. pressed' \subseteq Keycodes
  BY EventFacts DEF Press, WmTyped
<1>4. CASE Answers(e) = {}
  BY <1>3, <1>4 DEF Press, NoEffect, WmTyped, CooldownsCounted
<1>5. CASE Answers(e) # {}
  <2>1. /\ first \in Keys /\ fired' = {first} /\ grabs' \in {grabs, Grabbed(layout)}
        /\ IF Entries[first].cooldown = 0 THEN UNCHANGED <<until, ran>>
           ELSE /\ until' = [until EXCEPT ![first] = Until(first)]
                /\ ran' = [ran EXCEPT ![first] = now]
    BY <1>1, <1>2, <1>5 DEF Press, Effect
  <2> HIDE DEF first
  <2>2. Entries[first].cooldown \in Nat BY <2>1, KeysTyped
  <2>3. Until(first) = now + Entries[first].cooldown /\ Until(first) \in Nat
    BY <2>2 DEF Until, WmTyped
  <2>4. grabs' \subseteq Keycodes \X Mods BY <2>1, KeysTyped DEF WmTyped
  <2>5. WmTyped' BY <1>3, <2>1, <2>3, <2>4 DEF WmTyped
  <2>6. CooldownsCounted'
    <3> SUFFICES ASSUME NEW b \in Keys, ran'[b] # Nothing
                 PROVE  /\ Entries[b].cooldown > 0
                        /\ until'[b] = ran'[b] + Entries[b].cooldown
                        /\ ran'[b] <= now
      BY DEF CooldownsCounted
    <3>1. CASE UNCHANGED <<until, ran>> BY <3>1 DEF CooldownsCounted
    <3>2. CASE b # first \/ Entries[first].cooldown = 0
      BY <2>1, <3>1, <3>2 DEF CooldownsCounted, WmTyped
    <3>3. CASE b = first /\ Entries[first].cooldown # 0
      BY <2>1, <2>2, <2>3, <3>3 DEF WmTyped
    <3> QED BY <3>2, <3>3
  <2> QED BY <1>2, <1>5, <2>1, <2>5, <2>6 DEF first
<1> QED BY <1>4, <1>5

LEMMA HandleKeeps ==
    ASSUME KeyBindsInv, Handle
    PROVE  KeyBindsInv'
<1> USE DEF KeyBindsInv, KeyBindsTyped
<1> DEFINE e == Head(queue)
           rest == Tail(queue)
<1>1. /\ queue # <<>> /\ UNCHANGED <<down, mods, repeating, grab, layout>>
      /\ UNCHANGED <<now, deadline>>
      /\ \/ e.type = "press" /\ Press(e, rest)
         \/ e.type = "release" /\ Release(e, rest)
         \/ e.type = "focusin" /\ FocusIn(rest)
         \/ e.type = "mapping" /\ Mapping(rest)
  BY DEF Handle
<1>2. e \in Events BY <1>1, HeadTailProperties
<1> DEFINE QueueKept ==
        /\ ServerTyped' /\ queue' \in Seq(Events) /\ GrabsFollowLayout'
        /\ FreshStays(queue', pressed') /\ HeldIsDown'
<1>3. ASSUME e.type = "press", Press(e, rest) PROVE QueueKept /\ WmTyped' /\ CooldownsCounted'
  <2>1. WmTyped' /\ CooldownsCounted' BY <1>1, <1>2, <1>3, PressRunsOne
  <2>2. e # MappingEvent BY <1>2, <1>3, EventFacts
  <2>3. \A k \in Keycodes : k \in pressed' <=> Presses(e, k) \/ (k \in pressed /\ ~Clears(e, k))
    BY <1>3 DEF Press, Presses, Clears
  <2>4. /\ \/ focused' \in {focused, FALSE} /\ queue' = rest
           \/ focused' = TRUE /\ queue' = Append(rest, FocusInEvent)
        /\ grabs' \in {grabs, Grabbed(layout)}
    BY <1>3 DEF Press, Effect, NoEffect
  <2> QED BY <1>1, <2>1, <2>2, <2>3, <2>4, RestKeeps
<1>4. ASSUME e.type = "release", Release(e, rest) PROVE QueueKept /\ WmTyped' /\ CooldownsCounted'
  <2>1. WmTyped' /\ CooldownsCounted'
    BY <1>1, <1>4 DEF Release, NoEffect, WmTyped, CooldownsCounted
  <2>2. e # MappingEvent BY <1>2, <1>4, EventFacts
  <2>3. \A k \in Keycodes : k \in pressed' <=> Presses(e, k) \/ (k \in pressed /\ ~Clears(e, k))
    BY <1>4 DEF Release, Presses, Clears
  <2>4. focused' = focused /\ queue' = rest /\ grabs' = grabs BY <1>4 DEF Release, NoEffect
  <2> QED BY <1>1, <2>1, <2>2, <2>3, <2>4, RestKeeps
<1>5. ASSUME e.type = "focusin", FocusIn(rest) PROVE QueueKept /\ WmTyped' /\ CooldownsCounted'
  <2>1. WmTyped' /\ CooldownsCounted'
    BY <1>1, <1>5 DEF FocusIn, WmTyped, CooldownsCounted
  <2>2. e # MappingEvent BY <1>2, <1>5, EventFacts DEF MappingEvent
  <2>3. \A k \in Keycodes : k \in pressed' <=> Presses(e, k) \/ (k \in pressed /\ ~Clears(e, k))
    BY <1>5 DEF FocusIn, Presses, Clears
  <2>4. /\ \/ focused' \in {focused, FALSE} /\ queue' = rest
           \/ focused' = TRUE /\ queue' = Append(rest, FocusInEvent)
        /\ grabs' = grabs
    BY <1>5 DEF FocusIn
  <2> QED BY <1>1, <2>1, <2>2, <2>3, <2>4, RestKeeps
<1>6. ASSUME e.type = "mapping", Mapping(rest) PROVE QueueKept /\ WmTyped' /\ CooldownsCounted'
  <2>1. WmTyped' /\ CooldownsCounted'
    BY <1>1, <1>6, KeysTyped DEF Mapping, WmTyped, CooldownsCounted
  <2>2. \A k \in Keycodes : k \in pressed' <=> Presses(e, k) \/ (k \in pressed /\ ~Clears(e, k))
    BY <1>6 DEF Mapping, Presses, Clears
  <2>3. focused' = focused /\ queue' = rest /\ grabs' = Grabbed(layout) BY <1>6 DEF Mapping
  <2> QED BY <1>1, <2>1, <2>2, <2>3, RestKeeps
<1> QED BY <1>1, <1>3, <1>4, <1>5, <1>6

LEMMA NextKeeps == KeyBindsInv /\ [Next]_vars => KeyBindsInv'
<1> SUFFICES ASSUME KeyBindsInv, [Next]_vars PROVE KeyBindsInv' OBVIOUS
<1>1. CASE \E k \in Keycodes : PressKey(k) \/ ReleaseKey(k)
  BY <1>1, PressKeyKeeps, ReleaseKeyKeeps
<1>2. CASE RepeatKey BY <1>2, RepeatKeyKeeps
<1>3. CASE FocusMoves BY <1>3, FocusMovesKeeps
<1>4. CASE \E l \in DOMAIN Layouts : Remap(l) BY <1>4, RemapKeeps
<1>5. CASE Handle BY <1>5, HandleKeeps
<1>6. CASE Reapply BY <1>6, ReapplyKeeps
<1>7. CASE (\E m \in Mods : ChangeMods(m)) \/ Tick \/ UNCHANGED vars
  BY <1>7, QuietStepsKeep
<1> QED BY <1>1, <1>2, <1>3, <1>4, <1>5, <1>6, <1>7 DEF Next

LEMMA KeyBindsInvariant == Spec => []KeyBindsInv
BY InitEstablishes, NextKeeps, PTL DEF Spec

-----------------------------------------------------------------------------
(* Theorems.                                                               *)

\* Every variable of the keyboard, the events and zestwm keeps its type: a press is the
\* only event that can be fresh, only a key that is held repeats, and a cooldown ends at
\* a time.
THEOREM BindsTyped == Spec => []KeyBindsTyped
BY KeyBindsInvariant, PTL DEF KeyBindsInv

\* For any layouts, entries and events under way: once zestwm has handled the changes of
\* the layout, it has grabbed the keys of its binds on the layout of the keyboard
\* (mappingnotify, grabkeys).
THEOREM GrabsFollow == Spec => []GrabsFollowLayout
BY KeyBindsInvariant, PTL DEF KeyBindsInv

\* For any entries, keys and clock: two runs of a bind are at least its cooldown apart
\* (run_key_binds).
THEOREM CooldownsHold == Spec => CooldownHolds
<1> DEFINE Apart == \A b \in fired' : ran[b] # Nothing => now - ran[b] >= Entries[b].cooldown
<1>1. KeyBindsInv /\ [Next]_vars => [Apart]_vars
  <2> SUFFICES ASSUME KeyBindsInv, Next PROVE Apart \/ UNCHANGED vars OBVIOUS
  <2> USE DEF KeyBindsInv, KeyBindsTyped
  <2>1. CASE fired' = {} BY <2>1
  <2>2. CASE Handle /\ Press(Head(queue), Tail(queue)) /\ Head(queue).type = "press"
    <3> SUFFICES ASSUME NEW b \in fired', ran[b] # Nothing
                 PROVE  now - ran[b] >= Entries[b].cooldown
      OBVIOUS
    <3>1. Head(queue) \in Events /\ UNCHANGED <<now, deadline>>
      BY <2>2, HeadTailProperties DEF Handle
    <3>2. b \in Ready(Head(queue)) BY <2>2, <3>1, PressRunsOne DEF Answers
    <3>3. b \in Keys /\ ~(Entries[b].cooldown > 0 /\ now < until[b]) BY <3>2 DEF Ready
    <3>4. /\ Entries[b].cooldown > 0 /\ Entries[b].cooldown \in Nat
          /\ until[b] = ran[b] + Entries[b].cooldown
          /\ ran[b] \in Nat /\ now \in Nat
      BY <3>3, KeysTyped DEF CooldownsCounted, WmTyped
    <3> QED BY <3>3, <3>4
  <2> QED
    BY <2>1, <2>2
    DEF Next, PressKey, ReleaseKey, RepeatKey, ChangeMods, FocusMoves, Remap, Tick, Handle,
        Reapply, UserActs, Release, FocusIn, Mapping
<1> QED BY <1>1, KeyBindsInvariant, PTL DEF Spec, CooldownHolds

\* For any keyboard and binds, whatever releases the server withholds and whatever waits
\* in the queue: the press of a key that was up, with the focus on a client, runs a bind
\* unless all of those for it are in their cooldown (run_key_binds, focusin_with_ctx).
THEOREM FreshPressesRun == Spec => PressRuns
<1> DEFINE Runs == Handle /\ Head(queue).fresh /\ Ready(Head(queue)) # {} => fired' # {}
<1>1. KeyBindsInv => Runs
  <2> SUFFICES ASSUME KeyBindsInv, Handle, Head(queue).fresh, Ready(Head(queue)) # {}
               PROVE  fired' # {}
    OBVIOUS
  <2> USE DEF KeyBindsInv, KeyBindsTyped
  <2>1. queue # <<>> /\ UNCHANGED <<now, deadline>> BY DEF Handle
  <2>2. Head(queue) \in Events BY <2>1, HeadTailProperties
  <2>3. Head(queue).type = "press" BY <2>2, EventFacts
  <2>4. Press(Head(queue), Tail(queue)) BY <2>3 DEF Handle
  <2>5. Head(queue).key \notin pressed
    <3>1. \A k \in Keycodes :
             k \in pressed'
                <=> Presses(Head(queue), k) \/ (k \in pressed /\ ~Clears(Head(queue), k))
      BY <2>3, <2>4 DEF Press, Presses, Clears
    <3> QED BY <2>1, <3>1, OneEventHandled
  <2>6. Answers(Head(queue)) # {} BY <2>5 DEF Answers
  <2> QED BY <2>1, <2>2, <2>3, <2>4, <2>6, PressRunsOne
<1> QED BY <1>1, KeyBindsInvariant, PTL DEF Spec, PressRuns

=============================================================================
