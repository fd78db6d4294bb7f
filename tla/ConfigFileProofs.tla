-------------------------- MODULE ConfigFileProofs --------------------------
(***************************************************************************)
(* Proofs about loading the configuration: for any files, lines, errors    *)
(* and limits, the parsers stay at the depth of the text, no file is read  *)
(* inside itself, and slots and binds of special tags keep their meaning.  *)
(***************************************************************************)
EXTENDS ConfigFile, SequenceTheorems, WellFoundedInduction, TLAPS

-----------------------------------------------------------------------------
(* Frames, for which no assumption about the constants is needed.           *)

\* What the lines make of a frame, under names of their own.
InBlock(fr, sc, b) == [fr EXCEPT !.scopes = sc, !.braces = b]

LEMMA ChangedInBlock ==
    ASSUME NEW fr \in Frame, NEW sc \in Seq(Scopes), NEW b \in Nat
    PROVE  /\ InBlock(fr, sc, b) \in Frame /\ InBlock(fr, sc, b).scopes = sc
           /\ InBlock(fr, sc, b).file = fr.file /\ InBlock(fr, sc, b).skip = fr.skip
           /\ InBlock(fr, sc, b).braces = b
BY DEF InBlock, Frame

AtTop(fr, sc, b) == [fr EXCEPT !.scopes = sc, !.entry = FALSE, !.braces = b]

LEMMA ChangedAtTop ==
    ASSUME NEW fr \in Frame, NEW sc \in Seq(Scopes), NEW b \in Nat
    PROVE  /\ AtTop(fr, sc, b) \in Frame /\ AtTop(fr, sc, b).scopes = sc
           /\ AtTop(fr, sc, b).file = fr.file /\ AtTop(fr, sc, b).skip = fr.skip
           /\ AtTop(fr, sc, b).braces = b
BY DEF AtTop, Frame

WithEntry(fr, sc, e, b) == [fr EXCEPT !.scopes = sc, !.braces = b, !.entry = e]

LEMMA ChangedByEntry ==
    ASSUME NEW fr \in Frame, NEW sc \in Seq(Scopes), NEW e \in BOOLEAN, NEW b \in Nat
    PROVE  /\ WithEntry(fr, sc, e, b) \in Frame /\ WithEntry(fr, sc, e, b).scopes = sc
           /\ WithEntry(fr, sc, e, b).file = fr.file /\ WithEntry(fr, sc, e, b).skip = fr.skip
           /\ WithEntry(fr, sc, e, b).braces = b
BY DEF WithEntry, Frame

Skipped(fr, k, b) == [fr EXCEPT !.skip = k, !.braces = b]

LEMMA ChangedBySkip ==
    ASSUME NEW fr \in Frame, NEW k \in Nat, NEW b \in Nat
    PROVE  /\ Skipped(fr, k, b) \in Frame /\ Skipped(fr, k, b).scopes = fr.scopes
           /\ Skipped(fr, k, b).file = fr.file /\ Skipped(fr, k, b).skip = k
           /\ Skipped(fr, k, b).braces = b
BY DEF Skipped, Frame

Refused(fr, b) == [fr EXCEPT !.scopes = <<>>, !.skip = 1, !.braces = b]

LEMMA ChangedByError ==
    ASSUME NEW fr \in Frame, NEW b \in Nat
    PROVE  /\ Refused(fr, b) \in Frame /\ Refused(fr, b).scopes = <<>>
           /\ Refused(fr, b).file = fr.file /\ Refused(fr, b).skip = 1
           /\ Refused(fr, b).braces = b
<1>0. <<>> \in Seq(Scopes) /\ 1 \in Nat OBVIOUS
<1>1. PICK sc \in Seq(Scopes), k \in Nat : sc = <<>> /\ k = 1 BY <1>0, Zenon
<1>2. Refused(fr, b) = [fr EXCEPT !.scopes = sc, !.skip = k, !.braces = b]
  BY <1>1 DEF Refused
<1>3. /\ Refused(fr, b) \in Frame /\ Refused(fr, b).scopes = sc
      /\ Refused(fr, b).file = fr.file /\ Refused(fr, b).skip = k
      /\ Refused(fr, b).braces = b
  BY ONLY fr \in Frame, b \in Nat, sc \in Seq(Scopes), k \in Nat, <1>2 DEF Frame
<1> QED BY <1>1, <1>3

\* The depth of a parser in a block, of one that has just met an error, and of one that
\* skips.
LEMMA Depth ==
    ASSUME NEW fr
    PROVE  /\ fr.skip = 0 => Believed(fr) = Len(fr.scopes)
           /\ fr.skip \in Nat /\ fr.scopes = <<>> => Believed(fr) = fr.skip
<1>1. Len(<<>>) = 0 OBVIOUS
<1>2. Believed(fr) = IF fr.skip > 0 THEN fr.skip ELSE Len(fr.scopes) BY DEF Believed
<1>3. fr.skip = 0 => Believed(fr) = Len(fr.scopes) BY <1>2
<1>4. fr.skip \in Nat /\ fr.scopes = <<>> => Believed(fr) = fr.skip
  <2> HAVE fr.skip \in Nat /\ fr.scopes = <<>>
  <2>1. CASE fr.skip > 0 BY <1>2, <2>1
  <2>2. CASE fr.skip = 0 BY <1>1, <1>2, <2>2
  <2> QED BY <2>1, <2>2
<1> QED BY <1>3, <1>4

-----------------------------------------------------------------------------
(* The invariants.                                                         *)

USE RegistryConstants, ConfigConstants DEF RegistryConstants, ConfigConstants

\* What a bind keeps of its argument.
BindArguments ==
    [to : {"id"}, id : Nat]
    \cup [to : {"special"}, tag : Tags, slot : Nat]
    \cup [to : {"layout"}, index : Nat]

\* The variables of the parsers keep their types; a file that is being skipped is in no
\* block.
ReadingTyped ==
    /\ frames \in Seq(Frame)
    /\ \A i \in 1..Len(frames) : frames[i].skip > 0 => frames[i].scopes = <<>>
    /\ includes \in Seq(Files)
    /\ loaded \subseteq Files
    /\ unbalanced \in BOOLEAN

\* So do what they fill.
ResultsTyped ==
    /\ lines \in Nat
    /\ reg \in Registries
    /\ binds \subseteq BindArguments
    /\ layouts \in Nat
    /\ done \in BOOLEAN

ConfigTyped == ReadingTyped /\ ResultsTyped

\* The stack holds no file twice, and the files being read in the order in which they
\* were opened, maybe with others between them.
StackInOrder ==
    /\ \A p, q \in 1..Len(includes) : includes[p] = includes[q] => p = q
    /\ \A i \in 1..Len(frames) : \E p \in 1..Len(includes) : includes[p] = frames[i].file
    /\ \A i, j \in 1..Len(frames) : \A p, q \in 1..Len(includes) :
          i < j /\ includes[p] = frames[i].file /\ includes[q] = frames[j].file => p < q

\* When no file was missing, the stack is that of the files being read.
StackIsFrames ==
    loaded \cap Unreadable = {} =>
        /\ Len(includes) = Len(frames)
        /\ \A i \in 1..Len(frames) : includes[i] = frames[i].file

DepthKept == ~unbalanced => \A i \in 1..Len(frames) : Believed(frames[i]) = frames[i].braces

ReadingInv == ReadingTyped /\ StackInOrder /\ StackIsFrames /\ DepthKept

\* A file that begins with a numbered workspace fills the registry before anything
\* registers a tag.
NumberedIsRegistered ==
    NumberedFirst => IF lines = 0 THEN reg.tags = <<>> /\ binds = {} ELSE Size(reg) > 0

BindTagsRegistered ==
    NumberedFirst => \A b \in binds : b.to = "special" => Registered(reg, b.tag)

ResultsInv == ResultsTyped /\ NumberedIsRegistered /\ BindTagsRegistered

\* The first line is read outside blocks.
FirstOutsideBlocks ==
    NumberedFirst /\ lines = 0 =>
        \A i \in 1..Len(frames) : frames[i].skip = 0 /\ frames[i].scopes = <<>>

ConfigInv == ReadingInv /\ ResultsInv /\ FirstOutsideBlocks

-----------------------------------------------------------------------------
(* Sequences.                                                              *)

LEMMA FrontOf ==
    ASSUME NEW S, NEW s \in Seq(S), s # <<>>
    PROVE  /\ Front(s) \in Seq(S) /\ Len(Front(s)) = Len(s) - 1
           /\ Len(s) \in Nat /\ Len(s) > 0
           /\ \A i \in 1..(Len(s) - 1) : Front(s)[i] = s[i] /\ i \in 1..Len(s)
<1>1. Len(s) \in Nat \ {0} BY EmptySeq
<1>2. \A i \in 1..(Len(s) - 1) : i \in 1..Len(s) BY <1>1
<1>3. \A i \in 1..(Len(s) - 1) : s[i] \in S BY <1>2, ElementOfSeq
<1>4. (IF 1 <= Len(s) - 1 THEN (Len(s) - 1) - 1 + 1 ELSE 0) = Len(s) - 1
  <2>1. \A n \in Nat \ {0} : (IF 1 <= n - 1 THEN (n - 1) - 1 + 1 ELSE 0) = n - 1 OBVIOUS
  <2> QED BY <1>1, <2>1
<1>6. \A i \in 1..((Len(s) - 1) - 1 + 1) : SubSeq(s, 1, Len(s) - 1)[i] = s[1 + i - 1]
  BY <1>1, <1>3, SubSeqProperties
<1>7. \A i \in 1..(Len(s) - 1) : 1 + i - 1 = i BY <1>1
<1>8. (Len(s) - 1) - 1 + 1 = Len(s) - 1 BY <1>1
<1>9. SubSeq(s, 1, Len(s) - 1) \in Seq(S) /\ Len(SubSeq(s, 1, Len(s) - 1)) = Len(s) - 1
  BY <1>1, <1>3, <1>4, SubSeqProperties
<1> QED BY <1>1, <1>2, <1>6, <1>7, <1>8, <1>9 DEF Front

LEMMA LastOf ==
    ASSUME NEW S, NEW s \in Seq(S), s # <<>>
    PROVE  Last(s) \in S /\ Len(s) \in 1..Len(s) /\ Last(s) = s[Len(s)]
<1>1. Len(s) \in Nat \ {0} BY EmptySeq
<1>2. Len(s) \in 1..Len(s) BY <1>1
<1> QED BY <1>2, ElementOfSeq DEF Last

\* What is appended goes after everything else.
LEMMA Appended ==
    ASSUME NEW S, NEW s \in Seq(S), NEW e \in S
    PROVE  /\ Append(s, e) \in Seq(S) /\ Len(Append(s, e)) = Len(s) + 1 /\ Len(s) \in Nat
           /\ \A i \in 1..(Len(s) + 1) :
                 IF i \in 1..Len(s) THEN Append(s, e)[i] = s[i]
                 ELSE i = Len(s) + 1 /\ Append(s, e)[i] = e
           /\ 1..Len(s) \subseteq 1..(Len(s) + 1) /\ Len(s) + 1 \in 1..(Len(s) + 1)
<1>1. /\ Append(s, e) \in Seq(S) /\ Len(Append(s, e)) = Len(s) + 1 /\ Len(s) \in Nat
      /\ \A i \in 1..Len(s) : Append(s, e)[i] = s[i]
      /\ Append(s, e)[Len(s) + 1] = e
  BY AppendProperties, LenProperties
<1>2. \A i \in 1..(Len(s) + 1) : i \in 1..Len(s) \/ i = Len(s) + 1 BY <1>1
<1>3. 1..Len(s) \subseteq 1..(Len(s) + 1) /\ Len(s) + 1 \in 1..(Len(s) + 1) BY <1>1
<1> QED BY <1>1, <1>2, <1>3

LEMMA PrefixOfSame ==
    ASSUME NEW S, NEW s \in Seq(S)
    PROVE  IsPrefix(s, s)
BY LenProperties DEF IsPrefix

LEMMA PrefixOfAppended ==
    ASSUME NEW S, NEW s \in Seq(S), NEW e \in S
    PROVE  IsPrefix(s, Append(s, e))
<1>1. /\ Append(s, e) \in Seq(S) /\ Len(Append(s, e)) = Len(s) + 1 /\ Len(s) \in Nat
      /\ \A i \in 1..Len(s) : Append(s, e)[i] = s[i]
  BY AppendProperties, LenProperties
<1> DEFINE a == SubSeq(s, 1, Len(s))
           b == SubSeq(Append(s, e), 1, Len(s))
<1>2. /\ a \in Seq(S) /\ Len(a) = IF 1 <= Len(s) THEN Len(s) - 1 + 1 ELSE 0
      /\ \A i \in 1..(Len(s) - 1 + 1) : a[i] = s[1 + i - 1]
  BY <1>1, ElementOfSeq, SubSeqProperties
<1>3. /\ b \in Seq(S) /\ Len(b) = IF 1 <= Len(s) THEN Len(s) - 1 + 1 ELSE 0
      /\ \A i \in 1..(Len(s) - 1 + 1) : b[i] = Append(s, e)[1 + i - 1]
  <2>1. \A i \in 1..Len(s) : Append(s, e)[i] \in S BY <1>1, ElementOfSeq
  <2> QED BY <1>1, <2>1, SubSeqProperties
<1> HIDE DEF a, b
<1>4. \A i \in 1..Len(s) : 1 + i - 1 = i /\ i \in 1..(Len(s) - 1 + 1) BY <1>1
<1>5. Len(a) = Len(s) /\ Len(b) = Len(s) BY <1>1, <1>2, <1>3
<1>6. \A i \in 1..Len(a) : a[i] = b[i] BY <1>1, <1>2, <1>3, <1>4, <1>5
<1>7. a = b BY <1>2, <1>3, <1>5, <1>6, SeqEqual
<1> QED BY <1>1, <1>7 DEF IsPrefix, a, b

LEMMA EmptyIsPrefix ==
    ASSUME NEW S, NEW s \in Seq(S)
    PROVE  IsPrefix(<<>>, s)
<1>1. Len(<<>>) = 0 /\ Len(s) \in Nat BY LenProperties
<1>2. SubSeq(<<>>, 1, 0) = <<>> /\ SubSeq(s, 1, 0) = <<>> BY SubSeqEmpty
<1> QED BY <1>1, <1>2 DEF IsPrefix

-----------------------------------------------------------------------------
(* The registries.                                                         *)

LEMMA EnsureTagGrows ==
    ASSUME NEW r \in Registries, NEW t \in Tags
    PROVE  /\ EnsureTag(r, t) \in Registries /\ EnsureTag(r, t).names = r.names
           /\ IsPrefix(r.tags, EnsureTag(r, t).tags)
           /\ \A u : Registered(r, u) => Registered(EnsureTag(r, t), u)
<1>1. r.tags \in Seq(Tags) /\ r.names \in Seq(Names \cup Nat) BY DEF Registries
<1>2. CASE EnsureTag(r, t) = r BY <1>1, <1>2, PrefixOfSame
<1>3. CASE EnsureTag(r, t) = [r EXCEPT !.tags = Append(@, t)]
  <2>1. /\ EnsureTag(r, t).tags = Append(r.tags, t)
        /\ EnsureTag(r, t).names = r.names
        /\ EnsureTag(r, t) \in Registries
    <3>1. Append(r.tags, t) \in Seq(Tags) BY <1>1, AppendProperties
    <3>2. r = [names |-> r.names, tags |-> r.tags] BY DEF Registries
    <3>3. EnsureTag(r, t) = [names |-> r.names, tags |-> Append(r.tags, t)]
      BY <1>3, <3>2
    <3> QED BY <1>1, <3>1, <3>3 DEF Registries
  <2>2. IsPrefix(r.tags, Append(r.tags, t)) BY <1>1, PrefixOfAppended
  <2>3. ASSUME NEW u, Registered(r, u) PROVE Registered(EnsureTag(r, t), u)
    <3>1. /\ DOMAIN r.tags = 1..Len(r.tags)
          /\ DOMAIN Append(r.tags, t) = 1..(Len(r.tags) + 1)
          /\ \A i \in 1..Len(r.tags) : i \in 1..(Len(r.tags) + 1) /\ Append(r.tags, t)[i] = r.tags[i]
      BY <1>1, Appended, LenProperties
    <3> QED BY <2>1, <2>3, <3>1 DEF Registered, Slots
  <2> QED BY <2>1, <2>2, <2>3
<1> QED BY <1>2, <1>3 DEF EnsureTag

\* Only an empty registry loses its tags.
Fills(r, s) ==
    /\ s \in Registries
    /\ Size(s) > 0
    /\ Size(r) > 0 => s.tags = r.tags

LEMMA EnsureIdFills ==
    ASSUME NEW r \in Registries, NEW n \in Nat
    PROVE  Fills(r, EnsureId(r, n))
<1> DEFINE base == IF Size(r) = 0 THEN ResetRegistry ELSE r
           len == IF n > Len(base.names) THEN n ELSE Len(base.names)
           names == [i \in 1..len |-> IF i <= Len(base.names) THEN base.names[i] ELSE i]
<1>1. ResetRegistry.names = <<1>> /\ ResetRegistry.tags = <<>> /\ Len(<<1>>) = 1
      /\ <<1>> \in Seq(Names \cup Nat) /\ ResetRegistry \in Registries
  BY DEF ResetRegistry, Registries
<1>2. Len(r.names) \in Nat BY DEF Registries
<1>3. /\ base \in Registries /\ Len(base.names) \in Nat /\ Len(base.names) > 0
      /\ Size(r) > 0 => base = r
  <2>1. CASE Size(r) = 0 BY <1>1, <2>1
  <2>2. CASE Size(r) # 0 BY <1>2, <2>2 DEF Size
  <2> QED BY <2>1, <2>2
<1>4. base.names \in Seq(Names \cup Nat) /\ base.tags \in Seq(Tags) BY <1>3 DEF Registries
<1>5. EnsureId(r, n) = [base EXCEPT !.names = names] BY DEF EnsureId
<1> HIDE DEF base
<1>6. len \in Nat /\ len > 0 BY <1>3
<1>7. \A i \in 1..len : (IF i <= Len(base.names) THEN base.names[i] ELSE i) \in Names \cup Nat
  <2> SUFFICES ASSUME NEW i \in 1..len, i <= Len(base.names)
               PROVE  base.names[i] \in Names \cup Nat
    BY <1>6
  <2>1. i \in 1..Len(base.names) BY <1>3, <1>6
  <2> QED BY <1>4, <2>1, ElementOfSeq
<1> HIDE DEF len
<1>8. names \in Seq(Names \cup Nat) /\ Len(names) = len
  BY <1>6, <1>7
<1> HIDE DEF names
<1>9. [base EXCEPT !.names = names].names = names
      /\ [base EXCEPT !.names = names].tags = base.tags
      /\ [base EXCEPT !.names = names] \in Registries
  BY <1>3, <1>8 DEF Registries
<1> QED BY <1>3, <1>5, <1>6, <1>8, <1>9 DEF Fills, Size

LEMMA FindByNameTyped ==
    ASSUME NEW r \in Registries, NEW m
    PROVE  FindByName(r, m) \in Nat
<1> DEFINE named == {i \in 1..Size(r) : r.names[i] = m}
<1>1. Size(r) \in Nat BY DEF Registries, Size
<1>2. CASE named = {} BY <1>2 DEF FindByName
<1>3. CASE named # {}
  <2>1. named \subseteq Nat BY <1>1
  <2> HIDE DEF named
  <2>2. PICK x \in named : \A y \in named : ~(<<y, x>> \in OpToRel(<, Nat))
    <3>1. IsWellFoundedOn(OpToRel(<, Nat), Nat) BY NatLessThanWellFounded
    <3> QED BY <1>3, <2>1, <3>1, WFMin, Zenon
  <2>3. ASSUME NEW y \in named PROVE x <= y
    <3>1. y \in Nat /\ x \in Nat BY <2>1
    <3>2. ~(y < x) BY <2>2, <3>1 DEF OpToRel
    <3> QED BY <3>1, <3>2
  <2>4. (CHOOSE i \in named : \A j \in named : i <= j) \in named BY <2>3
  <2>5. FindByName(r, m) = CHOOSE i \in named : \A j \in named : i <= j
    BY <1>3 DEF FindByName, named
  <2> QED BY <2>1, <2>4, <2>5
<1> QED BY <1>2, <1>3

LEMMA SetNameFills ==
    ASSUME NEW r \in Registries, NEW n \in Nat, NEW m \in Names
    PROVE  Fills(r, SetName(r, n, m))
<1> DEFINE s == EnsureId(r, n)
<1>1. Fills(r, s) BY EnsureIdFills
<1>2. SetName(r, n, m) = [s EXCEPT !.names[n] = m] BY DEF SetName
<1> HIDE DEF s
<1>3. s \in Registries /\ s.names \in Seq(Names \cup Nat) BY <1>1 DEF Fills, Registries
<1>4. /\ [s.names EXCEPT ![n] = m] \in Seq(Names \cup Nat)
      /\ Len([s.names EXCEPT ![n] = m]) = Len(s.names)
  <2>1. CASE n \in 1..Len(s.names) BY <1>3, <2>1, ExceptSeq
  <2>2. CASE n \notin 1..Len(s.names)
    <3>1. DOMAIN s.names = 1..Len(s.names) /\ s.names \in [1..Len(s.names) -> Names \cup Nat]
      BY <1>3, LenProperties
    <3>2. [s.names EXCEPT ![n] = m] = s.names BY <2>2, <3>1
    <3> QED BY <1>3, <3>2
  <2> QED BY <2>1, <2>2
<1>5. /\ [s EXCEPT !.names[n] = m].names = [s.names EXCEPT ![n] = m]
      /\ [s EXCEPT !.names[n] = m].tags = s.tags
      /\ [s EXCEPT !.names[n] = m] \in Registries
  BY <1>3, <1>4 DEF Registries
<1> QED BY <1>1, <1>2, <1>4, <1>5 DEF Fills, Size

\* A line about a workspace fills the registry, or registers a tag in it.
LEMMA WorkspaceLineGrows ==
    ASSUME NEW r \in Registries, NEW ref \in Refs, NEW rest \in Seq(Names)
    PROVE  \/ ref.to # "special" /\ Fills(r, WorkspaceLine(r, ref, rest))
           \/ \E t \in Tags : ref.to = "special" /\ WorkspaceLine(r, ref, rest) = EnsureTag(r, t)
<1>1. CASE ref.to = "special"
  <2>1. ref.tag \in Tags BY <1>1 DEF Refs
  <2> QED BY <1>1, <2>1 DEF WorkspaceLine
<1>2. CASE ref.to # "special"
  <2> DEFINE made == CreateNormal(r, ref)
  <2>1. Fills(r, made.reg) /\ made.id \in Nat
    <3>1. CASE ref.to = "id"
      <4>1. ref.id \in Nat BY <3>1 DEF Refs
      <4> QED BY <3>1, <4>1, EnsureIdFills DEF CreateNormal
    <3>2. CASE ref.to = "name" /\ FindByName(r, ref.name) > 0
      <4>1. Size(r) > 0
        <5>1. Size(r) \in Nat BY DEF Registries, Size
        <5>2. Size(r) = 0 => {i \in 1..Size(r) : r.names[i] = ref.name} = {} BY <5>1
        <5>3. Size(r) # 0 BY <3>2, <5>2 DEF FindByName
        <5> QED BY <5>1, <5>3
      <4> QED BY <3>2, <4>1, FindByNameTyped DEF CreateNormal, Fills
    <3>3. CASE ref.to = "name" /\ ~(FindByName(r, ref.name) > 0)
      <4>1. ref.name \in Names \cup Nat BY <3>3 DEF Refs
      <4>2. r.names \in Seq(Names \cup Nat) /\ Len(r.names) \in Nat BY DEF Registries
      <4>3. Append(r.names, ref.name) \in Seq(Names \cup Nat)
            /\ Len(Append(r.names, ref.name)) = Len(r.names) + 1
        BY <4>1, <4>2, AppendProperties
      <4>4. /\ [r EXCEPT !.names = Append(@, ref.name)].names = Append(r.names, ref.name)
            /\ [r EXCEPT !.names = Append(@, ref.name)].tags = r.tags
            /\ [r EXCEPT !.names = Append(@, ref.name)] \in Registries
        BY <4>3 DEF Registries
      <4>5. made.reg = AppendNamed(r, ref.name) /\ made.id = Size(r) + 1
        BY <3>3 DEF CreateNormal
      <4> QED BY <4>2, <4>3, <4>4, <4>5 DEF AppendNamed, Fills, Size
    <3> QED BY <1>2, <3>1, <3>2, <3>3 DEF Refs
  <2> HIDE DEF made
  <2>2. CASE rest = <<>> BY <1>2, <2>1, <2>2 DEF WorkspaceLine, made
  <2>3. CASE rest # <<>>
    <3>1. Head(rest) \in Names BY <2>3, HeadTailProperties
    <3>2. Fills(made.reg, SetName(made.reg, made.id, Head(rest)))
      BY <2>1, <3>1, SetNameFills DEF Fills
    <3>3. Fills(r, SetName(made.reg, made.id, Head(rest))) BY <2>1, <3>2 DEF Fills
    <3> QED BY <1>2, <2>3, <3>3 DEF WorkspaceLine, made
  <2> QED BY <2>2, <2>3
<1> QED BY <1>1, <1>2
\* What a bind keeps, and what it does to the registries.
LEMMA BindTargetGrows ==
    ASSUME NEW r \in Registries, NEW ref \in Refs
    PROVE  LET target == BindTarget(r, ref)
           IN  /\ target.reg = r \/ \E t \in Tags : target.reg = EnsureTag(r, t)
               /\ target.ok => target.keeps \in BindArguments
               /\ target.ok /\ target.keeps.to = "special"
                     => Registered(target.reg, target.keeps.tag)
<1>1. CASE ref.to = "id"
  <2>1. /\ BindTarget(r, ref).reg = r /\ BindTarget(r, ref).keeps = ref
    BY <1>1 DEF BindTarget
  <2>2. ref \in [to : {"id"}, id : 1..MaxId] BY <1>1 DEF Refs
  <2>3. ref \in [to : {"id"}, id : Nat] BY <2>2
  <2> QED BY <1>1, <2>1, <2>3 DEF BindArguments
<1>2. CASE ref.to = "name"
  <2> DEFINE k == [to |-> "id", id |-> FindByName(r, ref.name)]
  <2>1. BindTarget(r, ref).reg = r /\ BindTarget(r, ref).keeps = k BY <1>2 DEF BindTarget
  <2>2. k \in [to : {"id"}, id : Nat] /\ k.to = "id" BY FindByNameTyped
  <2> HIDE DEF k
  <2> QED BY <2>1, <2>2 DEF BindArguments
<1>3. CASE ref.to = "special"
  <2> DEFINE r2 == EnsureTag(r, ref.tag)
             k == [to |-> "special", tag |-> ref.tag,
                   slot |-> IF Registered(r2, ref.tag) THEN SlotOf(r2, ref.tag) ELSE 0]
  <2>1. ref.tag \in Tags BY <1>3 DEF Refs
  <2>2. BindTarget(r, ref) = [reg |-> r2, ok |-> Registered(r2, ref.tag), keeps |-> k]
    BY <1>3 DEF BindTarget
  <2>3. BindTarget(r, ref).reg = r2 /\ BindTarget(r, ref).keeps = k
        /\ BindTarget(r, ref).ok = Registered(r2, ref.tag)
    BY <2>2
  <2>4. r2 \in Registries BY <2>1, EnsureTagGrows
  <2> HIDE DEF r2
  <2>5. Registered(r2, ref.tag) => SlotOf(r2, ref.tag) \in Nat
    <3>1. DOMAIN r2.tags \subseteq Nat BY <2>4, LenProperties DEF Registries
    <3> QED BY <3>1 DEF Registered, SlotOf, Slots
  <2>6. k \in [to : {"special"}, tag : Tags, slot : Nat] /\ k.to = "special" /\ k.tag = ref.tag
    BY <2>1, <2>5
  <2> HIDE DEF k
  <2> QED BY <2>1, <2>3, <2>6 DEF BindArguments, r2
<1> QED BY <1>1, <1>2, <1>3 DEF Refs

-----------------------------------------------------------------------------
(* Reading.                                                                *)

LEMMA TopTyped ==
    ASSUME ReadingTyped, frames # <<>>
    PROVE  /\ Top \in Frame /\ Len(frames) \in 1..Len(frames) /\ Top = frames[Len(frames)]
           /\ Top.skip > 0 => Top.scopes = <<>>
BY LastOf DEF ReadingTyped, Top

\* A line that changes the innermost file only.
LEMMA SetTopKeeps ==
    ASSUME ReadingInv, frames # <<>>, NEW fr \in Frame, SetTop(fr),
           fr.file = Top.file, fr.skip > 0 => fr.scopes = <<>>,
           UNCHANGED <<includes, loaded>>,
           unbalanced' \in BOOLEAN, unbalanced => unbalanced',
           ~unbalanced' => Believed(fr) = fr.braces
    PROVE  ReadingInv'
<1> USE DEF ReadingInv
<1> DEFINE n == Len(frames)
<1>1. n \in 1..n /\ Top = frames[n] BY TopTyped
<1>2. /\ frames' \in Seq(Frame) /\ Len(frames') = n
      /\ \A i \in 1..n : frames'[i] = IF i = n THEN fr ELSE frames[i]
  <2>1. frames' = [frames EXCEPT ![n] = fr] BY DEF SetTop
  <2>2. frames \in Seq(Frame) BY DEF ReadingTyped
  <2> QED BY <1>1, <2>1, <2>2, ExceptSeq
<1> HIDE DEF n
<1>3. \A i \in 1..n : frames'[i].file = frames[i].file BY <1>1, <1>2
<1>4. ReadingTyped' BY <1>2 DEF ReadingTyped, n
<1>5. StackInOrder' BY <1>2, <1>3 DEF StackInOrder, n
<1>6. StackIsFrames' BY <1>2, <1>3 DEF StackIsFrames, n
<1>7. DepthKept' BY <1>2 DEF DepthKept, n
<1> QED BY <1>4, <1>5, <1>6, <1>7

LEMMA NewFrameTyped ==
    ASSUME NEW f \in Files
    PROVE  /\ NewFrame(f) \in Frame /\ NewFrame(f).file = f
           /\ NewFrame(f).scopes = <<>> /\ NewFrame(f).skip = 0
           /\ Believed(NewFrame(f)) = NewFrame(f).braces
<1>1. <<>> \in Seq(Scopes) /\ Len(<<>>) = 0 OBVIOUS
<1> QED BY <1>1 DEF NewFrame, Frame, Believed

LEMMA IncludeKeeps ==
    ASSUME ReadingInv, NEW f \in Files, Include(f), unbalanced' = unbalanced
    PROVE  ReadingInv'
<1> USE DEF ReadingInv
<1>1. CASE UNCHANGED <<frames, includes, loaded>>
  BY <1>1 DEF ReadingTyped, StackInOrder, StackIsFrames, DepthKept
<1>2. CASE ~UNCHANGED <<frames, includes, loaded>>
  <2> DEFINE m == Len(includes)
             n == Len(frames)
  <2>1. /\ f \notin ToSet(includes) /\ includes' = Append(includes, f)
        /\ loaded' = loaded \cup {f}
        /\ frames' = IF f \in Unreadable THEN frames ELSE Append(frames, NewFrame(f))
    BY <1>2 DEF Include
  <2>2. /\ includes' \in Seq(Files) /\ Len(includes') = m + 1 /\ m \in Nat
        /\ \A p \in 1..(m + 1) : IF p \in 1..m THEN includes'[p] = includes[p]
                                 ELSE p = m + 1 /\ includes'[p] = f
        /\ 1..m \subseteq 1..(m + 1) /\ m + 1 \in 1..(m + 1)
    BY <2>1, Appended DEF ReadingTyped
  <2>3. \A p \in 1..m : includes[p] # f
    <3>1. DOMAIN includes = 1..m BY LenProperties DEF ReadingTyped
    <3> QED BY <2>1, <3>1 DEF ToSet
  <2>4. \A p, q \in 1..(m + 1) : includes'[p] = includes'[q] => p = q
    BY <2>2, <2>3 DEF StackInOrder
  <2>5. CASE f \in Unreadable
    <3>1. frames' = frames BY <2>1, <2>5
    <3>2. ReadingTyped' BY <2>1, <2>2, <3>1 DEF ReadingTyped
    <3>3. \A i \in 1..n : frames[i].file # f
      BY <2>3 DEF StackInOrder
    <3>4. StackInOrder'
      <4>1. \A i \in 1..n : \E p \in 1..(m + 1) : includes'[p] = frames[i].file
        BY <2>2 DEF StackInOrder
      <4>2. ASSUME NEW i \in 1..n, NEW j \in 1..n, NEW p \in 1..(m + 1), NEW q \in 1..(m + 1),
                   i < j, includes'[p] = frames[i].file, includes'[q] = frames[j].file
            PROVE  p < q
        BY <2>2, <3>3, <4>2 DEF StackInOrder
      <4> QED BY <2>2, <2>4, <3>1, <4>1, <4>2 DEF StackInOrder
    <3>5. StackIsFrames' BY <2>1, <2>5 DEF StackIsFrames
    <3>6. DepthKept' BY <3>1 DEF DepthKept
    <3> QED BY <3>2, <3>4, <3>5, <3>6
  <2>6. CASE f \notin Unreadable
    <3> DEFINE new == NewFrame(f)
    <3>1. /\ new \in Frame /\ new.file = f /\ new.scopes = <<>> /\ new.skip = 0
          /\ Believed(new) = new.braces
      BY NewFrameTyped
    <3>2. frames' = Append(frames, new) BY <2>1, <2>6
    <3> HIDE DEF new
    <3>3. /\ frames' \in Seq(Frame) /\ Len(frames') = n + 1 /\ n \in Nat
          /\ \A i \in 1..(n + 1) : IF i \in 1..n THEN frames'[i] = frames[i]
                                   ELSE i = n + 1 /\ frames'[i] = new
          /\ 1..n \subseteq 1..(n + 1) /\ n + 1 \in 1..(n + 1)
      BY <3>1, <3>2, Appended DEF ReadingTyped
    <3>4. ReadingTyped'
      <4>1. \A i \in 1..n : frames[i].skip > 0 => frames[i].scopes = <<>> BY DEF ReadingTyped
      <4>2. \A i \in 1..(n + 1) : frames'[i].skip > 0 => frames'[i].scopes = <<>>
        BY <3>1, <3>3, <4>1
      <4>3. loaded' \subseteq Files /\ unbalanced' \in BOOLEAN BY <2>1 DEF ReadingTyped
      <4> QED BY <2>2, <3>3, <4>2, <4>3 DEF ReadingTyped
    <3> HIDE DEF n, m
    <3>5. StackInOrder'
      <4>1. \A i \in 1..(n + 1) : \E p \in 1..(m + 1) : includes'[p] = frames'[i].file
        <5> SUFFICES ASSUME NEW i \in 1..(n + 1)
                     PROVE  \E p \in 1..(m + 1) : includes'[p] = frames'[i].file
          OBVIOUS
        <5>1. CASE i \in 1..n
          <6>1. PICK p \in 1..m : includes[p] = frames[i].file
            BY <5>1 DEF StackInOrder, n, m
          <6> QED BY <2>2, <3>3, <5>1, <6>1
        <5>2. CASE i \notin 1..n BY <2>2, <3>1, <3>3, <5>2
        <5> QED BY <5>1, <5>2
      <4>2. ASSUME NEW i \in 1..(n + 1), NEW j \in 1..(n + 1),
                   NEW p \in 1..(m + 1), NEW q \in 1..(m + 1),
                   i < j, includes'[p] = frames'[i].file, includes'[q] = frames'[j].file
            PROVE  p < q
        <5>1. i \in 1..n BY <3>3, <4>2
        <5>2. PICK o \in 1..m : includes[o] = frames[i].file
          BY <5>1 DEF StackInOrder, n, m
        <5>3. o = p
          <6>1. includes'[o] = includes'[p] /\ o \in 1..(m + 1) BY <2>2, <3>3, <4>2, <5>1, <5>2
          <6> QED BY <2>4, <6>1
        <5>4. CASE j \in 1..n
          <6>1. PICK o2 \in 1..m : includes[o2] = frames[j].file
            BY <5>4 DEF StackInOrder, n, m
          <6>2. o2 = q
            <7>1. includes'[o2] = includes'[q] /\ o2 \in 1..(m + 1) BY <2>2, <3>3, <4>2, <5>4, <6>1
            <7> QED BY <2>4, <7>1
          <6> QED BY <4>2, <5>1, <5>2, <5>3, <5>4, <6>1, <6>2 DEF StackInOrder, n, m
        <5>5. CASE j \notin 1..n
          <6>1. includes'[q] = f BY <3>1, <3>3, <4>2, <5>5
          <6>2. q = m + 1 BY <2>2, <2>4, <6>1
          <6> QED BY <2>2, <5>2, <5>3, <6>2
        <5> QED BY <5>4, <5>5
      <4> QED BY <2>2, <2>4, <3>3, <4>1, <4>2 DEF StackInOrder, n, m
    <3>6. StackIsFrames'
      <4> SUFFICES ASSUME loaded' \cap Unreadable = {}
                   PROVE  /\ m + 1 = n + 1
                          /\ \A i \in 1..(n + 1) : includes'[i] = frames'[i].file
        BY <2>2, <3>3 DEF StackIsFrames, n, m
      <4>1. m = n /\ \A i \in 1..n : includes[i] = frames[i].file
        BY <2>1 DEF StackIsFrames, n, m
      <4> QED BY <2>2, <3>1, <3>3, <4>1
    <3>7. DepthKept'
      <4> SUFFICES ASSUME ~unbalanced, NEW i \in 1..(n + 1)
                   PROVE  Believed(frames'[i]) = frames'[i].braces
        BY <3>3 DEF DepthKept, n, m
      <4>1. CASE i \in 1..n BY <3>3, <4>1 DEF DepthKept, n
      <4>2. CASE i \notin 1..n BY <3>1, <3>3, <4>2
      <4> QED BY <4>1, <4>2
    <3> QED BY <3>4, <3>5, <3>6, <3>7
  <2> QED BY <2>5, <2>6
<1> QED BY <1>1, <1>2

LEMMA EndOfFileKeeps ==
    ASSUME ReadingInv, EndOfFile
    PROVE  ReadingInv'
<1> USE DEF ReadingInv
<1> DEFINE m == Len(includes)
           n == Len(frames)
<1>1. /\ frames' \in Seq(Frame) /\ Len(frames') = n - 1 /\ n \in Nat /\ n > 0
      /\ \A i \in 1..(n - 1) : frames'[i] = frames[i] /\ i \in 1..n
  BY FrontOf DEF EndOfFile, ReadingTyped
<1>2. n \in 1..n BY <1>1
<1>3. includes # <<>>
  <2>1. PICK p \in 1..m : includes[p] = frames[n].file BY <1>2 DEF StackInOrder
  <2>2. includes = <<>> => m = 0 OBVIOUS
  <2> QED BY <2>1, <2>2
<1>4. /\ includes' \in Seq(Files) /\ Len(includes') = m - 1 /\ m \in Nat /\ m > 0
      /\ \A p \in 1..(m - 1) : includes'[p] = includes[p] /\ p \in 1..m
  BY <1>3, FrontOf DEF EndOfFile, ReadingTyped
<1>5. loaded' = loaded /\ unbalanced' = unbalanced BY DEF EndOfFile
<1>6. ReadingTyped' BY <1>1, <1>4, <1>5 DEF ReadingTyped
<1>7. StackInOrder'
  <2>1. ASSUME NEW i \in 1..(n - 1) PROVE \E p \in 1..(m - 1) : includes'[p] = frames'[i].file
    <3>1. i \in 1..n /\ i < n BY <1>1
    <3>2. PICK p \in 1..m : includes[p] = frames[i].file BY <3>1 DEF StackInOrder
    <3>3. PICK q \in 1..m : includes[q] = frames[n].file BY <1>2 DEF StackInOrder
    <3>4. p < q BY <1>2, <3>1, <3>2, <3>3 DEF StackInOrder
    <3>5. p \in 1..(m - 1) BY <1>4, <3>4
    <3> QED BY <1>1, <1>4, <3>2, <3>5
  <2> HIDE DEF n, m
  <2>2. ASSUME NEW i \in 1..(n - 1), NEW j \in 1..(n - 1),
               NEW p \in 1..(m - 1), NEW q \in 1..(m - 1),
               i < j, includes'[p] = frames'[i].file, includes'[q] = frames'[j].file
        PROVE  p < q
    <3>1. /\ i \in 1..n /\ j \in 1..n /\ p \in 1..m /\ q \in 1..m
          /\ includes[p] = frames[i].file /\ includes[q] = frames[j].file
      BY <1>1, <1>4, <2>2
    <3> QED BY <2>2, <3>1 DEF StackInOrder, n, m
  <2>3. ASSUME NEW p \in 1..(m - 1), NEW q \in 1..(m - 1), includes'[p] = includes'[q]
        PROVE  p = q
    BY <1>4, <2>3 DEF StackInOrder, m
  <2> QED BY <1>1, <1>4, <2>1, <2>2, <2>3 DEF StackInOrder, n, m
<1>8. StackIsFrames' BY <1>1, <1>4, <1>5 DEF StackIsFrames
<1>9. DepthKept' BY <1>1, <1>5 DEF DepthKept
<1> QED BY <1>6, <1>7, <1>8, <1>9

-----------------------------------------------------------------------------
(* A line of each kind.                                                    *)

\* A line opens a block, closes one, or leaves the braces of the text as they are.
LEMMA BracesOf ==
    ASSUME NEW fr \in Frame, NEW l
    PROVE  /\ Braces(fr, l) \in Nat
           /\ l.is = "open" => Braces(fr, l) = fr.braces + 1
           /\ l.is = "close" /\ fr.braces > 0 => Braces(fr, l) = fr.braces - 1
           /\ l.is = "close" /\ fr.braces = 0 => Braces(fr, l) = 0
           /\ l.is \notin {"open", "close"} => Braces(fr, l) = fr.braces
<1>1. fr.braces \in Nat BY DEF Frame
<1> QED BY <1>1 DEF Braces

LEMMA FrameFields ==
    ASSUME NEW fr \in Frame
    PROVE  /\ fr.file \in Files /\ fr.scopes \in Seq(Scopes) /\ fr.skip \in Nat
           /\ fr.entry \in BOOLEAN /\ fr.braces \in Nat /\ Len(fr.scopes) \in Nat
           /\ fr = [file |-> fr.file, scopes |-> fr.scopes, skip |-> fr.skip,
                    entry |-> fr.entry, braces |-> fr.braces]
BY LenProperties DEF Frame

LEMMA LineFields ==
    ASSUME NEW l \in Line
    PROVE  /\ l.is = "open" => l.block \in Scopes \cup {"other"}
           /\ l.is = "source" => l.file \in Files
           /\ l.is = "workspace" => l.ref \in Refs /\ l.rest \in Seq(Names)
           /\ l.is = "target" => l.ref \in Refs
           /\ l.is = "bind" => /\ l.action \in {"workspace", "setlayout"}
                               /\ l.action = "workspace" => l.ref \in Refs
                               /\ l.action = "setlayout" => l.index \in Nat
BY DEF Line

\* When nothing is unbalanced, the innermost file is at the depth of its text.
LEMMA TopAtDepth ==
    ASSUME ReadingInv, frames # <<>>, ~unbalanced
    PROVE  Believed(Top) = Top.braces
BY TopTyped DEF ReadingInv, DepthKept

LEMMA TopLineReads ==
    ASSUME ReadingInv, frames # <<>>, NEW l \in Line, TopLine(l)
    PROVE  ReadingInv'
<1> USE DEF ReadingInv
<1>1. Top \in Frame /\ Top.skip = 0 /\ Top.scopes = <<>> BY TopTyped DEF TopLine
<1>2. CASE l.is = "source"
  <2>1. Include(l.file) /\ unbalanced' = unbalanced BY <1>2 DEF TopLine, ReadingTyped
  <2> QED BY <1>2, <2>1, IncludeKeeps, LineFields
<1>3. CASE l.is # "source"
  <2> DEFINE opens == l.is = "open" /\ l.block \in Blocks
             refused == l.is = "open" /\ l.block \notin Blocks
             sc == IF opens THEN <<l.block>> ELSE Top.scopes
             fr == [Top EXCEPT !.scopes = sc, !.entry = FALSE, !.braces = Braces(Top, l)]
  <2>1. /\ SetTop(fr) /\ UNCHANGED <<includes, loaded>>
        /\ unbalanced' = (unbalanced \/ refused)
    BY <1>3 DEF TopLine
  <2>2. sc \in Seq(Scopes) /\ Len(sc) = IF opens THEN 1 ELSE 0
    <3>1. CASE opens BY <3>1 DEF Scopes
    <3>2. CASE ~opens BY <1>1, <3>2
    <3> QED BY <3>1, <3>2
  <2>3. /\ fr \in Frame /\ fr.file = Top.file /\ fr.skip = 0
        /\ fr.braces = Braces(Top, l) /\ Believed(fr) = Len(sc)
    <3>1. Braces(Top, l) \in Nat BY <1>1, BracesOf
    <3> HIDE DEF sc
    <3>2. fr = AtTop(Top, sc, Braces(Top, l)) BY DEF AtTop
    <3> HIDE DEF fr
    <3>3. Top \in Frame /\ sc \in Seq(Scopes) /\ Braces(Top, l) \in Nat
      BY <1>1, <2>2, <3>1
    <3>4. /\ fr \in Frame /\ fr.scopes = sc /\ fr.file = Top.file
          /\ fr.skip = Top.skip /\ fr.braces = Braces(Top, l)
      BY ONLY <3>3, <3>2, ChangedAtTop
    <3> QED BY <1>1, <3>4, Depth
  <2> HIDE DEF fr
  <2>4. ASSUME ~unbalanced' PROVE Believed(fr) = fr.braces
    <3>1. Believed(Top) = Top.braces /\ ~refused BY <2>1, <2>4, TopAtDepth
    <3>2. Top.braces = 0 BY <1>1, <3>1 DEF Believed
    <3>3. Braces(Top, l) = IF opens THEN 1 ELSE 0 BY <1>1, <3>1, <3>2, BracesOf
    <3> QED BY <2>2, <2>3, <3>3
  <2>5. unbalanced' \in BOOLEAN /\ (unbalanced => unbalanced') BY <2>1 DEF ReadingTyped
  <2>6. ~(fr.skip > 0) BY <2>3
  <2> QED BY <2>1, <2>3, <2>4, <2>5, <2>6, SetTopKeeps
<1> QED BY <1>2, <1>3

\* A parser takes a line that opens an inner block, closes the innermost one, or does
\* neither.
LEMMA AcceptedLines ==
    ASSUME NEW fr, NEW l, Accepts(fr, l), l.is = "open"
    PROVE  Opens(fr.scopes, l)
BY DEF Accepts, Tolerates, FitsRule, Knows

LEMMA BlockLineReads ==
    ASSUME ReadingInv, frames # <<>>, NEW l \in Line, BlockLine(l)
    PROVE  ReadingInv'
<1> USE DEF ReadingInv
<1>1. /\ Top \in Frame /\ Top.skip = 0 /\ Top.scopes # <<>> /\ Top.scopes \in Seq(Scopes)
      /\ Top.entry \in BOOLEAN /\ Top.braces \in Nat
      /\ UNCHANGED <<includes, loaded>>
  BY TopTyped, FrameFields DEF BlockLine
<1>2. CASE Accepts(Top, l)
  <2> DEFINE sc == Entered(Top, l)
             e == CASE l.is \in {"open", "close"} -> FALSE
                    [] l.is = "match" -> TRUE
                    [] l.is = "set" /\ l.key = "name" -> TRUE
                    [] OTHER -> Top.entry
             fr == [Top EXCEPT !.scopes = sc, !.braces = Braces(Top, l), !.entry = e]
  <2>1. SetTop(fr) /\ unbalanced' = unbalanced BY <1>2 DEF BlockLine
  <2>2. e \in BOOLEAN BY <1>1
  <2>3. /\ sc \in Seq(Scopes) /\ Len(sc) \in Nat
        /\ Len(sc) = CASE l.is = "open" -> Len(Top.scopes) + 1
                       [] l.is = "close" -> Len(Top.scopes) - 1
                       [] OTHER -> Len(Top.scopes)
    <3>1. CASE l.is = "open"
      <4>1. l.block \in Scopes
        BY <1>2, <3>1, AcceptedLines DEF Opens, Scopes, Blocks, Inner
      <4>2. sc = Append(Top.scopes, l.block) BY <3>1 DEF Entered
      <4> QED BY <1>1, <3>1, <4>1, <4>2, AppendProperties, LenProperties
    <3>2. CASE l.is = "close"
      <4>1. sc = Front(Top.scopes) BY <3>2 DEF Entered
      <4> QED BY <1>1, <3>2, <4>1, FrontOf, LenProperties
    <3>3. CASE l.is \notin {"open", "close"}
      <4>1. sc = Top.scopes BY <3>3 DEF Entered
      <4> QED BY <1>1, <3>3, <4>1, LenProperties
    <3> QED BY <3>1, <3>2, <3>3
  <2> HIDE DEF sc, e
  <2>4. /\ fr \in Frame /\ fr.file = Top.file /\ fr.skip = 0
        /\ fr.braces = Braces(Top, l) /\ Believed(fr) = Len(sc)
    <3>1. Braces(Top, l) \in Nat BY <1>1, BracesOf
    <3>2. fr = WithEntry(Top, sc, e, Braces(Top, l)) BY DEF WithEntry
    <3> HIDE DEF fr
    <3>3. Top \in Frame /\ sc \in Seq(Scopes) /\ e \in BOOLEAN /\ Braces(Top, l) \in Nat
      BY <1>1, <2>2, <2>3, <3>1
    <3>4. /\ fr \in Frame /\ fr.scopes = sc /\ fr.file = Top.file
          /\ fr.skip = Top.skip /\ fr.braces = Braces(Top, l)
      BY ONLY <3>3, <3>2, ChangedByEntry
    <3> QED BY <1>1, <3>4, Depth
  <2> HIDE DEF fr
  <2>5. ASSUME ~unbalanced' PROVE Believed(fr) = fr.braces
    <3>1. Believed(Top) = Top.braces BY <2>1, <2>5, TopAtDepth
    <3>2. Top.braces = Len(Top.scopes) /\ Top.braces > 0
      BY <1>1, <3>1, FrontOf DEF Believed
    <3> QED BY <1>1, <2>3, <2>4, <3>2, BracesOf
  <2>6. unbalanced' \in BOOLEAN /\ (unbalanced => unbalanced') BY <2>1 DEF ReadingTyped
  <2>7. ~(fr.skip > 0) BY <2>4
  <2> QED BY <1>1, <2>1, <2>4, <2>5, <2>6, <2>7, SetTopKeeps
<1>3. CASE ~Accepts(Top, l)
  <2> DEFINE fr == Skipping(Top, l)
  <2>1. SetTop(fr) /\ unbalanced' = (unbalanced \/ Braces(Top, l) # 1)
    BY <1>3 DEF BlockLine
  <2>2. /\ fr \in Frame /\ fr.file = Top.file /\ fr.scopes = <<>>
        /\ fr.braces = Braces(Top, l) /\ Believed(fr) = 1
    <3>1. Braces(Top, l) \in Nat BY <1>1, BracesOf
    <3>2. fr = Refused(Top, Braces(Top, l)) BY DEF Refused, Skipping
    <3> HIDE DEF fr
    <3>3. Top \in Frame /\ Braces(Top, l) \in Nat BY <1>1, <3>1
    <3>4. /\ fr \in Frame /\ fr.scopes = <<>> /\ fr.file = Top.file
          /\ fr.skip = 1 /\ fr.braces = Braces(Top, l)
      BY ONLY <3>2, <3>3, ChangedByError
    <3> QED BY <3>4, Depth
  <2> HIDE DEF fr
  <2>3. unbalanced' \in BOOLEAN /\ (unbalanced => unbalanced') BY <2>1 DEF ReadingTyped
  <2> QED BY <1>1, <2>1, <2>2, <2>3, SetTopKeeps
<1> QED BY <1>2, <1>3

LEMMA BindsLineReads ==
    ASSUME ReadingInv, frames # <<>>, NEW l \in Line, BindsLine(l)
    PROVE  ReadingInv'
<1> USE DEF ReadingInv
<1>1. /\ Top \in Frame /\ Top.skip = 0 /\ Top.scopes # <<>> /\ Top.scopes \in Seq(Scopes)
      /\ Top.braces \in Nat
      /\ UNCHANGED <<includes, loaded>>
  BY TopTyped, FrameFields DEF BindsLine
<1> DEFINE nests == l.is = "open" /\ l.block = "binds"
           sc == IF nests THEN Append(Top.scopes, "binds")
                 ELSE IF l.is = "close" THEN Front(Top.scopes) ELSE Top.scopes
           fr == [Top EXCEPT !.scopes = sc, !.braces = Braces(Top, l)]
<1>2. SetTop(fr) /\ unbalanced' = (unbalanced \/ (l.is = "open" /\ ~nests))
  BY DEF BindsLine
<1>3. /\ sc \in Seq(Scopes) /\ Len(sc) \in Nat
      /\ Len(sc) = IF nests THEN Len(Top.scopes) + 1
                   ELSE IF l.is = "close" THEN Len(Top.scopes) - 1 ELSE Len(Top.scopes)
  <2>1. "binds" \in Scopes BY DEF Scopes, Blocks
  <2>2. CASE nests
    <3>1. sc = Append(Top.scopes, "binds") BY <2>2
    <3> QED BY <1>1, <2>1, <2>2, <3>1, AppendProperties, LenProperties
  <2>3. CASE ~nests /\ l.is = "close"
    <3>1. sc = Front(Top.scopes) BY <2>3
    <3> QED BY <1>1, <2>3, <3>1, FrontOf, LenProperties
  <2>4. CASE ~nests /\ l.is # "close" BY <1>1, <2>4, LenProperties
  <2> QED BY <2>2, <2>3, <2>4
<1> HIDE DEF sc
<1>4. /\ fr \in Frame /\ fr.file = Top.file /\ fr.skip = 0
      /\ fr.braces = Braces(Top, l) /\ Believed(fr) = Len(sc)
  <2>1. Braces(Top, l) \in Nat BY <1>1, BracesOf
  <2>2. fr = InBlock(Top, sc, Braces(Top, l)) BY DEF InBlock
  <2> HIDE DEF fr
  <2>3. Top \in Frame /\ sc \in Seq(Scopes) /\ Braces(Top, l) \in Nat
    BY <1>1, <1>3, <2>1
  <2>4. /\ fr \in Frame /\ fr.scopes = sc /\ fr.file = Top.file
        /\ fr.skip = Top.skip /\ fr.braces = Braces(Top, l)
    BY ONLY <2>3, <2>2, ChangedInBlock
  <2> QED BY <1>1, <2>4, Depth
<1> HIDE DEF fr
<1>5. ASSUME ~unbalanced' PROVE Believed(fr) = fr.braces
  <2>1. Believed(Top) = Top.braces /\ (l.is = "open" => nests) BY <1>2, <1>5, TopAtDepth
  <2>2. Top.braces = Len(Top.scopes) /\ Top.braces > 0
    BY <1>1, <2>1, FrontOf DEF Believed
  <2> QED BY <1>1, <1>3, <1>4, <2>1, <2>2, BracesOf
<1>6. unbalanced' \in BOOLEAN /\ (unbalanced => unbalanced') BY <1>2 DEF ReadingTyped
<1>7. ~(fr.skip > 0) BY <1>4
<1> QED BY <1>1, <1>2, <1>4, <1>5, <1>6, <1>7, SetTopKeeps

LEMMA SkipLineReads ==
    ASSUME ReadingInv, frames # <<>>, NEW l \in Line, SkipLine(l)
    PROVE  ReadingInv'
<1> USE DEF ReadingInv
<1>1. /\ Top \in Frame /\ Top.skip \in Nat /\ Top.skip > 0 /\ Top.scopes = <<>>
      /\ Top.braces \in Nat
      /\ UNCHANGED <<includes, loaded, unbalanced>>
  BY TopTyped, FrameFields DEF SkipLine
<1> DEFINE k == CASE l.is = "open" -> Top.skip + 1
                  [] l.is = "close" -> Top.skip - 1
                  [] OTHER -> Top.skip
           fr == [Top EXCEPT !.skip = k, !.braces = Braces(Top, l)]
<1>2. SetTop(fr) BY DEF SkipLine
<1>3. k \in Nat BY <1>1
<1>5. /\ fr \in Frame /\ fr.file = Top.file /\ fr.scopes = <<>> /\ fr.skip = k
      /\ fr.braces = Braces(Top, l) /\ Believed(fr) = k
  <2>1. Braces(Top, l) \in Nat BY <1>1, BracesOf
  <2> HIDE DEF k
  <2>2. fr = Skipped(Top, k, Braces(Top, l)) BY DEF Skipped
  <2> HIDE DEF fr
  <2>3. Top \in Frame /\ k \in Nat /\ Braces(Top, l) \in Nat
    BY <1>1, <1>3, <2>1
  <2>4. /\ fr \in Frame /\ fr.scopes = Top.scopes /\ fr.file = Top.file
        /\ fr.skip = k /\ fr.braces = Braces(Top, l)
    BY ONLY <2>3, <2>2, ChangedBySkip
  <2> QED BY <1>1, <1>3, <2>4, Depth
<1> HIDE DEF fr
<1>6. ASSUME ~unbalanced' PROVE Believed(fr) = fr.braces
  <2>1. Believed(Top) = Top.braces BY <1>1, <1>6, TopAtDepth
  <2>2. Top.braces = Top.skip BY <1>1, <2>1 DEF Believed
  <2> QED BY <1>1, <1>5, <2>2, BracesOf
<1>7. unbalanced' \in BOOLEAN BY <1>1 DEF ReadingTyped
<1> QED BY <1>1, <1>2, <1>5, <1>6, <1>7, SetTopKeeps

-----------------------------------------------------------------------------
(* What lines do to the registries and the binds.                          *)

\* From registry r to s: once a numbered workspace has come first, no slot moves.
Grows(r, s) ==
    /\ s \in Registries
    /\ NumberedFirst => /\ Size(s) > 0
                        /\ IsPrefix(r.tags, s.tags)
                        /\ \A u : Registered(r, u) => Registered(s, u)

LEMMA SameGrows ==
    ASSUME NEW r \in Registries, NumberedFirst => Size(r) > 0
    PROVE  Grows(r, r)
<1>1. r.tags \in Seq(Tags) BY DEF Registries
<1>2. IsPrefix(r.tags, r.tags) BY <1>1, PrefixOfSame
<1> QED BY <1>2 DEF Grows

LEMMA TagGrows ==
    ASSUME NEW r \in Registries, NEW t \in Tags, NumberedFirst => Size(r) > 0
    PROVE  Grows(r, EnsureTag(r, t))
BY EnsureTagGrows DEF Grows, Size

LEMMA FillGrows ==
    ASSUME NEW r \in Registries, NEW s, Fills(r, s),
           NumberedFirst => r.tags = <<>> \/ Size(r) > 0
    PROVE  Grows(r, s)
<1>1. s \in Registries /\ r.tags \in Seq(Tags) /\ s.tags \in Seq(Tags)
  BY DEF Fills, Registries
<1>2. CASE r.tags = <<>>
  <2>1. IsPrefix(r.tags, s.tags) BY <1>1, <1>2, EmptyIsPrefix
  <2>2. \A u : ~Registered(r, u) BY <1>2 DEF Registered, Slots
  <2> QED BY <2>1, <2>2 DEF Grows, Fills
<1>3. CASE Size(r) > 0
  <2>1. s.tags = r.tags BY <1>3 DEF Fills
  <2>2. IsPrefix(r.tags, s.tags) BY <1>1, <2>1, PrefixOfSame
  <2> QED BY <2>1, <2>2 DEF Grows, Fills, Registered, Slots
<1>4. CASE ~NumberedFirst BY <1>4 DEF Grows, Fills
<1> QED BY <1>2, <1>3, <1>4

\* A line keeps the results in order if the registry grows and each bind it adds is for
\* a tag that is registered.
LEMMA LineResults ==
    ASSUME ResultsInv, Grows(reg, reg'), lines' = lines + 1, done' = done, layouts' \in Nat,
           binds' \subseteq BindArguments,
           \A b \in binds' : b \in binds \/ (b.to = "special" => Registered(reg', b.tag))
    PROVE  ResultsInv'
<1> USE DEF ResultsInv
<1>1. lines' \in Nat /\ lines' # 0 BY DEF ResultsTyped
<1>2. ResultsTyped' BY <1>1 DEF ResultsTyped, Grows
<1>3. NumberedIsRegistered' BY <1>1 DEF NumberedIsRegistered, Grows
<1>4. BindTagsRegistered' BY DEF BindTagsRegistered, Grows
<1> QED BY <1>2, <1>3, <1>4

\* Lines that do neither.
LEMMA QuietLine ==
    ASSUME ResultsInv, NumberedFirst => lines > 0, reg' = reg, binds' = binds
    PROVE  /\ Grows(reg, reg') /\ binds' \subseteq BindArguments
           /\ \A b \in binds' : b \in binds
<1>1. reg \in Registries /\ (NumberedFirst => Size(reg) > 0)
  BY DEF ResultsInv, ResultsTyped, NumberedIsRegistered
<1>2. Grows(reg, reg) BY <1>1, SameGrows
<1> QED BY <1>2 DEF ResultsInv, ResultsTyped

\* The line may come first only if it is about a numbered workspace.
MayCome(l) == lines = 0 /\ NumberedFirst => l.is = "workspace" /\ l.ref.to = "id"

LEMMA TopLineFills ==
    ASSUME ResultsInv, NEW l \in Line, TopLine(l), MayCome(l), lines' = lines + 1, done' = done
    PROVE  ResultsInv' /\ Grows(reg, reg')
<1>1. reg \in Registries /\ lines \in Nat /\ layouts \in Nat /\ binds \subseteq BindArguments
  BY DEF ResultsInv, ResultsTyped
<1>2. binds' = binds /\ layouts' \in Nat BY <1>1 DEF TopLine
<1>3. CASE l.is = "workspace"
  <2>1. reg' = WorkspaceLine(reg, l.ref, l.rest) BY <1>3 DEF TopLine
  <2>2. l.ref \in Refs /\ l.rest \in Seq(Names) BY <1>3, LineFields
  <2>3. CASE l.ref.to # "special" /\ Fills(reg, reg')
    <3>1. NumberedFirst => reg.tags = <<>> \/ Size(reg) > 0
      BY DEF ResultsInv, NumberedIsRegistered
    <3> QED BY <1>1, <1>2, <2>3, <3>1, FillGrows, LineResults
  <2>4. CASE \E t \in Tags : l.ref.to = "special" /\ reg' = EnsureTag(reg, t)
    <3>1. PICK t \in Tags : l.ref.to = "special" /\ reg' = EnsureTag(reg, t) BY <2>4
    <3>2. NumberedFirst => Size(reg) > 0
      BY <3>1 DEF ResultsInv, NumberedIsRegistered, MayCome
    <3> QED BY <1>1, <1>2, <3>1, <3>2, TagGrows, LineResults
  <2> QED BY <1>1, <2>1, <2>2, <2>3, <2>4, WorkspaceLineGrows
<1>4. CASE l.is # "workspace"
  <2>1. reg' = reg BY <1>4 DEF TopLine
  <2>2. NumberedFirst => lines > 0 BY <1>1, <1>4 DEF MayCome
  <2> QED BY <1>2, <2>1, <2>2, QuietLine, LineResults
<1> QED BY <1>3, <1>4

LEMMA BlockLineRegisters ==
    ASSUME ResultsInv, NEW l \in Line, BlockLine(l), NumberedFirst => lines > 0,
           lines' = lines + 1, done' = done
    PROVE  ResultsInv' /\ Grows(reg, reg')
<1>1. reg \in Registries /\ layouts \in Nat /\ binds \subseteq BindArguments
  BY DEF ResultsInv, ResultsTyped
<1>2. binds' = binds /\ layouts' \in Nat BY <1>1 DEF BlockLine
<1>3. CASE reg' = reg BY <1>2, <1>3, QuietLine, LineResults
<1>4. CASE l.is = "target" /\ l.ref.to = "special" /\ reg' = EnsureTag(reg, l.ref.tag)
  <2>1. l.ref.tag \in Tags BY <1>4, LineFields DEF Refs
  <2>2. NumberedFirst => Size(reg) > 0 BY DEF ResultsInv, NumberedIsRegistered
  <2> QED BY <1>1, <1>2, <1>4, <2>1, <2>2, TagGrows, LineResults
<1> QED BY <1>3, <1>4 DEF BlockLine

LEMMA BindsLineBinds ==
    ASSUME ResultsInv, NEW l \in Line, BindsLine(l), NumberedFirst => lines > 0,
           lines' = lines + 1, done' = done
    PROVE  ResultsInv' /\ Grows(reg, reg')
<1>1. reg \in Registries /\ layouts \in Nat /\ binds \subseteq BindArguments
  BY DEF ResultsInv, ResultsTyped
<1>2. layouts' \in Nat BY <1>1 DEF BindsLine
<1>3. NumberedFirst => Size(reg) > 0 BY DEF ResultsInv, NumberedIsRegistered
<1>4. CASE UNCHANGED <<reg, binds>> BY <1>2, <1>4, QuietLine, LineResults
<1>5. CASE l.is = "bind" /\ BindEntry(l) /\ ~UNCHANGED <<reg, binds>>
  <2>1. CASE l.action = "setlayout"
    <3> DEFINE k == [to |-> "layout", index |-> l.index]
    <3>1. reg' = reg /\ (binds' = binds \/ binds' = binds \cup {k})
      BY <1>5, <2>1 DEF BindEntry
    <3>2. k \in [to : {"layout"}, index : Nat] /\ k.to # "special"
      BY <1>5, <2>1, LineFields
    <3> HIDE DEF k
    <3>3. binds' \subseteq BindArguments BY <1>1, <3>1, <3>2 DEF BindArguments
    <3>4. \A b \in binds' : b \in binds \/ b = k BY <3>1
    <3>5. Grows(reg, reg') BY <1>1, <1>3, <3>1, SameGrows
    <3> QED BY <1>2, <3>2, <3>3, <3>4, <3>5, LineResults
  <2>2. CASE l.action # "setlayout"
    <3> DEFINE target == BindTarget(reg, l.ref)
    <3>1. /\ reg' = target.reg
          /\ binds' = binds \/ (target.ok /\ binds' = binds \cup {target.keeps})
      BY <1>5, <2>2 DEF BindEntry
    <3>2. l.ref \in Refs BY <1>5, <2>2, LineFields
    <3>3. /\ target.reg = reg \/ \E t \in Tags : target.reg = EnsureTag(reg, t)
          /\ target.ok => target.keeps \in BindArguments
          /\ target.ok /\ target.keeps.to = "special"
                => Registered(target.reg, target.keeps.tag)
      BY <1>1, <3>2, BindTargetGrows
    <3> HIDE DEF target
    <3>4. Grows(reg, reg') BY <1>1, <1>3, <3>1, <3>3, SameGrows, TagGrows
    <3>5. binds' \subseteq BindArguments BY <1>1, <3>1, <3>3
    <3>6. \A b \in binds' : b \in binds \/ (b.to = "special" => Registered(reg', b.tag))
      BY <3>1, <3>3
    <3> QED BY <1>2, <3>4, <3>5, <3>6, LineResults
  <2> QED BY <2>1, <2>2
<1> QED BY <1>4, <1>5 DEF BindsLine

-----------------------------------------------------------------------------
(* Steps.                                                                  *)

LEMMA LineKeeps ==
    ASSUME ConfigInv, NEW l \in Wordings, ReadLine(l)
    PROVE  ConfigInv' /\ Grows(reg, reg')
<1> USE DEF ConfigInv
<1>1. l \in Line OBVIOUS
<1>2. frames # <<>> /\ lines' = lines + 1 /\ done' = done /\ MayCome(l) /\ lines \in Nat
  BY DEF ReadLine, MayCome, ResultsInv, ResultsTyped
<1>3. FirstOutsideBlocks' BY <1>2 DEF FirstOutsideBlocks
<1>4. CASE TopLine(l) BY <1>1, <1>2, <1>3, <1>4, TopLineReads, TopLineFills
<1>5. CASE ~TopLine(l)
  <2>1. ~(Top.skip = 0 /\ Top.scopes = <<>>)
    BY <1>5 DEF ReadLine, BlockLine, BindsLine, SkipLine
  <2>2. NumberedFirst => lines > 0
    <3>1. Top = frames[Len(frames)] /\ Len(frames) \in 1..Len(frames)
      BY <1>2, TopTyped DEF ReadingInv
    <3> QED BY <1>2, <2>1, <3>1 DEF FirstOutsideBlocks
  <2>3. CASE BlockLine(l) BY <1>1, <1>2, <1>3, <2>2, <2>3, BlockLineReads, BlockLineRegisters
  <2>4. CASE BindsLine(l) BY <1>1, <1>2, <1>3, <2>2, <2>4, BindsLineReads, BindsLineBinds
  <2>5. CASE SkipLine(l)
    <3>1. reg' = reg /\ binds' = binds /\ layouts' \in Nat
      BY <2>5 DEF SkipLine, ResultsInv, ResultsTyped
    <3> QED BY <1>1, <1>2, <1>3, <2>2, <2>5, <3>1, SkipLineReads, QuietLine, LineResults
  <2> QED BY <1>5, <2>3, <2>4, <2>5 DEF ReadLine
<1> QED BY <1>4, <1>5

LEMMA EndOfFileResults ==
    ASSUME ConfigInv, EndOfFile
    PROVE  ConfigInv' /\ reg' = reg
<1> USE DEF ConfigInv
<1>1. ReadingInv' BY EndOfFileKeeps
<1>2. ResultsInv'
  BY DEF EndOfFile, ResultsInv, ResultsTyped, NumberedIsRegistered, BindTagsRegistered
<1>3. FirstOutsideBlocks'
  BY DEF EndOfFile, FirstOutsideBlocks, ResultsInv, ResultsTyped
<1> QED BY <1>1, <1>2, <1>3 DEF EndOfFile

LEMMA EnsureIdKeepsNoTags ==
    ASSUME NEW r \in Registries, NEW n \in Nat, r.tags = <<>>
    PROVE  EnsureId(r, n).tags = <<>>
<1> DEFINE base == IF Size(r) = 0 THEN ResetRegistry ELSE r
           names == [i \in 1..(IF n > Len(base.names) THEN n ELSE Len(base.names)) |->
                        IF i <= Len(base.names) THEN base.names[i] ELSE i]
<1>1. base.tags = <<>> BY DEF ResetRegistry
<1>2. EnsureId(r, n) = [base EXCEPT !.names = names] BY DEF EnsureId
<1>3. base \in [names : {base.names}, tags : {<<>>}] BY <1>1 DEF ResetRegistry, Registries
<1> HIDE DEF base, names
<1> QED BY <1>2, <1>3

\* The registry that Finish fills had no workspace, so no bind can have moved.
LEMMA FinishKeeps ==
    ASSUME ConfigInv, Finish
    PROVE  ConfigInv' /\ (NumberedFirst => IsPrefix(reg.tags, reg'.tags))
<1> USE DEF ConfigInv
<1>1. /\ reg \in Registries /\ reg.tags \in Seq(Tags) /\ layouts \in Nat
      /\ Size(reg) \in Nat
  BY DEF ResultsInv, ResultsTyped, Registries, Size
<1>2. ReadingInv'
  BY DEF Finish, ReadingInv, ReadingTyped, StackInOrder, StackIsFrames, DepthKept
<1>3. FirstOutsideBlocks' BY DEF Finish, FirstOutsideBlocks
<1>4. /\ reg' = reg \/ (Size(reg) = 0 /\ reg' = EnsureId(reg, 1))
      /\ lines' = lines /\ binds' = binds /\ done' = TRUE
      /\ layouts' = IF layouts < 2 THEN 2 ELSE layouts
  BY DEF Finish
<1>5. reg' \in Registries
  <2>1. Fills(reg, EnsureId(reg, 1)) BY <1>1, EnsureIdFills
  <2> QED BY <1>1, <1>4, <2>1 DEF Fills
<1>6. ResultsTyped' BY <1>1, <1>4, <1>5 DEF ResultsInv, ResultsTyped
<1>7. NumberedFirst => reg' = reg \/ (lines = 0 /\ reg.tags = <<>> /\ reg'.tags = <<>>)
  <2> HAVE NumberedFirst
  <2>1. CASE lines = 0
    <3>1. reg.tags = <<>> BY <2>1 DEF ResultsInv, NumberedIsRegistered
    <3> QED BY <1>1, <1>4, <2>1, <3>1, EnsureIdKeepsNoTags
  <2>2. CASE lines # 0
    BY <1>1, <1>4, <2>2 DEF ResultsInv, NumberedIsRegistered
  <2> QED BY <2>1, <2>2
<1>8. NumberedIsRegistered' BY <1>4, <1>7 DEF ResultsInv, NumberedIsRegistered
<1>9. BindTagsRegistered'
  <2> SUFFICES ASSUME NumberedFirst, NEW b \in binds, b.to = "special"
               PROVE  Registered(reg', b.tag)
    BY <1>4 DEF BindTagsRegistered
  <2>1. Registered(reg, b.tag) BY DEF ResultsInv, BindTagsRegistered
  <2>2. binds # {} OBVIOUS
  <2>3. lines # 0 BY <2>2 DEF ResultsInv, NumberedIsRegistered
  <2> QED BY <1>7, <2>1, <2>3
<1>10. NumberedFirst => IsPrefix(reg.tags, reg'.tags)
  BY <1>1, <1>7, PrefixOfSame
<1> QED BY <1>2, <1>3, <1>6, <1>8, <1>9, <1>10 DEF ResultsInv

LEMMA InitConfig == Init => ConfigInv
<1> SUFFICES ASSUME Init PROVE ConfigInv
  OBVIOUS
<1>1. <<Main>> \in Seq(Files) /\ Len(<<Main>>) = 1 /\ <<Main>>[1] = Main
      /\ <<>> \in Seq(Frame) /\ Len(<<>>) = 0
  OBVIOUS
<1>2. /\ NewFrame(Main) \in Frame /\ NewFrame(Main).file = Main
      /\ NewFrame(Main).scopes = <<>> /\ NewFrame(Main).skip = 0
      /\ Believed(NewFrame(Main)) = NewFrame(Main).braces
  BY NewFrameTyped
<1>3. /\ frames \in Seq(Frame) /\ Len(frames) \in {0, 1}
      /\ \A i \in 1..Len(frames) : i = 1 /\ frames[i] = NewFrame(Main)
      /\ Main \notin Unreadable => Len(frames) = 1
  <2>1. CASE Main \in Unreadable
    <3>1. frames = <<>> BY <2>1 DEF Init
    <3> QED BY <1>1, <2>1, <3>1
  <2>2. CASE Main \notin Unreadable
    <3>1. frames = <<NewFrame(Main)>> BY <2>2 DEF Init
    <3>2. Len(<<NewFrame(Main)>>) = 1 /\ <<NewFrame(Main)>>[1] = NewFrame(Main)
          /\ <<NewFrame(Main)>> \in Seq(Frame)
      BY <1>2
    <3> QED BY <2>2, <3>1, <3>2
  <2> QED BY <2>1, <2>2
<1>4. includes = <<Main>> /\ loaded = {Main} /\ unbalanced = FALSE /\ lines = 0
      /\ reg = EmptyRegistry /\ binds = {} /\ layouts = 0 /\ done = FALSE
  BY DEF Init
<1>5. ReadingTyped BY <1>1, <1>2, <1>3, <1>4 DEF ReadingTyped
<1>6. StackInOrder BY <1>1, <1>2, <1>3, <1>4 DEF StackInOrder
<1>7. StackIsFrames BY <1>1, <1>2, <1>3, <1>4 DEF StackIsFrames
<1>8. DepthKept BY <1>2, <1>3 DEF DepthKept
<1>9. FirstOutsideBlocks BY <1>2, <1>3 DEF FirstOutsideBlocks
<1>10. reg \in Registries /\ reg.tags = <<>> BY <1>4 DEF EmptyRegistry, Registries
<1>11. ResultsTyped BY <1>4, <1>10 DEF ResultsTyped
<1>12. NumberedIsRegistered /\ BindTagsRegistered
  BY <1>4, <1>10 DEF NumberedIsRegistered, BindTagsRegistered
<1> QED BY <1>5, <1>6, <1>7, <1>8, <1>9, <1>11, <1>12 DEF ConfigInv, ReadingInv, ResultsInv

LEMMA StepConfig == ConfigInv /\ [Next]_vars => ConfigInv'
<1> SUFFICES ASSUME ConfigInv, [Next]_vars PROVE ConfigInv'
  OBVIOUS
<1>1. CASE \E l \in Wordings : ReadLine(l) BY <1>1, LineKeeps
<1>2. CASE EndOfFile BY <1>2, EndOfFileResults
<1>3. CASE Finish BY <1>3, FinishKeeps
<1>4. CASE UNCHANGED vars
  BY <1>4 DEF vars, ConfigInv, ReadingInv, ResultsInv, FirstOutsideBlocks, ReadingTyped,
     StackInOrder, StackIsFrames, DepthKept, ResultsTyped, NumberedIsRegistered,
     BindTagsRegistered
<1> QED BY <1>1, <1>2, <1>3, <1>4 DEF Next

LEMMA ConfigAlways == Spec => []ConfigInv
<1> QED BY InitConfig, StepConfig, PTL DEF Spec

-----------------------------------------------------------------------------
(* The theorems.                                                           *)

\* Every variable of the loader keeps its type, and a file that is being skipped is in no
\* block (parse_config_stream, skip_block_body).
THEOREM LoaderTyped == Spec => []ConfigTyped
<1>1. ConfigInv => ConfigTyped BY DEF ConfigInv, ReadingInv, ResultsInv, ConfigTyped
<1> QED BY <1>1, ConfigAlways, PTL

\* Whatever files include each other, and whatever is missing among them, no file is read
\* while it is being read, and the stack is that of the files being read when nothing is
\* missing (parse_config_file).
THEOREM NoFileInsideItself == Spec => []CycleGuard
<1>1. ConfigInv => CycleGuard
  <2> SUFFICES ASSUME ConfigInv PROVE CycleGuard
    OBVIOUS
  <2> USE DEF ConfigInv, ReadingInv
  <2>1. /\ DOMAIN frames = 1..Len(frames) /\ Len(frames) \in Nat
        /\ includes \in Seq(Files) /\ Len(includes) \in Nat
    BY LenProperties DEF ReadingTyped
  <2>2. ASSUME NEW i \in DOMAIN frames, NEW j \in DOMAIN frames, frames[i].file = frames[j].file
        PROVE  i = j
    <3>1. i \in 1..Len(frames) /\ j \in 1..Len(frames) /\ i \in Nat /\ j \in Nat BY <2>1
    <3>2. PICK p \in 1..Len(includes) : includes[p] = frames[i].file
      BY <3>1 DEF StackInOrder
    <3>3. ~(p < p) BY <2>1
    <3>4. ~(i < j) /\ ~(j < i) BY <2>2, <3>1, <3>2, <3>3 DEF StackInOrder
    <3> QED BY <3>1, <3>4
  <2>3. ASSUME loaded \cap Unreadable = {}
        PROVE  includes = [i \in DOMAIN frames |-> frames[i].file]
    <3>1. /\ Len(includes) = Len(frames)
          /\ \A i \in 1..Len(frames) : includes[i] = frames[i].file
      BY <2>3 DEF StackIsFrames
    <3>2. includes \in [1..Len(includes) -> Files] BY <2>1, LenProperties
    <3> QED BY <2>1, <3>1, <3>2
  <2> QED BY <2>2, <2>3 DEF CycleGuard
<1> QED BY <1>1, ConfigAlways, PTL

\* However blocks are nested, and after any errors, the parsers are at the depth of the
\* text in every file, unless an error came in an inner block, at a brace or at an
\* unknown block (skip_block_body).
THEOREM SkipsToTheEnd == Spec => []ResumesAtDepth
<1>1. ConfigInv => ResumesAtDepth
  <2> SUFFICES ASSUME ConfigInv PROVE ResumesAtDepth
    OBVIOUS
  <2>1. DOMAIN frames = 1..Len(frames)
    BY LenProperties DEF ConfigInv, ReadingInv, ReadingTyped
  <2> QED BY <2>1 DEF ConfigInv, ReadingInv, DepthKept, ResumesAtDepth
<1> QED BY <1>1, ConfigAlways, PTL

\* Once a file has begun with a numbered workspace, no later line moves a tag to another
\* slot (special_workspace_registry_ensure_tag, workspace_registry_ensure_id).
THEOREM SlotsNeverMove == Spec => SlotsStay
<1>1. ConfigInv /\ [Next]_vars => [NumberedFirst => IsPrefix(reg.tags, reg'.tags)]_vars
  <2> SUFFICES ASSUME ConfigInv, Next, NumberedFirst PROVE IsPrefix(reg.tags, reg'.tags)
    OBVIOUS
  <2>1. CASE \E l \in Wordings : ReadLine(l) BY <2>1, LineKeeps DEF Grows
  <2>2. CASE EndOfFile
    <3>1. reg.tags \in Seq(Tags) BY DEF ConfigInv, ResultsInv, ResultsTyped, Registries
    <3> QED BY <2>2, <3>1, EndOfFileResults, PrefixOfSame
  <2>3. CASE Finish BY <2>3, FinishKeeps
  <2> QED BY <2>1, <2>2, <2>3 DEF Next
<1> QED BY <1>1, ConfigAlways, PTL DEF Spec, SlotsStay

\* In a file that begins with a numbered workspace, every bind for a special workspace
\* goes on reaching the tag it was written with
\* (workspace_normalize_special_ref_with_hidden_id).
THEOREM BindsReachTheirTag == Spec => [](NumberedFirst => BindOpensItsTag)
<1>1. ConfigInv => (NumberedFirst => BindOpensItsTag)
  <2> SUFFICES ASSUME NumberedFirst, ConfigInv, NEW b \in binds, b.to = "special"
               PROVE  Normalized(reg, b.tag, b.slot) = b.tag
    BY DEF BindOpensItsTag
  <2>1. Registered(reg, b.tag) BY DEF ConfigInv, ResultsInv, BindTagsRegistered
  <2>2. reg.tags[SlotOf(reg, b.tag)] = b.tag BY <2>1 DEF Registered, SlotOf
  <2> QED BY <2>1, <2>2 DEF Normalized
<1> QED BY <1>1, ConfigAlways, PTL

=============================================================================
