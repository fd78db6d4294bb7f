-------------------------- MODULE WorkspaceRegistry --------------------------
(***************************************************************************)
(* The two registries that the configuration fills: the numbered           *)
(* workspaces with their names (src/workspace_registry.cpp) and the        *)
(* special tags, whose place in the registry is their slot and whose       *)
(* hidden id is the slot plus a base (src/special_workspace_registry.cpp). *)
(* A registry is a value, and each function of the code that changes one   *)
(* is an operator from a registry to a registry.                           *)
(***************************************************************************)
EXTENDS Naturals, Sequences, FiniteSets, SequencesExt

CONSTANTS
    Names,      \* names a configuration gives to workspaces
    Tags,       \* special tags a configuration mentions
    MaxId,      \* the largest workspace id (31)
    MaxTags     \* kMaxSpecialWorkspaces (97)

ASSUME RegistryConstants ==
    /\ MaxId \in Nat \ {0}
    /\ MaxTags \in Nat
    /\ Names \cap Nat = {}

\* What a configuration or a command calls a workspace.
Refs == [to : {"id"}, id : 1..MaxId] \cup [to : {"name"}, name : Names]
            \cup [to : {"special"}, tag : Tags]

\* names[i] is the name of workspace i, i itself unless one is configured; tags[s] is
\* the tag in slot s (the code counts slots from 0 and adds 32).
Registries == [names : Seq(Names \cup Nat), tags : Seq(Tags)]

EmptyRegistry == [names |-> <<>>, tags |-> <<>>]

Size(reg) == Len(reg.names)

Slots(reg) == DOMAIN reg.tags

Registered(reg, t) == \E s \in Slots(reg) : reg.tags[s] = t

\* special_workspace_registry_slot_by_tag.
SlotOf(reg, t) == CHOOSE s \in Slots(reg) : reg.tags[s] = t

-----------------------------------------------------------------------------

\* Mutation: the newest tag gets the first slot.
EnsureTag_Front(reg, t) ==
    IF Registered(reg, t) \/ Len(reg.tags) >= MaxTags THEN reg
    ELSE [reg EXCEPT !.tags = <<t>> \o @]

\* special_workspace_registry_ensure_tag: fails, without a change, when full.
EnsureTag(reg, t) ==
    IF Registered(reg, t) \/ Len(reg.tags) >= MaxTags THEN reg
    ELSE [reg EXCEPT !.tags = Append(@, t)]

\* workspace_registry_reset_from_ordered_names with no names: workspace 1 alone, and no
\* special tag.
ResetRegistry == [names |-> <<1>>, tags |-> <<>>]

\* Mutation: every numbered workspace line resets the registry.
EnsureId_Resets(reg, n) == [names |-> [i \in 1..n |-> i], tags |-> <<>>]

\* workspace_registry_ensure_id: an empty registry is reset first.
EnsureId(reg, n) ==
    LET base == IF Size(reg) = 0 THEN ResetRegistry ELSE reg
    IN  [base EXCEPT !.names = [i \in 1..(IF n > Len(@) THEN n ELSE Len(@)) |->
                                  IF i <= Len(@) THEN @[i] ELSE i]]

\* workspace_registry_append_named.
AppendNamed(reg, m) == [reg EXCEPT !.names = Append(@, m)]

\* workspace_registry_set_name_for_id.
SetName(reg, n, m) == [EnsureId(reg, n) EXCEPT !.names[n] = m]

\* workspace_registry_find_by_name: the first workspace of that name, or 0.
FindByName(reg, m) ==
    LET named == {i \in 1..Size(reg) : reg.names[i] = m}
    IN  IF named = {} THEN 0 ELSE CHOOSE i \in named : \A j \in named : i <= j

\* resolve_or_create_normal_workspace_id: the workspace a line is about, made if need be.
CreateNormal(reg, ref) ==
    IF ref.to = "id" THEN [reg |-> EnsureId(reg, ref.id), id |-> ref.id]
    ELSE IF FindByName(reg, ref.name) > 0
    THEN [reg |-> reg, id |-> FindByName(reg, ref.name)]
    ELSE [reg |-> AppendNamed(reg, ref.name), id |-> Size(reg) + 1]

\* apply_workspace_line for a line `workspace = ref, rest`.  Of the rest, the names: the
\* first renames the workspace, another one is refused after that.  Rules change
\* neither names nor tags.
WorkspaceLine(reg, ref, rest) ==
    IF ref.to = "special" THEN EnsureTag(reg, ref.tag)
    ELSE LET made == CreateNormal(reg, ref)
         IN  IF rest = <<>> THEN made.reg ELSE SetName(made.reg, made.id, Head(rest))

\* parse_workspace_dispatch_token and parse_toggle_special_dispatch: what a bind keeps of
\* its argument, the tag with the slot it has at this line, and whether there is any.
BindTarget(reg, ref) ==
    CASE ref.to = "id" -> [reg |-> reg, ok |-> TRUE, keeps |-> ref]
      [] ref.to = "name" ->
           [reg |-> reg, ok |-> FindByName(reg, ref.name) > 0,
            keeps |-> [to |-> "id", id |-> FindByName(reg, ref.name)]]
      [] ref.to = "special" ->
           LET r == EnsureTag(reg, ref.tag)
           IN  [reg |-> r, ok |-> Registered(r, ref.tag),
                keeps |-> [to |-> "special", tag |-> ref.tag,
                           slot |-> IF Registered(r, ref.tag) THEN SlotOf(r, ref.tag) ELSE 0]]

\* workspace_normalize_special_ref_with_hidden_id: the tag a bind reaches when it is
\* pressed.
Normalized(reg, t, slot) ==
    IF Registered(reg, t) THEN reg.tags[SlotOf(reg, t)]
    ELSE IF slot \in Slots(reg) THEN reg.tags[slot] ELSE t
=============================================================================
