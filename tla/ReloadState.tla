----------------------------- MODULE ReloadState -----------------------------
(***************************************************************************)
(* Reload: on SIGHUP the window manager writes its trees, its selection    *)
(* and its overlay to properties of the root window and replaces itself;   *)
(* the new process adopts the windows it finds and reads the properties    *)
(* back (src/wm_state.cpp, src/wm_startup.cpp, adopt_client at startup,    *)
(* the start of main in src/zestwm.cpp).  LayoutTrees is what one process  *)
(* does in between; this module adds its end and its beginning, for one    *)
(* monitor.                                                                *)
(*                                                                         *)
(* After the signal nothing is saved any more.  What the old process still *)
(* does with events it has read dies with it, so its variables stay as     *)
(* they were saved and only windows close and open until the new process   *)
(* starts.  Startup handles no event and is one action.  The properties    *)
(* are kept as values: a key w<id> or s<hidden id> is an index of one of   *)
(* two functions, a serialized tree the set of its leaves, and a floating  *)
(* record the window without its geometry.                                 *)
(***************************************************************************)
EXTENDS LayoutTrees

CONSTANTS
    FirstId,    \* workspace 1, which a new monitor has a root for
    Configs     \* configuration files: the tags declared, in their order, and for each
                \* client the workspace a window rule opens it on, or NoWorkspace

ASSUME ReloadConstants ==
    /\ FirstId \in NormalIds
    /\ Configs \subseteq [tags : Seq(Tags), rule : [Clients -> Workspaces \cup {NoWorkspace}]]
    /\ \A q \in Configs :
         /\ IsInjective(q.tags)
         /\ \A c \in Clients : q.rule[c] \in Tags => q.rule[c] \in ToSet(q.tags)

VARIABLES
    up,         \* a process runs that has not been told to restart
    live,       \* the windows there are
    config,     \* the configuration file of the running process
    slots,      \* g_specials: the tags registered, in the order of their hidden ids
    roots,      \* numbered workspaces with an empty root where LayoutTrees has no leaf
    saved       \* the root window properties

reloadVars == <<up, live, config, slots, roots, saved>>

Managed == {c \in Clients : ws[c] # NoWorkspace}

NothingSaved == [normal |-> <<>>, special |-> <<>>, active |-> FirstId,
                 overlay |-> NoTag, sel |-> NoClient]

-----------------------------------------------------------------------------
(* One process.                                                            *)

\* special_workspace_registry_ensure_tag, at the first use of a tag.
Registered(q, used) == q \o SetToSeq(used \ ToSet(q))

ReloadInit ==
    /\ Init
    /\ up = TRUE
    /\ live = {}
    /\ config \in Configs
    /\ slots = config.tags
    /\ roots = {FirstId, active}
    /\ saved = NothingSaved

\* An action of LayoutTrees.  The arrange pass gives the viewed workspace a root, and
\* the last client that closes takes that of its workspace along.
Run ==
    /\ up
    /\ Next
    /\ live' = {c \in Clients : ws'[c] # NoWorkspace}
    /\ slots' = Registered(slots, Tags \cap ({overlay'} \cup {ws'[c] : c \in live'}))
    /\ LET emptied == {ws[c] : c \in live \ live'} \ ({ws'[c] : c \in live'} \cup Persistent)
       IN  roots' = (roots \ emptied) \cup {active'}
    /\ UNCHANGED <<up, config, saved>>

-----------------------------------------------------------------------------
(* The end of a process.                                                   *)

\* serialized_from_layout for one leaf.
SavedLeaf(n) ==
    [tabs |-> n.tabs, groupmode |-> n.groupmode,
     shown |-> IF n.tabs = <<>> THEN NoClient ELSE n.tabs[n.active]]

\* What savezesttreestate writes of workspace w.
Entry(w) ==
    [leaves |-> IF \A n \in tree[w] : n.tabs = <<>> THEN {}
                ELSE {SavedLeaf(n) : n \in tree[w]},
     floats |-> {c \in floating : ws[c] = w /\ ~Tiled(State, c)}]

\* Mutation: a workspace is written only if something is tiled there.
Written_Tiled == {w \in Workspaces : Entry(w).leaves # {}}

\* The workspaces it writes: those with a root and with a client.
Written ==
    {w \in Workspaces : /\ tree[w] # {} \/ w \in roots
                        /\ Entry(w) # [leaves |-> {}, floats |-> {}]}

\* sighup: savezesttreestate, savezestspecialoverlaystate, savezestselectionstate.
\* savezestwmstate and the table of hidden ids are never read back.
Hup ==
    /\ up
    /\ up' = FALSE
    /\ saved' = [normal |-> [w \in Written \cap NormalIds |-> Entry(w)],
                 special |-> [i \in {j \in DOMAIN slots : slots[j] \in Written} |->
                                Entry(slots[i])],
                 active |-> active, overlay |-> overlay, sel |-> sel]
    /\ UNCHANGED <<vars, live, config, slots, roots>>

\* A window closes or opens before the new process looks; the identifier of one that
\* was managed is not used again so soon.
Vanish(c) ==
    /\ ~up /\ c \in live
    /\ live' = live \ {c}
    /\ UNCHANGED <<vars, up, config, slots, roots, saved>>

Appear(c) ==
    /\ ~up /\ c \notin live \cup Managed
    /\ live' = live \cup {c}
    /\ UNCHANGED <<vars, up, config, slots, roots, saved>>

-----------------------------------------------------------------------------
(* The beginning of the next one: scan.                                    *)

\* The windows of a serialized tree.
WindowsOf(e) == UNION {ToSet(n.tabs) : n \in e.leaves}

\* collect_tree_windows_by_kind; hidden ids beyond the registry are not decoded.
NormalWindows == UNION {WindowsOf(saved.normal[w]) : w \in DOMAIN saved.normal}
SpecialWindows(q) ==
    UNION {WindowsOf(saved.special[i]) : i \in DOMAIN saved.special \cap DOMAIN q.tags}

\* workspace_set_by_rule after adopt_client.
ByRule(q, c) == q.rule[c] # NoWorkspace /\ c \notin NormalWindows

\* applyrules and apply_workspace_from_persistence: the numbered workspace whose tree
\* lists the client, the rule, or the viewed workspace.
Adopted(q, c) ==
    CASE c \in NormalWindows ->
           CHOOSE w \in DOMAIN saved.normal : c \in WindowsOf(saved.normal[w])
      [] ByRule(q, c) -> q.rule[c]
      [] OTHER -> saved.active

\* scan, after the first restorezestselectionstate.  No leaf is a group yet, so each
\* client gets one of its own.
Scanned(q, floats) ==
    LET at == [c \in Clients |-> IF c \in live THEN Adopted(q, c) ELSE NoWorkspace]
    IN  [active |-> saved.active, overlay |-> NoTag, ws |-> at, floating |-> floats,
         tree |-> [w \in Workspaces |-> {AddTab(EmptyLeaf, c, FALSE) :
                                           c \in {d \in live \ floats : at[d] = w}}],
         hint |-> [c \in Clients |-> NoHint], sel |-> NoClient]

-----------------------------------------------------------------------------
(* restorezesttreestate for the entry e of workspace w, in a process with  *)
(* configuration q and the client list "order".                            *)

\* Clients of w that are in no tree are added to it like new ones, in the order of the
\* client list.
Rejoined(S, w, order, skipped) ==
    LET Orphan(s, c) ==
            s.ws[c] = w /\ c \notin s.floating \cup skipped /\ ~Tiled(s, c)
        Add(s, c) ==
            IF Orphan(s, c) THEN {AddClient(s, c, n) : n \in Targets(s, w)} ELSE {s}
    IN  FoldLeft(LAMBDA T, c : UNION {Add(s, c) : s \in T}, S, order)

\* The clients of e that become clients of w: a tree of a numbered workspace wins over
\* that of a special one, and a rule over both.
Claimed(w, e, q) ==
    {c \in WindowsOf(e) \cap live :
       /\ w \in Tags => c \notin NormalWindows
       /\ ByRule(q, c) => q.rule[c] = w}

\* Mutation: the tree is not authoritative for the workspace of a client.
Detached_ScanOwner(s, w, mine, order) ==
    LET Out(u, c) == IF u.ws[c] # w THEN u
                     ELSE [RemoveClient(u, c, NoClient) EXCEPT !.hint[c] = NoHint]
    IN  [FoldLeft(Out, s, order) EXCEPT !.tree[w] = {}]

\* apply_workspace_from_tree_payload, and every client of w out of its leaf.
Detached(s, w, mine, order) ==
    LET t == [s EXCEPT !.ws = [c \in Clients |-> IF c \in mine THEN w ELSE @[c]]]
        Out(u, c) == IF u.ws[c] # w THEN u
                     ELSE [RemoveClient(u, c, NoClient) EXCEPT !.hint[c] = NoHint]
    IN  [FoldLeft(Out, t, order) EXCEPT !.tree[w] = {}]

\* apply_floating_suffix: the workspace of the client is left as it is.
Floated(s, e, order) ==
    LET Float1(u, c) == {RemoveClient([u EXCEPT !.floating = @ \cup {c}], c, rep) :
                           rep \in Neighbours(u, c)}
    IN  FoldLeft(LAMBDA T, c : UNION {Float1(u, c) : u \in T}, {s},
                 SelectSeq(order, LAMBDA c : c \in e.floats))

\* Mutation: the tab appended last is shown.
BuiltLeaf_LastShown(n, mine) ==
    FoldLeft(LAMBDA m, c : AddTab(m, c, FALSE), [EmptyLeaf EXCEPT !.groupmode = n.groupmode],
             Only(n.tabs, mine))

\* build_layout_tree for one leaf: tabs are appended, and the one shown is shown again.
BuiltLeaf(n, mine) ==
    LET tabs == Only(n.tabs, mine)
        leaf == FoldLeft(LAMBDA m, c : AddTab(m, c, FALSE),
                         [EmptyLeaf EXCEPT !.groupmode = n.groupmode], tabs)
    IN  [leaf EXCEPT !.active = IF n.shown \in mine THEN Position(leaf, n.shown) ELSE @]

Restored(s, w, e, q, order) ==
    LET mine == Claimed(w, e, q)
        built == {[t EXCEPT !.tree[w] = {BuiltLeaf(n, mine) : n \in e.leaves}] :
                    t \in Floated(Detached(s, w, mine, order), e, order)}
        skipped == IF w \in NormalIds THEN SpecialWindows(q) \ NormalWindows ELSE {}
    IN  Rejoined(built, w, order, skipped)

\* All entries whose key can be decoded, numbered workspaces first.
RestoredAll(s, q, order) ==
    LET After(T, w, e) == UNION {Restored(t, w, e, q, order) : t \in T}
        normals == FoldLeft(LAMBDA T, w : After(T, w, saved.normal[w]), {s},
                            SetToSeq(DOMAIN saved.normal))
    IN  FoldLeft(LAMBDA T, i : After(T, q.tags[i], saved.special[i]), normals,
                 SetToSeq(DOMAIN saved.special \cap DOMAIN q.tags))

-----------------------------------------------------------------------------
(* main, up to the first event.                                            *)

\* Mutation: the saved selection is read before the windows are adopted, and not again.
Selected_BeforeScan(s, q) == NoClient

\* The second restorezestselectionstate: no overlay is open yet, and the arrange pass of
\* a client that a rule puts on a special workspace has overwritten the property.
Selected(s, q) ==
    LET lost == \E c \in live : ByRule(q, c) /\ q.rule[c] \in Tags
    IN  IF ~lost /\ saved.sel \in live /\ s.ws[saved.sel] = saved.active
        THEN saved.sel ELSE NoClient

\* restorezestspecialoverlaystate, arrange(NULL), and the focus: on a client of an open
\* overlay, else on the selection, which has it, else on any client.
Resumed(s, q) ==
    LET t == Arrange([s EXCEPT !.overlay = saved.overlay, !.sel = Selected(s, q)])
        above == {c \in Clients : t.ws[c] = t.overlay}
    IN  CASE t.overlay # NoTag /\ above # {} -> {Focus(t, c) : c \in above}
          [] t.overlay = NoTag /\ t.sel # NoClient -> {t}
          [] OTHER -> {Focus(t, c) : c \in Candidates(t)}

\* A client floats from the start that is fullscreen, as one that floated may be, or new.
Restart ==
    /\ ~up
    /\ \E q \in Configs,
          order \in {o \in [1..Cardinality(live) -> live] : IsInjective(o)},
          floats \in SUBSET {c \in Floaters \cap live : c \in floating \/ ws[c] = NoWorkspace} :
         /\ \E s \in RestoredAll(Scanned(q, floats), q, order) :
              \E t \in Resumed(s, q) : Become(t)
         /\ config' = q
         /\ slots' = Registered(q.tags, {saved.overlay} \cap Tags)
    /\ roots' = ({FirstId} \ DOMAIN saved.normal) \cup {active'}
    /\ up' = TRUE
    /\ saved' = NothingSaved
    /\ UNCHANGED live

ReloadNext == Run \/ Hup \/ (\E c \in Clients : Vanish(c) \/ Appear(c)) \/ Restart

ReloadSpec == ReloadInit /\ [][ReloadNext]_<<vars, reloadVars>>

-----------------------------------------------------------------------------
(* Properties.                                                             *)

\* A reload keeps what Ownership promises of tiled windows, however many close and open
\* while no window manager runs, and whichever tags the new configuration drops.  The
\* owner of a window is the workspace whose tree holds it, whatever Client::workspace
\* says, so that none is dropped from the trees or left in a tree it has moved out of.
Promise == INSTANCE Ownership WITH
    Nowhere <- NoWorkspace,
    declared <- ToSet(config.tags),
    owner <- [c \in Clients |-> IF Tiled(State, c) /\ (up \/ c \in live)
                                THEN Owner(State, c) ELSE NoWorkspace]

KeepsOwnership == Promise!Spec

Restarts == ~up /\ up'

\* The workspaces whose tree the new process can read.
Kept == NormalIds \cup ToSet(config'.tags)

\* The tabs of a group that are still there come back as one group, in their order, with
\* the same tab shown unless the focus chose another (MUST-RELOAD-012).  A window that
\* floated elsewhere is put among the viewed workspace's tabs and taken out again when
\* the entry of its own comes, which may change the tab shown.
GroupsSurvive ==
    [][Restarts =>
         \A w \in Kept : \A n \in tree[w] :
            LET tabs == Only(n.tabs, live)
            IN  tabs # <<>> =>
                  \E m \in tree'[w] :
                     /\ SelectSeq(m.tabs, LAMBDA c : ws[c] = w) = tabs
                     /\ m.groupmode = n.groupmode
                     /\ /\ n.tabs[n.active] \in live /\ Len(m.tabs) = Len(tabs)
                        /\ \A c \in floating \cap live : ws[c] = active
                        => m.tabs[m.active] \in {n.tabs[n.active], sel'}]_<<vars, reloadVars>>

\* The viewed workspace, a declared overlay, or that none was open, and the selection
\* below no overlay are the same after a reload (MUST-RELOAD-011), unless a rule moves
\* the selected window or has the new process arrange while it adopts windows.
ViewSurvives ==
    [][Restarts =>
         /\ active' = active
         /\ overlay \in ToSet(config'.tags) \cup {NoTag} => overlay' = overlay
         /\ /\ overlay = NoTag /\ sel \in live
            /\ \A c \in live : config'.rule[c] \notin Tags
            /\ config'.rule[sel] = NoWorkspace
            => sel' = sel]_<<vars, reloadVars>>

\* A window that floats on the viewed workspace still does after a reload, also when
\* nothing is tiled there (MUST-RELOAD-009).
FloatsStay ==
    [][Restarts =>
         \A c \in floating \cap live :
            ws[c] = active /\ config'.rule[c] = NoWorkspace
              => c \in floating' /\ ws'[c] = active]_<<vars, reloadVars>>
=============================================================================
