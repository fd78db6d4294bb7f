# A TLA+ development for zestwm

zestwm is a tiling window manager for X11: one process, one thread, an event loop over
XCB. It keeps numbered workspaces per monitor, special workspaces (overlays opened above a
numbered one), a tiling tree of tab groups for each workspace, on-created-empty hooks, and
a set of commands given by key binds or by client messages of `zestctl`.

No second thread runs beside a handler. What makes the program hard is that each of about
forty handlers and commands changes several structures that must agree (the focus stack,
`Client::mon`, `Monitor::sel`, the X input focus, the open overlay, the trees, the hook
registry), in orders no test enumerates; that events arrive late, when the state they
describe has passed; and that the world around it moves on by itself: the X server repeats
keys and moves the focus, outputs are unplugged, `zestctl` processes overwrite each other's
properties, and a signal arrives between two system calls. The models are about those
orders.

## Inventory

Paths are relative to `src/src/`.

| Component | State | Operations | Hard behaviour | What makes it correct |
|---|---|---|---|---|
| Workspace view and overlays (`actions/workspace.cpp`) | `active_workspace_id`, `special_overlay_tag` of each monitor | view, toggle, move to a workspace (silently or not), autohide | every command may close or open an overlay, and then has to find someone to focus | what is typed goes to a visible window; an overlay without clients closes; a silent move changes no view |
| Focus (`client/client_focus.cpp`, `client_props.cpp`, `group_focus.cpp`) | `Monitor::stack`, `Monitor::sel`, X input focus, urgency | `focus`, `unfocus`, WM_HINTS | `focus` replaces a client that is hidden or refuses input; handlers read `sel` before and after | stacks, `mon` and `sel` describe the same clients; input is the selection; the keyboard is not lost |
| Client lifecycle (`client/client_lifecycle.cpp`, `client_transfer.cpp`) | the client lists, `mon`, `workspace`, tree membership | `adopt_client`, `release_client`, `sendmon`, `setfullscreen` | rules, transients and overlays decide together; unlink happens in the middle | no client is lost, doubled or left selected elsewhere |
| X and IPC handlers (`dispatch/xcb_handlers.cpp`) | `selmon` | map, unmap, destroy, enter, button, motion, focus-in, client messages | stale events; the mouse loops handle some events themselves | a dragged client stays managed; activation reveals its client |
| User commands (`actions.cpp`, `actions/focus_cycle.cpp`) | — | monitors, focus, drag, groups, swaps, peeling | targets are chosen among all visible clients, of both layers | each command keeps the trees consistent |
| Hooks and workspace rules (`workspace_registry.cpp`) | `on_empty_spawn_pending` by workspace | joined, left, became empty | told by some paths of a move and not by others | rearmed exactly when the last client leaves |
| Window rules (`config/parse/window_rule.cpp`) | `rule_silent` | apply before and after stacking | output, workspace and silence combine | see lifecycle |
| Layout trees (`layout_tree.cpp`, `bsp/`, `monitor/tree_arrange.cpp`) | a tree for each workspace, `Client::leaf`, rejoin hints | insert, remove, collapse, group, peel, merge, swap, sanitize | tabs' indices, hints that outlive what they name, two layers on screen | each tiled client in one leaf of its own workspace's tree; it returns to its place |
| Monitors and RandR (`monitor/monitor_lifecycle.cpp`) | the monitor chain, `output_name` | update of the outputs, rehoming of clients | an output that disappears with clients or an overlay on it; monitors matched by name | every client has a living monitor; an output that stays keeps its world |
| Reload and persistence (`wm_state.cpp`, `wm_startup.cpp`, `bsp/tree_serialize*.cpp`) | properties on the root window and the clients | save, exec, scan, restore | windows that vanish between save and scan | layout and view come back |
| Registries (`workspace_registry.cpp`, `special_workspace_registry.cpp`) | ids with names, slots of tags | ensure, append, reset, find | a fixed number of slots; a reset in the middle of the file | a tag keeps its slot; a bind reaches the tag it names |
| Configuration parser (`config/parse/`, `config/runtime.cpp`) | the file being read, the include stack, the block being parsed | top-level lines, block parsers, skip after an error, includes | errors inside nested blocks, missing files, cycles | parsing goes on where the text is |
| Session (`zestwm.cpp`, `wm_startup.cpp`, `config/watch.cpp`, `x11/backend.cpp`) | `running`, `restart`, the watch, two queues of events | start, poll, drain, reload, stop | signals and edits at any moment; events outside the socket | what arrives is handled; a stop stops |
| `zestctl` (`zestctl/`) | two properties of the root window | send a command, aim a special one, batch | callers overwrite each other between two writes or two reads | no command runs twice; the newest one runs |
| Keys (`config/parse/bindings.cpp`, `dispatch/xcb_handlers.cpp`, `input_apply.cpp`) | `pressed_keys`, cooldowns, grabs, the layout | press, release, FocusIn, MappingNotify, second setxkbmap | the server withholds releases, repeats keys and changes layouts | grabs follow the layout; no press is swallowed |
| Runtime dispatcher (`dispatch/runtime_dispatch*.cpp`) | queues of deferred commands and events | dispatch, drain | re-entrancy | order of deferral |
| Arrangement (`geometry.cpp`, `monitor/tree_arrange.cpp`, `draw/bar.cpp`) | the work area, positions of windows and docks | arrange, updatebarpos, dock requests | rounding in nested splits; a pass that moves the docks it was computed from | windows do not overlap; docks are not covered; the area settles |
| Bar and drawing, autostart, X11 wrappers | — | output around the above | — | — |

Interactions: handlers and commands call lifecycle, view and focus functions directly;
these call the tree layer (`bsp_add_client`, `bsp_remove_client`, `bsp_focus_client`) and
the hook registry; nearly everything ends with `focus(...)` and `arrange(...)`, and the
arrange pass writes back into the trees (`tree_prepare_workspace_bsp_for_arrange`). There
are no callbacks into a running handler, except that a mouse loop handles ConfigureRequest,
Expose, MapRequest and MotionNotify itself until the button is released. The main loop
alternates between `poll` on the X socket and the watch, and draining the queue of libxcb;
SIGHUP sets two flags; `zestctl` and zestwm talk through properties of the root window.

`PROJECT.json` lists under "hazards" every place where this goes wrong silently, with the
properties that would notice.

## Modules

| Module | Content |
|---|---|
| `WorkspaceView` | which workspaces are shown, where keyboard input goes, overlays, hooks, several monitors |
| `MCWorkspaceView` | its small instances |
| `WorkspaceViewProofs` | proofs about its types and client lists for all values of the constants |
| `FocusProofs` | proofs about its keyboard, overlays and hooks for all values of the constants |
| `LayoutTrees` | tab groups and trees of one monitor, rejoin hints, the arrange pass, the tree commands |
| `MCLayoutTrees` | its small instances |
| `LayoutTreesProofs` | proofs about it for all values of the constants |
| `Ownership` | what a reload promises about the workspace of each tiled window |
| `ReloadState` | save, restart, scan and restore around `LayoutTrees`; implements `Ownership` |
| `MCReloadState` | its small instances |
| `Monitors` | outputs that come and go, on top of the handlers of `WorkspaceView` |
| `MCMonitors` | its small instance |
| `MonitorsProofs` | proofs about it for all values of the constants |
| `WorkspaceRegistry` | the registries of numbered workspaces and of special tags |
| `ConfigFile` | reading the configuration line by line, on top of `WorkspaceRegistry` |
| `MCConfigFile` | its lines |
| `ConfigFileProofs` | proofs about it for all values of the constants |
| `Session` | the process from start to restart, its watch and queues, SIGHUP, `zestctl` callers |
| `MCSession` | its callers |
| `SessionProofs` | proofs about it for all values of the constants |
| `KeyBinds` | binds, grabs and cooldowns against the X server's keyboard |
| `MCKeyBinds` | its keys and layouts |
| `KeyBindsProofs` | proofs about it for all values of the constants |
| `Arrangement` | one monitor's arrange pass in pixels: docks, work area, cells, windows |
| `MCArrangement` | its docks and settings |
| `ArrangementProofs` | proofs about it for all values of the constants |

### From code to model

A handler runs to its end before the next event is read, so **each handler or command is
one action**. Handlers call helpers that change state which later calls read back. The
helpers are therefore operators from a state record to a state record (`Focus`, `Unlink`,
`ShowNormal`, `RemoveClient`, `AddClient`, `Arrange`, ...), named after the code's function
where TLA+ allows it, and composed in the order of the calls. `State` is the record of the
variables; `Become(s)` installs the record a handler ends with.

`WorkspaceView`: `cur` is `selmon`; `active`, `overlay`, `stack`, `sel` are fields of
`Monitor`; `mon`, `ws`, `neverfocus`, `urgent`, `ruleSilent` are fields of `Client` (as
functions or sets of clients); `input` is the window `focus` last gave the X input and
_NET_ACTIVE_WINDOW; `armed` holds the workspaces with `on_empty_spawn_pending`; `dragged`
is the client a mouse loop holds. What depends on pixels is left open: the client under the
pointer (`ptr`) is any client or none, re-tested by each operator as the code tests it, and
the neighbour a focus command reaches is any visible client of the monitor. What depends on
the order of `Monitor::clients` (the first urgent client, the first overlay client) is any
that qualifies. A window-rule block enters as what it decides, a configuration as constants.

`LayoutTrees`: `tree[w]` is the set of leaves of the tree of workspace `w`; a leaf is
`GroupedNode` (tabs, active tab, previous tab, groupmode). What lies above the leaves
(axes, ratios, the order of children) only decides where a leaf is drawn and is left out;
with it, the choice of the leaf to split becomes any leaf of the tree. `Client::leaf` is the
leaf that holds the client: they part only when a leaf is freed under a client, and that
takes a violation of `EachTiledOnce`. The rejoin hints are kept while a client is outside
every tree; a hint left behind on a client that was put straight into a leaf is overwritten
by the next `bsp_remove_client` before anything reads it. `sanitize_tree_for_clients` also
drops a second copy of a client; `EachTiledOnce` says there is none. `drag_into_group = 2`
(merge on the group bar only) differs from 1 by pixels and is left out.

`apply_workspace_from_persistence` also runs when a window is mapped after start-up. It
finds nothing then: `release_client` ends with an arrange pass, and that saves the layout
without the client. So it is no part of `MapRequest`; it is part of `Restart`.

`ReloadState` extends `LayoutTrees`: `Run` is any of its actions, `Hup` the signal handler,
`Restart` everything from `execv` to the first event. The three are separate because windows
close (`Vanish`) and open (`Appear`) in between. `Restart` composes, in the order of `main`,
`Scanned` (adoption), `RestoredAll` (the entries of the tree property, numbered workspaces
first, each with the steps `Detached`, `Floated`, `BuiltLeaf`, `Rejoined`) and `Resumed`
(overlay, arrange, focus). It is one action because the new process reads no event before it
is through. The order of the client list and the windows found fullscreen are any. A property
is kept as a value: an entry is the set of its leaves and the windows that float, a key
`w<id>` or `s<hidden id>` an index of one of two functions, and the hidden id of a tag its
place in `slots`. So a hidden id means another tag when the tags are declared in another
order, as in the code. Geometry is not kept, one monitor is modelled, the handler runs
between two other handlers, and dialogs that float by themselves when adopted are left out.

`Ownership` is the abstract specification: events move tiled windows freely; while nothing
runs they only close; a start leaves each where it was, or on some numbered workspace if its
tag is no longer declared. The refinement maps `owner` to the workspace of each tiled window
that exists, and `declared` to the tags of the configuration. Floating windows have no owner
there, since the code does not keep theirs. The owner is read from the trees and not from
`Client::workspace`, so that a window that a restart forgets to put into a tree, or leaves
in one it was moved out of, breaks the refinement too.

`Monitors` extends `WorkspaceView`: its monitors become the addresses of `Monitor` objects,
of which `owners` lists those that exist, `name` is `output_name`, and `Topology(report)` is
`updategeom` with the `focus` and `arrange` that follow it. Each output takes a monitor by
the rule of `updategeom` (`Candidates`); those left over are torn down and their clients
rehomed. Where a client goes and which monitor the pointer selects depend on rectangles and
are any. A new output needs a `Monitor` that does not exist yet: `Arrivals` are the ways to
take different ones, and there are enough because no report names more outputs than there
are addresses, and none names one twice. `freed` marks clients whose `Client::leaf` points
into a tree that was freed, until the arrange pass or a move gives them another.

`WorkspaceRegistry` holds functions from a registry to a registry. `ConfigFile` reads one
line in each step. What a file contains is not fixed beforehand: the next line is any of
`Wordings`, so all texts made of them are read. `frames` are the nested calls of
`parse_config_file`, each with the blocks its parsers are in and the depth counted by
`skip_block_body`; `braces` is history, the depth of the text itself. `includes` is
`include_stack`. A value is well-formed or not; the values of settings are left out.

`Session` has the process (`phase` says which call of `main` or `run` is next), the watch
(`inotify`, `unread`, `seen`), the two places where an event waits (`wire`, the socket;
`queue`, libxcb's and the backend's), the two root-window properties and the `zestctl`
callers. Steps are separate wherever another process, the signal or the kernel can come
between: the test of `running` and `poll`; the write of the target and that of the command;
the read of the command, of the target, and its deletion. `Fatal` is the error handler that
exits; `missed`, `fresh` and `served` are history.

`KeyBinds` has zestwm's part (`pressed`, `until`, `grabs`, `deadline`) and the server's
(`down`, `repeating`, `grab`, `focused`, `layout`, `queue`), which is external: what the code
relies on is that a grab begins with a grabbed key, ends with its release, carries the
events of all keys meanwhile, and that its end sends FocusIn to the focused client.

`Arrangement` computes in pixels. A pass is `Begin` (`updatebarpos`, the work area), one
`SplitNode`, `EmptyRoot` or `Leaf` for each call of `arrangetreenode`, and `ArrangeDocks`;
axes and ratios are any that commands can produce. A dock that is mapped is first kept on the
monitor and, at the end of `adopt_client`, clamped to the work area (`Adopted`); each change
of a dock makes a pass due.

## What the runs check

Deadlock is checked in every run except where the text below says that the modelled
system really stops. Each property is paired in `PROJECT.json` with a
mutation of a code definition (a dropped guard, a missing reset, an index off by one) that
makes the same run violate it.

### Runs that pass

* **one_monitor** — three ordinary windows (one with WM_HINTS), two workspaces, the second
  with a hook, one overlay, follow-mouse, focus-on-activate, rules that assign a workspace or
  an overlay, silently or not. Keyboard input is the selection and is visible; it rests on
  the root window only when nobody on screen could have it; the hook is rearmed when, and
  only when, the last client leaves; a window mapped beneath an overlay takes no focus. Three
  clients are enough for one focused, one on the overlay and one that enters; every property
  speaks of at most that many.
* **commands** — a normal window, a dialog and a dock, two overlays, click focus,
  focus-on-activate off. What activation, silent moves and toggles promise.
* **two_monitors** — two windows, two monitors, a default workspace on the second, rules
  with outputs, drags and sends. A dragged client stays managed, and an overlay hides with
  its last client however that leaves.
* **trees_one_layer** — three clients that may all float, two workspaces, one of them
  persistent, every tree command, merging drags. No client is lost from the trees or doubled
  in them; tab indices stay in range; a window that floats and comes back finds its place;
  closing the focused tab keeps focus in the group. Three clients give a group beside a
  single window and a group of three, the smallest with a tab before, at and after the
  active one. Clients are interchangeable in this model (no constant tells them apart and
  nothing chooses by identity), so `SYMMETRY` is sound for its safety properties.
* **trees_overlay** — one workspace and one overlay. While the overlay is open the commands
  that stay inside one tree (`groupmode`, `movegroup`) lose nothing and leave no empty tile
  in either layer. The commands that choose among both
  layers are left out, for the reason given below.
* **reload** — two windows, the second of which may float, two workspaces and a tag. The
  configuration read at each start declares the tag, with a rule that opens the first window
  there, or drops it. `ReloadState` implements `Ownership`, which says of each tiled window
  that it is in the tree of its workspace after any restart; groups, the tab shown, the view
  and the floats of the viewed workspace come back. Two windows give a group, a group of which one
  tab has gone, an entry whose windows have all gone, an orphan beside a restored window and
  a float beside a tile. The number of reloads is not bounded. The tree commands are cut
  down to `sendtogroup`, which makes groups: what the others leave behind is a set of leaves
  again, which `trees_one_layer` covers.

* **config** — any eight lines of 34 kinds (every block and inner block, good and bad
  settings, includes, workspace lines, binds) in a file that begins with a numbered
  workspace, a second file and one that cannot be opened; two tag slots for three tags,
  includes two deep. Errors leave the parsers at the depth of the text; no file is read
  inside itself; tags keep their slots and binds reach theirs. Eight lines open an inner
  block, fail in it, skip nested braces and read on behind it. `CHECK_DEADLOCK FALSE`:
  reading ends.
* **session** — a batch that toggles an overlay and reloads, a second caller that quits, an
  edit, a SIGHUP and one unrelated event, each at any moment, with inotify or with times.
  No special command runs twice; the newest command is read; edits are loaded, events
  handled and requests to stop obeyed. One of each is enough for every pair to meet in every
  order. `CHECK_DEADLOCK FALSE`: the process may be gone.
* **monitors** — two outputs, alone or both in either order, or none that RandR knows, that
  change at any moment in a session with two windows and an overlay. No window, selection or
  stack stays on an output that is gone; the three client lists agree; an output that stays
  connected keeps its monitor, view, overlay and windows. Two addresses are enough: a monitor
  is made only while at most one exists.
* **keys** — two keys and a wheel, five entries (a cooldown, a second bind on the same key,
  one that does not repeat, a pointer bind, a mistake), two layouts that exchange symbols,
  three events under way. Cooldowns hold; the press of a free key is not swallowed; grabs
  follow the layout. The times are relative, so two ticks suffice for a cooldown of one.
* **arrangement** — a monitor of 30 by 24, two docks of three shapes (a panel without struts,
  an icon in a corner, and one that is too wide, away from its strut and larger than it), two
  styles (gaps and a group bar beside the window; no border and a banner), up to three cells
  in two layers, two requests that map, move or close docks. The default ratio and the one
  asked for are clamped to the largest, where rounding and gaps that do not fit leave least.
  Cells and windows do not overlap, docks that reserve their place are not covered, and the
  work area is left alone from the third quiet pass on. Two requests are needed: with one,
  two passes look like enough, because the dock that makes the third necessary is mapped
  while others already take more than half of the height. Lengths this small make every
  rounding and every gap that does not fit happen. The docks are interchangeable (no constant
  tells them apart), so `SYMMETRY` is sound for what the run checks: three invariants and an
  action property. `CHECK_DEADLOCK FALSE`: requests are bounded.

### A run that refutes what the repository says

* **monitors_unplug** — the teardown of a monitor says that ownership was released before.
  The clients have been moved, but `Client::leaf` of each still points into the trees that
  are freed (`monitor/monitor_lifecycle.cpp:110`), and the next focus or arrange reads them.

### Disagreements without a run

Met while modelling; each follows from the lines named, and the properties above are stated
so that they exclude it.

* Activation on another monitor: a comment (`dispatch/xcb_handlers.cpp:268`) says the
  workspace is revealed; it is shown on the selected monitor and the client stays hidden.
* FOCUSWINDOW, and `focusmonitor` with a default workspace, switch the workspace under an
  overlay that stays open (`actions/workspace.cpp:230` says it must close).
* `moveoutofgroup` on a group that is the whole tree of an overlay plants the window in the
  tree of the numbered workspace; the next pass drops it there.
* Entries of special workspaces are keyed by the place of the tag in the configuration:
  exchanging two declarations exchanges their windows (MUST-RELOAD-004). An open overlay is
  restored by a function that registers the tag when the configuration no longer does
  (MUST-RELOAD-005). A window floating on a workspace that is not viewed comes back on the
  viewed one (MUST-RELOAD-001).
* `sendmon` does not rearm the hook of a workspace it empties (`docs/config/workspaces.md:69`).
  Toggling the default scratchpad, whose tag is empty, focuses nothing (line 134 there).
  Selector rules beat id rules whichever comes later (the same page says later lines win),
  and their default, hook and persistence have no effect.
* A tab moved to another workspace takes the position it had in its old group into an
  unrelated leaf (`bsp/group_flow.cpp:19`).
* A strut that is shorter than its dock is not grown (`draw/bar.cpp:388` fills only missing
  axes), so tiles cover the rest of the dock. `client/client_lifecycle.cpp:209` says only
  normal clients are clamped to the work area, line 284 clamps docks: a panel without struts
  that is mapped later ends beside its own strip, and the area shrinks once more.
* No window is smaller than a bar is high (`geometry.cpp:94`): in narrower cells windows
  overlap.
* `xerror` (`zestwm.cpp:241`) exits on protocol errors that its comment says are logged.
* Of two commands in a batch zestwm may execute the second twice and the first never, while
  `zestctl` says ok to both; `zestctl movetoworkspace <ws> <window>` ignores whether the
  window became active (`zestctl/main.cpp:134`).
* A bind with `repeat=false` whose release is withheld would swallow the next press on the
  empty desktop, where no FocusIn comes; and since auto-repeat is a release and a press, such
  a bind repeats all the same. Pointer binds ignore the cooldown they are given.

### Properties that hold only under some configurations

* `InputIsVisible` — one monitor. A modal window mapped on a monitor that is
  not selected closes the overlay there without choosing a new selection.
* `FocusStaysInGroup` — excludes a step that hides an overlay with the closed tab.
* `HookRearmsExactly` — one monitor, because of `sendmon`, and without docks: one with a
  workspace rule leaves a workspace it was never counted in.
* `KeepsOwnership` — without window rules for numbered workspaces. A window that
  such a rule opens and that was moved to a special tag is claimed by neither tree.
* `GroupsSurvive` — the tab shown is compared only if nothing floats on a hidden workspace: a
  window that does is added to a group of the viewed workspace first and taken out later.
* `ViewSurvives` — the selection is compared without rules for special tags. The arrange pass
  for such a window, in the middle of the scan, overwrites the saved selection.
* `StopsWhenAsked` — unless a signal came between the test of `running` and `poll`: then the
  process stops at the next event (`missed`).
* `EditsReload` — of edits that the watch can see. One between `wmconf_load` and
  `wmconf_watch_init` is seen by neither.
* `ResumesAtDepth` — unless the error was in an inner block, at a brace, or an unknown block:
  `skip_block_body` starts to count at one whatever the depth.
* `OutputKeepsItsWorld` — while RandR names every output.
* `PressRuns` — with the focus on a client.
* `ReturnsToItsPlace` — visible clients only: the neighbour of a hidden one is not recorded.
* With an overlay open, `swapwindow`, `sendtogroup`, `movewindoworgroup` and drags choose
  among the windows of both layers. Exchanging two of them leaves each in the other's tree,
  and the arrange pass drops both. `EachTiledOnce` is therefore checked with these commands
  given while no overlay is open.

## Fairness and liveness

The handlers' modules state no fairness: a handler ends by itself and owes nothing to later
steps, and whether the next event comes is up to the user and the X clients.

`Session` does. Each step of zestwm itself is weakly fair (`Fairness`): the process is
scheduled, `poll` returns when a descriptor is readable and, where the code gives it a
limit, when that is over (`wmconf_watch_poll_timeout_ms` without inotify, the keyboard's
deadline), and `main` goes on after `run`. Nothing else is fair: nobody has to edit, signal,
call or cause an X error. Weak fairness is enough since no step of zestwm is disabled again
by others before it is taken, except that a signal takes `poll` back to the test, and
signals are bounded. Checked under it: `EditsReload`, `SocketDrains`, `StopsWhenAsked`.

## What is proved

Eight modules hold proofs, each for all values of the constants that satisfy the named
assumption of its component. A theorem that needs more says so in its statement. Every
safety and action property of `WorkspaceView`, `LayoutTrees`, `Monitors`, `ConfigFile`,
`Arrangement`, `KeyBinds` and (liveness apart) `Session` that a passing run checks is proved;
those of `ReloadState` are not.

`WorkspaceViewProofs` (`ConstantsAssumption`):

* `TypeCorrect`: `Spec => []TypeOK`
* `ListsAgree`: `Spec => []ClientLists` — focus stacks, `Client::mon` and `Monitor::sel`
  describe the same clients.
* `DragHoldsManagedClient`: `Spec => []DraggedIsManaged`

The inductive invariant is `IInv`: `Good(State)` (types and client lists), with
`dragged \in Maybe` and `DraggedIsManaged`. The three need one another: `SendMon` and
`EndDrag` unlink a client from the monitor it is on, which is a monitor only because the
dragged client is managed; and a stack stays free of duplicates only because a client that
is pushed is known to have been removed from every other. The proof follows the code. Each
helper has a lemma that it `Keeps` a good state (and leaves `mon` alone, unless it is one of
those that move clients), the lemmas about handlers compose them, and `NextPreserves` has a
step for each action. Under them are lemmas on sequences: pushing
to the front, removing the first occurrence, and what the newest member of a set in a stack
is.

`FocusProofs`, about the same component and from the same invariant:

* `KeyboardOnSelection`: `Spec => []InputIsSelection`, on any monitors. What a helper ends
  with is either `Points` (the invariant, of a state record) or `Focused` (what `focus`
  returned). Between `adopt_client` and `map_window` it is neither: the client may have been
  selected before it is mapped. `Pending` says of it that `map_window` will focus.
* `KeyboardOnVisible`, `KeyboardNeverDropped`: `InputIsVisible` and `KeyboardNotLost`, under
  `OneScreen`: one monitor, and no workspace with the empty tag, which a command can open and
  which then shows nothing. The inductive invariant is `Attended`: a selection is visible, and
  if nobody has the keyboard, all clients on screen are `Excused`. A selection that is visible
  is what makes the keyboard visible once it is on the selection.
* `OverlaysHideWithLastClient`: `Spec => OverlayHidesWithLastClient`, on any monitors.
* `HookArmedByLastClient`: `Spec => HookRearmsExactly`, on one monitor without docks.
* `TogglesReachOverlay`: `Spec => ToggleReachesOverlay`, without the empty tag.
* `SilentMovesKeepView`: `Spec => SilentMoveKeepsView`, on any monitors.
* `ActivationShowsClient`: `Spec => ActivationReveals`, on one monitor.
* `OverlayKeepsKeyboard`: `Spec => MapsUnderOverlayKeepFocus`, on one monitor.

The hypotheses are the conditions under which the properties hold at all (see above): the
second monitor, the docks and the empty tag are where the code departs from them. The first
two of these six are about who is where, and rest on one case analysis of `Next`,
`OneMoves`: in a step nobody moves, or one client arrives, is moved, leaves or is sent, and
each case says what happens to its overlay and its hook. `ActivationShowsClient` needs
`Housed` besides, an invariant too: who is managed is on some workspace, so that showing that
workspace shows the client.

`LayoutTreesProofs` (`TreeConstants`), for any clients, workspaces, tags and settings, with
groups and trees of any size:

* `TreesAreSound`: `Spec => []TreeInv`
* `WindowsAreTiledOnce`: `Spec => []EachTiledOnce`
* `GroupsKeepTheirIndices`: `Spec => []TabIndices`
* `TilesAreFilled`: `Spec => []NoEmptyTile`
* `FocusStaysAmongTabs`: `Spec => FocusStaysInGroup`
* `WindowsReturn`: `Spec => []ReturnsToItsPlace`

All six need `OverlayKeepsToItsTree`: with an overlay open, of the tree commands only
`groupmode` and `movegroup` are given. The others choose among the windows of both layers and
leave a window in the wrong tree (see above), so that without the hypothesis the properties
are false; with no overlay open every command is allowed. It is what the configuration of
`trees_overlay` says.

The inductive invariant `TreeInv` is `Sound(State)`. `Settled`: the trees are a `Forest`
(leaves of one tree share no tab, and the tabs of the tree of `w` are the tileable clients of
`w`), and each leaf is one of `Leaves` (no tab twice, indices of tabs). `NoGaps`: an empty
leaf is a root, and on no workspace that is shown. `Homed`: a floating client is on a
workspace, so that `Unfloat` has a tree to go to. `SelShown`: the selection is on screen,
without which a command would act on a tree that the arrange pass is not going to tidy.
`EachTiledOnce` alone does not carry the steps: a tab that is removed shifts the indices of
the others, and a leaf that becomes empty must be gone before the workspace is looked at.

The proof is in layers, as the code is. Lemmas on sequences without repetition (insertion,
removal, a block that is moved) give what each operator does to a leaf; those on leaves give
what `RemoveClient`, `AddClient`, `Attach`, `Plant` and the merge of two groups do to a forest
that holds some set of clients (`Grown(s, In)`), since between two calls of a handler the
forest holds one client more or less than it should; and `ArrangeKeeps` says that a pass over
a forest that is settled and `Tidy` ends with `NoGaps`. Each action then has a lemma that its
state is `Basis`, or `Tidy`, before the pass and the `focus` it ends with (`Lands`). Two
definitions of the model are closed forms of loops in the code: `Only(q, S)`, the members of
`q` in `S`, in order, is what `sanitize_tree_for_clients` leaves of a leaf, and the tabs of a
group that is merged go in as one block. `WindowsReturn` follows one client out and back:
`RemoveClientIs` says which leaf it left and which hint was written, `AddedBeside` and
`AddedBack` what `AddClient` makes of the hint, and `TabPutBack` that removing a tab and
inserting it at its slot is the identity on the group.

`MonitorsProofs` (`MonitorsAssumption` too), across any sequence of outputs:

* `WindowsHaveMonitors`: `MonitorsSpec => []HomesLive`
* `ListsAgreeAcrossOutputs`: `MonitorsSpec => []ClientLists`
* `KeyboardSurvivesOutputs`: `MonitorsSpec => []InputIsSelection`

The inductive invariant `MonitorsInv` is `IInv`, with `owners` a list without repetition and
`Lives(State, Living)`: the selected monitor and those of the clients exist. Repetition
matters because a monitor that two outputs shared would be torn down with one of them. The
handlers keep it because they reach monitors only through `selmon` and through clients; so
the lemmas of `WorkspaceViewProofs` are joined by one for each helper about a set `L` of
monitors that it does not leave. In
`Topology` the stacks of the monitors that stay are joined with those of the clients that
arrive, which are other clients (`Joined`, `RehomedGood`). The keyboard follows as in
`FocusProofs`, whose lemmas apply to the `focus` that ends it.

* `OutputsKeepTheirWorld`: `MonitorsSpec => OutputKeepsItsWorld`. It needs `NamesDiffer`, an
  invariant as well: no two monitors have the same name (RandR gives no name twice). So the
  monitor of an output that stays is the only candidate with its name, and no other output
  can have taken it before: it has another name, and a monitor with a name is no substitute.

`ConfigFileProofs` (`RegistryConstants`, `ConfigConstants`), for any files that include each
other in any way, any lines and limits:

* `LoaderTyped`: `Spec => []ConfigTyped`
* `NoFileInsideItself`: `Spec => []CycleGuard`
* `SkipsToTheEnd`: `Spec => []ResumesAtDepth`
* `SlotsNeverMove`: `Spec => SlotsStay`
* `BindsReachTheirTag`: `BindOpensItsTag` of files that begin with a numbered workspace

The inductive invariant `ConfigInv` has `ReadingInv` for the parsers and `ResultsInv` for
what they fill. `CycleGuard` alone is not inductive, because a missing file is pushed on
`include_stack` and never popped: the stack is that of the frames only while nothing is
missing. `StackInOrder` covers the rest of the states: no file is on the stack twice, and the
frames are on it in their order, with others between them. `DepthKept` holds for every frame
that waits, since the depth after an include is the depth before it. `BindsReachTheirTag` is
`Registered` for the tags of all binds, with `SlotsNeverMove`; and a registry that a numbered
workspace came first in is known by its not being empty after the first line, which is read
outside blocks (`FirstOutsideBlocks`).

`KeyBindsProofs` (`KeyBindsAssumption`), for any keyboard, layouts, entries and events:

* `BindsTyped`: `Spec => []KeyBindsTyped`
* `GrabsFollow`: `Spec => []GrabsFollowLayout`
* `CooldownsHold`: `Spec => CooldownHolds`
* `FreshPressesRun`: `Spec => PressRuns`

`GrabsFollowLayout` is inductive given types. `CooldownHolds` needs `CooldownsCounted`: when
a bind that ran will be ready again. `PressRuns` is about the queue. `Held` says which keys
zestwm takes to be held when it has handled the first n events that wait; `FreshStays`, that
no fresh press comes upon its own key held; and `HeldIsDown`, that a key which will be taken
to be held while a client has the focus is down under a grab, so that its release or a
FocusIn is still to come. The last is what excludes a press that the server sends while a
release it withheld is forgotten. The events are a sequence, and so the proof has a lemma for
each way in which the queue changes (the head goes, one or two are appended).

`SessionProofs` (`SessionConstants`), for any number of callers, scripts, edits, signals and
events:

* `SessionTyped`: `Spec => []SessionTypeOK`
* `NewestCommandIsRead`: `Spec => []NewestRuns`. Inductive with `Unread`: the command
  property is set and a notification waits as long as `fresh` holds.
* `TargetsServedOnce`: `Spec => []TargetOnce`. The invariant is `Once`: targets are served
  once, each served target is `Spent` (its caller has gone past it or has set it), and
  neither the target on the root window nor the one that has been read but not deleted has
  been served. The last part is what makes it inductive: reading and deleting are two steps,
  and a caller may set its own target between them.

`ArrangementProofs` (`ArrangementConstants`), for any monitor, docks, gaps and ratios and
any nesting of splits:

* `TilesStayApart`: `Spec => []TilesApart`. The invariant `Inductive` adds to it types and
  `Numbered`: the numbers of nodes stay below `made`, so that a node that is split is not
  mistaken for its parts. The arithmetic (`ShareBounded`, `CutBounded`) says that two parts
  and the gap between them make up the length they are cut from.
* `WindowsStayApart`: `Spec => []WindowsApart`, from what `Fit` returns for a roomy cell.
* `AreaStays`: `Spec => AreaSettles`, and `DocksStayUncovered`: `Spec => []DocksUncovered`.
  The invariant `Calm` says what each pass has done since a dock changed. The first makes
  every dock as high and as wide as a bar; from then on `arrange_docks` puts a dock where it
  will leave it (`SnappedTwice`), so after the second no dock moves, and the third takes the
  work area from docks that stay (`SameAreas`). Then a dock reserves all that it takes of its
  side (`ReserveCovers`) and the area starts beyond it (`CalmUncovers`). The proof corrected
  both properties. It takes three passes, not two: a dock with a strut that is mapped where
  docks and the banner take more than half of the height is clamped past the middle and is
  counted on the other side for one pass. And an area that is smaller than its outer gaps is
  moved by them on to the docks.

Model-checked only:

* `ReloadState`, with its refinement of `Ownership`. A restart folds the adoption of a client,
  and then the restoration of an entry, over the client list: a recursive definition over
  sets of states, and what it computes for every list would need induction over data.
* The liveness of `Session`: fairness and ENABLED are beyond the prover.

## Not modelled

* Runtime dispatcher: at this commit nothing beneath a dispatched event or command
  dispatches again, so its queues stay empty and a model would check an empty queue.
* Restacking, borders, size hints of applications, the geometry of floating windows, layout
  rules, the dim window, what is drawn in the bars: they decide pixels that no property is
  about.
* Values of settings, variables and window-rule matching: text to values, without state.
* Autostart and the clean-up of spawned processes: process input and output.
* The X11 wrappers: the models use what the handlers ask of them. If the connection breaks,
  `run` never looks at the error; the model has a living server.
* Queries of `zestctl`: they read.
* Workspace selectors: what the code uses of them is layout and gaps.
* Reload with several monitors, and rectangles, bars and monitor rules in `Monitors`.

## Plan

1. `LayoutTrees`: the history of a group of four tabs. `lt_grouped_remove` does not shift the
   active index when an earlier tab goes, and the `focus` that repairs the display
   overwrites the tab `focus_removed_window = history` returns to.
2. `ReloadState` with monitors: keys by output name, rehoming at restore.
3. Composition of `LayoutTrees` with `WorkspaceView`, the tab focused after a removal being
   the one the trees choose, and with `Arrangement`, whose splits are then those of a tree.
4. Proofs: the steps of `ReloadState` other than `Restart`
   as steps of `Ownership`, from `TreeInv`; what one `Rejoined` does to a forest.
