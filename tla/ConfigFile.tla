----------------------------- MODULE ConfigFile -----------------------------
(***************************************************************************)
(* Loading the configuration (wmconf_load in src/config/runtime.cpp and    *)
(* the parsers in src/config/parse/): the main file and the files it       *)
(* includes are read line by line, blocks are handed to their parsers, and *)
(* a parser that meets a line it refuses throws to the loop that reads     *)
(* top-level lines, which skips to the end of the block and goes on.       *)
(*                                                                         *)
(* A file is the lines it turns out to consist of: each step reads one     *)
(* line of Wordings, so every text made of them is covered.  A line is     *)
(* kept as what the parsers ask about it.  The values of settings,         *)
(* variables, the wording of errors and the rules of workspaces are left   *)
(* out; a value is only well-formed or not.                                *)
(***************************************************************************)
EXTENDS WorkspaceRegistry

CONSTANTS
    Files,          \* configuration files, by canonical path
    Main,           \* the one that is loaded
    Unreadable,     \* paths that cannot be opened
    MaxDepth,       \* kMaxSourceDepth (32)
    MaxLines,       \* bound: lines read in all
    Wordings,       \* lines that files are made of
    NumberedFirst   \* the main file begins with a numbered workspace

Blocks == {"misc", "dwindle", "general", "group", "input", "device", "window-rule", "binds"}
Inner == {"snap", "groupbar", "touchpad"}
Scopes == Blocks \cup Inner

\* What the keys of group and of its inner block take; colours and fonts are any text.
GroupTyped ==
    [group |-> {"auto_group", "insert_after_current", "focus_removed_window",
                "drag_into_group", "drag_out_of_group", "merge_groups_on_drag"},
     groupbar |-> {"enabled", "render_titles", "indicator_height", "indicator_gap",
                   "position", "font_size"}]

\* Keys whose value is parsed and may be refused, and keys that take any text.
Typed == GroupTyped @@
    [misc |-> {"focus_on_activate", "mouse_move_focuses_monitor"},
     dwindle |-> {"preserve_split", "force_split", "use_active_for_splits",
                  "default_split_ratio", "split_width_multiplier"},
     general |-> {"border_size", "gaps_in", "resize_hints", "layout"},
     snap |-> {"enabled", "window_gap", "monitor_gap"},
     input |-> {"repeat_rate", "repeat_delay", "follow_mouse", "sensitivity"},
     touchpad |-> {"natural_scroll"},
     device |-> {"name", "sensitivity", "repeat_rate", "repeat_delay"}]

RuleKeys == {"open-floating", "open-focused", "open-fullscreen", "open-maximized",
             "size", "move", "center", "open-on-output"}

Text ==
    [misc |-> {"font_family", "background_color"},
     input |-> {"kb_layout", "kb_variant", "kb_model", "kb_options", "kb_rules"}]

Keys == UNION {Typed[s] : s \in DOMAIN Typed} \cup UNION {Text[s] : s \in DOMAIN Text}
            \cup RuleKeys \cup {"col.active_border", "borderpx", "other"}

\* The lines of a file: `b {`, `}`, `key = value`, a line without `=`, `source = f`,
\* `workspace = ref, rest`, `match key=value`, `open-on-workspace = ref`, and a bind
\* `hotkey props { action args; }`, for which early says that hotkey, properties and
\* action are fine and key that the key has a meaning.
Line ==
    [is : {"open"}, block : Scopes \cup {"other"}]
    \cup [is : {"close", "bare"}]
    \cup [is : {"set"}, key : Keys, ok : BOOLEAN]
    \cup [is : {"source"}, file : Files]
    \cup [is : {"workspace"}, ref : Refs, rest : Seq(Names)]
    \cup [is : {"match"}, ok : BOOLEAN]
    \cup [is : {"target"}, ref : Refs]
    \cup [is : {"bind"}, early : BOOLEAN, action : {"workspace"}, ref : Refs, key : BOOLEAN]
    \cup [is : {"bind"}, early : BOOLEAN, action : {"setlayout"}, index : Nat, key : BOOLEAN]

ASSUME ConfigConstants ==
    /\ Main \in Files /\ Unreadable \subseteq Files
    /\ MaxDepth \in Nat /\ MaxLines \in Nat
    /\ Wordings \subseteq Line
    /\ NumberedFirst \in BOOLEAN

VARIABLES
    frames,     \* the files being read, the innermost last
    includes,   \* include_stack
    loaded,     \* the files tried, which are watched afterwards
    lines,      \* lines read
    reg,        \* the registries
    binds,      \* what the binds accepted so far keep of their argument
    layouts,    \* how many entries g_config.layouts has
    unbalanced, \* history: a refused line or an unknown block has left a brace to pair
    done        \* wmconf_load has returned

vars == <<frames, includes, loaded, lines, reg, binds, layouts, unbalanced, done>>

\* A file being read: the blocks its parsers are in, the depth that skip_block_body
\* counts (0 when it does not run), and whether the device block being read has a name
\* or the rule a match.  braces is history: the blocks open in the text itself.
Frame == [file : Files, scopes : Seq(Scopes), skip : Nat, entry : BOOLEAN, braces : Nat]

NewFrame(f) == [file |-> f, scopes |-> <<>>, skip |-> 0, entry |-> FALSE, braces |-> 0]

Top == Last(frames)

\* The depth the parsers believe to be at.
Believed(fr) == IF fr.skip > 0 THEN fr.skip ELSE Len(fr.scopes)

\* The blocks open in the text after line l; a bind's braces pair within its line.
Braces(fr, l) ==
    CASE l.is = "open" -> fr.braces + 1
      [] l.is = "close" /\ fr.braces > 0 -> fr.braces - 1
      [] OTHER -> fr.braces

SetTop(fr) == frames' = [frames EXCEPT ![Len(frames)] = fr]

Init ==
    /\ frames = IF Main \in Unreadable THEN <<>> ELSE <<NewFrame(Main)>>
    /\ includes = <<Main>>
    /\ loaded = {Main}
    /\ lines = 0
    /\ reg = EmptyRegistry
    /\ binds = {}
    /\ layouts = 0
    /\ unbalanced = FALSE
    /\ done = FALSE

-----------------------------------------------------------------------------
(* Lines at the top level.                                                 *)

\* parse_config_file for a file that line l of the innermost one includes.  One that is
\* too deep or already on the stack is refused; one that cannot be opened stays on it.
Include(f) ==
    IF Len(frames) > MaxDepth \/ f \in ToSet(includes)
    THEN UNCHANGED <<frames, includes, loaded>>
    ELSE /\ includes' = Append(includes, f)
         /\ loaded' = loaded \cup {f}
         /\ frames' = IF f \in Unreadable THEN frames ELSE Append(frames, NewFrame(f))

\* A line of parse_config_stream outside blocks; a line it refuses has no effect.
TopLine(l) ==
    LET opens == l.is = "open" /\ l.block \in Blocks
        refused == l.is = "open" /\ l.block \notin Blocks
    IN  /\ Top.skip = 0 /\ Top.scopes = <<>>
        /\ IF l.is = "source" THEN Include(l.file)
           ELSE /\ SetTop([Top EXCEPT !.scopes = IF opens THEN <<l.block>> ELSE @,
                                      !.entry = FALSE, !.braces = Braces(Top, l)])
                /\ UNCHANGED <<includes, loaded>>
        /\ reg' = IF l.is = "workspace" THEN WorkspaceLine(reg, l.ref, l.rest) ELSE reg
        /\ layouts' = IF l.is = "set" /\ l.key = "layout" /\ l.ok THEN layouts + 1 ELSE layouts
        /\ unbalanced' = (unbalanced \/ refused)
        /\ UNCHANGED binds

-----------------------------------------------------------------------------
(* Lines in a block.                                                       *)

\* A setting that a block with a fixed set of keys takes.
Knows(s, l) ==
    /\ l.is = "set"
    /\ \/ s \in DOMAIN Text /\ l.key \in Text[s]
       \/ l.key \in Typed[s] /\ l.ok

\* A line that general, group and what they contain accept: they warn of keys that they
\* do not know.
Tolerates(s, l) ==
    \/ l.is \in {"source", "workspace", "match", "target"}
    \/ l.is = "set" /\ (l.key \in Typed[s] => l.ok)

\* A line that parse_window_rule_block accepts.
FitsRule(l) ==
    \/ l.is = "set" /\ l.key \in RuleKeys /\ l.ok
    \/ l.is = "match" /\ l.ok
    \/ l.is = "target" /\ BindTarget(reg, l.ref).ok

\* The inner blocks that a block may open, here.
Opens(scopes, l) ==
    /\ l.is = "open"
    /\ <<scopes, l.block>> \in {<<<<"general">>, "snap">>, <<<<"group">>, "groupbar">>,
                                <<<<"input">>, "touchpad">>, <<<<"input">>, "device">>}

\* Whether a `}` ends the innermost block in good order.
Closes(fr) == Last(fr.scopes) \in {"device", "window-rule"} => fr.entry

\* Whether the parser that is at work takes line l.
Accepts(fr, l) ==
    LET s == Last(fr.scopes) IN
    CASE l.is = "close" -> Closes(fr)
      [] Opens(fr.scopes, l) -> TRUE
      [] OTHER -> CASE s \in {"general", "snap", "group", "groupbar"} -> Tolerates(s, l)
                    [] s = "window-rule" -> FitsRule(l)
                    [] OTHER -> Knows(s, l)

\* The blocks the parser is in after a line it takes.
Entered(fr, l) ==
    CASE l.is = "close" -> Front(fr.scopes)
      [] l.is = "open" -> Append(fr.scopes, l.block)
      [] OTHER -> fr.scopes

\* The handler of the top-level loop after an error in a block: skip_block_body starts
\* at depth 1, whatever the depth of the line.
Skipping(fr, l) ==
    [fr EXCEPT !.scopes = <<>>, !.skip = 1, !.braces = Braces(fr, l)]

\* A line for the parser of a block that throws at what it refuses.  A rule that names
\* a special tag registers it, whether or not the rule is complete in the end.
BlockLine(l) ==
    /\ Top.skip = 0 /\ Top.scopes # <<>> /\ Head(Top.scopes) # "binds"
    /\ IF Accepts(Top, l)
       THEN /\ SetTop([Top EXCEPT !.scopes = Entered(Top, l), !.braces = Braces(Top, l),
                                  !.entry = CASE l.is \in {"open", "close"} -> FALSE
                                              [] l.is = "match" -> TRUE
                                              [] l.is = "set" /\ l.key = "name" -> TRUE
                                              [] OTHER -> @])
            /\ UNCHANGED unbalanced
       ELSE /\ SetTop(Skipping(Top, l))
            /\ unbalanced' = (unbalanced \/ Braces(Top, l) # 1)
    /\ reg' = IF Last(Top.scopes) = "window-rule" /\ l.is = "target"
                 /\ l.ref.to = "special"
              THEN EnsureTag(reg, l.ref.tag) ELSE reg
    /\ UNCHANGED <<includes, loaded, binds, layouts>>

\* parse_niri_bind_entry: hotkey, properties and action are checked before the argument
\* is parsed, and the key after it.
BindEntry(l) ==
    CASE ~l.early -> UNCHANGED <<reg, binds>>
      [] l.action = "setlayout" ->
           /\ binds' = IF l.index < layouts /\ l.key
                       THEN binds \cup {[to |-> "layout", index |-> l.index]} ELSE binds
           /\ UNCHANGED reg
      [] OTHER ->
           LET target == BindTarget(reg, l.ref)
           IN  /\ reg' = target.reg
               /\ binds' = IF target.ok /\ l.key THEN binds \cup {target.keeps} ELSE binds

\* A line in a binds block, which never throws.  Only `binds {` counts as an opening
\* brace there; other lines it does not understand are passed over.
BindsLine(l) ==
    /\ Top.skip = 0 /\ Top.scopes # <<>> /\ Head(Top.scopes) = "binds"
    /\ LET nests == l.is = "open" /\ l.block = "binds"
       IN  /\ SetTop([Top EXCEPT !.scopes = IF nests THEN Append(@, "binds")
                                            ELSE IF l.is = "close" THEN Front(@) ELSE @,
                                 !.braces = Braces(Top, l)])
           /\ unbalanced' = (unbalanced \/ (l.is = "open" /\ ~nests))
    /\ IF l.is = "bind" /\ Len(Top.scopes) = 1 THEN BindEntry(l)
       ELSE UNCHANGED <<reg, binds>>
    /\ UNCHANGED <<includes, loaded, layouts>>

\* Mutation: opening braces are not counted.
SkipLine_Flat(l) ==
    /\ Top.skip > 0
    /\ SetTop([Top EXCEPT !.skip = IF l.is = "close" THEN @ - 1 ELSE @,
                          !.braces = Braces(Top, l)])
    /\ UNCHANGED <<includes, loaded, reg, binds, layouts, unbalanced>>

\* A line that skip_block_body passes over.
SkipLine(l) ==
    /\ Top.skip > 0
    /\ SetTop([Top EXCEPT !.skip = CASE l.is = "open" -> @ + 1
                                     [] l.is = "close" -> @ - 1
                                     [] OTHER -> @,
                          !.braces = Braces(Top, l)])
    /\ UNCHANGED <<includes, loaded, reg, binds, layouts, unbalanced>>

-----------------------------------------------------------------------------

ReadLine(l) ==
    /\ frames # <<>> /\ lines < MaxLines
    /\ lines = 0 /\ NumberedFirst => l.is = "workspace" /\ l.ref.to = "id"
    /\ lines' = lines + 1
    /\ TopLine(l) \/ BlockLine(l) \/ BindsLine(l) \/ SkipLine(l)
    /\ UNCHANGED done

\* Mutation: the entry of a file that ends stays on the stack.
EndOfFile_Keeps ==
    /\ frames # <<>>
    /\ NumberedFirst => lines > 0
    /\ frames' = Front(frames)
    /\ UNCHANGED <<includes, loaded, lines, reg, binds, layouts, unbalanced, done>>

\* The innermost file ends, in whatever block, and the last entry of the stack goes.
EndOfFile ==
    /\ frames # <<>>
    /\ NumberedFirst => lines > 0
    /\ frames' = Front(frames)
    /\ includes' = Front(includes)
    /\ UNCHANGED <<loaded, lines, reg, binds, layouts, unbalanced, done>>

\* The end of wmconf_load: layouts and a workspace for a file that names none.
Finish ==
    /\ frames = <<>> /\ ~done
    /\ done' = TRUE
    /\ layouts' = IF layouts < 2 THEN 2 ELSE layouts
    /\ reg' = IF Size(reg) = 0 THEN EnsureId(reg, 1) ELSE reg
    /\ UNCHANGED <<frames, includes, loaded, lines, binds, unbalanced>>

Next == (\E l \in Wordings : ReadLine(l)) \/ EndOfFile \/ Finish

Spec == Init /\ [][Next]_vars

-----------------------------------------------------------------------------
(* Properties.                                                             *)

\* After any mixture of errors the parsers are at the depth at which the text is, in
\* every file that is being read, unless an error came in an inner block, at a brace or
\* at an unknown block (skip_block_body, src/config/parse/core.cpp:162).
ResumesAtDepth == ~unbalanced => \A i \in DOMAIN frames : Believed(frames[i]) = frames[i].braces

\* The check for cycles works although entries of files that could not be opened stay on
\* the stack and the end of a file removes the last entry, not its own: no file is read
\* while it is being read, and the stack is the files being read when nothing was
\* missing (parse_config_file).
CycleGuard ==
    /\ \A i, j \in DOMAIN frames : frames[i].file = frames[j].file => i = j
    /\ loaded \cap Unreadable = {} => includes = [i \in DOMAIN frames |-> frames[i].file]

\* Once a file has begun with a numbered workspace, a tag keeps its slot: hidden ids that
\* binds and rules have taken stay valid (special_workspace_registry_ensure_tag,
\* workspace_registry_ensure_id).
SlotsStay == [][NumberedFirst => IsPrefix(reg.tags, reg'.tags)]_vars

\* A bind for a special workspace reaches the tag it was written with
\* (workspace_normalize_special_ref_with_hidden_id).
BindOpensItsTag ==
    \A b \in binds : b.to = "special" => Normalized(reg, b.tag, b.slot) = b.tag
=============================================================================
