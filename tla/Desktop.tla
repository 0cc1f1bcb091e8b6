------------------------------ MODULE Desktop ------------------------------
(***************************************************************************)
(* The applications that share the file system: the file manager, the      *)
(* terminal and the text editors (src/gui/apps).  All run on the wm        *)
(* thread, one callback at a time, but each keeps entry numbers from one   *)
(* callback to the next -- its current folder, a listing, the rows of a    *)
(* tree, the item to rename, the file to save to -- while the others       *)
(* delete the entries and use them again.                                  *)
(*                                                                         *)
(* An action is what a click or a key does, up to the callback's return;   *)
(* a press and its release are one.  The menu that leads to a command,     *)
(* scrolling, and the order of rows are left out; a listing is the set of  *)
(* its entries, and clicks, with and without Shift and Ctrl, select any    *)
(* set of them.                                                            *)
(***************************************************************************)
EXTENDS TreeCopy

CONSTANTS
  Editors,      \* the windows that the text editor can have
  Paths,        \* the paths typed in the terminal
  Starts        \* what the boot may have mounted, the applications that a
                \* session uses, and the number of changes that they make

ASSUME DesktopAssumption ==
  /\ Editors # {}
  /\ \A start \in Starts :
       /\ start.session \subseteq {"file_manager", "text_editor", "terminal"}
       /\ InOrder(start.fs)
       /\ start.changes \in Nat

VARIABLES
  fs,         \* what fs.c keeps
  fm,         \* file_manager_state_t
  cwd,        \* the cwd of terminal_state_t
  ed,         \* ed[e]: text_editor_state_t
  handed,     \* g_pending_file_id, g_pending_parent
  session,    \* the applications in use
  stale,      \* ghost: what the file manager holds that others have changed since
  asked,      \* ghost: the items selected when the question was put
  touched,    \* ghost: the editors whose file another application has changed since
  left        \* the bound: how many changes may still be made

ghosts == <<stale, asked, touched, left>>
vars == <<fs, fm, cwd, ed, handed, session, ghosts>>

BadName == "?"    \* what fs_create and fs_rename refuse

Typed == Names \cup {BadName}

Untitled == -1

NoTarget == [file |-> Untitled, parent |-> FS_ROOT]

\* An editor without a window.
Closed == [open |-> FALSE, file |-> Untitled, parent |-> FS_ROOT, text |-> "",
           dirty |-> FALSE, naming |-> FALSE]

-----------------------------------------------------------------------------
(* What the file manager shows. *)

ChildFolders(tb, p) == {i \in Children(tb, p) : IsFolder(tb, i)}

\* The folders that treeview_walk reaches: all their ancestors are expanded.
Reached(tb, expanded) ==
  {i \in Ids : IsFolder(tb, i) /\ \A k \in 1 .. FS_MAX_ENTRIES : Up(tb, i)[k] \in expanded \cup {FS_ROOT}}

\* The folder that the walk reaches last: no sibling of it, or of a folder above
\* it, comes later in the table.
ReachedLast(tb) ==
  {i \in Ids : /\ Children(tb, i) = {}
               /\ \A k \in 1 .. FS_MAX_ENTRIES :
                    Up(tb, i)[k - 1] # FS_ROOT
                      => \A j \in Children(tb, Up(tb, i)[k]) : j <= Up(tb, i)[k - 1]}

\* TREEVIEW_MAX_ROWS is FS_MAX_ENTRIES, and the root's row is one of them: if
\* every entry is a folder and reached, the last one finds no place.
TreeRows(tb, expanded) ==
  {FS_ROOT} \cup (Reached(tb, expanded)
                  \ IF Reached(tb, expanded) = Ids THEN ReachedLast(tb) ELSE {})

\* treeview_rebuild
Rebuilt(f, tb) ==
  LET rows == TreeRows(tb, f.expanded)
  IN  [f EXCEPT !.rows = rows, !.parents = {r \in rows : ChildFolders(tb, r) # {}}]

\* fm_refresh_list
Listed(f, tb) == [f EXCEPT !.list = Children(tb, f.cwd), !.sel = {}]

Refreshed_ListOnly(f, tb) == Listed(f, tb)

\* fm_refresh_all
Refreshed(f, tb) == Listed(Rebuilt(f, tb), tb)

\* file_manager_on_init
Opened(tb) ==
  Refreshed([cwd |-> FS_ROOT, list |-> {}, sel |-> {}, rows |-> {}, parents |-> {},
             expanded |-> {}, prompt |-> "none", target |-> -1, confirm |-> FALSE,
             pending |-> "none"], tb)

-----------------------------------------------------------------------------
(* How a change by one application concerns the others. *)

\* The editors whose file is not what it was.
Disturbed(fs2) ==
  {e \in Editors : /\ ed[e].open /\ ed[e].file \in Ids
                   /\ \/ fs2.text[ed[e].file] # fs.text[ed[e].file]
                      \/ ~IsFile(fs2.table, ed[e].file)}

Counted(fs2) ==
  /\ fs' = fs2
  /\ fs2 = fs \/ left > 0
  /\ left' = IF fs2 = fs THEN left ELSE left - 1

\* A change that the file manager has not seen.
Behind(fs2) ==
  stale' = IF fs2.table = fs.table THEN stale
           ELSE stale \cup {"list", "tree"} \cup
                (IF ParentOk(fs2.table, fm.cwd) THEN {} ELSE {"cwd"})

ByTerminal(fs2) ==
  /\ Counted(fs2) /\ Behind(fs2)
  /\ touched' = touched \cup Disturbed(fs2)
  /\ UNCHANGED <<fm, ed, handed, asked>>

\* The file manager changes the file system and refreshes what it shows.
ByFileManager(f, fs2) ==
  /\ Counted(fs2)
  /\ fm' = Refreshed(f, fs2.table)
  /\ stale' = stale \ {"list", "tree"}
  /\ touched' = touched \cup Disturbed(fs2)
  /\ UNCHANGED <<cwd, ed, handed>>

-----------------------------------------------------------------------------
(* The file manager.  on_mouse_down does nothing else while a question or   *)
(* a prompt is open, and on_key_down nothing when none is.                  *)

Modal == fm.confirm \/ fm.prompt # "none"

OnlyFm == UNCHANGED <<fs, cwd, ed, handed, touched, left>>

FmSelect_Always(S) ==
  /\ S \subseteq fm.list
  /\ fm' = [fm EXCEPT !.sel = S]
  /\ OnlyFm /\ UNCHANGED <<stale, asked>>

\* Clicks on rows of the list.
FmSelect(S) ==
  /\ ~Modal
  /\ S \subseteq fm.list
  /\ fm' = [fm EXCEPT !.sel = S]
  /\ OnlyFm /\ UNCHANGED <<stale, asked>>

\* fm_open_selected_or_navigate on a folder: a double click in the list.
FmEnter(i) ==
  /\ ~Modal
  /\ i \in fm.list /\ IsFolder(fs.table, i)
  /\ fm' = Listed([fm EXCEPT !.cwd = i], fs.table)
  /\ stale' = stale \ {"list", "cwd"}
  /\ OnlyFm /\ UNCHANGED asked

\* A click on a row of the tree, which is not looked up again.
FmGoTo(r) ==
  /\ ~Modal
  /\ r \in fm.rows /\ fm.pending = "none"
  /\ fm' = Listed([fm EXCEPT !.cwd = r], fs.table)
  /\ stale' = (stale \ {"list", "cwd"})
                \cup (IF "tree" \in stale /\ ~ParentOk(fs.table, r) THEN {"cwd"} ELSE {})
  /\ OnlyFm /\ UNCHANGED asked

\* treeview_toggle_expand, from the row's sign or the menu.
FmToggle(r) ==
  /\ ~Modal
  /\ r \in fm.rows \ {FS_ROOT}
  /\ r \in fm.parents \/ r = fm.cwd
  /\ fm' = Rebuilt([fm EXCEPT !.expanded = (@ \ {r}) \cup ({r} \ @)], fs.table)
  /\ stale' = stale \ {"tree"}
  /\ OnlyFm /\ UNCHANGED asked

\* The commands that only set the state: FM_CMD_NEW_*, RENAME, *_TO.
FmCommand(f) ==
  /\ ~Modal
  /\ fm' = f
  /\ OnlyFm /\ UNCHANGED <<stale, asked>>

FmNew(kind) == FmCommand([fm EXCEPT !.prompt = kind])

FmRename(i) ==
  /\ fm.sel = {i} /\ fs.table[i].used
  /\ FmCommand([fm EXCEPT !.prompt = "rename", !.target = i])

FmTransfer(kind) == fm.sel # {} /\ FmCommand([fm EXCEPT !.pending = kind])

\* The commands that sort: the listing is read again.
FmSort ==
  /\ ~Modal
  /\ fm' = Listed(fm, fs.table)
  /\ stale' = stale \ {"list"}
  /\ OnlyFm /\ UNCHANGED asked

\* fm_delete_selected: each in the order of the list, failures are counted only.
AllDeleted(S) == Each([i \in S |-> [f \in FileSystems |-> FsDelete(f, i).fs]], fs)

DeleteSelected(f) == ByFileManager(f, AllDeleted(f.sel))

\* FM_CMD_DELETE, with confirmations_enabled and without.
FmDelete ==
  /\ ~Modal
  /\ fm.sel # {}
  /\ \/ /\ fm' = [fm EXCEPT !.confirm = TRUE]
        /\ asked' = fm.sel
        /\ OnlyFm /\ UNCHANGED stale
     \/ DeleteSelected(fm) /\ UNCHANGED asked

\* confirm_mouse_down and confirm_key_down, and fm_apply_confirm.
FmAnswer(yes) ==
  /\ fm.confirm
  /\ asked' = {}
  /\ LET f == [fm EXCEPT !.confirm = FALSE]
     IN  IF yes THEN DeleteSelected(f)
         ELSE fm' = f /\ OnlyFm /\ UNCHANGED stale

\* Enter in the prompt: fm_commit_prompt.
FmCommit(n) ==
  /\ ~fm.confirm /\ fm.prompt # "none"
  /\ LET made == IF fm.prompt = "rename" THEN FsRename(fs, fm.target, n)
                 ELSE FsCreate(fs, fm.cwd, n, fm.prompt)
     IN  ByFileManager([fm EXCEPT !.prompt = "none", !.target = -1], made.fs)
  /\ UNCHANGED asked

FmEscape ==
  /\ ~fm.confirm /\ fm.prompt # "none"
  /\ fm' = [fm EXCEPT !.prompt = "none", !.target = -1]
  /\ OnlyFm /\ UNCHANGED <<stale, asked>>

\* fm_transfer_selected
Transferred(S, dest, copying) ==
  Each([i \in S |-> [f \in FileSystems |->
          IF copying THEN FsCopyTo(f, i, dest).fs ELSE FsMove(f, i, dest).fs]], fs)

\* A click on a row of the tree that names the destination.
FmDestination(r) ==
  /\ ~Modal
  /\ r \in fm.rows /\ fm.pending # "none"
  /\ ByFileManager([fm EXCEPT !.pending = "none"], Transferred(fm.sel, r, fm.pending = "copy"))
  /\ UNCHANGED asked

\* on_mouse_up: a drag that ends on row r of the tree, with Ctrl or without.
\* The press that began it has left S selected.
FmDrop(S, r, ctrl) ==
  /\ ~Modal
  /\ S \subseteq fm.list /\ r # fm.cwd
  /\ ByFileManager(fm, Transferred(S, r, ctrl))
  /\ UNCHANGED asked

\* The window is closed, and opened again.
FmReopen ==
  /\ fm' = Opened(fs.table)
  /\ stale' = {} /\ asked' = {}
  /\ OnlyFm

-----------------------------------------------------------------------------
(* The text editor. *)

\* text_editor_on_init, on the target t.
Loaded(t) ==
  [Closed EXCEPT !.open = TRUE, !.file = t.file, !.parent = t.parent,
                 !.text = FsRead(fs, t.file)]

\* wm_create_window: the new window takes the target.  The table of windows,
\* which other applications fill as well, may have no place for it.
EdCreate(t) ==
  \/ \E e \in Editors :
       /\ ~ed[e].open
       /\ ed' = [ed EXCEPT ![e] = Loaded(t)]
       /\ handed' = NoTarget
       /\ touched' = IF t.file \in Ids /\ ~IsFile(fs.table, t.file)
                     THEN touched \cup {e} ELSE touched \ {e}
  \/ handed' = t /\ UNCHANGED <<ed, touched>>

\* A launch from the Program Manager.
EdLaunch == EdCreate(handed) /\ UNCHANGED <<fs, fm, cwd, stale, asked, left>>

\* fm_open_file: a double click on a file.
FmOpenFile(i) ==
  /\ ~Modal
  /\ i \in fm.list /\ IsFile(fs.table, i)
  /\ EdCreate([file |-> i, parent |-> fm.cwd])
  /\ UNCHANGED <<fs, fm, cwd, stale, asked, left>>

\* A change made by editor e, whose state becomes s.
ByEditor(e, s, fs2) ==
  /\ Counted(fs2) /\ Behind(fs2)
  /\ ed' = [ed EXCEPT ![e] = s]
  /\ UNCHANGED <<fm, cwd, handed, asked>>

EdOnly(e, s) == ed' = [ed EXCEPT ![e] = s] /\ UNCHANGED <<fs, fm, cwd, handed, ghosts>>

EdType(e, t) ==
  /\ ed[e].open /\ ~ed[e].naming
  /\ EdOnly(e, [ed[e] EXCEPT !.text = t, !.dirty = TRUE])

SaveTo_Forgetting(e, s, f) ==
  LET written == FsWrite(f, s.file, s.text)
  IN  /\ ByEditor(e, [s EXCEPT !.dirty = FALSE], written.fs)
      /\ touched' = (touched \cup Disturbed(written.fs)) \ (IF written.id < 0 THEN {} ELSE {e})

\* te_save of state s, whose file is known.
SaveTo(e, s, f) ==
  LET written == FsWrite(f, s.file, s.text)
  IN  /\ ByEditor(e, [s EXCEPT !.dirty = @ /\ written.id < 0], written.fs)
      /\ touched' = (touched \cup Disturbed(written.fs)) \ (IF written.id < 0 THEN {} ELSE {e})

\* Ctrl+S or the button: te_save.
EdSave(e) ==
  /\ ed[e].open /\ ~ed[e].naming
  /\ IF ed[e].file \in Ids THEN SaveTo(e, ed[e], fs)
     ELSE EdOnly(e, [ed[e] EXCEPT !.naming = TRUE])

\* Enter in the prompt: te_save_as.
EdSaveAs(e, n) ==
  /\ ed[e].open /\ ed[e].naming
  /\ LET made == FsCreate(fs, ed[e].parent, n, "file")
         s == [ed[e] EXCEPT !.naming = FALSE]
     IN  IF made.id < 0 THEN EdOnly(e, s)
         ELSE SaveTo(e, [s EXCEPT !.file = made.id], made.fs)

EdEscape(e) ==
  /\ ed[e].open /\ ed[e].naming
  /\ EdOnly(e, [ed[e] EXCEPT !.naming = FALSE])

EdClose(e) ==
  /\ ed[e].open
  /\ ed' = [ed EXCEPT ![e] = Closed]
  /\ touched' = touched \ {e}
  /\ UNCHANGED <<fs, fm, cwd, handed, stale, asked, left>>

-----------------------------------------------------------------------------
(* The terminal.  A command looks its paths up when it runs; only the      *)
(* current folder is kept.                                                 *)

IsDir(i) == i = FS_ROOT \/ (i \in Ids /\ IsFolder(fs.table, i))

At(path) == Resolve(fs.table, cwd, path)

FileAt(path) == At(path) \in Ids /\ IsFile(fs.table, At(path))

CmdCd(path) ==
  /\ IsDir(At(path))
  /\ cwd' = At(path)
  /\ UNCHANGED <<fs, fm, ed, handed, ghosts>>

CmdMd(n) == ByTerminal(FsCreate(fs, cwd, n, "folder").fs) /\ UNCHANGED cwd

CmdRd(path) ==
  /\ At(path) # FS_ROOT /\ IsDir(At(path))
  /\ ByTerminal(FsDelete(fs, At(path)).fs)
  /\ UNCHANGED cwd

CmdDel(path) ==
  /\ FileAt(path)
  /\ ByTerminal(FsDelete(fs, At(path)).fs)
  /\ UNCHANGED cwd

CmdRen(path, n) ==
  /\ ByTerminal(FsRename(fs, At(path), n).fs)
  /\ UNCHANGED cwd

\* The text of a path, taken for a name: fs_create does not mind the separators
\* in it, though no path leads to an entry of that name.
AsName(path) ==
  IF ~path.absolute /\ Len(path.segments) = 1 THEN path.segments[1] ELSE "\\"

\* To a folder under the old name, or here under the name that was typed.
CmdCopy(path, dest) ==
  /\ FileAt(path)
  /\ IsDir(At(dest)) \/ AsName(dest) \in Names
  /\ ByTerminal(IF IsDir(At(dest)) THEN FsCopyTo(fs, At(path), At(dest)).fs
                ELSE FsCopy(fs, At(path), cwd, AsName(dest)).fs)
  /\ UNCHANGED cwd

\* A file that compiles gives a program, whose text is p; its file stays, and
\* stays empty, when the program cannot be written.
CmdCc(path, n, p) ==
  /\ FileAt(path)
  /\ LET made == FsCreate(fs, cwd, n, "file")
     IN  ByTerminal(IF made.id < 0 THEN fs ELSE FsWrite(made.fs, made.id, p).fs)
  /\ UNCHANGED cwd

\* "exit", and a new launch.
TmReopen ==
  /\ cwd' = FS_ROOT
  /\ UNCHANGED <<fs, fm, ed, handed, ghosts>>

-----------------------------------------------------------------------------

Init ==
  /\ \E start \in Starts : fs = start.fs /\ session = start.session /\ left = start.changes
  /\ fm = Opened(fs.table)
  /\ cwd = FS_ROOT
  /\ ed = [e \in Editors |-> Closed]
  /\ handed = NoTarget
  /\ stale = {} /\ asked = {} /\ touched = {}

FileManager ==
  /\ "file_manager" \in session /\ UNCHANGED session
  /\ \/ \E S \in SUBSET fm.list : FmSelect(S)
     \/ \E i \in fm.list : FmEnter(i) \/ FmRename(i)
     \/ \E r \in fm.rows : FmGoTo(r) \/ FmToggle(r) \/ FmDestination(r)
     \/ \E S \in SUBSET fm.list, r \in fm.rows, ctrl \in BOOLEAN : FmDrop(S, r, ctrl)
     \/ \E kind \in {"folder", "file"} : FmNew(kind)
     \/ \E kind \in {"move", "copy"} : FmTransfer(kind)
     \/ \E n \in Typed : FmCommit(n)
     \/ \E yes \in BOOLEAN : FmAnswer(yes)
     \/ FmDelete \/ FmSort \/ FmEscape \/ FmReopen

TextEditor ==
  /\ "text_editor" \in session /\ UNCHANGED session
  /\ \/ EdLaunch
     \/ \E i \in fm.list : FmOpenFile(i)
     \/ \E e \in Editors :
          \/ EdSave(e) \/ EdEscape(e) \/ EdClose(e)
          \/ \E t \in Texts \cup {""} : EdType(e, t)
          \/ \E n \in Typed : EdSaveAs(e, n)

Terminal ==
  /\ "terminal" \in session /\ UNCHANGED session
  /\ \/ \E path \in Paths : CmdCd(path) \/ CmdRd(path) \/ CmdDel(path)
     \/ \E n \in Names : CmdMd(n)
     \/ \E path, dest \in Paths : CmdCopy(path, dest)
     \/ \E path \in Paths, n \in Names :
          CmdRen(path, n) \/ \E p \in Texts : CmdCc(path, n, p)
     \/ TmReopen

Next == FileManager \/ TextEditor \/ Terminal

Spec == Init /\ [][Next]_vars

-----------------------------------------------------------------------------
(* Properties. *)

\* Every application is as its launch leaves it; closing and opening them again
\* leads here from any state, with the same file system.
AtRest ==
  /\ fm = Opened(fs.table) /\ cwd = FS_ROOT /\ handed = NoTarget
  /\ \A e \in Editors : ~ed[e].open

TypeOK ==
  /\ fs \in FileSystems
  /\ fm.cwd \in Ids \cup {FS_ROOT}
  /\ fm.sel \subseteq fm.list /\ fm.list \subseteq Ids
  /\ fm.prompt \in {"none", "folder", "file", "rename"}
  /\ cwd \in Ids \cup {FS_ROOT}
  /\ ed \in [Editors -> [open : BOOLEAN, file : Ids \cup {Untitled}, parent : Ids \cup {FS_ROOT},
                         text : Texts \cup {""}, dirty : BOOLEAN, naming : BOOLEAN]]

(* Whatever entry numbers the applications hold on to, what they do with   *)
(* them leaves a forest of distinct names on disjoint runs of sectors, and *)
(* a file that holds a text has a sector for it: copies of folders that    *)
(* fail half way, transfers of several items and saves to entries that     *)
(* were deleted or used again included.                                    *)
FilesWellFormed == TypeOK /\ InOrder(fs)

(* fs_copy, on every file system that the applications come to leave       *)
(* behind: if it succeeds, the copy is a tree of the same names, kinds and *)
(* texts as the source, which is not above it; and whether it succeeds or  *)
(* not, every other entry stays as it is.  (The parts of a copy that       *)
(* failed stay behind.)                                                    *)
CopyFaithful ==
  AtRest =>
    \A i \in Ids, p \in Ids \cup {FS_ROOT} :
      LET copy == FsCopyTo(fs, i, p)
      IN  /\ Keeps(fs, copy.fs)
          /\ copy.id >= 0 => /\ Tree(copy.fs, copy.id) = Tree(fs, i)
                             /\ ~fs.table[copy.id].used
                             /\ ~Inside(fs.table, p, i)

(* The file manager shows what is there and stands in a folder, except     *)
(* where another application has made a change since: each of its own      *)
(* callbacks, failed operations included, reads again all that it has made *)
(* out of date.                                                            *)
ListingFresh ==
  /\ "list" \notin stale => fm.list = Children(fs.table, fm.cwd)
  /\ "tree" \notin stale => fm.rows = TreeRows(fs.table, fm.expanded)
  /\ "cwd" \notin stale => ParentOk(fs.table, fm.cwd)

(* treeview.h line 8 takes the limit of rows for one that always suffices: *)
(* "every entry could theoretically be a folder": every folder that the    *)
(* walk reaches has its row.                                               *)
EveryFolderHasRow ==
  "tree" \notin stale => Reached(fs.table, fm.expanded) \subseteq fm.rows

(* treeview.h has treeview_rebuild called after any change of the set of   *)
(* folders (lines 32-34), and treeview_draw reads the name of each row's   *)
(* entry untested (treeview.c:92): every row but the root's has an entry.  *)
(* Violated when the terminal removes a folder.                            *)
EveryRowHasEntry == \A r \in fm.rows \ {FS_ROOT} : fs.table[r].used

(* The question "delete the selected items?" is about the items selected   *)
(* when it was put: the answer deletes no other entry, whatever happens in *)
(* between, and "no" deletes none.                                         *)
AskedOnly ==
  [][fm.confirm /\ ~fm'.confirm =>
       \A i \in Ids : fs.table[i].used /\ ~fs'.table[i].used => i \in asked]_vars

(* An editor without unsaved changes shows what is in its file, unless     *)
(* another application has written or deleted that file since.             *)
CleanMeansSaved ==
  \A e \in Editors :
    ed[e].open /\ ed[e].file \in Ids /\ ~ed[e].dirty /\ e \notin touched
      => IsFile(fs.table, ed[e].file) /\ fs.text[ed[e].file] = ed[e].text

(* text_editor.h lines 10-15: a plain launch, for example from the Program *)
(* Manager, opens an untitled document at the root.                        *)
PlainLaunch ==
  [][EdLaunch => \A e \in Editors : ~ed[e].open /\ ed'[e].open =>
                   ed'[e].file = Untitled /\ ed'[e].parent = FS_ROOT]_vars

=============================================================================
