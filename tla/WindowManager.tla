--------------------------- MODULE WindowManager ---------------------------
(***************************************************************************)
(* gui/wm.c: the stack of windows, the focus, the drag mode and the        *)
(* lifetime of windows across the callbacks of their applications.         *)
(*                                                                         *)
(* One thread runs the handlers one after the other, so each handler, with *)
(* every function and callback it calls, is one action.  Where the code    *)
(* compares coordinates the model chooses: a click may reach any window    *)
(* that is not minimised, in any region such a window has.  Geometry is    *)
(* the subject of WindowGeometry.                                          *)
(***************************************************************************)
EXTENDS Integers, Sequences, SequencesExt, FiniteSets

CONSTANTS Windows,       \* addresses kmalloc may give to a window
          Apps,          \* the applications of the start menu
          MAX_WINDOWS,
          Lossy,         \* may the event queue be full when a button changes?
          NoWindow       \* the null pointer

ASSUME WindowManagerAssumption ==
  /\ MAX_WINDOWS \in Nat \ {0}
  /\ Cardinality(Windows) >= MAX_WINDOWS
  /\ NoWindow \notin Windows
  /\ "program_manager" \in Apps
  /\ Apps \subseteq {"program_manager", "terminal", "calculator", "info",
                     "file_manager", "text_editor"}
  /\ Lossy \in BOOLEAN

VARIABLES wm,     \* the static variables of wm.c
          held,   \* mouse buttons whose press has been reported, not their release
          lost    \* ghost: a change of a button was lost since the last release

vars == <<wm, held, lost>>

Following == {"DRAGGING_TITLE", "RESIZING", "APP_CAPTURED"}
Modes == Following \cup {"IDLE", "ORPHANED"}
States == {"NORMAL", "MINIMIZED", "MAXIMIZED"}
Buttons == {"left", "right"}
Stale == <<>>

(***************************************************************************)
(* The state of wm.c.  win has one entry for every wm_window_st in memory. *)
(* restore is restore_state, which matters only while the window is        *)
(* minimised and is forgotten by the model otherwise; dropdown says that   *)
(* the application's menu bar has an open dropdown.  drawn is what the     *)
(* last wm_composite has put on the screen, or Stale when something that   *)
(* it shows has changed since.  WM_APP_CAPTURED is told apart by how it    *)
(* began: ORPHANED is the capture of a window that on_mouse_down closed.   *)
(***************************************************************************)
WindowRecord ==
  [app : Apps, state : States, restore : {"NORMAL", "MAXIMIZED"},
   dropdown : BOOLEAN]

NewWindow(a) ==
  [app |-> a, state |-> "NORMAL", restore |-> "NORMAL", dropdown |-> FALSE]

Visible(s, w) == s.win[w].state # "MINIMIZED"

View(s) == <<s.stack, s.win, s.focused, s.start>>

Composite(s) == [s EXCEPT !.drawn = View(s)]

LastOf(seq) == IF seq = <<>> THEN NoWindow ELSE Last(seq)

TopmostVisible(s) ==
  LET i == SelectLastInSeq(s.stack, LAMBDA w : Visible(s, w))
  IN  IF i = 0 THEN NoWindow ELSE s.stack[i]

(* Mutant: the file manager has no on_blur. *)
Blur_Missing(s, w) == s

(* on_blur: only the file manager has one; it closes its dropdown. *)
Blur(s, w) == [s EXCEPT !.win[w].dropdown = FALSE]

(* Mutant: the window stays where it is in the stack. *)
Raise_InPlace(s, w) ==
  [IF s.focused \notin {w, NoWindow} THEN Blur(s, s.focused) ELSE s
   EXCEPT !.focused = w]

(* Mutant: the window is put on top without being taken out below. *)
Raise_NoRemove(s, w) ==
  IF w \notin Range(s.stack) THEN s
  ELSE [IF s.focused \notin {w, NoWindow} THEN Blur(s, s.focused) ELSE s
        EXCEPT !.stack = Append(@, w), !.focused = w]

Raise(s, w) ==
  IF w \notin Range(s.stack) THEN s
  ELSE [IF s.focused \notin {w, NoWindow} THEN Blur(s, s.focused) ELSE s
        EXCEPT !.stack = Append(RemoveFirst(@, w), w), !.focused = w]

(* wm_create_window: nothing happens at MAX_WINDOWS or without memory. *)
CreateWindow(s, a) ==
  {s} \cup
  (IF Len(s.stack) >= MAX_WINDOWS THEN {}
   ELSE {Composite([s EXCEPT !.win = [v \in DOMAIN @ \cup {w} |->
                                        IF v = w THEN NewWindow(a) ELSE @[v]],
                             !.stack = Append(@, w), !.focused = w]) :
           w \in Windows \ DOMAIN s.win})

(* wm_close_window, with the callback on_close before it, in its steps. *)
Unlink(s, w) ==
  [s EXCEPT !.stack = RemoveFirst(@, w), !.win = [v \in DOMAIN @ \ {w} |-> @[v]]]

Refocus(s, w) ==
  IF s.focused = w THEN [s EXCEPT !.focused = LastOf(s.stack)] ELSE s

(* Mutant: the pending double click is not forgotten. *)
ForgetSysmenu_Missing(s, w) == s

ForgetSysmenu(s, w) ==
  IF s.sysmenu = w THEN [s EXCEPT !.sysmenu = NoWindow] ELSE s

ForgetDrag(s, w) ==
  IF s.drag = w THEN [s EXCEPT !.drag = NoWindow, !.mode = "IDLE"] ELSE s

(* Mutant: the desktop is not drawn again. *)
CloseWindow_NoComposite(s, w) ==
  ForgetDrag(ForgetSysmenu(Refocus(Unlink(s, w), w), w), w)

CloseWindow(s, w) ==
  Composite(ForgetDrag(ForgetSysmenu(Refocus(Unlink(s, w), w), w), w))

LoseFocus(s, w) ==
  IF s.focused # w THEN s ELSE [Blur(s, w) EXCEPT !.focused = TopmostVisible(s)]

MinimizeWindow(s, w) ==
  IF ~Visible(s, w) THEN s
  ELSE LoseFocus([s EXCEPT !.win[w].state = "MINIMIZED",
                           !.win[w].restore = s.win[w].state], w)

RestoreWindow(s, w) ==
  IF Visible(s, w) THEN s
  ELSE Raise([s EXCEPT !.win[w].state = s.win[w].restore,
                       !.win[w].restore = "NORMAL"], w)

FocusWindow(s, w) ==
  [IF Visible(s, w) THEN Raise(s, w) ELSE RestoreWindow(s, w)
   EXCEPT !.dirty = TRUE]

(* wm_cascade and wm_tile differ only in the geometry they give. *)
Arrange(s) ==
  [s EXCEPT !.win = [w \in DOMAIN @ |->
                       IF Visible(s, w) THEN [@[w] EXCEPT !.state = "NORMAL"]
                       ELSE @[w]],
            !.dirty = TRUE]

ToggleMaximize(s, w) ==
  [s EXCEPT !.win[w].state =
     IF @ = "MAXIMIZED" THEN "NORMAL" ELSE "MAXIMIZED"]

(* pm_launch and wm_start_menu_select: only editors may be open twice. *)
Launch(s, a) ==
  LET i == SelectInSeq(s.stack, LAMBDA w : s.win[w].app = a) IN
  IF a # "text_editor" /\ i # 0 THEN {FocusWindow(s, s.stack[i])}
  ELSE CreateWindow(s, a)

(***************************************************************************)
(* The callbacks: the states in which an application may leave the window  *)
(* manager.  "OK" of info and "Sair" of the file manager close their own   *)
(* window, "exit" of the terminal too; icons launch applications and a     *)
(* file is opened in a new editor.                                         *)
(***************************************************************************)
OnMouseDown(s, w) ==
  CASE s.win[w].app = "info" -> {s, CloseWindow(s, w)}
    [] s.win[w].app = "program_manager" ->
         {s} \cup UNION {Launch(s, a) : a \in Apps \ {"program_manager"}}
    [] s.win[w].app = "file_manager" ->
         IF s.win[w].dropdown
         THEN LET closed == Blur(s, w)
              IN {s, closed, CloseWindow(closed, w), Arrange(closed)}
         ELSE {s, [s EXCEPT !.win[w].dropdown = TRUE]}
                \cup (IF "text_editor" \in Apps
                      THEN CreateWindow(s, "text_editor") ELSE {})
    [] OTHER -> {s}

HasKeyDown(s, w) ==
  s.win[w].app \in {"terminal", "text_editor", "file_manager"}

OnKeyDown(s, w) ==
  IF s.win[w].app = "terminal" THEN {s, CloseWindow(s, w)} ELSE {s}

HasTick(s, w) == s.win[w].app \in {"terminal", "text_editor"}

(***************************************************************************)
(* A click on the window w: the regions of wm_hit_test, and what           *)
(* wm_on_mouse_down does there.                                            *)
(***************************************************************************)
Captured(s, w) ==
  [s EXCEPT !.drag = w,
            !.mode = IF w \in DOMAIN s.win THEN "APP_CAPTURED" ELSE "ORPHANED"]

Dirty(s) == [s EXCEPT !.dirty = TRUE]

(* A second click within DOUBLE_CLICK_TICKS of the first closes the window. *)
HitSysmenu(s, w) ==
  {Dirty([s EXCEPT !.sysmenu = w])} \cup
  (IF s.sysmenu = w THEN {CloseWindow([s EXCEPT !.sysmenu = NoWindow], w)}
   ELSE {})

HitWindow(s, w) ==
  LET r == Raise(s, w) IN
  HitSysmenu(r, w)
    \cup {Dirty(MinimizeWindow(r, w)), Dirty(ToggleMaximize(r, w)),
          Dirty([r EXCEPT !.mode = "DRAGGING_TITLE", !.drag = w])}
    \cup (IF r.win[w].state # "NORMAL" THEN {}
          ELSE {Dirty([r EXCEPT !.mode = "RESIZING", !.drag = w])})
    \cup {Dirty(Captured(t, w)) : t \in OnMouseDown(r, w)}

(* Taskbar buttons, then the windows, then the bare desktop. *)
HitDesktop(s) ==
  {s} \cup {FocusWindow(s, w) : w \in Range(s.stack)}
      \cup UNION {HitWindow(s, w) : w \in {v \in Range(s.stack) : Visible(s, v)}}

(* With the start menu open: an item, or the click falls through. *)
HitStartMenu(s) ==
  {Dirty([t EXCEPT !.start = FALSE]) : t \in UNION {Launch(s, a) : a \in Apps}}
    \cup HitDesktop(Dirty([s EXCEPT !.start = FALSE]))

MouseDownLeft(s) ==
  {Dirty([s EXCEPT !.start = ~@])}
    \cup (IF s.start THEN HitStartMenu(s) ELSE HitDesktop(s))

(* Between two handlers drawn is either what is there or Stale. *)
Settle(s) == [s EXCEPT !.drawn = IF @ = View(s) THEN @ ELSE Stale]

(***************************************************************************)
(* The handlers, as wm_thread_main calls them.  A mouse event carries the  *)
(* buttons that changed.  A change that finds the event queue full is      *)
(* lost: the mouse driver remembers it all the same.                       *)
(***************************************************************************)
WmOnMouseDown ==
  \E b \in SUBSET (Buttons \ held) \ {{}} :
    /\ held' = held \cup b
    /\ IF "left" \in b THEN \E s \in MouseDownLeft(wm) : wm' = Settle(s)
       ELSE UNCHANGED wm
    /\ UNCHANGED lost

WmOnMouseMove ==
  /\ wm.mode # "IDLE"
  /\ wm' = Dirty(wm)
  /\ UNCHANGED <<held, lost>>

(* Mutant: only a capture ends with the release. *)
WmOnMouseUp_CaptureOnly ==
  \E b \in SUBSET held \ {{}} :
    /\ held' = held \ b /\ lost' = FALSE
    /\ wm' = IF wm.mode \in {"APP_CAPTURED", "ORPHANED"}
             THEN Dirty([wm EXCEPT !.mode = "IDLE", !.drag = NoWindow])
             ELSE Dirty(wm)

WmOnMouseUp ==
  \E b \in SUBSET held \ {{}} :
    /\ held' = held \ b /\ lost' = FALSE
    /\ wm' = Dirty([wm EXCEPT !.mode = "IDLE", !.drag = NoWindow])

LostButton ==
  /\ Lossy
  /\ \E b \in SUBSET Buttons \ {held} : held' = b
  /\ lost' = TRUE
  /\ UNCHANGED wm

WmOnKeyDown ==
  /\ wm.focused # NoWindow
  /\ HasKeyDown(wm, wm.focused)
  /\ \E s \in OnKeyDown(wm, wm.focused) : wm' = Settle(Dirty(s))
  /\ UNCHANGED <<held, lost>>

WmOnTick ==
  /\ \/ wm.dirty
     \/ \E w \in Range(wm.stack) : Visible(wm, w) /\ HasTick(wm, w)
  /\ wm' = Composite([wm EXCEPT !.dirty = FALSE])
  /\ UNCHANGED <<held, lost>>

(* wm_init, and main's call of wm_create_window. *)
Init ==
  /\ held = {} /\ lost = FALSE
  /\ \E w \in Windows :
       wm = Composite([stack |-> <<w>>,
             win |-> [v \in {w} |-> NewWindow("program_manager")], focused |-> w,
             mode |-> "IDLE", drag |-> NoWindow, sysmenu |-> NoWindow,
             start |-> FALSE, dirty |-> TRUE, drawn |-> Stale])

Next ==
  \/ WmOnMouseDown \/ WmOnMouseMove \/ WmOnMouseUp \/ LostButton
  \/ WmOnKeyDown \/ WmOnTick

Spec == Init /\ [][Next]_vars

-----------------------------------------------------------------------------
(* Every field holds a value of its C type; the table names only windows   *)
(* that exist.                                                             *)
TypeOK ==
  /\ held \subseteq Buttons /\ lost \in BOOLEAN
  /\ wm.stack \in Seq(Windows) /\ Len(wm.stack) <= MAX_WINDOWS
  /\ DOMAIN wm.win \subseteq Windows
  /\ \A w \in DOMAIN wm.win : wm.win[w] \in WindowRecord
  /\ {wm.focused, wm.drag, wm.sysmenu} \subseteq Windows \cup {NoWindow}
  /\ wm.mode \in Modes
  /\ {wm.start, wm.dirty} \subseteq BOOLEAN
  /\ wm.drawn \in {View(wm), Stale}

(* g_windows holds every window in memory exactly once: none is freed      *)
(* while it is shown, none is lost, none is drawn twice.                   *)
StackIsMemory ==
  /\ Range(wm.stack) = DOMAIN wm.win
  /\ Len(wm.stack) = Cardinality(DOMAIN wm.win)

(* The launchers of program_manager.c and the start menu never open a      *)
(* second window of an application whose state is global.                  *)
Singletons ==
  \A v, w \in DOMAIN wm.win :
    wm.win[v].app = wm.win[w].app /\ v # w => wm.win[v].app = "text_editor"

(* Whatever handlers and callbacks do to the table of windows, it keeps    *)
(* its limit and holds what is in memory, each application as often as it  *)
(* may be open.                                                            *)
TableConsistent == TypeOK /\ StackIsMemory /\ Singletons

(* No pointer outlives its window, even when the next window is allocated  *)
(* at the same address: neither the focus, nor the pending double click,   *)
(* nor the window that wm_on_mouse_move and wm_on_mouse_up follow through  *)
(* g_drag_win.  The one way to close a window and follow it all the same   *)
(* is a capture that begins after its own on_mouse_down has closed it.     *)
NoDanglingPointer ==
  /\ wm.focused # NoWindow => wm.focused \in DOMAIN wm.win
  /\ wm.sysmenu # NoWindow => wm.sysmenu \in DOMAIN wm.win
  /\ wm.mode \in Following => wm.drag \in DOMAIN wm.win
  /\ wm.mode = "IDLE" <=> wm.drag = NoWindow

(* By app.h:19-20 the state from on_init is passed into every callback, by *)
(* app.h:43-44 on_close releases it before the window is freed: on_mouse_  *)
(* move and on_mouse_up then come only to windows that are open.  Violated *)
(* by OK in info and Sair in the file manager, which close their window    *)
(* before wm_on_mouse_down captures it (wm.c:457).                         *)
CapturesOpenWindow == wm.mode # "IDLE" => wm.drag \in DOMAIN wm.win

(* Keys go to the window that the user sees on top, unless the focused     *)
(* one is minimised, which only wm_close_window can bring about.           *)
FocusOnTop ==
  wm.focused # NoWindow /\ Visible(wm, wm.focused)
    => wm.focused = TopmostVisible(wm)

(* No handler but one that closes a window takes the focus from a visible  *)
(* window to a minimised one, or to none while another is visible.  And by *)
(* app.h:47-52 a window learns by on_blur that a different one becomes     *)
(* focused, so that no dropdown stays open behind another window: this     *)
(* holds of every handler but wm_create_window, which takes the focus      *)
(* without.                                                                *)
FocusHandedOver ==
  [][ /\ DOMAIN wm.win \subseteq DOMAIN wm'.win /\ wm.focused # NoWindow
           /\ Visible(wm, wm.focused)
         => wm'.focused = TopmostVisible(wm')
      /\ \A w \in DOMAIN wm.win \cap DOMAIN wm'.win :
           /\ wm.focused = w /\ wm'.focused # w
           /\ DOMAIN wm'.win \subseteq DOMAIN wm.win
           => ~wm'.win[w].dropdown ]_vars

(* Whatever changed what is to be seen has either drawn it or left g_dirty *)
(* set for the next tick.                                                  *)
ScreenCurrent == wm.dirty \/ wm.drawn = View(wm)

(* A window follows the mouse only while the left button is down, or until *)
(* the next release when a change of a button was lost to a full queue.    *)
DragHeld == wm.mode # "IDLE" => "left" \in held \/ lost
=============================================================================
