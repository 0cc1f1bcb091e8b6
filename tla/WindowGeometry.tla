-------------------------- MODULE WindowGeometry ---------------------------
(***************************************************************************)
(* gui/wm.c and gui/window.c: the rectangle of one window while the user   *)
(* drags, resizes, maximises, minimises and restores it, and while the     *)
(* desktop is cascaded or tiled.                                           *)
(*                                                                         *)
(* The pixels of the code are parameters.  What other windows contribute   *)
(* (how many there are, where a cascade has come to) is chosen.            *)
(***************************************************************************)
EXTENDS Integers

CONSTANTS SCREEN_W, SCREEN_H, TASKBAR_HEIGHT,
          WINDOW_BORDER, WINDOW_TITLE_HEIGHT, WINDOW_BOX_SIZE,
          BOX_PAD,         \* the 2 pixels beside a box of the title bar
          RESIZE_BORDER,
          KEEP,            \* the 20 pixels that a drag leaves on the desktop
          CASCADE, STEP,   \* origin and step of a cascade: 20 and 24
          MaxWindows,      \* MAX_WINDOWS
          MIN_W, MIN_H,    \* the window's resize floor
          Initial,         \* the rectangle it is created with
          ReleaseMayBeLost \* to a full event queue?

AreaH == SCREEN_H - TASKBAR_HEIGHT

(* wm_tile: the least number of columns whose square is enough, the rows. *)
AreColumns(cols, count) ==
  cols * cols >= count /\ (cols - 1) * (cols - 1) < count

Rows(count, cols) == (count + cols - 1) \div cols

ASSUME GeometryAssumption ==
  /\ {SCREEN_W, SCREEN_H, TASKBAR_HEIGHT, WINDOW_BORDER, WINDOW_TITLE_HEIGHT,
      WINDOW_BOX_SIZE, BOX_PAD, RESIZE_BORDER, KEEP, CASCADE, STEP,
      MaxWindows, MIN_W, MIN_H} \subseteq Nat
  /\ KEEP > 0 /\ CASCADE + KEEP <= SCREEN_W /\ CASCADE + KEEP <= AreaH
  /\ KEEP <= MIN_W /\ KEEP <= MIN_H
  /\ RESIZE_BORDER > 0 /\ RESIZE_BORDER <= MIN_W
  /\ RESIZE_BORDER <= WINDOW_BORDER + WINDOW_TITLE_HEIGHT
  /\ MaxWindows > 0
  /\ \A count \in 1 .. MaxWindows : \A cols \in 1 .. count :
       AreColumns(cols, count) => Rows(count, cols) * KEEP <= AreaH
  /\ Initial \in [x : Nat, y : Nat, w : Nat, h : Nat]
  /\ Initial.w > 0 /\ Initial.x < SCREEN_W
  /\ Initial.h > 0 /\ Initial.y + KEEP <= AreaH
  /\ ReleaseMayBeLost \in BOOLEAN

Rect == [x : Int, y : Int, w : Int, h : Int]
Edges == {"N", "S", "E", "W", "NE", "NW", "SE", "SW"}
NoGrab == [kind |-> "none"]

VARIABLES rect, state,
          restoreRect,     \* restore_rect; NoRect while it is not going to be read
          restoreState,
          grab,            \* g_mode with the variables that go with it
          lastNormal       \* ghost: the rectangle of the last NORMAL state

geometryVars == <<rect, state, restoreRect, restoreState, grab, lastNormal>>

NoRect == [x |-> 0, y |-> 0, w |-> 0, h |-> 0]

MouseX == 0 .. SCREEN_W - 1
MouseY == 0 .. SCREEN_H - 1

RectContains(r, x, y) ==
  x >= r.x /\ x < r.x + r.w /\ y >= r.y /\ y < r.y + r.h

Lower(a, b) == IF a < b THEN a ELSE b
Upper(a, b) == IF a > b THEN a ELSE b

WmMaximizedRect == [x |-> 0, y |-> 0, w |-> SCREEN_W, h |-> AreaH]

-----------------------------------------------------------------------------
(* window.c: the boxes of the title bar. *)
BoxY(r) == r.y + WINDOW_BORDER + (WINDOW_TITLE_HEIGHT - WINDOW_BOX_SIZE) \div 2

BoxAt(r, x) ==
  [x |-> x, y |-> BoxY(r), w |-> WINDOW_BOX_SIZE, h |-> WINDOW_BOX_SIZE]

SysmenuRect(r) == BoxAt(r, r.x + WINDOW_BORDER + BOX_PAD)

MaximizeRect(r) ==
  BoxAt(r, r.x + r.w - WINDOW_BORDER - BOX_PAD - WINDOW_BOX_SIZE)

MinimizeRect(r) ==
  BoxAt(r, r.x + r.w - WINDOW_BORDER - BOX_PAD - WINDOW_BOX_SIZE
                      - WINDOW_BOX_SIZE - BOX_PAD)

InTitle(r, y) == y < r.y + WINDOW_BORDER + WINDOW_TITLE_HEIGHT

(* wm_resize_edge_at; "none" away from the edges. *)
ResizeEdgeAt(r, x, y) ==
  LET left == x - r.x < RESIZE_BORDER
      right == r.x + r.w - x < RESIZE_BORDER
      top == y - r.y < RESIZE_BORDER
      bottom == r.y + r.h - y < RESIZE_BORDER
  IN CASE top /\ left -> "NW"
       [] top /\ ~left /\ right -> "NE"
       [] bottom /\ ~top /\ left -> "SW"
       [] bottom /\ ~top /\ ~left /\ right -> "SE"
       [] top /\ ~left /\ ~right -> "N"
       [] bottom /\ ~top /\ ~left /\ ~right -> "S"
       [] left /\ ~top /\ ~bottom -> "W"
       [] right /\ ~left /\ ~top /\ ~bottom -> "E"
       [] OTHER -> "none"

(* wm_hit_test: the first test that succeeds. *)
HitTest(x, y) ==
  IF state = "MINIMIZED" \/ ~RectContains(rect, x, y) THEN "none"
  ELSE IF RectContains(SysmenuRect(rect), x, y) THEN "sysmenu"
  ELSE IF RectContains(MinimizeRect(rect), x, y) THEN "minimize"
  ELSE IF RectContains(MaximizeRect(rect), x, y) THEN "maximize"
  ELSE IF InTitle(rect, y) THEN "title"
  ELSE IF state = "NORMAL" /\ ResizeEdgeAt(rect, x, y) # "none" THEN "resize"
  ELSE "content"

-----------------------------------------------------------------------------
(* What every step does to the ghost. *)
KeepNormal ==
  lastNormal' = IF state' = "NORMAL" THEN rect' ELSE lastNormal

(* wm_on_mouse_down with a point of the window, by region. *)
MayPress == ReleaseMayBeLost \/ grab = NoGrab

PressTitle(x, y) ==
  /\ MayPress /\ HitTest(x, y) = "title"
  /\ grab' = [kind |-> "title", dx |-> x - rect.x, dy |-> y - rect.y]
  /\ UNCHANGED <<rect, state, restoreRect, restoreState>>

PressEdge(x, y) ==
  /\ MayPress /\ HitTest(x, y) = "resize"
  /\ grab' = [kind |-> "resize", edge |-> ResizeEdgeAt(rect, x, y),
              start |-> rect, mx |-> x, my |-> y]
  /\ UNCHANGED <<rect, state, restoreRect, restoreState>>

PressContent(x, y) ==
  /\ MayPress /\ HitTest(x, y) = "content"
  /\ grab' = [kind |-> "app"]
  /\ UNCHANGED <<rect, state, restoreRect, restoreState>>

(* Mutant: restore_rect is also taken from a maximised window. *)
Minimize_KeepMaximized ==
  /\ restoreRect' = rect
  /\ restoreState' = state /\ state' = "MINIMIZED"
  /\ UNCHANGED <<rect, grab>>

(* wm_minimize_window *)
Minimize ==
  /\ restoreRect' = IF state = "NORMAL" THEN rect ELSE restoreRect
  /\ restoreState' = state /\ state' = "MINIMIZED"
  /\ UNCHANGED <<rect, grab>>

PressMinimize(x, y) == MayPress /\ HitTest(x, y) = "minimize" /\ Minimize

(* wm_toggle_maximize *)
WmToggleMaximize ==
  /\ IF state = "MAXIMIZED"
     THEN state' = "NORMAL" /\ rect' = restoreRect /\ restoreRect' = NoRect
     ELSE state' = "MAXIMIZED" /\ rect' = WmMaximizedRect /\ restoreRect' = rect
  /\ UNCHANGED <<restoreState, grab>>

PressMaximize(x, y) == MayPress /\ HitTest(x, y) = "maximize" /\ WmToggleMaximize

(* Mutant: the drag is not held back at the right and lower edges. *)
Dragged_NoClamp(x, y) ==
  [x |-> Upper(x - grab.dx, 0), y |-> Upper(y - grab.dy, 0),
   w |-> rect.w, h |-> rect.h]

(* wm_on_mouse_move, WM_DRAGGING_TITLE *)
Dragged(x, y) ==
  [x |-> Lower(Upper(x - grab.dx, 0), SCREEN_W - KEEP),
   y |-> Lower(Upper(y - grab.dy, 0), AreaH - KEEP),
   w |-> rect.w, h |-> rect.h]

(* The edges follow the mouse by dx and dy. *)
Stretched(r, edge, dx, dy) ==
  [x |-> IF edge \in {"W", "SW", "NW"} THEN r.x + dx ELSE r.x,
   w |-> CASE edge \in {"W", "SW", "NW"} -> r.w - dx
           [] edge \in {"E", "SE", "NE"} -> r.w + dx
           [] OTHER -> r.w,
   y |-> IF edge \in {"N", "NE", "NW"} THEN r.y + dy ELSE r.y,
   h |-> CASE edge \in {"N", "NE", "NW"} -> r.h - dy
           [] edge \in {"S", "SE", "SW"} -> r.h + dy
           [] OTHER -> r.h]

(* First the floor, then the desktop. *)
Clamped(r) ==
  [x |-> r.x, w |-> Lower(Upper(r.w, MIN_W), SCREEN_W - r.x),
   y |-> r.y, h |-> Lower(Upper(r.h, MIN_H), AreaH - r.y)]

(* wm_on_mouse_move, WM_RESIZING *)
Resized(x, y) ==
  Clamped(Stretched(grab.start, grab.edge, x - grab.mx, y - grab.my))

(* wm_on_mouse_move *)
MouseMoved(x, y) ==
  /\ \/ grab.kind = "title" /\ rect' = Dragged(x, y)
     \/ grab.kind = "resize" /\ rect' = Resized(x, y)
  /\ UNCHANGED <<state, restoreRect, restoreState, grab>>

(* wm_on_mouse_up *)
MouseReleased ==
  /\ grab # NoGrab
  /\ grab' = NoGrab
  /\ UNCHANGED <<rect, state, restoreRect, restoreState>>

(* wm_restore_window, from the taskbar or a launcher *)
WmRestoreWindow ==
  /\ MayPress /\ state = "MINIMIZED"
  /\ state' = restoreState /\ restoreState' = "NORMAL"
  /\ rect' = IF restoreState = "MAXIMIZED" THEN WmMaximizedRect ELSE restoreRect
  /\ restoreRect' = IF restoreState = "MAXIMIZED" THEN restoreRect ELSE NoRect
  /\ UNCHANGED grab

(***************************************************************************)
(* wm_cascade: the windows before this one have moved the cascade to x, y. *)
(* After a window of width pw the next is either at the origin or STEP     *)
(* further, where the previous one would still have fitted.                *)
(***************************************************************************)
CascadeAt(x, y) ==
  [x |-> x, y |-> y, w |-> Upper(rect.w, MIN_W), h |-> Upper(rect.h, MIN_H)]

CascadeOffsets(limit) ==
  {c \in {CASCADE + k * STEP : k \in 0 .. MaxWindows - 1} :
     c = CASCADE \/ c + KEEP <= limit}

WmCascade ==
  /\ MayPress /\ state # "MINIMIZED"
  /\ \E x \in CascadeOffsets(SCREEN_W), y \in CascadeOffsets(AreaH) :
       rect' = CascadeAt(x, y)
  /\ state' = "NORMAL" /\ restoreRect' = NoRect
  /\ grab' \in {NoGrab, [kind |-> "app"]}
  /\ UNCHANGED restoreState

(* Mutant: the last row is forgotten when it is not full. *)
TileCell_RowsDown(count, cols, idx) ==
  LET cw == SCREEN_W \div cols
      ch == AreaH \div (count \div cols)
  IN [x |-> (idx % cols) * cw, y |-> (idx \div cols) * ch, w |-> cw, h |-> ch]

(* wm_tile: the cell of the idx-th of count visible windows. *)
TileCell(count, cols, idx) ==
  LET cw == SCREEN_W \div cols
      ch == AreaH \div Rows(count, cols)
  IN [x |-> (idx % cols) * cw, y |-> (idx \div cols) * ch, w |-> cw, h |-> ch]

Tiled(c) ==
  [x |-> c.x, y |-> c.y, w |-> Upper(c.w, MIN_W), h |-> Upper(c.h, MIN_H)]

WmTile ==
  /\ MayPress /\ state # "MINIMIZED"
  /\ \E count \in 1 .. MaxWindows :
       \E cols \in 1 .. count, idx \in 0 .. count - 1 :
         /\ AreColumns(cols, count)
         /\ rect' = Tiled(TileCell(count, cols, idx))
  /\ state' = "NORMAL" /\ restoreRect' = NoRect
  /\ grab' \in {NoGrab, [kind |-> "app"]}
  /\ UNCHANGED restoreState

GeometryInit ==
  /\ rect = Initial /\ state = "NORMAL"
  /\ restoreRect = NoRect /\ restoreState = "NORMAL"
  /\ grab = NoGrab
  /\ lastNormal = Initial

Press ==
  \E x \in MouseX, y \in MouseY :
    \/ PressTitle(x, y) \/ PressEdge(x, y) \/ PressContent(x, y)
    \/ PressMinimize(x, y) \/ PressMaximize(x, y)

GeometryNext ==
  /\ \/ Press
     \/ \E x \in MouseX, y \in MouseY : MouseMoved(x, y)
     \/ MouseReleased \/ WmRestoreWindow \/ WmCascade \/ WmTile
  /\ KeepNormal

GeometrySpec == GeometryInit /\ [][GeometryNext]_geometryVars

-----------------------------------------------------------------------------
(* However it is dragged, resized and arranged, a window keeps a pixel of  *)
(* its first row on the desktop, above the taskbar, where the user can     *)
(* take hold of it again.                                                  *)
GripOnDesktop ==
  /\ rect.h > 0 /\ rect.y >= 0 /\ rect.y + KEEP <= AreaH
  /\ rect.x < SCREEN_W /\ rect.x + rect.w > 0 /\ rect.w > 0

(* wm.h:17: restore_rect is the rectangle to return to: a window that      *)
(* leaves the normal state comes back where it was, whatever it goes       *)
(* through in between.                                                     *)
RestoreReturns ==
  [][state # "NORMAL" /\ state' = "NORMAL" /\ ~WmCascade /\ ~WmTile
       => rect' = lastNormal]_geometryVars

(* A window that stands where wm_tile puts the i-th of count windows has a *)
(* cell that lies on the desktop and overlaps that of none of the others.  *)
TilesApart ==
  \A count \in 1 .. MaxWindows : \A cols \in 1 .. count :
    AreColumns(cols, count) =>
      \A i \in 0 .. count - 1 : rect = Tiled(TileCell(count, cols, i)) =>
        \A j \in 0 .. count - 1 :
          LET c == TileCell(count, cols, i)
              d == TileCell(count, cols, j)
          IN /\ c.x >= 0 /\ c.x + c.w <= SCREEN_W
             /\ c.y >= 0 /\ c.y + c.h <= AreaH
             /\ i = j \/ c.x + c.w <= d.x \/ d.x + d.w <= c.x
                      \/ c.y + c.h <= d.y \/ d.y + d.h <= c.y
=============================================================================
