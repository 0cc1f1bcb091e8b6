# rSystemOS in TLA+

A verification project for the kernel of this repository: TLA+ modules
translated from the C and assembly sources, TLC configurations that check them
on small instances, and theorems about them checked by TLAPS. File names below
are relative to `src/` of the repository.

rSystemOS is a small 32-bit kernel for one CPU without memory protection. It
preempts up to eight kernel threads by the timer, hands disk I/O to a worker
thread, queues interrupts as events for one thread that runs a window manager
and its applications, keeps a flat file system on the boot disk, and compiles
and runs programs in a subset of C from its terminal.

## 1. The system

| Component | State | Operations | Talks to |
|---|---|---|---|
| threads (`kernel/thread.c`, `kernel/context_switch.asm`) | table of 8 slots, `current`, `disable_count`, `quantum_remaining`, IF | `preempt_disable/enable`, `thread_create/yield/block/wake/exit`, `scheduler_tick` | timer interrupt, heap, every thread |
| storage worker (`kernel/storage_thread.c`) | list of requests on their submitters' stacks, `worker` | `submit` (through `storage_read/write_sectors`), `storage_thread_main` | threads, IDE driver |
| event queue (`kernel/event.c`) | ring of 32 events, `head`, `tail`, `q_count` | `event_init`, `event_push` (interrupts), `event_wait` (wm thread) | timer, keyboard, mouse handlers |
| keyboard and mouse (`drivers/keyboard.c`, `kernel/mouse.c`) | modifiers, extended prefix; packet, buttons, cursor | interrupt handlers | event queue |
| kernel (`kernel/kernel.c`) | order of initialisation | `kernel_init`, `main`, `wm_thread_main` | all |
| file system (`kernel/fs.c`) | superblock, table of 128 entries, their copies on disk | mount/format, create, delete, read, write, rename, move, copy, paths | storage worker |
| window manager (`gui/wm.c`, `gui/window.c`, `gui/taskbar.c`) | window stack, focus, drag mode, double click, start menu, `g_dirty` | create/close/minimise/restore/focus, mouse, key and tick handlers | applications by callbacks |
| file manager, terminal, text editor (`gui/apps/*.c`, `gui/treeview.c`) | entry numbers kept from one callback to the next, selection, pending file | callbacks | file system, window manager |
| text buffers (`gui/editbuf.c`, `gui/textbox.c`, `terminal.c`) | flat buffer and cursor; grid of cells; input line and history ring | keys | the two windows one types in |
| C compiler (`kernel/cc.c`) | code buffer, symbol table | compile, save, load, run | terminal, file system |
| heap (`lib/heap.c`) | list of blocks | `kmalloc`, `kfree`, `coalesce` | threads (lock) |
| other widgets and applications (`gui/*.c`) | list, menu, scroll state; calculator registers | key and mouse handlers | applications |

What makes them hard:

- *Interleaving.* The timer may switch threads at any instruction that runs
  with IF set; `thread_block` races `thread_wake`, the storage worker races its
  submitters, interrupts race `event_wait` and the boot sequence, the mouse
  moves while the window manager reads where it is.
- *The interrupt flag as state.* IF is set and cleared by a counted pair, by
  bare `cli`/`sti`, by interrupt entry and `iret`, and by the trampoline of a
  new thread; whoever is resumed must end with it set.
- *Loss.* A full ring drops events, a wire drops a byte of a mouse packet.
- *Crash points.* Every file system operation is several sector writes, and the
  next boot mounts whatever they left.
- *Stale references.* Thread pointers, requests on stacks, entry numbers and
  window pointers outlive what they name.
- *Representation.* Lines in a flat buffer, an input line on a grid that wraps
  and scrolls, expressions on a machine stack, jumps patched after the fact.

What makes each component correct: threads — one runs, locks exclude, no wake
is lost, interrupts come back, none starves; storage — each call is served
once, with its own result, and returns; events — first in first out, loss only
at a full queue, no sleep on a waiting event; input — the window manager ends
up with the drivers' buttons, modifiers and cursor; file system — a forest of
distinct names on disjoint runs of sectors in memory and on disk at every
instant, completed writes survive; window manager — no pointer to a closed
window, focus on the one on top, windows within the user's reach; applications
— they act on what they show, copies are faithful; text windows — the flat
buffer is a list of lines and the screen shows it; compiler — a program does
what its source says and keeps to its frame. `PROJECT.json` lists every hazard
with its line.

## 2. Modules

**Threads and storage.** `Threads` models the library for *arbitrary* clients.
Its actions are the functions of `thread.c`, cut where another thread or an
interrupt can come in between; `pc[t]` is where thread `t` stands in the
library. A thread suspended by the timer has `inIrq[t]`: it is inside
`timer_irq_handler` and will execute its `iret`. `held` and `everOn` are ghosts.
Client code may call anything in any order but must keep the one rule
`thread.c` states at lines 130-134, in `Call`. A stretch of code that runs with
IF clear and gives the CPU to nobody is one step; `thread_block` is nevertheless
cut between its `cli`, its test and its switch, so that it is the modelled `cli`
that makes them atomic.

`WakeTokens` is the abstract specification of `thread_block`/`thread_wake`: each
thread owns a token; a wake puts it down whatever its target does, a wait ends
by taking it, or when every other thread is waiting too (the "do not actually
block" case of `pick_next`). `Threads` implements it (`DeliversWakes`,
`BlockWakeRefinement`).

`Storage` puts the kernel's own threads in place of the arbitrary clients: `main`
boots (creates the worker, whose stack may not be had, mounts through it, sets IF,
creates the clients), the worker runs `storage_thread_main`, clients submit
requests and enter critical sections as `wm_create_window` does. `kernel.c` creates
one client, the wm thread, when main has nothing left to do; the model has any
number of them. A client may submit from inside its critical section, as the text
editor's `on_init` does when it reads its file; it then blocks, and others run,
with the count above 0. That breaks the rule of `Threads`, so `Storage` takes the
functions of `thread.c` from there and nothing else: none of its properties rests
on the rule. A request is named by the thread whose stack it lives on; `serving` is
what the worker's local `req` points to, `dangling` says that the pointer outlived
the request.

**Input.** `EventQueue` is the ring with interrupts at every statement of
`event_init` and `event_wait`, and the one-instruction shadow after `sti`;
`LossyQueue` is what it promises. `Input` extends it with what is pushed and
what becomes of it: the devices put bytes on a wire, the handlers of
`keyboard.c` and `mouse.c` take them one by one, and `wm_thread_main` hands the
events on, reading the cursor in two calls with interrupts on. `view` is what
the window manager has been told; `down`, `astray` and `mistaken` are ghosts.
`MaxLost` is how many bytes a wire loses.

IF is set and the lines are unmasked when `event_init` runs, so an event may be
pushed between its three stores. The ghost `skew` counts those: `head` is from then
on that far ahead of `tail` and `q_count`, and `event_wait` pops cells that are as
far behind. What holds of the ring is stated with `skew` in it. `LossyQueue` has a
phase for the same purpose: a queue that is "resetting" when an event comes is
"torn" for good, and nothing is promised of it.

**Files.** `FileTable` has the operations of `fs.c` as operators on a table (tests
`Can...`, updates `Created`, `Written`, ...) and what a well-formed table is.
`FileSystem` runs them against a disk, one sector write at a time in the order
of the code, with `Crash` between any two. `TreeCopy` strings the same operators
together into the calls as the applications see them, from a file system to a
file system and a result: `fs_copy` with its recursion and its half-made copies,
paths, listings. `CopyDepth` is a function of the depth whose values are functions of
the call, and `Each` a loop over entries in the order of the table, with the step to
take at each: the loop over a folder's children, and those over a selection.

`Desktop` puts the file manager, the terminal and text editors on top. Their
callbacks are its actions, and the entry numbers they keep its state: current
folders, a listing, the rows of the tree, a selection under confirmation, an
item being renamed, the file an editor saves to, the file handed to an editor
that has yet to start. The tree has as many rows as the code gives it
(`TREEVIEW_MAX_ROWS`). What is typed in the terminal is one of `Paths`, the
destination of a copy as well; its last part, where that names a new entry, is one
of `Names`. A start of `MCDesktop` names two applications, the disk
they find and how many changes they may make.

**Windows.** `WindowManager` has the static variables of `wm.c` as one record `wm`
and its functions as operators from states to states, named as in the code
(`wm_raise` is `Raise`); the handlers that `wm_thread_main` calls are the
actions. An application's callback is the set of states in which it may leave
the window manager: it may create, focus, arrange and close windows, its own
included. `Windows` are addresses, which `kmalloc` gives out again. Where the
code compares coordinates, every region a window has may be hit. `held` is what
the mouse driver has reported, `lost` a ghost: a change of a button found the
event queue full. `drawn` is the last picture, or `Stale`. `WM_APP_CAPTURED` is two
modes of the model: `ORPHANED` is a capture that begins when the window has closed
itself in `on_mouse_down`. The handlers that then follow `g_drag_win` go through
memory that has been freed; what they find there is not modelled, and until the
release ends the capture they are taken to change nothing.

`WindowGeometry` is the same file seen by one window, to the pixel: hit tests,
drag, resize with its floor and limit, maximise, minimise, restore, cascade and
tile. `grab` is `g_mode` with the variables of that mode, `lastNormal` a ghost.
What other windows contribute (their number, where a cascade has come to) is
chosen.

**Text.** `TextBox` is the grid of characters, `EditBuffer` the editor's flat buffer
on it, `Console` the terminal's line editor, history and scrollback, from a first
screen whose banner is longer than a row. `TextLines`
is what an editor is to its user: lines, and a cursor in one of them; the buffer
implements it, each key by the action that the key is there for (`ImplementsLines`),
and newline, wrapping rows and the goal column are where that is more than renaming.
`TextWindows` puts the two on one keyboard.

**Compiler.** `Compiler` is `cc.c` as functions: a recursive descent over tokens, and
a walk over the tree that makes bytes of code, so that positions and distances
are those of the real code. A function of the code that calls itself is a function
of the depth of those calls (`unaries`, `statements`, `genExpr`, `genStmt`), on the
states of the parser or on the trees and buffers. `CSubset` is the language as
`include/cc.h` and its users understand it: how a tree is written down with the
parentheses it needs, and what it means, without stack or jumps. `CompilerRun` takes a
program through the terminal (`cc`, the file, `run`) and executes its code an
instruction at a time. Between `cc` and `run` another application may cut the file,
replace it, or change bytes of it: `cc_load_program` takes a file that is as long as
its header says, so a rewritten one is executed, and the model ends there ("astray").
A source whose parse nests deeper than the stack of its thread ends in "overrun":
`cc.c` does not test for it. `BehindStmt` and its kin say, for `AcceptsOnlyPrograms`,
how a tree may be written: they take it off the front of a text, in every way that
the grammar of `cc.h` and the precedence of its operators allow, with required
parentheses and superfluous ones, and give what is left. Integers have
`Word` bits, and a division out of range stops the kernel.

Eight modules hold the theorems. `KernelProofs` is about `Threads` and `Storage`,
`TableProofs` about the operators of `FileTable`, for `FileProofs` (`FileSystem`) and
`DesktopProofs` (`TreeCopy` and `Desktop`); `WindowManagerProofs` about `WindowManager`
and `WindowGeometry`; `InputProofs`, `TextProofs` and `CompilerProofs` are about what
their names say. `MC...` modules give
the sets and functions a `.cfg` cannot, and the symmetries.

## 3. What the runs check

| Run | Instance | Shows |
|---|---|---|
| `threads` | 3 slots, quantum 2, nesting 2 | the safety of the thread library, the refinement of wake tokens, no starvation, delivery of wakes |
| `storage` | 4 slots (main, worker, 2 clients), quantum 1 | also with submits inside `on_init`: each call served once with its own result, no request lost or forgotten, the lock's count leaked nowhere |
| `storage_live` | 3 slots | every storage call returns, those inside `on_init` included |
| `input` | ring of 2; four keys, three reports, three gestures of one device or two of both, one byte lost; interrupts inside `event_init` | ring in step, or out of it by what came inside `event_init`, and never slept on, delivery, honest modifiers, resynchronisation, what the window manager knows |
| `file_system` | 3 entries, 3 data sectors, files of at most 2, 2 names, 2 contents, 2 entries a sector | well-formedness in memory and on disk across crashes, no cycles, durability |
| `desktop` | 4 entries, 2 sectors, 2 names; two applications at a time, up to 3 changes | faithful copies, fresh listings, deletions that were asked for, editors that know what is saved |
| `window_manager` | 2 windows at 3 addresses, all 6 applications, lost button events | table, pointers, focus, blur, drags, repainting |
| `window_geometry` | desktop of 6 by 6 pixels, borders of 1 and 2, up to 5 windows | the window stays in reach, comes back where it was, tiles do not overlap |
| `text_windows` | buffer of 4, page of 2 by 2; grid of 4 by 2, line of 3, history of 2 | the buffer is a list of lines, the page and the grid show them, recall gives what was entered |
| `compiler` | a thousand programs and every token of one of them wrong, 3-bit integers, 165 bytes of code | programs do what they say and keep to their frame; what is accepted begins with a program, token for token |

Two more runs refute what a comment claims; `PROJECT.json` quotes the comments:

- `file_system_mount` (`OnlyBadDisksFormatted`): a failed read of the superblock
  formats a good disk.
- `desktop_launch` (`PlainLaunch`): a file handed to an editor whose window could not
  be created waits for the next plain launch.

Six more claims of comments are stated next to the properties of their modules and do
not hold either. They are not among the runs of `PROJECT.json`; each has a `.cfg`, with
which `tlc -config X.cfg M` gives the counterexample:

| Claim | Configuration | What happens |
|---|---|---|
| `wm.c:125`: `on_init` "never blocks"; `thread.c:133`: users of `preempt_disable` "never call switch_to while holding it" (`OnInitNeverBlocks`) | `StorageOnInit.cfg`, `Storage` | the text editor's `on_init` reads its file and blocks (`text_editor.c:91`) |
| `event.h:35`: `event_wait` waits for an event, "then pops it" (`PopsFirst`) | `InputInit.cfg`, `MCInput` | after an interrupt inside `event_init` (`event.c:11`) it pops an older cell, for good |
| `app.h:19-20, 43-44`: callbacks get the state that `on_init` made and `on_close` has yet to release (`CapturesOpenWindow`) | `WindowManagerCapture.cfg`, `MCWindowManager` | a window that closes itself in `on_mouse_down` is captured after that (`wm.c:457`), and called again |
| `treeview.h:8-10`: room for a row for every entry (`EveryFolderHasRow`) | `DesktopTree.cfg`, `MCDesktop` | the root takes one of the rows (`treeview.c:57`), so the last folder has none |
| `treeview.h:32-34`: rebuilt after any change of the folders (`EveryRowHasEntry`) | `DesktopRows.cfg`, `MCDesktop` | `rd` in the terminal rebuilds nothing, and `treeview_draw` (92) takes the name of an entry that is not there |
| `cc.h:14-15`: "exactly one function" (`ReadsWholeSource`) | `CompilerSource.cfg`, `MCCompiler` | whatever follows the brace that closes main is accepted (`cc.c:581`) |

Other disagreements were met on the way and have no run of their own:

- `storage_thread.c:95` sets `done` before it reads `req->waiter`, by when the
  request's stack frame may be gone. The model reads any thread then;
  `NoRequestLost` and `NothingLeaked` show that waking a stray thread of the
  table does no harm. A read outside the table is not modelled.
- `app.h:47` says that `on_blur` comes when a different window becomes focused;
  `wm_create_window` takes the focus without it, and `FocusHandedOver` leaves out
  steps that create a window.
- `wm.h:22` calls `min_w` a resize floor; `wm.c:501` applies the limit of the desktop
  after it.
- A format that a failed read started over a good disk, cut short by a power
  failure, leaves a half-cleared table under a superblock that still passes the
  test; a table sector that cannot be read leaves its entries free in memory
  (`fs.c:89` ignores the result as well) while those on disk are in use.
  `TablesWellFormed` and `Rooted` are checked with `ReadErrors = FALSE`.
- `editbuf.h:20, 28` says that the text is dirty when its contents changed; in a full
  buffer a key that adds nothing marks it as well (`editbuf.c:157`). `NoRoom` of
  `TextLines` allows it.
- The confirmation of the file manager remembers entry numbers. An entry that
  the terminal deletes and creates again meanwhile is deleted with the rest;
  `AskedOnly` is about numbers.

*Bounds.* Three slots give a runner, a ready and a blocked thread, enough for
every pair of racing calls plus the timer; the fourth in `storage` lets two
requests queue. Quantum 1 or 2 lets the timer strike at every step, because the
counter is not reset by voluntary switches. A ring of two wraps and fills, also
by the two events of one mouse packet; the keys are both Shifts (one bit), an
extended modifier and an extended plain key; the reports move with data bytes
that have bit 3 set, change a button alone, and overflow. Three entries allow a chain of three folders,
the shortest in which a cycle is not a direct one; three sectors allow a file to
be moved off a run that another file follows. Two entries share a table sector
and the third does not. On the desktop's four entries a copy of a folder with a
file fails for want of an entry or of a sector. Two windows are a top and a bottom, one of
which may be minimised, and a table that is full; a third address lets an address be used
again while another is free. On the small desktop the sizes stand to each other
as in the code: a border narrower than the floor, a floor not below the part
that a drag keeps, a cascade that wraps, and tile rows that are not full. A page
of two columns and rows wraps a line of three characters and scrolls; a grid of
four columns wraps an input line of three behind its prompt, and the banner, which
is longer than a row as the code's is. In 3 bits overflow
and the division that faults are within reach, and with `Disp8 = 3` three locals
are as many as one signed byte addresses. `MaxDepth` is
how many calls of the parser the stack holds; 8 is more than any program of the run
needs, so that `overrun` is a stage of other sources only. The names that a copy
may give its destination are those of `Names`; a longer or empty one takes the path
of `BadName`.

*Fairness.* The CPU executes (weak fairness of the library's steps). A tick that
comes while IF is clear is held by the interrupt controller, so ticks are
strongly fair. In `Threads` a critical section is left (the code in it is
straight-line) but no client is ever made to call anything. In `Storage` a
thread that gets the CPU again and again does something of its own: a tick is
10 ms, a step a few instructions. `storage_live` has one client, as `kernel.c`
has; with a second one `SubmitReturns` fails. While the first is blocked in its
`on_init` the count is above 0, so a section of the second's ends without `sti`, and
it runs on with interrupts off for as long as it does not block.
In `Input` the consumer executes; no device is made to send anything and no interrupt
to come, so it may sleep for ever when nobody types.

## 4. What is proved

`KernelProofs` proves, for every number of slots, quantum, nesting bound and every
client that keeps the rule, the invariants of `Threads`: `SchedulerSound`,
`PreemptionLock`, `NoLostWakeup`, `SlotReserved`. They are not inductive: nothing in
them says how a suspended thread stands. `IInv` adds `Suspended` (a preempted thread
held no lock and was in client code, in `thread_create` or in the idle loop) and
`Masked` (IF is clear on every path through a switch and set in client code outside
locks), and `RunningOrExited`. The proof has one step per action. The assumption is
`ThreadsAssumption`: at least one slot, a quantum in `Nat`, a positive nesting
bound. `MaxNest` bounds only how deep a client nests.

It also proves that `Threads` implements `WakeTokens`
(`BlockWakeRefinement`). Its extra invariant `WaitOver` says that a thread is chosen
out of a block only with a token, and that one that went through without a switch
has had nobody ready beside it ever since.

Of the storage worker it proves, for every number of threads, any quantum, nesting and
order of calls, at boot and inside `on_init` too, `ServedOnce`, `NoRequestLost` and
`NothingLeaked`: that the shared count of `preempt_disable` is always the sum of what
the threads hold, those that have blocked meanwhile included, so that it is 0 again
when they are through. None of the three can rest on `PreemptionLock`, which a client
that blocks inside its critical section breaks. `LInv` is what
the library keeps all the same (`AnyStep` is a call of any function anywhere), with the
count as the size of a set of sections (`StepNothingLeaked`); `SInv` puts `CInv` next to
it: `Roles` (main boots, at most one thread is the worker), `Links` (a thread's place in
the library goes with its place in the client's code), `Hands` and `InHand` (where a
request may be, and what the worker's `req` is at each of its statements), `Served` (how
often the disk was asked for it). `Wakes` is the reason nobody is forgotten: from a
thread's test to the switch in `thread_block` a wake is on its way, or is pending, or there is nothing to wake up
for. A wake on its way is the worker between `done = TRUE` and `thread_wake`, or a
submitter between `enqueue` and `thread_wake`. The proof has one lemma per action.

`FileProofs` proves `TablesWellFormed` (`FilesStayWellFormed`) and `Durable`
(`CompletedWritesSurvive`) for every number of entries, sectors, entries a sector,
names and contents, as long as mounting can read the disk. Each operation keeps a
table well formed (`CreateSound` ... `WriteSound` of `TableProofs`, all from
`OneEntryChanged`), and
the invariant says how far the disk may be behind: in the entry of the operation
under way only, and in `next_free` until the superblock is written, which does no
harm because it only leaves room to spare; a disk that is being formatted is not
mountable and is cleared up to the sector being written. For `Durable`, `UnderWay`
adds that a write in progress has put its content into the sectors it has passed,
and lies beyond the run that the disk still has for the file, unless the old content
was given up; disjoint runs then keep it off other files. `FoldersLeadToTheRoot` is
`Rooted` under the same conditions. That no folder is below itself is said by ranks:
a table is `Graded` if its entries can be numbered so that each folder has a smaller
number than what is in it. For `fs_move` the walk up from the destination, which has
not met the entry that is moved, shows that everything below that entry can be
numbered anew. From ranks back to `Up` it is a pigeonhole argument over the entries.

`DesktopProofs` proves the five properties of `Desktop`, `FilesWellFormed`,
`CopyFaithful`, `ListingFresh`, `CleanMeansSaved` and `AskedOnly`, for every size of
the disk, every set of names, texts and editors, every cap on the depth of a copy, and
any number of changes from any disk in order (`DesktopAssumption`: what a boot may find
is `InOrder`). Its invariant `IInv` begins with `Good(fs)`: the table is sound and
graded, and each text has the sectors for it. Every call of `fs.c` keeps that, and says
what else it touches (`SameBut`, `Keeps`, `Stand`). `Managed` and `Tidy` are what the
applications know of their own variables between two callbacks, `AskedSelection` that
the question on the screen is about the selection; without them the callbacks that use
an entry number later could do anything. `ListingFresh` and `CleanMeansSaved` are
inductive next to these, and `AskedOnly` follows in one step. There is one lemma per
command of an application, and one per frame (`ByTerminalKeeps`, ...) for what the step
means to the other applications.

For `CopyFaithful` (`CopiesAreTrue`) the recursion of `fs_copy` has to be understood.
That `CopyDepth` exists and unfolds (`CopyUnfolds`) is shown by building it from the
deepest layer up. What is then claimed of a copy at some depth is proved from the claim
one depth further down, in three rounds: a copy, complete or not, leaves a file system in
order with every old entry in place (`AllCopiesFaithful`); a folder is never copied into
itself or below, because the child on the way there fails at every depth
(`NeverIntoItself`); a copy that succeeds is a tree like its source (`AllCopiesTrue`).
The loop over the children keeps an invariant for each entry of the table (`EachReaches`).
In the last round it is that the branches below the new folder are those of the source
up to this child, and that everything new lies below the new folder. As the destination
is not below the source, nothing new lies below what has still to be copied; so each
child is copied as it was (`OneMoreBranch`). `Tree` itself is taken apart child by child
by `TreeUnfolds`. Here the model leaves no assumption besides those on the constants;
the state of `AtRest` in `CopyFaithful` only saves the run work, and `CopyToTrue` is the
lemma without it.

`InputProofs` proves `NoSleepOnEvent` (`NeverSleepsOnEvent`) for every ring, keys
and reports, with interrupts inside `event_init` or not: `Masked` says that IF is
clear from the test to the shadow of `sti`, `FoundEmpty` that the count is still 0
there. Of the two drivers it proves `ModifiersHonest` (`ModifiersStayHonest`) and
`OneLossOnePacket` (`OneLossSpoilsOnePacket`) for any number of gestures and lost
bytes. `KInv` says what is on the keyboard's wire and that the modifiers will be
right once it is read (`Arriving`); it needs `InputAssumption`, that `Keys` are of
the table. `MInv` counts a packet that has been begun at the wrong byte as spoilt in
advance (`Spoilt`), which makes the count of spoilt packets inductive. Three more
hold with interrupts inside `event_init` as well. `RingStaysInSync` is `InSync`: `RInv`
adds to it the ring as it is when `event_wait` has read an event and not yet counted
it, how far `event_init` is, and `skew`, by which `head` is ahead. `RingIsLossyQueue` is
the refinement `LQ!Spec`, which is `DeliversEvents` without its fairness; an event
inside `event_init` is the step that tears the queue. `WindowManagerCatchesUp` is
`CaughtUp`, which is about a window manager that was spared such an event and a full
ring. Its invariant relates what the
drivers know, the events on their way and what the window manager was told: `Told`
says that the pending events lead from the one to the other (`Leads`), each press a
press of buttons that are up then, and that a cursor position with no mouse event
pending is the drivers'; `HalfRead` that a coordinate read before the cursor moved
is followed by the event of that movement.

`WindowManagerProofs` proves the invariants `TableConsistent`, `NoDanglingPointer`,
`FocusOnTop`, `ScreenCurrent` and `DragHeld`, and the action property
`FocusHandedOver`, for every number of windows and addresses and any applications.
`NoDanglingPointer` says nothing of an `ORPHANED` capture, which follows a closed
window from the start (section 3).
The invariant is `Good` of `wm`: `Books` (the stack names every window in memory
once), `Pointers`, `FocusTop` and `Current`, that the last picture is that of now or
a redraw is due. Every operator of the module is shown to lead from sound states to
sound states: the primitive ones (`Raise`, `Close`, ...) once, the callbacks, which
may do any of them, by the set they range over, then the handlers. `FocusHandedOver`
needs a relation between the state before and after (`HandedOn`): it is reflexive,
and chains along the calls and callbacks of a handler as long as they do not both
open a window and close one.

Of `WindowGeometry` it proves `AlwaysGraspable` (`GripOnDesktop` for every screen, window
and history) and `TilesAlwaysApart` (`TilesApart` for every screen and number of
windows). `GripOnDesktop` is not inductive, because a resize starts from the
rectangle and the mouse position of its press. `GripInv` says of these that the edge is
never a top one (`wm_hit_test` finds the title bar first), that the mouse was inside
the window, and within the border when the edge is a left one; and of the rectangle
that it never reaches further out on the left than the border is wide.
`GeometryAssumption` relates the sizes as the code's are: among them that the border
is not wider than title bar or floor, and that a tile has at least the rows a drag
keeps. `WindowsComeBack` is the action property `RestoreReturns`; its invariant,
`Returning`, is that `restore_rect` is the last normal rectangle whenever the window is
not in its normal state, also while it is minimised from being maximised. All three
hold with `ReleaseMayBeLost` as without.

`TextProofs` proves `ScreenShowsLine`, `HistoryRecalls`, `PageShowsText` and
`ImplementsLines` for buffers, pages, grids, lines and rings of any size. For the
terminal the missing link is `Tidy`: behind its cursor a textbox is blank.
`textbox_putc` keeps that (a newline at the bottom scrolls a blank row in, a
backspace leaves a blank), so a prompt is always followed by blanks; and where
`Enter` puts the textbox's own cursor, behind the line, the rows below are blank
because no character of the line reaches them (`BelowLine`, the arithmetic of
wrapped rows). A redraw paints every cell that the line had or has and no other.
`PushRecalls` is the arithmetic of the ring. For the editor, `Spells` relates a flat
text and its list of lines character by character: which line an offset is on, which
column, and that every character of every line comes from one offset. It is kept by
each further character, and the page's scan of the buffer places characters by the
same two numbers (`PlacedIs`), from the start of the top line on (`FromIs`).

`EditorIsListOfLines` is the refinement of `TextLines`. Its algebra is that of texts
split in two: the lines of `s` followed by `t` are the lines of each, the last of the
one and the first of the other made one (`LinesGlue`). So the document is what is
before an offset glued to what is behind it (`DocGlued`), and the offset's row and
column are the last line of the first part and its length (`PreIs`). An inserted or
erased character leaves one part as it was and gives the other a character more
(`InsertedIs`, `ErasedIs`), which changes one line, or makes two of one if it is a line
end (`GlueChar`, `GlueBreak`). Each key is then one lemma about the two parts, and
one that it is the action of `TextLines` that it should be (`KeyShows`). That the
abstract text is full exactly when the array is counts the places of characters
(`LinesSize`).

`CompilerProofs` proves `FrameKept` (`CompilerFrame`) for every source, whatever its
tokens, every size of the compiler's tables and any contents of stack and buffer. The
assumption is `CompilerAssumption`: as many locals as one signed byte addresses and the
arena has nodes for. The invariant is about heights. Each position of the code where an
instruction begins has one height of the stack (`Heights`), a jump leads to a position of
the same height, and the end of the code has none. The processor keeps to them (`Runs`),
one lemma per group of instructions (`MovesRun`, `JumpsRun`, ...). What the code generator
emits has heights, in three stages: `InsLifts` for one instruction; `JumpLifts` and
`PatchKeeps` for a jump whose distance is filled in later, which until then may lead
anywhere; and for each form of tree a lemma that what is made of it begins and ends at the
same height (`Makes`), put together over the depth of the tree (`ExprMakes`, `StmtMakes`).
`GenerateFramed` is the result for the trees of a program whose locals are all declared.
`ParseCompiles` says that the parser accepts nothing else: every parse takes tidy states
to tidy ones, never forgets a symbol, and its tree is no deeper than the nodes it took
from the arena (`Reads`, `StmtReads`), so that the depth of the generator's recursion
is bounded by the arena. After an error nothing is claimed but that the error stays.

The theorem is about code that `cc` made: of a file that was rewritten in between
`FrameKept` says nothing, because the model ends where such a file is started.

`AcceptsOnlyPrograms` (`CompilerAccepts`) is about the same descent: the parser's tree
can be taken off the front of the source, every required parenthesis with it, and what
is left is the text from where the parser stopped. Of that rest nothing is claimed. Between two tokens the parser is clean (`Clean`) if its symbols
are the names that the tokens taken so far declare, each once and before its use, and
no declaration is cut. A step takes it from one clean place to another (`Goes`), and
the tree it makes, taken off any set of texts that holds the one before the step,
leaves one that holds the text behind it (`Spells`, `StmtSpells`): one lemma for each
function of the parser, again put together over the depth of its calls, where a chain
of operators and the statements of a block are inductions of their own. Which level an
operator has decides where a parenthesis is required; that each function of the parser
makes trees of its own level or tighter is part of `Spells`. `ParseSpells` is the
result for the parser alone.

Where an argument goes by induction over a number (the characters of a string, the
steps of a walk), the proof takes a least counterexample (`SomeLeast`), because the
induction theorems of the library take an operator that the provers cannot
instantiate.

Only model-checked: liveness (`NoStarvation`, `DeliversWakes`, `SubmitReturns`, and
that `DeliversEvents` delivers), which is out of the prover's reach; `RunsAsWritten` of
the compiler, which compares a run with `Meaning`, a recursive operator over trees that
looks at `MaxRounds` rounds of a program's loops, so that it would be an induction over
data and holds only where those are enough; and the findings.

## 5. What is not modelled

- Drawing, the contents of stacks, device registers, descriptor tables and the
  bootloader.
- Writes that fail: no caller looks at the result, so the code has no behaviour
  of its own to model, and no promise is stated anywhere.
- The block list of `heap.c`: sequential inside the lock, which `Threads` has.
- The calculator, and the arithmetic of lists, scroll bars, menus and splitters:
  pure functions of a widget's own fields. `Desktop` has what they decide.
- What a program file does that was rewritten after `cc` made it, what happens after a
  parse has overrun its thread's stack, and what is in memory that was freed.
- The characters of the lexer and the wording of errors; `Compiler` begins at
  tokens. Calls of programs into the kernel other than `print`: there are none.
- `wm_on_key_up`, as no application has an `on_key_up`; `THREAD_SLEEPING`, which
  nothing assigns.

## 6. What could come next

1. `heap.c`: the block list, with an abstract allocator it implements.
2. Proofs: `Meaning` as a function of the depth of a tree, as `genExpr` is; then that
   the code of an expression leaves its value in `eax`.
3. The arithmetic of the list, scroll bar and menu widgets, and the calculator.
4. The sort order and the scrolling of the file manager's listing.
