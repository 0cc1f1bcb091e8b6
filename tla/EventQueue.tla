----------------------------- MODULE EventQueue -----------------------------
(***************************************************************************)
(* src/kernel/event.c: a ring that interrupt handlers fill (event_push)    *)
(* and one thread empties (event_wait), and its place in the boot sequence *)
(* of src/kernel/kernel.c.  Input says which handlers push what, and what  *)
(* the thread does with an event.                                          *)
(*                                                                         *)
(* The timer, keyboard and mouse handlers run with IF clear, so a push is  *)
(* one step, possible wherever the consumer can be interrupted.  The       *)
(* consumer goes statement by statement.  It may be switched away from at  *)
(* any time; that only makes it slow.                                      *)
(*                                                                         *)
(* IF is set long before the sti that ends kernel_init: the kmalloc in the *)
(* first thread_create ends in preempt_enable, and so in sti.  Interrupts  *)
(* are therefore on, and the lines unmasked, when event_init runs.  A push *)
(* between its stores is not undone by them: head stays ahead of what tail *)
(* and q_count say, by one cell a push, and that for good.                 *)
(***************************************************************************)
EXTENDS Integers, Sequences, SequencesExt

CONSTANT EVENT_QUEUE_SIZE

ASSUME EventQueueAssumption == EVENT_QUEUE_SIZE \in Nat \ {0}

VARIABLES
  queue,    \* the array; {} in a cell never written, {e} in one that holds e
  head,     \* next cell to write
  tail,     \* next cell to read
  q_count,
  out,      \* the consumer's *out
  intr,     \* IF
  pc,       \* the consumer: main in event_init, then wm in event_wait
  skew      \* ghost: events pushed inside event_init

vars == <<queue, head, tail, q_count, out, intr, pc, skew>>

Cells == 0 .. EVENT_QUEUE_SIZE - 1

\* Boot before event_init; inside it; calling event_wait; and inside that.
Places == {"boot", "init_tail", "init_count", "call", "test", "sleep",
           "shadow", "halted", "cli", "copy", "advance", "count", "sti", "handle"}

InInit == pc \in {"init_tail", "init_count"}

Succ(i) == (i + 1) % EVENT_QUEUE_SIZE

-----------------------------------------------------------------------------
(* event_init, three plain stores. *)

InitHead == /\ pc = "boot" /\ pc' = "init_tail"
            /\ head' = 0
            /\ UNCHANGED <<queue, tail, q_count, out, intr, skew>>

InitTail == /\ pc = "init_tail" /\ pc' = "init_count"
            /\ tail' = 0
            /\ UNCHANGED <<queue, head, q_count, out, intr, skew>>

InitCount_Missing == /\ pc = "init_count" /\ pc' = "call"
                     /\ UNCHANGED <<queue, head, tail, q_count, out, intr, skew>>

InitCount == /\ pc = "init_count" /\ pc' = "call"
             /\ q_count' = 0
             /\ UNCHANGED <<queue, head, tail, out, intr, skew>>

-----------------------------------------------------------------------------
(* event_push, in an interrupt handler. *)

Interruptible_NoShadow == intr

\* The instruction after an sti is never interrupted, which makes event_wait's
\* sti and hlt one.
Interruptible == intr /\ pc # "shadow"

ring == [queue |-> queue, head |-> head, count |-> q_count]

\* Queue full: the event is dropped.
Push(r, e) ==
  IF r.count >= EVENT_QUEUE_SIZE
  THEN r
  ELSE [queue |-> [r.queue EXCEPT ![r.head] = {e}], head |-> Succ(r.head),
        count |-> r.count + 1]

\* How many more events the ring will keep: event_init forgets those that come
\* while it runs.
Room == IF InInit THEN 0 ELSE EVENT_QUEUE_SIZE - q_count

\* The events es pushed, in this order.
Pushed(r, es) ==
  LET after[n \in 0 .. Len(es)] == IF n = 0 THEN r ELSE Push(after[n - 1], es[n])
  IN  after[Len(es)]

\* A handler that pushes the events es.  An interrupt ends a hlt whatever its
\* handler does.
Handler(es) ==
  /\ Interruptible
  /\ LET r == Pushed(ring, es)
     IN  /\ queue' = r.queue /\ head' = r.head /\ q_count' = r.count
         /\ skew' = IF InInit THEN skew + (r.count - q_count) ELSE skew
  /\ pc' = IF pc = "halted" THEN "cli" ELSE pc
  /\ UNCHANGED <<tail, out, intr>>

-----------------------------------------------------------------------------
(* event_wait. *)

WaitCli_Missing == /\ pc \in {"call", "cli"} /\ pc' = "test"
                   /\ UNCHANGED <<queue, head, tail, q_count, out, intr, skew>>

WaitCli == /\ pc \in {"call", "cli"} /\ pc' = "test"
           /\ intr' = FALSE
           /\ UNCHANGED <<queue, head, tail, q_count, out, skew>>

WaitTest == /\ pc = "test"
            /\ pc' = IF q_count = 0 THEN "sleep" ELSE "copy"
            /\ UNCHANGED <<queue, head, tail, q_count, out, intr, skew>>

WaitSleep == /\ pc = "sleep" /\ pc' = "shadow"
             /\ intr' = TRUE
             /\ UNCHANGED <<queue, head, tail, q_count, out, skew>>

WaitHlt == /\ pc = "shadow" /\ pc' = "halted"
           /\ UNCHANGED <<queue, head, tail, q_count, out, intr, skew>>

PopCopy == /\ pc = "copy" /\ pc' = "advance"
           /\ out' = queue[tail]
           /\ UNCHANGED <<queue, head, tail, q_count, intr, skew>>

PopAdvance == /\ pc = "advance" /\ pc' = "count"
              /\ tail' = Succ(tail)
              /\ UNCHANGED <<queue, head, q_count, out, intr, skew>>

PopCount == /\ pc = "count" /\ pc' = "sti"
            /\ q_count' = q_count - 1
            /\ UNCHANGED <<queue, head, tail, out, intr, skew>>

\* Return to the caller, which handles the event and calls again.
WaitSti == /\ pc = "sti" /\ pc' = "handle"
           /\ intr' = TRUE
           /\ UNCHANGED <<queue, head, tail, q_count, out, skew>>

-----------------------------------------------------------------------------

\* The ring as the loader left it, with interrupts already on.
RingInit ==
        /\ queue = [i \in Cells |-> {}]
        /\ head = 0 /\ tail = 0 /\ q_count = 0
        /\ out = {}
        /\ intr = TRUE
        /\ pc = "boot"
        /\ skew = 0

Initialise == InitHead \/ InitTail \/ InitCount

Wait == \/ WaitCli \/ WaitTest \/ WaitSleep \/ WaitHlt
        \/ PopCopy \/ PopAdvance \/ PopCount \/ WaitSti

-----------------------------------------------------------------------------
(* Properties. *)

\* The events that wait, and the cell of the first: what the consumer has
\* copied out is no longer in the queue.
Waiting == CASE InInit -> 0
             [] pc \in {"advance", "count"} -> q_count - 1
             [] OTHER -> q_count

First == CASE InInit -> 0
           [] pc = "advance" -> Succ(tail)
           [] OTHER -> tail

WaitingCells == [k \in 1 .. Waiting |-> queue[(First + k - 1) % EVENT_QUEUE_SIZE]]

(* head is the next cell to write, tail the next to read (event.c lines     *)
(* 6-7): with q_count they describe one and the same queue, whose cells     *)
(* were all written, and a full queue drops an event rather than corrupt    *)
(* one.  Nothing but the events that came inside event_init sets head       *)
(* ahead, and by no more than their number.                                 *)
InSync ==
  /\ q_count \in 0 .. EVENT_QUEUE_SIZE
  /\ head = (First + Waiting + skew) % EVENT_QUEUE_SIZE
  /\ skew = 0 => \A k \in 1 .. Waiting : WaitingCells[k] # {}

(* event_wait "blocks until an event is available, then pops it" (event.h   *)
(* line 35): the events available fill the q_count cells before head, and  *)
(* it is the first of these that it is about to pop.                       *)
PopsFirst == pc = "copy" => head = (tail + q_count) % EVENT_QUEUE_SIZE

(* No wakeup is lost (event.c lines 32-33): the consumer never sleeps in    *)
(* hlt while an event waits.                                                *)
NoSleepOnEvent == pc = "halted" => q_count = 0

\* The ring as LossyQueue sees it: of a torn one it promises nothing.
Events == IF skew = 0 THEN WaitingCells ELSE <<>>

Taken == IF skew = 0 /\ out # {} THEN {out} ELSE {}

Phase == IF pc = "boot" THEN "fresh"
         ELSE IF skew # 0 THEN "torn"
         ELSE IF InInit THEN "resetting" ELSE "ready"

LQ == INSTANCE LossyQueue WITH
        Capacity <- EVENT_QUEUE_SIZE, buf <- Events, out <- Taken, phase <- Phase

(* The ring is the lossy queue of LossyQueue: first in first out, nothing   *)
(* lost but at its end and by event_init, nothing made up; and with a       *)
(* running consumer no event that was accepted waits for ever, even if no   *)
(* further interrupt comes.  Only an event inside event_init tears it.      *)
DeliversEvents == LQ!FairSpec

=============================================================================
