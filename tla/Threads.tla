------------------------------ MODULE Threads ------------------------------
(***************************************************************************)
(* The thread library of the kernel: src/kernel/thread.c, the stack switch *)
(* of src/kernel/context_switch.asm and the part of the timer interrupt    *)
(* that preempts.  One CPU, so only the thread in slot current takes       *)
(* steps; another thread can run only through a switch, and an interrupt   *)
(* can arrive only while the flag IF is set.                               *)
(*                                                                         *)
(* The clients of the library are arbitrary: in client code a thread may   *)
(* call any function, in any order, as long as it keeps the one rule that  *)
(* thread.c states (lines 130-134): it calls no function that switches     *)
(* while it holds preempt_disable.  Module Storage replaces the arbitrary  *)
(* clients by the kernel's own threads.                                    *)
(*                                                                         *)
(* A stretch of code that runs with IF clear and switches to nobody is one *)
(* step: nothing can be seen in the middle of it.  Where the code relies   *)
(* on a cli to make two operations atomic (thread_block's test of          *)
(* wake_pending and its switch) the steps are kept apart, so that it is    *)
(* the modelled cli, and not the model, that keeps them together.          *)
(***************************************************************************)
EXTENDS Naturals

CONSTANTS MAX_THREADS,          \* slots of the array threads
          THREAD_QUANTUM_TICKS, \* what a thread switch reloads the quantum with
          MaxNest               \* bound on nested preempt_disable calls

ASSUME ThreadsAssumption ==
  /\ MAX_THREADS \in Nat \ {0}
  /\ THREAD_QUANTUM_TICKS \in Nat
  /\ MaxNest \in Nat \ {0}

VARIABLES
  state,             \* threads[t].state (THREAD_SLEEPING is never assigned)
  wake_pending,      \* threads[t].wake_pending
  current,           \* the slot that current points to
  disable_count,
  quantum_remaining,
  intr,              \* the interrupt flag IF of the CPU
  pc,                \* where slot t's thread stands inside the library
  inIrq,             \* t was switched away from inside timer_irq_handler
  found,             \* the slot that thread_create's local t points to
  held,              \* ghost: preempt_disable calls of t not yet matched
  everOn             \* ghost: IF has been set since power on

cpuVars == <<intr, everOn>>
vars == <<state, wake_pending, current, disable_count, quantum_remaining,
          intr, pc, inIrq, found, held, everOn>>

Slots == 0 .. MAX_THREADS - 1

Main == 0   \* thread 0 is the boot context; it alone calls thread_create

States == {"UNUSED", "READY", "RUNNING", "BLOCKED"}

(***************************************************************************)
(* "user": client code; "create" and "fill": in thread_create, before and  *)
(* after the kmalloc; "block": in thread_block, past its cli; "blocked"    *)
(* and "yield": in thread_block and thread_yield, past the switch;         *)
(* "fresh": on the frame thread_create fabricated; "exited": no frame.     *)
(***************************************************************************)
Places == {"user", "create", "fill", "block", "blocked", "yield", "fresh", "exited"}

AtUser(t) == t = current /\ pc[t] = "user" /\ ~inIrq[t]

Goto(t, place) == pc' = [pc EXCEPT ![t] = place]

Cli == intr' = FALSE /\ UNCHANGED everOn

Sti == intr' = TRUE /\ everOn' = TRUE

-----------------------------------------------------------------------------
(* Interrupt masking with a nesting count. *)

PreemptDisable_NoCli(t) ==
  /\ AtUser(t)
  /\ held[t] < MaxNest
  /\ disable_count' = disable_count + 1
  /\ held' = [held EXCEPT ![t] = @ + 1]
  /\ UNCHANGED <<state, wake_pending, current, quantum_remaining, intr, pc, inIrq, found, everOn>>

PreemptDisable(t) ==
  /\ AtUser(t)
  /\ held[t] < MaxNest
  /\ Cli
  /\ disable_count' = disable_count + 1
  /\ held' = [held EXCEPT ![t] = @ + 1]
  /\ UNCHANGED <<state, wake_pending, current, quantum_remaining, pc, inIrq, found>>

AfterEnable(count) == IF count = 0 THEN Sti ELSE UNCHANGED cpuVars

PreemptEnable(t) ==
  /\ AtUser(t)
  /\ held[t] > 0
  /\ disable_count' = IF disable_count > 0 THEN disable_count - 1 ELSE disable_count
  /\ AfterEnable(disable_count')
  /\ held' = [held EXCEPT ![t] = @ - 1]
  /\ UNCHANGED <<state, wake_pending, current, quantum_remaining, pc, inIrq, found>>

\* preempt_disable, straight-line code on shared data, preempt_enable: how the
\* heap and the storage queue use the lock.  Nothing can come in between.  The
\* sti of a pair depends on the count alone: even code that ran with IF clear
\* and the count at 0 (the boot code) comes out of it with IF set.
CriticalPair == IF disable_count = 0 THEN Sti ELSE Cli

BriefCritical(t) ==
  /\ AtUser(t)
  /\ CriticalPair
  /\ UNCHANGED <<state, wake_pending, current, disable_count, quantum_remaining,
                 pc, inIrq, found, held>>

\* The sti at the end of kernel_init.
KernelSti(t) ==
  /\ AtUser(t)
  /\ Sti
  /\ UNCHANGED <<state, wake_pending, current, disable_count, quantum_remaining,
                 pc, inIrq, found, held>>

-----------------------------------------------------------------------------
(* Choosing and switching. *)

Ready == {t \in Slots : state[t] = "READY"}

\* How many steps of pick_next's loop, which starts after current, reach t.
Distance(t) == IF t > current THEN t - current ELSE t + MAX_THREADS - current

PickNext_FromZero == {t \in Ready : \A u \in Ready : t <= u}

\* The thread that pick_next's scan returns; empty when the scan finds none.
PickNext == {t \in Ready : \A u \in Ready : Distance(t) <= Distance(u)}

SwitchTo_KeepPrev(next, left) ==
  /\ state' = [state EXCEPT ![next] = "RUNNING"]
  /\ current' = next

\* Leave the calling thread in state left and give the CPU to next.
SwitchTo(next, left) ==
  /\ state' = [state EXCEPT ![current] = left, ![next] = "RUNNING"]
  /\ current' = next

-----------------------------------------------------------------------------
(* thread_create: the slot is chosen with interrupts as the caller left    *)
(* them, kmalloc masks and unmasks them, the slot is filled afterwards.    *)

ThreadCreate_AnySlot(t) ==
  /\ AtUser(t)
  /\ \E s \in Slots : state[s] # "RUNNING" /\ found' = s
  /\ Goto(t, "create")
  /\ UNCHANGED <<state, wake_pending, current, disable_count, quantum_remaining,
                 intr, inIrq, held, everOn>>

ThreadCreate(t) ==
  /\ AtUser(t)
  /\ \E s \in Slots : /\ state[s] = "UNUSED"
                      /\ \A r \in Slots : state[r] = "UNUSED" => s <= r
                      /\ found' = s
  /\ Goto(t, "create")
  /\ UNCHANGED <<state, wake_pending, current, disable_count, quantum_remaining,
                 intr, inIrq, held, everOn>>

ThreadCreateAlloc(t, ok) ==
  /\ t = current /\ pc[t] = "create" /\ ~inIrq[t]
  /\ CriticalPair
  /\ Goto(t, IF ok THEN "fill" ELSE "user")
  /\ UNCHANGED <<state, wake_pending, current, disable_count, quantum_remaining,
                 inIrq, found, held>>

ThreadCreateFill(t) ==
  /\ t = current /\ pc[t] = "fill" /\ ~inIrq[t]
  /\ wake_pending' = [wake_pending EXCEPT ![found] = FALSE]
  /\ state' = [state EXCEPT ![found] = "READY"]
  /\ pc' = [pc EXCEPT ![t] = "user", ![found] = "fresh"]
  /\ inIrq' = [inIrq EXCEPT ![found] = FALSE]
  /\ UNCHANGED <<current, disable_count, quantum_remaining, intr, found,
                 held, everOn>>

\* thread_trampoline: sti before the first instruction of the thread's entry.
Trampoline(t) ==
  /\ t = current /\ pc[t] = "fresh"
  /\ Sti
  /\ Goto(t, "user")
  /\ UNCHANGED <<state, wake_pending, current, disable_count, quantum_remaining,
                 inIrq, found, held>>

-----------------------------------------------------------------------------
(* thread_yield. *)

ThreadYield(t) ==
  /\ AtUser(t)
  /\ Cli
  /\ \/ \E next \in PickNext : SwitchTo(next, "READY")
     \/ Ready = {} /\ UNCHANGED <<state, current>>
  /\ Goto(t, "yield")
  /\ UNCHANGED <<wake_pending, disable_count, quantum_remaining, inIrq, found, held>>

ThreadYieldReturn(t) ==
  /\ t = current /\ pc[t] = "yield"
  /\ Sti
  /\ Goto(t, "user")
  /\ UNCHANGED <<state, wake_pending, current, disable_count, quantum_remaining,
                 inIrq, found, held>>

-----------------------------------------------------------------------------
(* thread_block and thread_wake. *)

ThreadBlock_Nested(t) ==
  /\ AtUser(t)
  /\ Cli
  /\ disable_count' = disable_count + 1
  /\ Goto(t, "block")
  /\ UNCHANGED <<state, wake_pending, current, quantum_remaining, inIrq, found, held>>

ThreadBlock(t) ==
  /\ AtUser(t)
  /\ Cli
  /\ Goto(t, "block")
  /\ UNCHANGED <<state, wake_pending, current, disable_count, quantum_remaining,
                 inIrq, found, held>>

\* A wake came first: consume it instead of blocking.
ThreadBlockConsume(t) ==
  /\ t = current /\ pc[t] = "block" /\ ~inIrq[t]
  /\ wake_pending[t]
  /\ wake_pending' = [wake_pending EXCEPT ![t] = FALSE]
  /\ Sti
  /\ Goto(t, "user")
  /\ UNCHANGED <<state, current, disable_count, quantum_remaining, inIrq, found, held>>

\* Block and switch away; with nobody to switch to the thread runs on.
ThreadBlockSwitch(t) ==
  /\ t = current /\ pc[t] = "block" /\ ~inIrq[t]
  /\ ~wake_pending[t]
  /\ \/ \E next \in PickNext : SwitchTo(next, "BLOCKED")
     \/ Ready = {} /\ UNCHANGED <<state, current>>
  /\ Goto(t, "blocked")
  /\ UNCHANGED <<wake_pending, disable_count, quantum_remaining, intr, inIrq,
                 found, held, everOn>>

ThreadBlockReturn(t) ==
  /\ t = current /\ pc[t] = "blocked" /\ ~inIrq[t]
  /\ wake_pending' = [wake_pending EXCEPT ![t] = FALSE]
  /\ Sti
  /\ Goto(t, "user")
  /\ UNCHANGED <<state, current, disable_count, quantum_remaining, inIrq, found, held>>

\* The state of slot u after a wake: the code also tests for SLEEPING.
Woken(u) == IF state[u] = "BLOCKED" THEN "READY" ELSE state[u]

ThreadWake_OnlyBlocked(t, u) ==
  /\ AtUser(t)
  /\ wake_pending' = [wake_pending EXCEPT ![u] = @ \/ state[u] = "BLOCKED"]
  /\ state' = [state EXCEPT ![u] = Woken(u)]
  /\ CriticalPair
  /\ UNCHANGED <<current, disable_count, quantum_remaining, pc, inIrq, found, held>>

ThreadWake_NoReady(t, u) ==
  /\ AtUser(t)
  /\ wake_pending' = [wake_pending EXCEPT ![u] = TRUE]
  /\ CriticalPair
  /\ UNCHANGED <<state, current, disable_count, quantum_remaining, pc, inIrq, found, held>>

\* u may be any slot: a thread_st pointer outlives its thread.
ThreadWake(t, u) ==
  /\ AtUser(t)
  /\ wake_pending' = [wake_pending EXCEPT ![u] = TRUE]
  /\ state' = [state EXCEPT ![u] = Woken(u)]
  /\ CriticalPair
  /\ UNCHANGED <<current, disable_count, quantum_remaining, pc, inIrq, found, held>>

-----------------------------------------------------------------------------
(* thread_exit, reached only from thread_trampoline.                       *)
(* With nobody ready the dead thread idles in hlt with interrupts on.      *)

ThreadExit(t) ==
  /\ AtUser(t)
  /\ Goto(t, "exited")
  /\ \/ /\ \E next \in PickNext : SwitchTo(next, "UNUSED")
        /\ Cli
     \/ /\ Ready = {}
        /\ state' = [state EXCEPT ![t] = "UNUSED"]
        /\ Sti
        /\ UNCHANGED current
  /\ UNCHANGED <<wake_pending, disable_count, quantum_remaining, inIrq, found, held>>

-----------------------------------------------------------------------------
(* The timer interrupt: timer_irq_handler calls scheduler_tick with IF     *)
(* clear (an interrupt gate).  A handler that does not switch returns at   *)
(* once; one that does returns, through iret, when its thread is chosen    *)
(* again, and restores the IF it interrupted, which was set.               *)

TickNoSwitch ==
  /\ intr
  /\ quantum_remaining > 0 \/ Ready = {}
  /\ quantum_remaining' = IF quantum_remaining > 0 THEN quantum_remaining - 1
                                                   ELSE THREAD_QUANTUM_TICKS
  /\ UNCHANGED <<state, wake_pending, current, disable_count, intr, pc, inIrq, found,
                 held, everOn>>

TickSwitch ==
  /\ intr
  /\ quantum_remaining = 0
  /\ quantum_remaining' = THREAD_QUANTUM_TICKS
  /\ \E next \in PickNext :
       SwitchTo(next, IF state[current] = "RUNNING" THEN "READY" ELSE state[current])
  /\ inIrq' = [inIrq EXCEPT ![current] = TRUE]
  /\ Cli
  /\ UNCHANGED <<wake_pending, disable_count, pc, found, held>>

SchedulerTick == TickNoSwitch \/ TickSwitch

IrqReturn(t) ==
  /\ t = current /\ inIrq[t]
  /\ inIrq' = [inIrq EXCEPT ![t] = FALSE]
  /\ Sti
  /\ UNCHANGED <<state, wake_pending, current, disable_count, quantum_remaining,
                 pc, found, held>>

-----------------------------------------------------------------------------

\* thread_init, at power on: everything else is zero.
Init ==
  /\ state = [t \in Slots |-> IF t = Main THEN "RUNNING" ELSE "UNUSED"]
  /\ wake_pending = [t \in Slots |-> FALSE]
  /\ current = Main
  /\ disable_count = 0
  /\ quantum_remaining = THREAD_QUANTUM_TICKS
  /\ intr = FALSE
  /\ pc = [t \in Slots |-> IF t = Main THEN "user" ELSE "exited"]
  /\ inIrq = [t \in Slots |-> FALSE]
  /\ found = Main
  /\ held = [t \in Slots |-> 0]
  /\ everOn = FALSE

\* What a client may call.  The functions that switch come only outside
\* critical sections; the boot context alone creates threads and turns
\* interrupts on (kernel.c); every other thread ends through thread_exit.
Call(t) ==
  \/ PreemptDisable(t) \/ PreemptEnable(t) \/ BriefCritical(t)
  \/ \E u \in Slots : ThreadWake(t, u)
  \/ held[t] = 0 /\ ( \/ ThreadYield(t) \/ ThreadBlock(t)
                      \/ t = Main /\ (ThreadCreate(t) \/ KernelSti(t))
                      \/ t # Main /\ ThreadExit(t) )

\* What the library does next once it has been called.
Return(t) ==
  \/ \E ok \in BOOLEAN : ThreadCreateAlloc(t, ok)
  \/ ThreadCreateFill(t) \/ Trampoline(t) \/ ThreadYieldReturn(t)
  \/ ThreadBlockConsume(t) \/ ThreadBlockSwitch(t) \/ ThreadBlockReturn(t)
  \/ IrqReturn(t)

Next == (\E t \in Slots : Call(t) \/ Return(t)) \/ SchedulerTick

Spec == Init /\ [][Next]_vars

(***************************************************************************)
(* Fairness.  The CPU executes (weak fairness of Return).  The timer keeps *)
(* firing; the controller holds a tick that comes while IF is clear until  *)
(* IF is set, so a tick that is enabled again and again is delivered       *)
(* (strong fairness).  A critical section is straight-line code, so every  *)
(* preempt_enable of it is reached.                                        *)
(***************************************************************************)
LeaveCritical(n) == \E t \in Slots : held[t] = n /\ PreemptEnable(t)

Fairness ==
  /\ WF_vars(\E t \in Slots : Return(t))
  /\ SF_vars(SchedulerTick)
  /\ \A n \in 1 .. MaxNest : SF_vars(LeaveCritical(n))

FairSpec == Spec /\ Fairness

-----------------------------------------------------------------------------
(* Properties. *)

TypeOK ==
  /\ state \in [Slots -> States]
  /\ wake_pending \in [Slots -> BOOLEAN]
  /\ current \in Slots
  /\ disable_count \in Nat
  /\ quantum_remaining \in 0 .. THREAD_QUANTUM_TICKS
  /\ intr \in BOOLEAN
  /\ pc \in [Slots -> Places]
  /\ inIrq \in [Slots -> BOOLEAN]
  /\ found \in Slots
  /\ held \in [Slots -> 0 .. MaxNest]
  /\ everOn \in BOOLEAN

(* No two slots are RUNNING, and the one that is has the CPU; the CPU is   *)
(* with a slot that is not RUNNING only in thread_exit's idle loop.        *)
(* switch_to and its callers keep this across every suspension.            *)
OneRunning ==
  /\ \A t \in Slots : state[t] = "RUNNING" => t = current
  /\ state[current] # "RUNNING" => pc[current] = "exited"

(* A wake is never lost: no thread is blocked with a wake still pending    *)
(* (thread.h lines 18-22, thread_block's test of wake_pending).            *)
NoLostWakeup == \A t \in Slots : state[t] = "BLOCKED" => ~wake_pending[t]

(* preempt_disable is a lock: whoever holds it has the CPU, interrupts are *)
(* off, and the shared count is exactly the holder's own nesting.          *)
CriticalSection ==
  /\ \A t \in Slots : held[t] > 0 => t = current
  /\ disable_count = held[current]
  /\ disable_count > 0 => ~intr

(* No thread is left running client code with interrupts off: whichever    *)
(* way a thread was suspended, resuming it turns them on again, unless it  *)
(* holds preempt_disable itself.                                           *)
InterruptsRestored ==
  (everOn /\ pc[current] = "user" /\ ~inIrq[current] /\ held[current] = 0) => intr

(* A slot that can be switched to has a frame to resume on: it was         *)
(* preempted, it is past a switch of its own, or it has never run; and a   *)
(* blocked slot sits in thread_block.                                      *)
Resumable ==
  \A t \in Slots \ {current} :
    /\ state[t] = "READY" => inIrq[t] \/ pc[t] \in {"blocked", "yield", "fresh"}
    /\ state[t] = "BLOCKED" => pc[t] = "blocked" /\ ~inIrq[t]

(* The scheduler's table is sound: every variable has its type, so neither *)
(* disable_count nor quantum_remaining runs under, one thread runs, and    *)
(* whoever may be switched to has something to resume.                     *)
SchedulerSound == TypeOK /\ OneRunning /\ Resumable

(* And preempt_disable is a lock that does not outlast its holder.         *)
PreemptionLock == CriticalSection /\ InterruptsRestored

(* The slot thread_create picked stays free until it is filled, although   *)
(* the kmalloc in between lets every other thread run.                     *)
SlotReserved ==
  \A t \in Slots : pc[t] \in {"create", "fill"} => t = Main /\ state[found] = "UNUSED"

(* thread_block and thread_wake implement the wake tokens of WakeTokens:   *)
(* a wake is never dropped, a wait ends only on a wake or when nobody else *)
(* can run, and a woken thread does come back.                             *)
Tokens == INSTANCE WakeTokens WITH
            Threads <- Slots,
            alive   <- {t \in Slots : state[t] # "UNUSED"},
            waiting <- {t \in Slots : pc[t] \in {"block", "blocked"}},
            token   <- wake_pending

ImplementsTokens == Tokens!Spec
DeliversWakes == Tokens!FairSpec

(* Round robin: a thread that is ready runs, however the other threads     *)
(* use the library.                                                        *)
NoStarvation == \A t \in Slots : state[t] = "READY" ~> state[t] = "RUNNING"

=============================================================================
