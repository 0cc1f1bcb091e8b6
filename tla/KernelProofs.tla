---------------------------- MODULE KernelProofs ----------------------------
(***************************************************************************)
(* The safety of the thread library and of the storage worker that runs on *)
(* it.  First Threads, for any number of slots, any quantum and any client *)
(* that keeps the rule of its Call.  The kernel's own threads break that   *)
(* rule, so Storage rests on less: on what the library keeps whatever is   *)
(* called where.  For any number of clients, with requests submitted       *)
(* inside preempt_disable and outside: the count leaks nothing, every      *)
(* request is served exactly once, and nobody waits for an answer, or for  *)
(* work, that is there.                                                    *)
(***************************************************************************)
EXTENDS Storage, FiniteSetTheorems, TLAPS

-----------------------------------------------------------------------------
(* The library.  The invariants of Threads are not inductive by            *)
(* themselves.  Suspended adds how a thread stands while somebody else     *)
(* runs, and Masked that the library keeps IF clear across a switch:       *)
(* together they say that whatever is switched to finds itself with IF     *)
(* clear and on its way to setting it.                                     *)

InClient(t) == pc[t] \in {"user", "create", "fill"}

Suspended ==
  \A t \in Slots :
    /\ inIrq[t] => held[t] = 0 /\ (InClient(t) \/ pc[t] = "exited")
    /\ held[t] > 0 => pc[t] = "user"

Masked ==
  /\ inIrq[current] \/ pc[current] \in {"block", "blocked", "yield", "fresh"} => ~intr
  /\ intr => everOn
  /\ (everOn /\ InClient(current) /\ ~inIrq[current] /\ held[current] = 0) => intr

RunningOrExited ==
  state[current] = "RUNNING" \/ (state[current] = "UNUSED" /\ pc[current] = "exited")

IInv ==
  /\ TypeOK
  /\ OneRunning /\ RunningOrExited
  /\ NoLostWakeup
  /\ CriticalSection
  /\ Resumable
  /\ SlotReserved
  /\ Suspended
  /\ Masked

LEMMA InitIInv == Init => IInv
<1> SUFFICES ASSUME Init PROVE IInv
  OBVIOUS
<1> USE ThreadsAssumption DEF Init, Main
<1>1. TypeOK
  <2>1. Main \in Slots
    BY SMT DEF Slots
  <2>2. /\ state \in [Slots -> States] /\ pc \in [Slots -> Places]
        /\ held \in [Slots -> 0 .. MaxNest] /\ disable_count \in 0 .. MaxNest
        /\ quantum_remaining \in 0 .. THREAD_QUANTUM_TICKS
    BY SMT DEF States, Places
  <2>3. /\ wake_pending \in [Slots -> BOOLEAN] /\ inIrq \in [Slots -> BOOLEAN]
        /\ intr \in BOOLEAN /\ everOn \in BOOLEAN
    BY Zenon
  <2>. QED
    BY <2>1, <2>2, <2>3 DEF TypeOK
<1>2. OneRunning
  BY SMT DEF OneRunning, Slots
<1>3. RunningOrExited
  BY SMT DEF RunningOrExited, Slots
<1>4. NoLostWakeup
  BY SMT DEF NoLostWakeup, Slots
<1>5. CriticalSection
  BY SMT DEF CriticalSection, Slots
<1>6. Resumable
  BY SMT DEF Resumable, Slots
<1>7. SlotReserved
  BY SMT DEF SlotReserved, Slots
<1>8. Suspended
  BY SMT DEF Suspended, Slots, InClient
<1>9. Masked
  BY SMT DEF Masked, Slots, InClient
<1>. QED
  BY <1>1, <1>2, <1>3, <1>4, <1>5, <1>6, <1>7, <1>8, <1>9 DEF IInv

(* Every invariant that the library's clients rely on follows from IInv.   *)
LEMMA IInvImplies ==
  IInv => TypeOK /\ OneRunning /\ NoLostWakeup /\ CriticalSection
          /\ InterruptsRestored /\ Resumable /\ SlotReserved
  BY SMT DEF IInv, InterruptsRestored, Masked, InClient

LEMMA PickNextIsReady ==
  \A n \in PickNext : n \in Slots /\ state[n] = "READY"
  BY DEF PickNext, Ready

\* A step of the library, called without regard to the rule.
AnyCall(t) ==
  \/ PreemptDisable(t) \/ PreemptEnable(t) \/ BriefCritical(t)
  \/ \E u \in Slots : ThreadWake(t, u)
  \/ ThreadYield(t) \/ ThreadBlock(t) \/ KernelSti(t) \/ ThreadExit(t)
  \/ t = Main /\ ThreadCreate(t)

AnyStep == (\E t \in Slots : AnyCall(t) \/ Return(t)) \/ SchedulerTick

LEMMA NextIsAny == [Next]_vars => [AnyStep]_vars
  BY DEF Next, Call, AnyStep, AnyCall

LEMMA StepTypeOK == TypeOK /\ [AnyStep]_vars => TypeOK'
<1> SUFFICES ASSUME TypeOK, [AnyStep]_vars PROVE TypeOK'
  OBVIOUS
<1> USE ThreadsAssumption
        DEF TypeOK, AtUser, Goto, Cli, Sti, AfterEnable, CriticalPair,
           cpuVars, States, Places
<1>0. intr' \in BOOLEAN /\ everOn' \in BOOLEAN
  BY ZenonT(30)
  DEF AnyStep, AnyCall, Return, SchedulerTick, vars, PreemptDisable, PreemptEnable,
      BriefCritical, ThreadWake, ThreadCreate, ThreadYield, ThreadBlock, ThreadExit,
      KernelSti, ThreadCreateAlloc, ThreadCreateFill, Trampoline, ThreadYieldReturn,
      ThreadBlockConsume, ThreadBlockSwitch, ThreadBlockReturn, IrqReturn,
      TickNoSwitch, TickSwitch
<1>1. ASSUME NEW t \in Slots, PreemptDisable(t) PROVE TypeOK'
  BY <1>0, <1>1, SMT DEF PreemptDisable
<1>2. ASSUME NEW t \in Slots, PreemptEnable(t) PROVE TypeOK'
  BY <1>0, <1>2, SMT DEF PreemptEnable
<1>3. ASSUME NEW t \in Slots, BriefCritical(t) PROVE TypeOK'
  BY <1>0, <1>3, SMT DEF BriefCritical
<1>4. ASSUME NEW t \in Slots, NEW u \in Slots, ThreadWake(t, u) PROVE TypeOK'
  BY <1>0, <1>4, SMT DEF ThreadWake, Woken
<1>5. ASSUME NEW t \in Slots, ThreadCreate(t) PROVE TypeOK'
  BY <1>0, <1>5, SMT DEF ThreadCreate
<1>6. ASSUME NEW t \in Slots, ThreadYield(t) PROVE TypeOK'
  BY <1>0, <1>6, PickNextIsReady, SMT DEF ThreadYield, SwitchTo
<1>7. ASSUME NEW t \in Slots, ThreadBlock(t) PROVE TypeOK'
  BY <1>0, <1>7, SMT DEF ThreadBlock
<1>8. ASSUME NEW t \in Slots, ThreadExit(t) PROVE TypeOK'
  BY <1>0, <1>8, PickNextIsReady, SMT DEF ThreadExit, SwitchTo
<1>9. ASSUME NEW t \in Slots, KernelSti(t) PROVE TypeOK'
  BY <1>0, <1>9, SMT DEF KernelSti
<1>10. ASSUME NEW t \in Slots, NEW ok \in BOOLEAN, ThreadCreateAlloc(t, ok)
       PROVE  TypeOK'
  BY <1>0, <1>10, SMT DEF ThreadCreateAlloc
<1>11. ASSUME NEW t \in Slots, ThreadCreateFill(t) PROVE TypeOK'
  BY <1>0, <1>11, SMT DEF ThreadCreateFill
<1>12. ASSUME NEW t \in Slots, Trampoline(t) PROVE TypeOK'
  BY <1>0, <1>12, SMT DEF Trampoline
<1>13. ASSUME NEW t \in Slots, ThreadYieldReturn(t) PROVE TypeOK'
  BY <1>0, <1>13, SMT DEF ThreadYieldReturn
<1>14. ASSUME NEW t \in Slots, ThreadBlockConsume(t) PROVE TypeOK'
  BY <1>0, <1>14, SMT DEF ThreadBlockConsume
<1>15. ASSUME NEW t \in Slots, ThreadBlockSwitch(t) PROVE TypeOK'
  BY <1>0, <1>15, PickNextIsReady, SMT DEF ThreadBlockSwitch, SwitchTo
<1>16. ASSUME NEW t \in Slots, ThreadBlockReturn(t) PROVE TypeOK'
  BY <1>0, <1>16, SMT DEF ThreadBlockReturn
<1>17. ASSUME NEW t \in Slots, IrqReturn(t) PROVE TypeOK'
  BY <1>0, <1>17, SMT DEF IrqReturn
<1>18. CASE TickNoSwitch
  BY <1>0, <1>18, SMT DEF TickNoSwitch
<1>19. CASE TickSwitch
  BY <1>0, <1>19, PickNextIsReady, SMT DEF TickSwitch, SwitchTo
<1>20. CASE UNCHANGED vars
  BY <1>20 DEF vars
<1> HIDE DEF TypeOK, States, Places
<1>. QED
  BY <1>1, <1>2, <1>3, <1>4, <1>5, <1>6, <1>7, <1>8, <1>9, <1>10, <1>11,
     <1>12, <1>13, <1>14, <1>15, <1>16, <1>17, <1>18, <1>19, <1>20, Zenon
  DEF AnyStep, AnyCall, Return, SchedulerTick

LEMMA StepIInv == IInv /\ [Next]_vars => IInv'
<1> SUFFICES ASSUME IInv, [Next]_vars PROVE IInv'
  OBVIOUS
<1> USE ThreadsAssumption
        DEF IInv, TypeOK, AtUser, Goto, Cli, Sti, AfterEnable, CriticalPair,
           cpuVars, InClient
<1>0. TypeOK'
  <2>1. TypeOK /\ [AnyStep]_vars
    BY NextIsAny
  <2>. QED
    BY <2>1, StepTypeOK, Zenon
<1>1. ASSUME NEW t \in Slots, PreemptDisable(t) PROVE IInv'
  <2>1. OneRunning' /\ RunningOrExited'
    BY <1>1, SMT DEF PreemptDisable, OneRunning, RunningOrExited, Resumable
  <2>2. NoLostWakeup' /\ SlotReserved'
    BY <1>1, SMT DEF PreemptDisable, NoLostWakeup, SlotReserved,
       RunningOrExited, OneRunning, Resumable
  <2>3. CriticalSection'
    BY <1>1, SMT DEF PreemptDisable, CriticalSection, Suspended, Masked
  <2>4. Resumable'
    BY <1>1, SMT DEF PreemptDisable, Resumable, NoLostWakeup,
       RunningOrExited, OneRunning
  <2>5. Suspended'
    BY <1>1, SMT DEF PreemptDisable, Suspended, Masked, CriticalSection,
       Resumable, RunningOrExited
  <2>6. Masked'
    BY <1>1, SMT DEF PreemptDisable, Masked, Suspended, CriticalSection,
       Resumable
  <2>. QED
    BY <1>0, <2>1, <2>2, <2>3, <2>4, <2>5, <2>6 DEF IInv
<1>2. ASSUME NEW t \in Slots, PreemptEnable(t) PROVE IInv'
  <2>1. OneRunning' /\ RunningOrExited'
    BY <1>2, SMT DEF PreemptEnable, OneRunning, RunningOrExited, Resumable
  <2>2. NoLostWakeup' /\ SlotReserved'
    BY <1>2, SMT DEF PreemptEnable, NoLostWakeup, SlotReserved,
       RunningOrExited, OneRunning, Resumable
  <2>3. CriticalSection'
    BY <1>2, SMT DEF PreemptEnable, CriticalSection, Suspended, Masked
  <2>4. Resumable'
    BY <1>2, SMT DEF PreemptEnable, Resumable, NoLostWakeup, RunningOrExited,
       OneRunning
  <2>5. Suspended'
    BY <1>2, SMT DEF PreemptEnable, Suspended, Masked, CriticalSection,
       Resumable, RunningOrExited
  <2>6. Masked'
    BY <1>2, SMT DEF PreemptEnable, Masked, Suspended, CriticalSection,
       Resumable
  <2>. QED
    BY <1>0, <2>1, <2>2, <2>3, <2>4, <2>5, <2>6 DEF IInv
<1>3. ASSUME NEW t \in Slots, BriefCritical(t) PROVE IInv'
  <2>1. OneRunning' /\ RunningOrExited'
    BY <1>3, SMT DEF BriefCritical, OneRunning, RunningOrExited, Resumable
  <2>2. NoLostWakeup' /\ SlotReserved'
    BY <1>3, SMT DEF BriefCritical, NoLostWakeup, SlotReserved,
       RunningOrExited, OneRunning, Resumable
  <2>3. CriticalSection'
    BY <1>3, SMT DEF BriefCritical, CriticalSection, Suspended, Masked
  <2>4. Resumable'
    BY <1>3, SMT DEF BriefCritical, Resumable, NoLostWakeup, RunningOrExited,
       OneRunning
  <2>5. Suspended'
    BY <1>3, SMT DEF BriefCritical, Suspended, Masked, CriticalSection,
       Resumable, RunningOrExited
  <2>6. Masked'
    BY <1>3, SMT DEF BriefCritical, Masked, Suspended, CriticalSection,
       Resumable
  <2>. QED
    BY <1>0, <2>1, <2>2, <2>3, <2>4, <2>5, <2>6 DEF IInv
<1>4. ASSUME NEW t \in Slots, NEW u \in Slots, ThreadWake(t, u) PROVE IInv'
  <2>1. OneRunning' /\ RunningOrExited'
    BY <1>4, SMT DEF ThreadWake, Woken, OneRunning, RunningOrExited, Resumable
  <2>2. NoLostWakeup' /\ SlotReserved'
    BY <1>4, SMT DEF ThreadWake, Woken, NoLostWakeup, SlotReserved,
       RunningOrExited, OneRunning, Resumable
  <2>3. CriticalSection'
    BY <1>4, SMT DEF ThreadWake, Woken, CriticalSection, Suspended, Masked
  <2>4. Resumable'
    BY <1>4, SMT DEF ThreadWake, Woken, Resumable, NoLostWakeup,
       RunningOrExited, OneRunning
  <2>5. Suspended'
    BY <1>4, SMT DEF ThreadWake, Woken, Suspended, Masked, CriticalSection,
       Resumable, RunningOrExited
  <2>6. Masked'
    BY <1>4, SMT DEF ThreadWake, Woken, Masked, Suspended, CriticalSection,
       Resumable
  <2>. QED
    BY <1>0, <2>1, <2>2, <2>3, <2>4, <2>5, <2>6 DEF IInv
<1>5. ASSUME NEW t \in Slots, held[t] = 0, t = Main, ThreadCreate(t)
      PROVE  IInv'
  <2>1. OneRunning' /\ RunningOrExited'
    BY <1>5, SMT DEF ThreadCreate, OneRunning, RunningOrExited, Resumable
  <2>2. NoLostWakeup' /\ SlotReserved'
    BY <1>5, SMT DEF ThreadCreate, NoLostWakeup, SlotReserved,
       RunningOrExited, OneRunning, Resumable
  <2>3. CriticalSection'
    BY <1>5, SMT DEF ThreadCreate, CriticalSection, Suspended, Masked
  <2>4. Resumable'
    BY <1>5, SMT DEF ThreadCreate, Resumable, NoLostWakeup, RunningOrExited,
       OneRunning
  <2>5. Suspended'
    BY <1>5, SMT DEF ThreadCreate, Suspended, Masked, CriticalSection,
       Resumable, RunningOrExited
  <2>6. Masked'
    BY <1>5, SMT DEF ThreadCreate, Masked, Suspended, CriticalSection,
       Resumable
  <2>. QED
    BY <1>0, <2>1, <2>2, <2>3, <2>4, <2>5, <2>6 DEF IInv
<1>6. ASSUME NEW t \in Slots, held[t] = 0, ThreadYield(t) PROVE IInv'
  <2>1. OneRunning' /\ RunningOrExited'
    BY <1>6, PickNextIsReady, SMT DEF ThreadYield, SwitchTo, OneRunning,
       RunningOrExited, Resumable
  <2>2. NoLostWakeup' /\ SlotReserved'
    BY <1>6, PickNextIsReady, SMT DEF ThreadYield, SwitchTo, NoLostWakeup,
       SlotReserved, RunningOrExited, OneRunning, Resumable
  <2>3. CriticalSection'
    BY <1>6, PickNextIsReady, SMT DEF ThreadYield, SwitchTo, CriticalSection,
       Suspended, Masked
  <2>4. Resumable'
    BY <1>6, PickNextIsReady, SMT DEF ThreadYield, SwitchTo, Resumable,
       NoLostWakeup, RunningOrExited, OneRunning
  <2>5. Suspended'
    BY <1>6, PickNextIsReady, SMT DEF ThreadYield, SwitchTo, Suspended,
       Masked, CriticalSection, Resumable, RunningOrExited
  <2>6. Masked'
    BY <1>6, PickNextIsReady, SMT DEF ThreadYield, SwitchTo, Masked,
       Suspended, CriticalSection, Resumable
  <2>. QED
    BY <1>0, <2>1, <2>2, <2>3, <2>4, <2>5, <2>6 DEF IInv
<1>7. ASSUME NEW t \in Slots, held[t] = 0, ThreadBlock(t) PROVE IInv'
  <2>1. OneRunning' /\ RunningOrExited'
    BY <1>7, SMT DEF ThreadBlock, OneRunning, RunningOrExited, Resumable
  <2>2. NoLostWakeup' /\ SlotReserved'
    BY <1>7, SMT DEF ThreadBlock, NoLostWakeup, SlotReserved,
       RunningOrExited, OneRunning, Resumable
  <2>3. CriticalSection'
    BY <1>7, SMT DEF ThreadBlock, CriticalSection, Suspended, Masked
  <2>4. Resumable'
    BY <1>7, SMT DEF ThreadBlock, Resumable, NoLostWakeup, RunningOrExited,
       OneRunning
  <2>5. Suspended'
    BY <1>7, SMT DEF ThreadBlock, Suspended, Masked, CriticalSection,
       Resumable, RunningOrExited
  <2>6. Masked'
    BY <1>7, SMT DEF ThreadBlock, Masked, Suspended, CriticalSection, Resumable
  <2>. QED
    BY <1>0, <2>1, <2>2, <2>3, <2>4, <2>5, <2>6 DEF IInv
<1>8. ASSUME NEW t \in Slots, held[t] = 0, t # Main, ThreadExit(t) PROVE IInv'
  <2>1. OneRunning' /\ RunningOrExited'
    BY <1>8, PickNextIsReady, SMT DEF ThreadExit, SwitchTo, OneRunning,
       RunningOrExited, Resumable
  <2>2. NoLostWakeup' /\ SlotReserved'
    BY <1>8, PickNextIsReady, SMT DEF ThreadExit, SwitchTo, NoLostWakeup,
       SlotReserved, RunningOrExited, OneRunning, Resumable
  <2>3. CriticalSection'
    BY <1>8, PickNextIsReady, SMT DEF ThreadExit, SwitchTo, CriticalSection,
       Suspended, Masked
  <2>4. Resumable'
    BY <1>8, PickNextIsReady, SMT DEF ThreadExit, SwitchTo, Resumable,
       NoLostWakeup, RunningOrExited, OneRunning
  <2>5. Suspended'
    BY <1>8, PickNextIsReady, SMT DEF ThreadExit, SwitchTo, Suspended,
       Masked, CriticalSection, Resumable, RunningOrExited
  <2>6. Masked'
    BY <1>8, PickNextIsReady, SMT DEF ThreadExit, SwitchTo, Masked,
       Suspended, CriticalSection, Resumable
  <2>. QED
    BY <1>0, <2>1, <2>2, <2>3, <2>4, <2>5, <2>6 DEF IInv
<1>9. ASSUME NEW t \in Slots, held[t] = 0, t = Main, KernelSti(t) PROVE IInv'
  <2>1. OneRunning' /\ RunningOrExited'
    BY <1>9, SMT DEF KernelSti, OneRunning, RunningOrExited, Resumable
  <2>2. NoLostWakeup' /\ SlotReserved'
    BY <1>9, SMT DEF KernelSti, NoLostWakeup, SlotReserved, RunningOrExited,
       OneRunning, Resumable
  <2>3. CriticalSection'
    BY <1>9, SMT DEF KernelSti, CriticalSection, Suspended, Masked
  <2>4. Resumable'
    BY <1>9, SMT DEF KernelSti, Resumable, NoLostWakeup, RunningOrExited,
       OneRunning
  <2>5. Suspended'
    BY <1>9, SMT DEF KernelSti, Suspended, Masked, CriticalSection,
       Resumable, RunningOrExited
  <2>6. Masked'
    BY <1>9, SMT DEF KernelSti, Masked, Suspended, CriticalSection, Resumable
  <2>. QED
    BY <1>0, <2>1, <2>2, <2>3, <2>4, <2>5, <2>6 DEF IInv
<1>10. ASSUME NEW t \in Slots, NEW ok \in BOOLEAN, ThreadCreateAlloc(t, ok)
       PROVE  IInv'
  <2>1. OneRunning' /\ RunningOrExited'
    BY <1>10, SMT DEF ThreadCreateAlloc, OneRunning, RunningOrExited, Resumable
  <2>2. NoLostWakeup' /\ SlotReserved'
    BY <1>10, SMT DEF ThreadCreateAlloc, NoLostWakeup, SlotReserved,
       RunningOrExited, OneRunning, Resumable
  <2>3. CriticalSection'
    BY <1>10, SMT DEF ThreadCreateAlloc, CriticalSection, Suspended, Masked
  <2>4. Resumable'
    BY <1>10, SMT DEF ThreadCreateAlloc, Resumable, NoLostWakeup,
       RunningOrExited, OneRunning
  <2>5. Suspended'
    BY <1>10, SMT DEF ThreadCreateAlloc, Suspended, Masked, CriticalSection,
       Resumable, RunningOrExited
  <2>6. Masked'
    BY <1>10, SMT DEF ThreadCreateAlloc, Masked, Suspended, CriticalSection,
       Resumable
  <2>. QED
    BY <1>0, <2>1, <2>2, <2>3, <2>4, <2>5, <2>6 DEF IInv
<1>11. ASSUME NEW t \in Slots, ThreadCreateFill(t) PROVE IInv'
  <2>1. OneRunning' /\ RunningOrExited'
    BY <1>11, SMT DEF ThreadCreateFill, OneRunning, RunningOrExited, Resumable
  <2>2. NoLostWakeup' /\ SlotReserved'
    BY <1>11, SMT DEF ThreadCreateFill, NoLostWakeup, SlotReserved,
       RunningOrExited, OneRunning, Resumable
  <2>3. CriticalSection'
    BY <1>11, SMT DEF ThreadCreateFill, CriticalSection, Suspended, Masked
  <2>4. Resumable'
    BY <1>11, SMT DEF ThreadCreateFill, Resumable, NoLostWakeup,
       RunningOrExited, OneRunning
  <2>5. Suspended'
    BY <1>11, SMT DEF ThreadCreateFill, Suspended, Masked, CriticalSection,
       Resumable, RunningOrExited
  <2>6. Masked'
    BY <1>11, SMT DEF ThreadCreateFill, Masked, Suspended, CriticalSection,
       Resumable
  <2>. QED
    BY <1>0, <2>1, <2>2, <2>3, <2>4, <2>5, <2>6 DEF IInv
<1>12. ASSUME NEW t \in Slots, Trampoline(t) PROVE IInv'
  <2>1. OneRunning' /\ RunningOrExited'
    BY <1>12, SMT DEF Trampoline, OneRunning, RunningOrExited, Resumable
  <2>2. NoLostWakeup' /\ SlotReserved'
    BY <1>12, SMT DEF Trampoline, NoLostWakeup, SlotReserved,
       RunningOrExited, OneRunning, Resumable
  <2>3. CriticalSection'
    BY <1>12, SMT DEF Trampoline, CriticalSection, Suspended, Masked
  <2>4. Resumable'
    BY <1>12, SMT DEF Trampoline, Resumable, NoLostWakeup, RunningOrExited,
       OneRunning
  <2>5. Suspended'
    BY <1>12, SMT DEF Trampoline, Suspended, Masked, CriticalSection,
       Resumable, RunningOrExited
  <2>6. Masked'
    BY <1>12, SMT DEF Trampoline, Masked, Suspended, CriticalSection, Resumable
  <2>. QED
    BY <1>0, <2>1, <2>2, <2>3, <2>4, <2>5, <2>6 DEF IInv
<1>13. ASSUME NEW t \in Slots, ThreadYieldReturn(t) PROVE IInv'
  <2>1. OneRunning' /\ RunningOrExited'
    BY <1>13, SMT DEF ThreadYieldReturn, OneRunning, RunningOrExited, Resumable
  <2>2. NoLostWakeup' /\ SlotReserved'
    BY <1>13, SMT DEF ThreadYieldReturn, NoLostWakeup, SlotReserved,
       RunningOrExited, OneRunning, Resumable
  <2>3. CriticalSection'
    BY <1>13, SMT DEF ThreadYieldReturn, CriticalSection, Suspended, Masked
  <2>4. Resumable'
    BY <1>13, SMT DEF ThreadYieldReturn, Resumable, NoLostWakeup,
       RunningOrExited, OneRunning
  <2>5. Suspended'
    BY <1>13, SMT DEF ThreadYieldReturn, Suspended, Masked, CriticalSection,
       Resumable, RunningOrExited
  <2>6. Masked'
    BY <1>13, SMT DEF ThreadYieldReturn, Masked, Suspended, CriticalSection,
       Resumable
  <2>. QED
    BY <1>0, <2>1, <2>2, <2>3, <2>4, <2>5, <2>6 DEF IInv
<1>14. ASSUME NEW t \in Slots, ThreadBlockConsume(t) PROVE IInv'
  <2>1. OneRunning' /\ RunningOrExited'
    BY <1>14, SMT DEF ThreadBlockConsume, OneRunning, RunningOrExited,
       Resumable
  <2>2. NoLostWakeup' /\ SlotReserved'
    BY <1>14, SMT DEF ThreadBlockConsume, NoLostWakeup, SlotReserved,
       RunningOrExited, OneRunning, Resumable
  <2>3. CriticalSection'
    BY <1>14, SMT DEF ThreadBlockConsume, CriticalSection, Suspended, Masked
  <2>4. Resumable'
    BY <1>14, SMT DEF ThreadBlockConsume, Resumable, NoLostWakeup,
       RunningOrExited, OneRunning
  <2>5. Suspended'
    BY <1>14, SMT DEF ThreadBlockConsume, Suspended, Masked, CriticalSection,
       Resumable, RunningOrExited
  <2>6. Masked'
    BY <1>14, SMT DEF ThreadBlockConsume, Masked, Suspended, CriticalSection,
       Resumable
  <2>. QED
    BY <1>0, <2>1, <2>2, <2>3, <2>4, <2>5, <2>6 DEF IInv
<1>15. ASSUME NEW t \in Slots, ThreadBlockSwitch(t) PROVE IInv'
  <2>1. OneRunning' /\ RunningOrExited'
    BY <1>15, PickNextIsReady, SMT DEF ThreadBlockSwitch, SwitchTo,
       OneRunning, RunningOrExited, Resumable
  <2>2. NoLostWakeup' /\ SlotReserved'
    BY <1>15, PickNextIsReady, SMT DEF ThreadBlockSwitch, SwitchTo,
       NoLostWakeup, SlotReserved, RunningOrExited, OneRunning, Resumable
  <2>3. CriticalSection'
    BY <1>15, PickNextIsReady, SMT DEF ThreadBlockSwitch, SwitchTo,
       CriticalSection, Suspended, Masked
  <2>4. Resumable'
    BY <1>15, PickNextIsReady, SMT DEF ThreadBlockSwitch, SwitchTo,
       Resumable, NoLostWakeup, RunningOrExited, OneRunning
  <2>5. Suspended'
    BY <1>15, PickNextIsReady, SMT DEF ThreadBlockSwitch, SwitchTo,
       Suspended, Masked, CriticalSection, Resumable, RunningOrExited
  <2>6. Masked'
    BY <1>15, PickNextIsReady, SMT DEF ThreadBlockSwitch, SwitchTo, Masked,
       Suspended, CriticalSection, Resumable
  <2>. QED
    BY <1>0, <2>1, <2>2, <2>3, <2>4, <2>5, <2>6 DEF IInv
<1>16. ASSUME NEW t \in Slots, ThreadBlockReturn(t) PROVE IInv'
  <2>1. OneRunning' /\ RunningOrExited'
    BY <1>16, SMT DEF ThreadBlockReturn, OneRunning, RunningOrExited, Resumable
  <2>2. NoLostWakeup' /\ SlotReserved'
    BY <1>16, SMT DEF ThreadBlockReturn, NoLostWakeup, SlotReserved,
       RunningOrExited, OneRunning, Resumable
  <2>3. CriticalSection'
    BY <1>16, SMT DEF ThreadBlockReturn, CriticalSection, Suspended, Masked
  <2>4. Resumable'
    BY <1>16, SMT DEF ThreadBlockReturn, Resumable, NoLostWakeup,
       RunningOrExited, OneRunning
  <2>5. Suspended'
    BY <1>16, SMT DEF ThreadBlockReturn, Suspended, Masked, CriticalSection,
       Resumable, RunningOrExited
  <2>6. Masked'
    BY <1>16, SMT DEF ThreadBlockReturn, Masked, Suspended, CriticalSection,
       Resumable
  <2>. QED
    BY <1>0, <2>1, <2>2, <2>3, <2>4, <2>5, <2>6 DEF IInv
<1>17. ASSUME NEW t \in Slots, IrqReturn(t) PROVE IInv'
  <2>1. OneRunning' /\ RunningOrExited'
    BY <1>17, SMT DEF IrqReturn, OneRunning, RunningOrExited, Resumable
  <2>2. NoLostWakeup' /\ SlotReserved'
    BY <1>17, SMT DEF IrqReturn, NoLostWakeup, SlotReserved, RunningOrExited,
       OneRunning, Resumable
  <2>3. CriticalSection'
    BY <1>17, SMT DEF IrqReturn, CriticalSection, Suspended, Masked
  <2>4. Resumable'
    BY <1>17, SMT DEF IrqReturn, Resumable, NoLostWakeup, RunningOrExited,
       OneRunning
  <2>5. Suspended'
    BY <1>17, SMT DEF IrqReturn, Suspended, Masked, CriticalSection,
       Resumable, RunningOrExited
  <2>6. Masked'
    BY <1>17, SMT DEF IrqReturn, Masked, Suspended, CriticalSection, Resumable
  <2>. QED
    BY <1>0, <2>1, <2>2, <2>3, <2>4, <2>5, <2>6 DEF IInv
<1>18. CASE TickNoSwitch
  <2>1. OneRunning' /\ RunningOrExited'
    BY <1>18, SMT DEF TickNoSwitch, OneRunning, RunningOrExited, Resumable
  <2>2. NoLostWakeup' /\ SlotReserved'
    BY <1>18, SMT DEF TickNoSwitch, NoLostWakeup, SlotReserved,
       RunningOrExited, OneRunning, Resumable
  <2>3. CriticalSection'
    BY <1>18, SMT DEF TickNoSwitch, CriticalSection, Suspended, Masked
  <2>4. Resumable'
    BY <1>18, SMT DEF TickNoSwitch, Resumable, NoLostWakeup, RunningOrExited,
       OneRunning
  <2>5. Suspended'
    BY <1>18, SMT DEF TickNoSwitch, Suspended, Masked, CriticalSection,
       Resumable, RunningOrExited
  <2>6. Masked'
    BY <1>18, SMT DEF TickNoSwitch, Masked, Suspended, CriticalSection,
       Resumable
  <2>. QED
    BY <1>0, <2>1, <2>2, <2>3, <2>4, <2>5, <2>6 DEF IInv
<1>19. CASE TickSwitch
  <2>1. OneRunning' /\ RunningOrExited'
    BY <1>19, PickNextIsReady, SMT DEF TickSwitch, SwitchTo, OneRunning,
       RunningOrExited, Resumable
  <2>2. NoLostWakeup' /\ SlotReserved'
    BY <1>19, PickNextIsReady, SMT DEF TickSwitch, SwitchTo, NoLostWakeup,
       SlotReserved, RunningOrExited, OneRunning, Resumable
  <2>3. CriticalSection'
    BY <1>19, PickNextIsReady, SMT DEF TickSwitch, SwitchTo, CriticalSection,
       Suspended, Masked
  <2>4. Resumable'
    BY <1>19, PickNextIsReady, SMT DEF TickSwitch, SwitchTo, Resumable,
       NoLostWakeup, RunningOrExited, OneRunning
  <2>5. Suspended'
    <3>1. held[current] = 0 /\ (InClient(current) \/ pc[current] = "exited")
      BY <1>19, SMT DEF TickSwitch, Masked, CriticalSection, Places
    <3>2. inIrq' = [inIrq EXCEPT ![current] = TRUE] /\ held' = held /\ pc' = pc
      BY <1>19 DEF TickSwitch
    <3>. QED
      BY <3>1, <3>2, SMT DEF Suspended
  <2>6. Masked'
    BY <1>19, PickNextIsReady, SMT DEF TickSwitch, SwitchTo, Masked,
       Suspended, CriticalSection, Resumable
  <2>. QED
    BY <1>0, <2>1, <2>2, <2>3, <2>4, <2>5, <2>6 DEF IInv
<1>20. CASE UNCHANGED vars
  BY <1>20, SMT DEF vars, OneRunning, RunningOrExited, NoLostWakeup,
     CriticalSection, Resumable, SlotReserved, Suspended, Masked
<1>. QED
  BY <1>1, <1>2, <1>3, <1>4, <1>5, <1>6, <1>7, <1>8, <1>9, <1>10, <1>11,
     <1>12, <1>13, <1>14, <1>15, <1>16, <1>17, <1>18, <1>19, <1>20, Zenon
  DEF Next, Call, Return, SchedulerTick

(* What the library keeps whatever its clients do, as one invariant.       *)
THEOREM Safety == Spec => []IInv
<1>1. IInv /\ UNCHANGED vars => IInv'
  BY StepIInv
<1>. QED
  BY InitIInv, StepIInv, PTL DEF Spec

(* Every variable keeps its type, one thread runs at a time, and a switch  *)
(* always lands on a frame it can resume.                                  *)
THEOREM SchedulerStaysSound == Spec => []SchedulerSound
<1>1. IInv => SchedulerSound
  BY IInvImplies DEF SchedulerSound
<1>. QED
  BY <1>1, Safety, PTL

(* preempt_disable is a lock, whatever nests inside it, and nobody runs on *)
(* in client code with interrupts left off.                                *)
THEOREM LockIsExclusive == Spec => []PreemptionLock
<1>1. IInv => PreemptionLock
  BY IInvImplies DEF PreemptionLock
<1>. QED
  BY <1>1, Safety, PTL

(* No interleaving of thread_block, thread_wake and the timer loses a wake.*)
THEOREM WakesAreKept == Spec => []NoLostWakeup
  BY Safety, IInvImplies, PTL

(* The slot that thread_create found is still free when it is filled.      *)
THEOREM FoundSlotStaysFree == Spec => []SlotReserved
  BY Safety, IInvImplies, PTL


-----------------------------------------------------------------------------
(* thread_block and thread_wake implement the tokens of WakeTokens, for    *)
(* any number of slots and any client: the initial states and every step   *)
(* of the thread library map to initial states, steps or stutters there.   *)
(*                                                                         *)
(* The one step that needs an argument is the return of thread_block.  It  *)
(* takes the thread's token, or, without one, must show that every other   *)
(* thread was waiting too: WaitOver says that a thread is chosen out of a  *)
(* block only with a token, and that one that went through without a       *)
(* switch has had nobody ready beside it ever since.                       *)

WaitOver ==
  /\ \A t \in Slots : state[t] = "UNUSED" => pc[t] = "exited"
  /\ \A t \in Slots : t # current /\ state[t] = "READY" /\ pc[t] = "blocked"
                        => wake_pending[t]
  /\ pc[current] = "blocked" /\ ~wake_pending[current] => Ready = {}

LEMMA InitWaitOver == Init => WaitOver
  BY ThreadsAssumption, SMT DEF Init, WaitOver, Slots, Main

LEMMA StepWaitOver == IInv /\ WaitOver /\ [Next]_vars => WaitOver'
<1> SUFFICES ASSUME IInv, WaitOver, [Next]_vars PROVE WaitOver'
  OBVIOUS
<1> USE DEF IInv, TypeOK, AtUser, Goto, Cli, Sti, AfterEnable, CriticalPair, cpuVars, WaitOver, Ready
<1>1. ASSUME NEW t \in Slots, PreemptDisable(t) PROVE WaitOver'
  BY <1>1, SMT DEF PreemptDisable, RunningOrExited
<1>2. ASSUME NEW t \in Slots, PreemptEnable(t) PROVE WaitOver'
  BY <1>2, SMT DEF PreemptEnable, RunningOrExited
<1>3. ASSUME NEW t \in Slots, BriefCritical(t) PROVE WaitOver'
  BY <1>3, SMT DEF BriefCritical, RunningOrExited
<1>4. ASSUME NEW t \in Slots, NEW u \in Slots, ThreadWake(t, u) PROVE WaitOver'
  BY <1>4, SMT DEF ThreadWake, Woken
<1>5. ASSUME NEW t \in Slots, held[t] = 0, t = Main, ThreadCreate(t)
      PROVE  WaitOver'
  BY <1>5, SMT DEF ThreadCreate, RunningOrExited
<1>6. ASSUME NEW t \in Slots, held[t] = 0, ThreadYield(t) PROVE WaitOver'
  BY <1>6, PickNextIsReady, SMT DEF ThreadYield, SwitchTo, NoLostWakeup,
     Resumable, OneRunning, RunningOrExited
<1>7. ASSUME NEW t \in Slots, held[t] = 0, ThreadBlock(t) PROVE WaitOver'
  BY <1>7, SMT DEF ThreadBlock, RunningOrExited
<1>8. ASSUME NEW t \in Slots, held[t] = 0, t # Main, ThreadExit(t)
      PROVE  WaitOver'
  BY <1>8, PickNextIsReady, SMT DEF ThreadExit, SwitchTo, NoLostWakeup,
     Resumable, OneRunning, RunningOrExited
<1>9. ASSUME NEW t \in Slots, held[t] = 0, t = Main, KernelSti(t)
      PROVE  WaitOver'
  BY <1>9, SMT DEF KernelSti, RunningOrExited
<1>10. ASSUME NEW t \in Slots, NEW ok \in BOOLEAN, ThreadCreateAlloc(t, ok)
       PROVE  WaitOver'
  BY <1>10, SMT DEF ThreadCreateAlloc, RunningOrExited
<1>11. ASSUME NEW t \in Slots, ThreadCreateFill(t) PROVE WaitOver'
  BY <1>11, SMT DEF ThreadCreateFill, SlotReserved, RunningOrExited
<1>12. ASSUME NEW t \in Slots, Trampoline(t) PROVE WaitOver'
  BY <1>12, SMT DEF Trampoline, RunningOrExited
<1>13. ASSUME NEW t \in Slots, ThreadYieldReturn(t) PROVE WaitOver'
  BY <1>13, SMT DEF ThreadYieldReturn, RunningOrExited
<1>14. ASSUME NEW t \in Slots, ThreadBlockConsume(t) PROVE WaitOver'
  BY <1>14, SMT DEF ThreadBlockConsume, RunningOrExited
<1>15. ASSUME NEW t \in Slots, ThreadBlockSwitch(t) PROVE WaitOver'
  BY <1>15, PickNextIsReady, SMT DEF ThreadBlockSwitch, SwitchTo,
     NoLostWakeup, Resumable, OneRunning, RunningOrExited
<1>16. ASSUME NEW t \in Slots, ThreadBlockReturn(t) PROVE WaitOver'
  BY <1>16, SMT DEF ThreadBlockReturn, RunningOrExited
<1>17. ASSUME NEW t \in Slots, IrqReturn(t) PROVE WaitOver'
  BY <1>17, SMT DEF IrqReturn, RunningOrExited
<1>18. CASE TickNoSwitch
  BY <1>18, SMT DEF TickNoSwitch, RunningOrExited
<1>19. CASE TickSwitch
  BY <1>19, PickNextIsReady, SMT DEF TickSwitch, SwitchTo, Masked,
     NoLostWakeup, Resumable, Suspended, OneRunning, InClient
<1>20. CASE UNCHANGED vars
  BY <1>20, SMT DEF vars
<1>. QED
  BY <1>1, <1>2, <1>3, <1>4, <1>5, <1>6, <1>7, <1>8, <1>9, <1>10, <1>11,
     <1>12, <1>13, <1>14, <1>15, <1>16, <1>17, <1>18, <1>19, <1>20, Zenon
  DEF Next, Call, Return, SchedulerTick

LEMMA InitTokens == Init => Tokens!Init
<1> SUFFICES ASSUME Init PROVE Tokens!Init
  OBVIOUS
<1>1. {t \in Slots : pc[t] \in {"block", "blocked"}} = {}
  BY SMT DEF Init
<1>2. wake_pending = [t \in Slots |-> FALSE]
  BY DEF Init
<1>. QED
  BY <1>1, <1>2 DEF Tokens!Init

LEMMA StepTokens ==
  IInv /\ WaitOver /\ [Next]_vars => [Tokens!Next]_(Tokens!tokenVars)
<1> SUFFICES ASSUME IInv, WaitOver, [Next]_vars
             PROVE  Tokens!Next \/ UNCHANGED Tokens!tokenVars
  OBVIOUS
<1> USE DEF IInv, TypeOK, AtUser, Goto
<1>1. ASSUME NEW t \in Slots, PreemptDisable(t)
      PROVE  UNCHANGED Tokens!tokenVars
  BY <1>1, SMT DEF PreemptDisable, Tokens!tokenVars
<1>2. ASSUME NEW t \in Slots, PreemptEnable(t) PROVE UNCHANGED Tokens!tokenVars
  BY <1>2, SMT DEF PreemptEnable, Tokens!tokenVars
<1>3. ASSUME NEW t \in Slots, BriefCritical(t) PROVE UNCHANGED Tokens!tokenVars
  BY <1>3, SMT DEF BriefCritical, Tokens!tokenVars
<1>4. ASSUME NEW t \in Slots, NEW u \in Slots, ThreadWake(t, u)
      PROVE  Tokens!Next
  <2>1. Tokens!Wake(u)
    BY <1>4, SMT DEF ThreadWake, Woken, Tokens!Wake, RunningOrExited
  <2>. QED
    BY <2>1 DEF Tokens!Next
<1>5. ASSUME NEW t \in Slots, held[t] = 0, t = Main, ThreadCreate(t)
      PROVE  UNCHANGED Tokens!tokenVars
  BY <1>5, SMT DEF ThreadCreate, Tokens!tokenVars
<1>6. ASSUME NEW t \in Slots, held[t] = 0, ThreadYield(t)
      PROVE  UNCHANGED Tokens!tokenVars
  BY <1>6, PickNextIsReady, SMT DEF ThreadYield, SwitchTo, NoLostWakeup,
     Resumable, OneRunning, RunningOrExited, Tokens!tokenVars
<1>7. ASSUME NEW t \in Slots, held[t] = 0, ThreadBlock(t) PROVE Tokens!Next
  <2>1. Tokens!Wait(t)
    BY <1>7, SMT DEF ThreadBlock, Tokens!Wait, RunningOrExited
  <2>. QED
    BY <2>1 DEF Tokens!Next
<1>8. ASSUME NEW t \in Slots, held[t] = 0, t # Main, ThreadExit(t)
      PROVE  Tokens!Next
  <2>1. Tokens!Exit(t)
    BY <1>8, PickNextIsReady, SMT DEF ThreadExit, SwitchTo, NoLostWakeup,
       Resumable, OneRunning, RunningOrExited, Tokens!Exit
  <2>. QED
    BY <2>1 DEF Tokens!Next
<1>9. ASSUME NEW t \in Slots, held[t] = 0, t = Main, KernelSti(t)
      PROVE  UNCHANGED Tokens!tokenVars
  BY <1>9, SMT DEF KernelSti, Tokens!tokenVars
<1>10. ASSUME NEW t \in Slots, NEW ok \in BOOLEAN, ThreadCreateAlloc(t, ok)
       PROVE  UNCHANGED Tokens!tokenVars
  BY <1>10, SMT DEF ThreadCreateAlloc, Tokens!tokenVars
<1>11. ASSUME NEW t \in Slots, ThreadCreateFill(t) PROVE Tokens!Next
  <2>0. PICK s \in Slots : s = found
    OBVIOUS
  <2>1. state[s] = "UNUSED" /\ pc[s] = "exited" /\ s # t
    BY <1>11, <2>0, SMT DEF ThreadCreateFill, SlotReserved, WaitOver
  <2>2. /\ /\ {r \in Slots : state'[r] # "UNUSED"} = {r \in Slots : state[r] # "UNUSED"} \cup {s}
        /\ s \notin {r \in Slots : state[r] # "UNUSED"}
    BY <1>11, <2>0, <2>1, SMT DEF ThreadCreateFill
  <2>3. {r \in Slots : pc'[r] \in {"block", "blocked"}} = {r \in Slots : pc[r] \in {"block", "blocked"}}
    BY <1>11, <2>0, <2>1, SMT DEF ThreadCreateFill
  <2>4. wake_pending' = [wake_pending EXCEPT ![s] = FALSE]
    BY <1>11, <2>0 DEF ThreadCreateFill
  <2>5. Tokens!Create(s)
    BY <2>2, <2>3, <2>4 DEF Tokens!Create
  <2>. QED
    BY <2>5 DEF Tokens!Next
<1>12. ASSUME NEW t \in Slots, Trampoline(t) PROVE UNCHANGED Tokens!tokenVars
  BY <1>12, SMT DEF Trampoline, Tokens!tokenVars
<1>13. ASSUME NEW t \in Slots, ThreadYieldReturn(t)
       PROVE  UNCHANGED Tokens!tokenVars
  BY <1>13, SMT DEF ThreadYieldReturn, Tokens!tokenVars
<1>14. ASSUME NEW t \in Slots, ThreadBlockConsume(t) PROVE Tokens!Next
  <2>1. Tokens!TakeToken(t)
    BY <1>14, SMT DEF ThreadBlockConsume, Tokens!TakeToken, Tokens!Leave,
       RunningOrExited
  <2>. QED
    BY <2>1 DEF Tokens!Next
<1>15. ASSUME NEW t \in Slots, ThreadBlockSwitch(t)
       PROVE  UNCHANGED Tokens!tokenVars
  BY <1>15, PickNextIsReady, SMT DEF ThreadBlockSwitch, SwitchTo,
     NoLostWakeup, Resumable, OneRunning, RunningOrExited, Tokens!tokenVars
<1>16. ASSUME NEW t \in Slots, ThreadBlockReturn(t) PROVE Tokens!Next
  <2>1. Tokens!Leave(t)
    BY <1>16, SMT DEF ThreadBlockReturn, Tokens!Leave
  <2>2. t \in {s \in Slots : pc[s] \in {"block", "blocked"}}
    BY <1>16 DEF ThreadBlockReturn
  <2>3. CASE wake_pending[t]
    BY <2>1, <2>2, <2>3 DEF Tokens!Next, Tokens!TakeToken
  <2>4. CASE ~wake_pending[t]
    <3>1. Tokens!AllOthersWait(t)
      BY <1>16, <2>4, SMT DEF ThreadBlockReturn, WaitOver, Ready, States,
         OneRunning,
         NoLostWakeup, Resumable, Tokens!AllOthersWait
    <3>. QED
      BY <2>1, <2>2, <3>1 DEF Tokens!Next, Tokens!GiveUp
  <2>. QED
    BY <2>3, <2>4
<1>17. ASSUME NEW t \in Slots, IrqReturn(t) PROVE UNCHANGED Tokens!tokenVars
  BY <1>17, SMT DEF IrqReturn, Tokens!tokenVars
<1>18. ASSUME TickNoSwitch PROVE UNCHANGED Tokens!tokenVars
  BY <1>18, SMT DEF TickNoSwitch, Tokens!tokenVars
<1>19. ASSUME TickSwitch PROVE UNCHANGED Tokens!tokenVars
  BY <1>19, PickNextIsReady, SMT DEF TickSwitch, SwitchTo, Masked,
     NoLostWakeup, Resumable, Suspended, OneRunning, InClient, Tokens!tokenVars
<1>20. ASSUME UNCHANGED vars PROVE UNCHANGED Tokens!tokenVars
  BY <1>20, SMT DEF vars, Tokens!tokenVars
<1>. QED
  BY <1>1, <1>2, <1>3, <1>4, <1>5, <1>6, <1>7, <1>8, <1>9, <1>10, <1>11,
     <1>12, <1>13, <1>14, <1>15, <1>16, <1>17, <1>18, <1>19, <1>20, Zenon
  DEF Next, Call, Return, SchedulerTick

(* thread_block and thread_wake are wake tokens: a wake that comes before, *)
(* during or after a block is kept for the thread until a wait takes it,   *)
(* and thread_block returns without one only when no other thread can run. *)
THEOREM BlockWakeRefinement == Spec => ImplementsTokens
<1>1. Spec => [](IInv /\ WaitOver)
  <2>1. Init => IInv /\ WaitOver
    BY InitIInv, InitWaitOver
  <2>2. IInv /\ WaitOver /\ [Next]_vars => (IInv /\ WaitOver)'
    BY StepIInv, StepWaitOver
  <2>. QED
    BY <2>1, <2>2, PTL DEF Spec
<1>. QED
  BY <1>1, InitTokens, StepTokens, PTL DEF Spec, ImplementsTokens, Tokens!Spec

-----------------------------------------------------------------------------
(* What the library keeps whatever is called where, even a function that    *)
(* switches called inside preempt_disable.                                  *)

Sections == {h \in Slots \X (1 .. MaxNest) : h[2] <= held[h[1]]}

LInv == TypeOK /\ OneRunning /\ RunningOrExited /\ SlotReserved /\ NothingLeaked

LEMMA InitLInv == Init => LInv
<1> SUFFICES ASSUME Init PROVE LInv
  OBVIOUS
<1>1. TypeOK /\ OneRunning /\ RunningOrExited /\ SlotReserved
  BY InitIInv DEF IInv
<1>2. Sections = {}
  BY ThreadsAssumption, SMT DEF Init, Sections
<1>3. disable_count = Cardinality(Sections)
  BY <1>2, FS_EmptySet DEF Init
<1> QED
  BY <1>1, <1>3 DEF LInv, NothingLeaked, Sections

LEMMA FiniteSections == TypeOK => IsFiniteSet(Sections)
<1>1. IsFiniteSet(Slots) /\ IsFiniteSet(1 .. MaxNest)
  BY FS_Interval, ThreadsAssumption DEF Slots
<1>2. IsFiniteSet(Slots \X (1 .. MaxNest))
  BY <1>1, FS_Product
<1> QED
  BY <1>2, FS_Subset DEF Sections

LEMMA StepNothingLeaked == TypeOK /\ NothingLeaked /\ [AnyStep]_vars => NothingLeaked'
<1> SUFFICES ASSUME TypeOK, disable_count = Cardinality(Sections), [AnyStep]_vars
             PROVE  disable_count' = Cardinality(Sections')
  BY DEF NothingLeaked, Sections
<1>0. held \in [Slots -> 0 .. MaxNest] /\ disable_count \in Nat /\ IsFiniteSet(Sections)
  BY FiniteSections DEF TypeOK
<1>1. CASE UNCHANGED <<disable_count, held>>
  BY <1>1 DEF Sections
<1>2. ASSUME NEW t \in Slots, PreemptDisable(t) PROVE disable_count' = Cardinality(Sections')
  <2>1. /\ held[t] \in 0 .. MaxNest /\ held[t] < MaxNest
        /\ held' = [held EXCEPT ![t] = held[t] + 1] /\ disable_count' = disable_count + 1
    BY <1>0, <1>2 DEF PreemptDisable
  <2>2. Sections' = Sections \cup {<<t, held[t] + 1>>}
    BY <1>0, <2>1, ThreadsAssumption, SMT DEF Sections
  <2>3. <<t, held[t] + 1>> \notin Sections
    BY <1>0, <2>1 DEF Sections
  <2> QED
    BY <1>0, <2>1, <2>2, <2>3, FS_AddElement
<1>3. ASSUME NEW t \in Slots, PreemptEnable(t) PROVE disable_count' = Cardinality(Sections')
  <2>1. /\ held[t] \in 1 .. MaxNest /\ held' = [held EXCEPT ![t] = held[t] - 1]
        /\ disable_count' = IF disable_count > 0 THEN disable_count - 1 ELSE disable_count
    BY <1>0, <1>3 DEF PreemptEnable
  <2>2. Sections' = Sections \ {<<t, held[t]>>}
    BY <1>0, <2>1, ThreadsAssumption, SMT DEF Sections
  <2>3. <<t, held[t]>> \in Sections
    BY <1>0, <2>1 DEF Sections
  <2>4. Cardinality(Sections') = Cardinality(Sections) - 1 /\ Cardinality(Sections) # 0
    BY <1>0, <2>2, <2>3, FS_RemoveElement, FS_EmptySet
  <2> QED
    BY <1>0, <2>1, <2>4
<1>4. ASSUME NEW t \in Slots, AnyCall(t), ~PreemptDisable(t), ~PreemptEnable(t)
      PROVE  UNCHANGED <<disable_count, held>>
  BY <1>4, Zenon DEF AnyCall, BriefCritical, ThreadWake, ThreadYield, ThreadBlock, KernelSti,
     ThreadExit, ThreadCreate
<1>5. ASSUME NEW t \in Slots, Return(t) PROVE UNCHANGED <<disable_count, held>>
  BY <1>5, Zenon DEF Return, ThreadCreateAlloc, ThreadCreateFill, Trampoline, ThreadYieldReturn,
     ThreadBlockConsume, ThreadBlockSwitch, ThreadBlockReturn, IrqReturn
<1>6. CASE SchedulerTick \/ UNCHANGED vars
  BY <1>1, <1>6 DEF SchedulerTick, TickNoSwitch, TickSwitch, vars
<1> QED
  BY <1>1, <1>2, <1>3, <1>4, <1>5, <1>6 DEF AnyStep

LEMMA StepLInv == LInv /\ [AnyStep]_vars => LInv'
<1> SUFFICES ASSUME LInv, [AnyStep]_vars PROVE (OneRunning /\ RunningOrExited /\ SlotReserved)'
  BY StepTypeOK, StepNothingLeaked DEF LInv
<1> USE ThreadsAssumption
        DEF LInv, TypeOK, OneRunning, RunningOrExited, SlotReserved, AtUser, Goto
<1>1. ASSUME NEW t \in Slots, PreemptDisable(t) PROVE (OneRunning /\ RunningOrExited /\ SlotReserved)'
  BY <1>1, SMT DEF PreemptDisable
<1>2. ASSUME NEW t \in Slots, PreemptEnable(t) PROVE (OneRunning /\ RunningOrExited /\ SlotReserved)'
  BY <1>2, SMT DEF PreemptEnable, AfterEnable
<1>3. ASSUME NEW t \in Slots, BriefCritical(t) PROVE (OneRunning /\ RunningOrExited /\ SlotReserved)'
  BY <1>3, SMT DEF BriefCritical
<1>4. ASSUME NEW t \in Slots, NEW u \in Slots, ThreadWake(t, u) PROVE (OneRunning /\ RunningOrExited /\ SlotReserved)'
  BY <1>4, SMT DEF ThreadWake, Woken
<1>5. ASSUME NEW t \in Slots, ThreadYield(t) PROVE (OneRunning /\ RunningOrExited /\ SlotReserved)'
  BY <1>5, PickNextIsReady, SMT DEF ThreadYield, SwitchTo
<1>6. ASSUME NEW t \in Slots, ThreadBlock(t) PROVE (OneRunning /\ RunningOrExited /\ SlotReserved)'
  BY <1>6, SMT DEF ThreadBlock
<1>7. ASSUME NEW t \in Slots, KernelSti(t) PROVE (OneRunning /\ RunningOrExited /\ SlotReserved)'
  BY <1>7, SMT DEF KernelSti
<1>8. ASSUME NEW t \in Slots, ThreadExit(t) PROVE (OneRunning /\ RunningOrExited /\ SlotReserved)'
  BY <1>8, PickNextIsReady, SMT DEF ThreadExit, SwitchTo
<1>9. ASSUME ThreadCreate(Main) PROVE (OneRunning /\ RunningOrExited /\ SlotReserved)'
  BY <1>9, SMT DEF ThreadCreate
<1>10. ASSUME NEW t \in Slots, NEW ok \in BOOLEAN, ThreadCreateAlloc(t, ok) PROVE (OneRunning /\ RunningOrExited /\ SlotReserved)'
  BY <1>10, SMT DEF ThreadCreateAlloc
<1>11. ASSUME NEW t \in Slots, ThreadCreateFill(t) PROVE (OneRunning /\ RunningOrExited /\ SlotReserved)'
  BY <1>11, SMT DEF ThreadCreateFill
<1>12. ASSUME NEW t \in Slots, Trampoline(t) PROVE (OneRunning /\ RunningOrExited /\ SlotReserved)'
  BY <1>12, SMT DEF Trampoline
<1>13. ASSUME NEW t \in Slots, ThreadYieldReturn(t) PROVE (OneRunning /\ RunningOrExited /\ SlotReserved)'
  BY <1>13, SMT DEF ThreadYieldReturn
<1>14. ASSUME NEW t \in Slots, ThreadBlockConsume(t) PROVE (OneRunning /\ RunningOrExited /\ SlotReserved)'
  BY <1>14, SMT DEF ThreadBlockConsume
<1>15. ASSUME NEW t \in Slots, ThreadBlockSwitch(t) PROVE (OneRunning /\ RunningOrExited /\ SlotReserved)'
  BY <1>15, PickNextIsReady, SMT DEF ThreadBlockSwitch, SwitchTo
<1>16. ASSUME NEW t \in Slots, ThreadBlockReturn(t) PROVE (OneRunning /\ RunningOrExited /\ SlotReserved)'
  BY <1>16, SMT DEF ThreadBlockReturn
<1>17. ASSUME NEW t \in Slots, IrqReturn(t) PROVE (OneRunning /\ RunningOrExited /\ SlotReserved)'
  BY <1>17, SMT DEF IrqReturn
<1>18. CASE TickNoSwitch
  BY <1>18, SMT DEF TickNoSwitch
<1>19. CASE TickSwitch
  BY <1>19, PickNextIsReady, SMT DEF TickSwitch, SwitchTo
<1>20. CASE UNCHANGED vars
  BY <1>20 DEF vars
<1> HIDE DEF LInv, TypeOK, OneRunning, RunningOrExited, SlotReserved
<1> QED
  BY <1>1, <1>2, <1>3, <1>4, <1>5, <1>6, <1>7, <1>8, <1>9, <1>10, <1>11,
     <1>12, <1>13, <1>14, <1>15, <1>16, <1>17, <1>18, <1>19, <1>20, Zenon
  DEF AnyStep, AnyCall, Return, SchedulerTick

-----------------------------------------------------------------------------
(* The storage worker and its clients.                                     *)

WorkerPlaces == {"start", "dequeue", "sleep", "io", "done", "reply"}

\* submit, from the enqueue to its return.
Waiting == {"notify", "test", "block"}

AllPlaces == Submitting \cup WorkerPlaces \cup
  {"none", "create_storage", "fs_init", "fs_tables", "create_client", "idle", "client", "on_init"}

-----------------------------------------------------------------------------
(* The inductive invariant.                                                *)

ClientTypeOK ==
  /\ at \in [Slots -> AllPlaces]
  /\ queue \in Seq(Slots)
  /\ req \in [Slots -> [result : {"none", "ok", "error"}, done : BOOLEAN]]
  /\ serving \in SUBSET Slots
  /\ dangling \in BOOLEAN
  /\ ops \in [Slots -> 0 .. 1]

\* Who does what: main boots, one thread works, the others are clients.
Roles ==
  /\ at[Main] \in {"create_storage", "fs_init", "fs_tables", "create_client", "idle"} \cup Submitting
  /\ \A t \in Slots : t # Main =>
       at[t] \in {"none", "client", "on_init"} \cup Submitting \cup WorkerPlaces
  /\ at[Main] = "create_storage" => \A t \in Slots : t # Main => at[t] = "none"
  /\ \A t, u \in Slots : at[t] \in WorkerPlaces /\ at[u] \in WorkerPlaces => t = u
  /\ worker = {t \in Slots : at[t] \in WorkerPlaces \ {"start"}}

\* How a thread's own place goes with its place in the library.
Links ==
  \A t \in Slots :
    /\ state[t] = "UNUSED" <=> at[t] = "none"
    /\ held[t] \in {0, 1}
    /\ held[t] = 1 => t # Main /\ at[t] \in Submitting \cup {"on_init"}
    /\ at[t] = "on_init" => held[t] = 1
    /\ pc[t] \in {"create", "fill"} => at[t] \in {"create_storage", "create_client"}
    /\ pc[t] \in {"block", "blocked"} => at[t] \in {"test", "dequeue"}

InQueue(t) == \E i \in DOMAIN queue : queue[i] = t

\* Where a request may be while it waits.
Hands ==
  /\ \A i, j \in DOMAIN queue : queue[i] = queue[j] => i = j
  /\ \A t \in Slots : InQueue(t) => at[t] \in Waiting /\ ~req[t].done /\ t \notin serving
  /\ \A t \in serving : at[t] \in Waiting
  /\ \A t \in Slots : at[t] \in Waiting /\ ~req[t].done => InQueue(t) \/ t \in serving
  /\ \A t \in Slots : at[t] = "enqueue" => ~req[t].done

\* What the worker has in hand.
InHand ==
  /\ \A t, u \in serving : t = u
  /\ dangling => serving = {}
  /\ serving # {} \/ dangling => \E w \in Slots : at[w] \in {"io", "done", "reply"}
  /\ \A w \in Slots :
       /\ at[w] \in {"io", "done"} => ~dangling /\ \A t \in serving : ~req[t].done
       /\ at[w] = "reply" => \A t \in serving : req[t].done

Served ==
  /\ \A t \in Slots :
       /\ at[t] = "enqueue" => ops[t] = 0
       /\ at[t] \in Waiting /\ ~req[t].done /\ t \notin serving => ops[t] = 0
       /\ at[t] \in Waiting /\ req[t].done => ops[t] = 1 /\ req[t].result # "none"
  /\ \A w \in Slots :
       /\ at[w] = "io" => \A t \in serving : ops[t] = 0
       /\ at[w] = "done" => \A t \in serving : ops[t] = 1 /\ req[t].result # "none"

\* From its test to the switch in thread_block a thread has a wake coming, has
\* one pending, or has nothing to wake up for.
AboutToBlock(t, before, after) == at[t] = before \/ (at[t] = after /\ pc[t] = "block")

Answering(t) == t \in serving /\ \E w \in Slots : at[w] = "reply"

Notifying == \E t \in Slots : at[t] = "notify"

Wakes ==
  \A t \in Slots :
    /\ AboutToBlock(t, "block", "test") /\ req[t].done => wake_pending[t] \/ Answering(t)
    /\ state[t] = "BLOCKED" /\ at[t] = "test" /\ req[t].done => Answering(t)
    /\ AboutToBlock(t, "sleep", "dequeue") /\ queue # <<>> => wake_pending[t] \/ Notifying
    /\ state[t] = "BLOCKED" /\ t \in worker /\ queue # <<>> => Notifying

CInv == ClientTypeOK /\ Roles /\ Links /\ Hands /\ InHand /\ Served /\ Wakes

SInv == LInv /\ CInv

-----------------------------------------------------------------------------
(* The kernel's threads are clients of the library, whatever its rule.      *)

LEMMA StepIsCall == SInv /\ [StorageNext]_storageVars => [AnyStep]_vars
<1> SUFFICES ASSUME SInv, [StorageNext]_storageVars PROVE [AnyStep]_vars
  OBVIOUS
<1>0. Main \in Slots
  BY ThreadsAssumption DEF Main, Slots
<1>1. ASSUME NEW t \in Slots, Work(t) PROVE [AnyStep]_vars
  <2>1. CASE Boot
    BY <1>0, <2>1 DEF Boot, BootCreate, BootAlloc, BootFill, BootSti, At, AnyStep, AnyCall, Return
  <2>2. CASE SubmitStep(t)
    BY <2>2 DEF SubmitStep, Enqueue, Notify, TestAgain, Block, SubmitReturn, At,
       AnyStep, AnyCall, SInv, CInv, Roles
  <2>3. CASE WorkerStep(t)
    BY <2>3 DEF WorkerStep, WorkerStart, Dequeue, Sleep, Transfer, SetDone, Reply, At,
       AnyStep, AnyCall, SInv, CInv, ClientTypeOK
  <2>4. CASE ExitCritical(t)
    BY <2>4 DEF ExitCritical, AnyStep, AnyCall
  <2> QED
    BY <1>1, <2>1, <2>2, <2>3, <2>4 DEF Work
<1>2. ASSUME NEW t \in Slots, LibraryStep(t) PROVE [AnyStep]_vars
  BY <1>2 DEF LibraryStep, AnyStep, Return
<1>3. ASSUME NEW t \in Slots, Submit(t) PROVE [AnyStep]_vars
  BY <1>3 DEF Submit
<1>4. ASSUME NEW t \in Slots, EnterCritical(t) PROVE [AnyStep]_vars
  BY <1>4 DEF EnterCritical, AnyStep, AnyCall
<1>5. CASE Tick
  BY <1>5 DEF Tick, AnyStep
<1>6. CASE UNCHANGED storageVars
  BY <1>6 DEF storageVars
<1> QED
  BY <1>1, <1>2, <1>3, <1>4, <1>5, <1>6 DEF StorageNext

LEMMA StorageInitial == StorageInit => SInv
<1> SUFFICES ASSUME StorageInit PROVE SInv
  OBVIOUS
<1>1. LInv
  BY InitLInv DEF StorageInit
<1>2. Main \in Slots
  BY ThreadsAssumption DEF Main, Slots
<1>3. ClientTypeOK
  <2>1. at \in [Slots -> AllPlaces]
    BY DEF StorageInit, AllPlaces
  <2>2. queue \in Seq(Slots)
    BY DEF StorageInit
  <2>3. serving \in SUBSET Slots /\ dangling \in BOOLEAN
    BY DEF StorageInit
  <2>4. /\ req \in [Slots -> [result : {"none", "ok", "error"}, done : BOOLEAN]]
        /\ ops \in [Slots -> 0 .. 1]
    BY DEF StorageInit, NoRequest
  <2> QED
    BY <2>1, <2>2, <2>3, <2>4 DEF ClientTypeOK
<1>4. Roles
  BY <1>2 DEF StorageInit, Roles, WorkerPlaces, Submitting
<1>5. Links
  BY DEF StorageInit, Init, Links, Main
<1>6. Hands
  BY DEF StorageInit, Hands, InQueue, Waiting
<1>7. InHand /\ Served
  BY DEF StorageInit, InHand, Served, Waiting
<1>8. Wakes
  BY DEF StorageInit, Init, Wakes, AboutToBlock
<1> QED
  BY <1>1, <1>3, <1>4, <1>5, <1>6, <1>7, <1>8 DEF SInv, CInv

-----------------------------------------------------------------------------
(* The invariant is kept.  First the steps that leave the threads' own     *)
(* variables alone.                                                        *)

\* What a thread that runs client code is.
LEMMA ClientRuns ==
  ASSUME SInv, NEW t \in Slots, AtUser(t)
  PROVE  /\ t = current /\ pc[t] = "user" /\ state[t] = "RUNNING"
         /\ \A u \in Slots : pc[u] \in Places /\ state[u] \in States
BY DEF SInv, CInv, LInv, TypeOK, OneRunning, RunningOrExited, AtUser

LEMMA ClientsUnchanged ==
  ASSUME SInv, UNCHANGED clientVars
  PROVE  ClientTypeOK' /\ Roles' /\ Hands' /\ InHand' /\ Served'
BY DEF clientVars, SInv, CInv, ClientTypeOK, Roles, Hands, InQueue, InHand, Served

LEMMA LibraryKeeps ==
  ASSUME SInv, NEW t \in Slots, LibraryStep(t)
  PROVE  Links' /\ Wakes'
<1> USE DEF SInv, CInv, LibraryStep, clientVars
<1>1. CASE Trampoline(t)
  <2>1. pc' = [pc EXCEPT ![t] = "user"] /\ UNCHANGED <<state, held, wake_pending>>
    BY <1>1 DEF Trampoline, Goto
  <2>2. Links'
    BY <2>1 DEF LInv, TypeOK, Links
  <2>3. Wakes'
    BY <2>1 DEF LInv, TypeOK, Wakes, AboutToBlock, Answering, Notifying
  <2> QED
    BY <2>2, <2>3
<1>2. CASE ThreadBlockConsume(t) \/ ThreadBlockReturn(t)
  <2>1. /\ pc' = [pc EXCEPT ![t] = "user"] /\ UNCHANGED <<state, held>>
        /\ wake_pending' = [wake_pending EXCEPT ![t] = FALSE]
        /\ pc[t] \in {"block", "blocked"}
    BY <1>2 DEF ThreadBlockConsume, ThreadBlockReturn, Goto
  <2>2. Links'
    BY <2>1 DEF LInv, TypeOK, Links
  <2>3. at[t] \notin {"block", "sleep"}
    BY <2>1 DEF Links
  <2>4. Wakes'
    BY <2>1, <2>3 DEF LInv, TypeOK, Wakes, AboutToBlock, Answering, Notifying
  <2> QED
    BY <2>2, <2>4
<1>3. CASE ThreadBlockSwitch(t)
  <2>1. /\ pc' = [pc EXCEPT ![t] = "blocked"] /\ UNCHANGED <<held, wake_pending>>
        /\ pc[t] = "block" /\ t = current /\ ~wake_pending[t]
    BY <1>3 DEF ThreadBlockSwitch, Goto
  <2>2. /\ \A u \in Slots : state'[u] = "UNUSED" <=> state[u] = "UNUSED"
        /\ \A u \in Slots : state'[u] = "BLOCKED" => state[u] = "BLOCKED" \/ u = t
    <3>1. CASE \E next \in PickNext : SwitchTo(next, "BLOCKED")
      <4>1. PICK next \in PickNext : SwitchTo(next, "BLOCKED")
        BY <3>1
      <4>2. next \in Slots /\ state[next] = "READY"
        BY PickNextIsReady
      <4>3. state[t] # "UNUSED"
        BY <2>1 DEF LInv, RunningOrExited
      <4> QED
        BY <2>1, <4>1, <4>2, <4>3 DEF SwitchTo, LInv, TypeOK
    <3>2. CASE UNCHANGED state
      BY <3>2
    <3> QED
      BY <1>3, <3>1, <3>2 DEF ThreadBlockSwitch
  <2>3. Links'
    BY <2>1, <2>2 DEF LInv, TypeOK, Links
  <2>4. at[t] \in {"test", "dequeue"}
    BY <2>1 DEF Links
  <2>5. t \in worker => at[t] = "dequeue"
    BY <2>4 DEF Roles, WorkerPlaces
  <2>6. Wakes'
    BY <2>1, <2>2, <2>4, <2>5 DEF LInv, TypeOK, Wakes, AboutToBlock, Answering, Notifying
  <2> QED
    BY <2>3, <2>6
<1>4. CASE IrqReturn(t)
  BY <1>4 DEF IrqReturn, Links, Wakes, AboutToBlock, Answering, Notifying
<1> QED
  BY <1>1, <1>2, <1>3, <1>4

LEMMA TickKeeps ==
  ASSUME SInv, Tick
  PROVE  Links' /\ Wakes'
<1> USE DEF SInv, CInv
<1>1. UNCHANGED <<pc, held, wake_pending, clientVars>>
  BY DEF Tick, SchedulerTick, TickNoSwitch, TickSwitch
<1>2. /\ \A u \in Slots : state'[u] = "UNUSED" <=> state[u] = "UNUSED"
      /\ \A u \in Slots : state'[u] = "BLOCKED" => state[u] = "BLOCKED"
  <2>1. CASE TickNoSwitch
    BY <2>1 DEF TickNoSwitch
  <2>2. CASE TickSwitch
    <3>1. PICK next \in PickNext :
            SwitchTo(next, IF state[current] = "RUNNING" THEN "READY" ELSE state[current])
      BY <2>2 DEF TickSwitch
    <3>2. next \in Slots /\ state[next] = "READY"
      BY PickNextIsReady
    <3> QED
      BY <3>1, <3>2 DEF SwitchTo, LInv, TypeOK, RunningOrExited
  <2> QED
    BY <2>1, <2>2 DEF Tick, SchedulerTick
<1>3. Links'
  BY <1>1, <1>2 DEF Links, clientVars
<1>4. Wakes'
  BY <1>1, <1>2 DEF Wakes, AboutToBlock, Answering, Notifying, clientVars
<1> QED
  BY <1>3, <1>4

-----------------------------------------------------------------------------
(* Steps of a thread's own code that do not touch the requests.            *)

\* A step of another thread.
LEMMA WorkerStays ==
  ASSUME Roles, worker' = worker,
         \A u \in Slots : \A place \in WorkerPlaces : at'[u] = place <=> at[u] = place
  PROVE  /\ \A t, u \in Slots : at'[t] \in WorkerPlaces /\ at'[u] \in WorkerPlaces => t = u
         /\ worker' = {t \in Slots : at'[t] \in WorkerPlaces \ {"start"}}
<1>1. \A t \in Slots : at'[t] \in WorkerPlaces \ {"start"} <=> at[t] \in WorkerPlaces \ {"start"}
  OBVIOUS
<1>2. \A t \in Slots : at'[t] \in WorkerPlaces <=> at[t] \in WorkerPlaces
  OBVIOUS
<1> HIDE DEF WorkerPlaces
<1> QED
  BY <1>1, <1>2 DEF Roles

LEMMA BootKeeps == ASSUME SInv, Boot PROVE CInv'
<1> USE DEF SInv, CInv
<1>0. Main \in Slots /\ at \in [Slots -> AllPlaces]
  BY ThreadsAssumption DEF Main, Slots, ClientTypeOK
<1>1. CASE BootCreate
  <2>1. /\ UNCHANGED <<clientVars, state, held, wake_pending>>
        /\ pc' = [pc EXCEPT ![Main] = "create"]
        /\ at[Main] \in {"create_storage", "create_client"}
    BY <1>1 DEF BootCreate, ThreadCreate, Goto
  <2>2. Links' /\ Wakes'
    BY <1>0, <2>1 DEF Links, Wakes, LInv, TypeOK, clientVars, AboutToBlock, Answering, Notifying
  <2> QED
    BY <2>1, <2>2, ClientsUnchanged
<1>2. CASE BootAlloc
  <2>1. CASE ThreadCreateAlloc(Main, TRUE) /\ UNCHANGED at
    <3>1. /\ UNCHANGED <<clientVars, state, held, wake_pending>>
          /\ pc' = [pc EXCEPT ![Main] = "fill"]
          /\ pc[Main] = "create"
      BY <1>2, <2>1 DEF BootAlloc, ThreadCreateAlloc, Goto, clientVars
    <3>2. Links' /\ Wakes'
      BY <1>0, <3>1 DEF Links, Wakes, LInv, TypeOK, clientVars, AboutToBlock, Answering, Notifying
    <3> QED
      BY <3>1, <3>2, ClientsUnchanged
  <2>2. CASE /\ ThreadCreateAlloc(Main, FALSE)
             /\ GoTo(Main, IF at[Main] = "create_storage" THEN "fs_init" ELSE "idle")
    <3>1. PICK next \in {"fs_init", "idle"} : at' = [at EXCEPT ![Main] = next]
      BY <2>2 DEF GoTo
    <3>2. /\ UNCHANGED <<queue, worker, req, serving, dangling, ops, state, held, wake_pending>>
          /\ pc' = [pc EXCEPT ![Main] = "user"]
          /\ pc[Main] = "create"
      BY <1>2, <2>2 DEF BootAlloc, ThreadCreateAlloc, Goto
    <3>3. at[Main] \in {"create_storage", "create_client"}
      BY <1>0, <3>2 DEF Links
    <3>4. \A u \in Slots : /\ at'[u] = IF u = Main THEN next ELSE at[u]
                           /\ pc'[u] = IF u = Main THEN "user" ELSE pc[u]
      BY <1>0, <3>1, <3>2 DEF LInv, TypeOK
    <3>5. ClientTypeOK'
      BY <1>0, <3>1, <3>2 DEF ClientTypeOK, AllPlaces
    <3>6. Roles'
      <4>1. \A u \in Slots : \A place \in WorkerPlaces : at'[u] = place <=> at[u] = place
        BY <1>0, <3>3, <3>4 DEF WorkerPlaces
      <4> QED
        BY <1>0, <3>2, <3>4, <4>1, WorkerStays DEF Roles
    <3>7. Links'
      BY <1>0, <3>2, <3>3, <3>4 DEF Links, Submitting
    <3>8. Hands' /\ InHand' /\ Served'
      <4>1. \A u \in Slots : \A place \in {"enqueue", "notify", "test", "block", "io", "done", "reply"} :
              at'[u] = place <=> at[u] = place
        BY <1>0, <3>3, <3>4
      <4>2. \A u \in Slots : InQueue(u)' <=> InQueue(u)
        BY <3>2 DEF InQueue
      <4>3. serving \in SUBSET Slots
        BY DEF ClientTypeOK
      <4>4. Hands'
        BY <3>2, <4>1, <4>2, <4>3 DEF Hands, Waiting
      <4>5. InHand'
        BY <3>2, <4>1, <4>3 DEF InHand
      <4>6. Served'
        BY <3>2, <4>1, <4>3 DEF Served, Waiting
      <4> QED
        BY <4>4, <4>5, <4>6
    <3>9. Wakes'
      BY <1>0, <3>2, <3>3, <3>4 DEF Wakes, AboutToBlock, Answering, Notifying
    <3> QED
      BY <3>5, <3>6, <3>7, <3>8, <3>9
  <2> QED
    BY <1>2, <2>1, <2>2 DEF BootAlloc
<1>3. CASE BootFill
  <2>1. /\ pc[Main] = "fill" /\ found \in Slots /\ state[found] = "UNUSED"
        /\ at[Main] \in {"create_storage", "create_client"}
    BY <1>0, <1>3 DEF BootFill, ThreadCreateFill, LInv, TypeOK, SlotReserved, Links
  <2>2. at[found] = "none" /\ found # Main
    BY <2>1 DEF Links
  <2>3. PICK next \in {"fs_init", "create_client", "idle"}, role \in {"start", "client"} :
          /\ at' \in [Slots -> AllPlaces]
          /\ at'[Main] = next /\ at'[found] = role
          /\ \A t \in Slots \ {Main, found} : at'[t] = at[t]
          /\ at[Main] = "create_storage" <=> role = "start"
    <3>1. CASE at[Main] = "create_storage"
      BY <1>0, <1>3, <2>1, <2>2, <3>1 DEF BootFill, AllPlaces, WorkerPlaces
    <3>2. CASE at[Main] # "create_storage"
      <4>1. PICK next \in {"create_client", "idle"} :
              at' = [at EXCEPT ![found] = "client", ![Main] = next]
        BY <1>3, <3>2 DEF BootFill
      <4> QED
        BY <1>0, <2>1, <2>2, <3>2, <4>1 DEF AllPlaces
    <3> QED
      BY <3>1, <3>2
  <2>4. /\ UNCHANGED <<queue, worker, req, serving, dangling, ops, held>>
        /\ state' = [state EXCEPT ![found] = "READY"]
        /\ wake_pending' = [wake_pending EXCEPT ![found] = FALSE]
        /\ pc' = [pc EXCEPT ![Main] = "user", ![found] = "fresh"]
    BY <1>3 DEF BootFill, ThreadCreateFill
  <2>5. ClientTypeOK'
    BY <1>0, <2>1, <2>3, <2>4 DEF ClientTypeOK, WorkerPlaces
  <2>6. Roles'
    BY <1>0, <2>1, <2>2, <2>3, <2>4 DEF Roles, WorkerPlaces, Submitting
  <2>7. Links'
    BY <1>0, <2>1, <2>2, <2>3, <2>4 DEF Links, LInv, TypeOK, Submitting
  <2>8. Hands'
    <3>1. \A t \in Slots : \A place \in Waiting \cup {"enqueue"} :
            at'[t] = place <=> at[t] = place
      BY <1>0, <2>1, <2>2, <2>3 DEF Waiting
    <3>2. \A t \in Slots : InQueue(t)' <=> InQueue(t)
      BY <2>4 DEF InQueue
    <3>3. serving \in SUBSET Slots
      BY DEF ClientTypeOK
    <3> QED
      BY <2>4, <3>1, <3>2, <3>3 DEF Hands, Waiting
  <2>9. InHand'
    BY <1>0, <2>1, <2>2, <2>3, <2>4 DEF InHand
  <2>10. Served'
    BY <1>0, <2>1, <2>2, <2>3, <2>4 DEF Served, Waiting
  <2>11. Wakes'
    <3>1. found \notin worker
      BY <2>1, <2>2 DEF Roles, WorkerPlaces
    <3>2. /\ \A u \in Slots : /\ at'[u] = "block" <=> at[u] = "block"
                              /\ at'[u] = "test" <=> at[u] = "test"
                              /\ at'[u] = "sleep" <=> at[u] = "sleep"
                              /\ at'[u] = "dequeue" <=> at[u] = "dequeue"
                              /\ at'[u] = "reply" <=> at[u] = "reply"
                              /\ at'[u] = "notify" <=> at[u] = "notify"
          /\ at[found] = "none"
      BY <1>0, <2>1, <2>2, <2>3
    <3>3. /\ state'[found] = "READY"
          /\ \A u \in Slots \ {found} : /\ state'[u] = state[u]
                                       /\ wake_pending'[u] = wake_pending[u]
      BY <1>0, <2>1, <2>2, <2>4 DEF LInv, TypeOK
    <3>8. \A u \in Slots : pc'[u] = IF u = found THEN "fresh" ELSE IF u = Main THEN "user" ELSE pc[u]
      BY <1>0, <2>1, <2>2, <2>4 DEF LInv, TypeOK
    <3>4. Notifying' <=> Notifying
      BY <3>2 DEF Notifying
    <3>5. \A u \in Slots : Answering(u)' <=> Answering(u)
      BY <2>4, <3>2 DEF Answering
    <3>6. \A u \in Slots : AboutToBlock(u, "block", "test")' => u # found /\ AboutToBlock(u, "block", "test")
      <4> SUFFICES ASSUME NEW u \in Slots, AboutToBlock(u, "block", "test")'
                   PROVE  u # found /\ AboutToBlock(u, "block", "test")
        OBVIOUS
      <4>1. at[u] = "block" \/ (at[u] = "test" /\ pc'[u] = "block")
        BY <3>2 DEF AboutToBlock
      <4>2. u # found
        BY <3>2, <4>1
      <4>3. pc'[u] = "block" => pc[u] = "block"
        BY <3>8, <4>2
      <4> QED
        BY <4>1, <4>2, <4>3 DEF AboutToBlock
    <3>7. \A u \in Slots : AboutToBlock(u, "sleep", "dequeue")' => u # found /\ AboutToBlock(u, "sleep", "dequeue")
      <4> SUFFICES ASSUME NEW u \in Slots, AboutToBlock(u, "sleep", "dequeue")'
                   PROVE  u # found /\ AboutToBlock(u, "sleep", "dequeue")
        OBVIOUS
      <4>1. at[u] = "sleep" \/ (at[u] = "dequeue" /\ pc'[u] = "block")
        BY <3>2 DEF AboutToBlock
      <4>2. u # found
        BY <3>2, <4>1
      <4>3. pc'[u] = "block" => pc[u] = "block"
        BY <3>8, <4>2
      <4> QED
        BY <4>1, <4>2, <4>3 DEF AboutToBlock
    <3> QED
      BY <2>4, <3>1, <3>2, <3>3, <3>4, <3>5, <3>6, <3>7 DEF Wakes
  <2> QED
    BY <2>5, <2>6, <2>7, <2>8, <2>9, <2>10, <2>11
<1>4. CASE BootSti
  <2>1. /\ at' = [at EXCEPT ![Main] = "create_client"] /\ at[Main] = "fs_tables"
        /\ UNCHANGED <<queue, worker, req, serving, dangling, ops, held, state, wake_pending, pc>>
    BY <1>4 DEF BootSti, KernelSti, GoTo, At
  <2>2. ClientTypeOK'
    BY <1>0, <2>1 DEF ClientTypeOK, AllPlaces
  <2>6. Roles'
    <3>1. \A u \in Slots : \A place \in WorkerPlaces : at'[u] = place <=> at[u] = place
      BY <1>0, <2>1 DEF WorkerPlaces
    <3> QED
      BY <1>0, <2>1, <3>1, WorkerStays DEF Roles
  <2>3. Links' /\ Hands'
    BY <1>0, <2>1 DEF Links, Hands, InQueue, Waiting
  <2>4. InHand' /\ Served'
    BY <1>0, <2>1 DEF InHand, Served, Waiting
  <2>5. Wakes'
    BY <1>0, <2>1 DEF Wakes, AboutToBlock, Answering, Notifying
  <2> QED
    BY <2>2, <2>3, <2>4, <2>5, <2>6
<1> QED
  BY <1>1, <1>2, <1>3, <1>4 DEF Boot

LEMMA CriticalKeeps ==
  ASSUME SInv, NEW t \in Slots, EnterCritical(t) \/ ExitCritical(t) PROVE CInv'
<1> USE DEF SInv, CInv
<1>0. /\ at \in [Slots -> AllPlaces]
      /\ held \in [Slots -> 0 .. MaxNest]
  BY DEF ClientTypeOK, LInv, TypeOK
<1>1. \/ /\ at[t] = "client" /\ at' = [at EXCEPT ![t] = "on_init"]
         /\ held' = [held EXCEPT ![t] = 1]
      \/ /\ at[t] = "on_init" /\ at' = [at EXCEPT ![t] = "client"]
         /\ held' = [held EXCEPT ![t] = 0]
  <2>1. CASE EnterCritical(t)
    <3>1. at[t] = "client" /\ held[t] = 0
      BY <2>1 DEF EnterCritical, At, Links, Submitting
    <3> QED
      BY <1>0, <2>1, <3>1 DEF EnterCritical, GoTo, PreemptDisable
  <2>2. CASE ExitCritical(t)
    <3>1. at[t] = "on_init" /\ held[t] = 1
      BY <2>2 DEF ExitCritical, At, Links
    <3> QED
      BY <1>0, <2>2, <3>1 DEF ExitCritical, GoTo, PreemptEnable
  <2> QED
    BY <2>1, <2>2
<1>2. /\ UNCHANGED <<queue, worker, req, serving, dangling, ops, state, wake_pending, pc>>
      /\ pc[t] = "user"
  BY DEF EnterCritical, ExitCritical, PreemptDisable, PreemptEnable, AtUser
<1>3. t # Main
  BY <1>1 DEF Roles, Submitting
<1>4. ClientTypeOK'
  BY <1>0, <1>1, <1>2 DEF ClientTypeOK, AllPlaces
<1>5. Roles'
  <2>1. \A u \in Slots : \A place \in WorkerPlaces : at'[u] = place <=> at[u] = place
    BY <1>0, <1>1 DEF WorkerPlaces
  <2>2. Main \in Slots /\ at'[Main] = at[Main] /\ at[Main] # "create_storage"
    BY <1>0, <1>1, <1>3, ThreadsAssumption DEF Roles, Main, Slots
  <2>3. \A u \in Slots : u # Main =>
          at'[u] \in {"none", "client", "on_init"} \cup Submitting \cup WorkerPlaces
    BY <1>0, <1>1 DEF Roles
  <2> QED
    BY <1>2, <2>1, <2>2, <2>3, WorkerStays DEF Roles
<1>8. Links'
  BY <1>0, <1>1, <1>2, <1>3 DEF Links, Submitting
<1>9. Hands'
  <2>1. serving \in SUBSET Slots
    BY DEF ClientTypeOK
  <2>2. \A u \in Slots : \A place \in Waiting \cup {"enqueue"} : at'[u] = place <=> at[u] = place
    BY <1>0, <1>1 DEF Waiting
  <2>3. \A u \in Slots : InQueue(u)' <=> InQueue(u)
    BY <1>2 DEF InQueue
  <2> QED
    BY <1>2, <2>1, <2>2, <2>3 DEF Hands, Waiting
<1>6. InHand' /\ Served'
  BY <1>1, <1>2 DEF InHand, Served, Waiting, ClientTypeOK
<1>7. Wakes'
  BY <1>1, <1>2 DEF Wakes, AboutToBlock, Answering, Notifying, ClientTypeOK
<1> QED
  BY <1>4, <1>5, <1>6, <1>7, <1>8, <1>9

-----------------------------------------------------------------------------
(* Steps of submit.                                                        *)

\* What every one of them does, and the worker's too, to Roles and Links.
LEMMA LinksMove ==
  ASSUME SInv, NEW t \in Slots, AtUser(t), NEW new \in AllPlaces,
         at' = [at EXCEPT ![t] = new],
         at[t] # "none", new # "none",
         held[t] = 1 => new \in Submitting \cup {"on_init"},
         new = "on_init" => held[t] = 1,
         held' = held,
         \A u \in Slots : state'[u] = "UNUSED" <=> state[u] = "UNUSED",
         \/ pc' = pc
         \/ pc' = [pc EXCEPT ![t] = "block"] /\ new \in {"test", "dequeue"}
  PROVE  Links'
<1>1. /\ \A u \in Slots : at'[u] = IF u = t THEN new ELSE at[u]
      /\ pc[t] = "user"
      /\ \A u \in Slots : u # t => pc'[u] = pc[u]
      /\ pc'[t] = "user" \/ (pc'[t] = "block" /\ new \in {"test", "dequeue"})
  BY DEF SInv, CInv, ClientTypeOK, LInv, TypeOK, AtUser
<1> QED
  BY <1>1 DEF SInv, CInv, Links

LEMMA SubmitterMoves ==
  ASSUME SInv, NEW t \in Slots, NEW new \in Submitting \cup {"client", "on_init", "fs_init", "fs_tables"},
         at[t] \in Submitting \cup {"client", "on_init", "fs_init", "fs_tables"},
         t = Main => new \notin {"client", "on_init"},
         t # Main => new \notin {"fs_init", "fs_tables"},
         at' = [at EXCEPT ![t] = new], worker' = worker
  PROVE  at' \in [Slots -> AllPlaces] /\ Roles'
<1>1. at \in [Slots -> AllPlaces] /\ Main \in Slots
  BY ThreadsAssumption DEF SInv, CInv, ClientTypeOK, Main, Slots
<1>2. at' \in [Slots -> AllPlaces]
  BY <1>1 DEF AllPlaces
<1>3. \A u \in Slots : \A place \in WorkerPlaces : at'[u] = place <=> at[u] = place
  BY <1>1 DEF WorkerPlaces, Submitting
<1>4. at'[Main] \in {"create_storage", "fs_init", "fs_tables", "create_client", "idle"} \cup Submitting
  BY <1>1 DEF SInv, CInv, Roles
<1>5. \A u \in Slots : u # Main =>
        at'[u] \in {"none", "client", "on_init"} \cup Submitting \cup WorkerPlaces
  BY <1>1 DEF SInv, CInv, Roles
<1>6. at'[Main] # "create_storage"
  BY <1>1 DEF SInv, CInv, Roles, Submitting
<1> QED
  BY <1>2, <1>3, <1>4, <1>5, <1>6, WorkerStays DEF SInv, CInv, Roles

LEMMA SubmitKeeps ==
  ASSUME SInv, NEW t \in Slots, Submit(t) PROVE CInv'
<1> USE DEF SInv, CInv
<1>0. AtUser(t) /\ at[t] \in {"fs_init", "fs_tables", "client", "on_init"}
  BY DEF Submit, At
<1>1. /\ UNCHANGED <<vars, queue, worker, serving, dangling>>
      /\ at' = [at EXCEPT ![t] = "enqueue"]
      /\ req' = [req EXCEPT ![t] = [result |-> "none", done |-> FALSE]]
      /\ ops' = [ops EXCEPT ![t] = 0]
  BY DEF Submit, GoTo
<1>2. ClientTypeOK /\ at \in [Slots -> AllPlaces]
  BY DEF ClientTypeOK
<1>3. at' \in [Slots -> AllPlaces] /\ Roles'
  BY <1>0, <1>1, SubmitterMoves DEF Submitting
<1>4. Links'
  BY <1>0, <1>1, LinksMove DEF vars, AllPlaces, Submitting
<1>5. /\ req' \in [Slots -> [result : {"none", "ok", "error"}, done : BOOLEAN]]
      /\ req'[t].done = FALSE
      /\ \A u \in Slots : u # t => req'[u] = req[u]
  BY <1>1, <1>2 DEF ClientTypeOK
<1>6. ClientTypeOK'
  BY <1>1, <1>2, <1>3, <1>5 DEF ClientTypeOK
<1>7. \A u \in Slots : at'[u] = IF u = t THEN "enqueue" ELSE at[u]
  BY <1>1, <1>2
<1>8. t \notin serving /\ ~InQueue(t) /\ serving \in SUBSET Slots
  BY <1>0, <1>2 DEF Hands, Waiting, ClientTypeOK
<1>9. Hands'
  <2>1. \A u \in Slots : InQueue(u)' <=> InQueue(u)
    BY <1>1 DEF InQueue
  <2> QED
    BY <1>0, <1>1, <1>5, <1>7, <1>8, <2>1 DEF Hands, Waiting
<1>10. InHand'
  BY <1>0, <1>1, <1>5, <1>7, <1>8 DEF InHand
<1>11. Served'
  BY <1>0, <1>1, <1>2, <1>5, <1>7, <1>8 DEF Served, ClientTypeOK, Waiting
<1>12. Wakes'
  BY <1>0, <1>1, <1>5, <1>7, <1>8 DEF Wakes, AboutToBlock, Answering, Notifying, vars
<1> QED
  BY <1>3, <1>4, <1>6, <1>9, <1>10, <1>11, <1>12

LEMMA EnqueueKeeps == ASSUME SInv, NEW t \in Slots, Enqueue(t) PROVE CInv'
<1> USE DEF SInv, CInv
<1>0. AtUser(t) /\ at[t] = "enqueue"
  BY DEF Enqueue, At
<1>1. /\ UNCHANGED <<worker, req, serving, dangling, ops, state, wake_pending, pc, held>>
      /\ at' = [at EXCEPT ![t] = "notify"]
      /\ queue' = Append(queue, t)
  BY DEF Enqueue, GoTo, BriefCritical
<1>2. ClientTypeOK /\ at \in [Slots -> AllPlaces]
  BY DEF ClientTypeOK
<1>3. at' \in [Slots -> AllPlaces] /\ Roles'
  BY <1>0, <1>1, SubmitterMoves DEF Submitting
<1>4. Links'
  BY <1>0, <1>1, LinksMove DEF AllPlaces, Submitting
<1>5. queue' \in Seq(Slots)
  BY <1>1, <1>2 DEF ClientTypeOK
<1>6. ClientTypeOK'
  BY <1>1, <1>2, <1>3, <1>5 DEF ClientTypeOK
<1>7. \A u \in Slots : at'[u] = IF u = t THEN "notify" ELSE at[u]
  BY <1>1, <1>2
<1>8. t \notin serving /\ ~InQueue(t) /\ serving \in SUBSET Slots /\ ~req[t].done
  BY <1>0, <1>2 DEF Hands, Waiting, ClientTypeOK
<1>9. Hands'
  <2>0. /\ Len(queue) \in Nat /\ DOMAIN queue = 1 .. Len(queue)
        /\ DOMAIN queue' = 1 .. (Len(queue) + 1)
        /\ \A i \in 1 .. Len(queue) : queue'[i] = queue[i]
        /\ queue'[Len(queue) + 1] = t
    BY <1>1, <1>2 DEF ClientTypeOK
  <2>1. \A u \in Slots : InQueue(u)' <=> InQueue(u) \/ u = t
    <3> SUFFICES ASSUME NEW u \in Slots PROVE InQueue(u)' <=> InQueue(u) \/ u = t
      OBVIOUS
    <3>1. ASSUME InQueue(u)' PROVE InQueue(u) \/ u = t
      <4>1. PICK i \in 1 .. (Len(queue) + 1) : queue'[i] = u
        BY <2>0, <3>1 DEF InQueue
      <4>2. CASE i = Len(queue) + 1
        BY <2>0, <4>1, <4>2
      <4>3. CASE i # Len(queue) + 1
        <5>1. i \in DOMAIN queue /\ queue[i] = u
          BY <2>0, <4>1, <4>3
        <5> QED
          BY <5>1 DEF InQueue
      <4> QED
        BY <4>2, <4>3
    <3>2. ASSUME InQueue(u) \/ u = t PROVE InQueue(u)'
      <4>1. CASE u = t
        <5>1. Len(queue) + 1 \in DOMAIN queue' /\ queue'[Len(queue) + 1] = u
          BY <2>0, <4>1
        <5> QED
          BY <5>1 DEF InQueue
      <4>2. CASE InQueue(u)
        <5>1. PICK i \in DOMAIN queue : queue[i] = u
          BY <4>2 DEF InQueue
        <5>2. i \in DOMAIN queue' /\ queue'[i] = u
          BY <2>0, <5>1
        <5> QED
          BY <5>2 DEF InQueue
      <4> QED
        BY <3>2, <4>1, <4>2
    <3> QED
      BY <3>1, <3>2
  <2>2. \A i, j \in DOMAIN queue' : queue'[i] = queue'[j] => i = j
    <3>1. \A i \in DOMAIN queue : queue[i] # t
      BY <1>8 DEF InQueue
    <3> QED
      BY <1>1, <1>2, <3>1 DEF Hands, ClientTypeOK
  <2> QED
    BY <1>0, <1>1, <1>7, <1>8, <2>1, <2>2 DEF Hands, Waiting
<1>10. InHand'
  BY <1>0, <1>1, <1>7, <1>8 DEF InHand
<1>11. Served'
  BY <1>0, <1>1, <1>7, <1>8 DEF Served, Waiting
<1>12. Wakes'
  BY <1>0, <1>1, <1>7, <1>8 DEF Wakes, AboutToBlock, Answering, Notifying
<1> QED
  BY <1>3, <1>4, <1>6, <1>9, <1>10, <1>11, <1>12

\* A thread in submit that neither gives its request away nor gets it back.
LEMMA SubmitterStays ==
  ASSUME SInv, NEW t \in Slots, at[t] \in Waiting, NEW new \in Waiting,
         at' = [at EXCEPT ![t] = new],
         UNCHANGED <<queue, worker, req, serving, dangling, ops>>
  PROVE  ClientTypeOK' /\ Roles' /\ Hands' /\ InHand' /\ Served'
<1> USE DEF SInv, CInv
<1>1. ClientTypeOK /\ at \in [Slots -> AllPlaces] /\ serving \in SUBSET Slots
  BY DEF ClientTypeOK
<1>2. at' \in [Slots -> AllPlaces] /\ Roles'
  BY SubmitterMoves DEF Submitting, Waiting
<1>3. ClientTypeOK'
  BY <1>1, <1>2 DEF ClientTypeOK
<1>4. \A u \in Slots : at'[u] = IF u = t THEN new ELSE at[u]
  BY <1>1
<1>5. Hands'
  <2>1. \A u \in Slots : InQueue(u)' <=> InQueue(u)
    BY DEF InQueue
  <2> QED
    BY <1>1, <1>4, <2>1 DEF Hands, Waiting
<1>6. InHand'
  BY <1>1, <1>4 DEF InHand, Waiting
<1>7. Served'
  BY <1>1, <1>4 DEF Served, Waiting
<1> QED
  BY <1>2, <1>3, <1>5, <1>6, <1>7

LEMMA NotifyKeeps == ASSUME SInv, NEW t \in Slots, Notify(t) PROVE CInv'
<1> USE DEF SInv, CInv
<1>0. /\ AtUser(t) /\ at[t] = "notify" /\ pc[t] = "user" /\ state[t] = "RUNNING"
      /\ at \in [Slots -> AllPlaces]
  BY ClientRuns DEF Notify, At, ClientTypeOK
<1>1. /\ UNCHANGED <<queue, worker, req, serving, dangling, ops, pc, held>>
      /\ at' = [at EXCEPT ![t] = "test"]
  BY DEF Notify, GoTo, ThreadWake, vars
<1>2. /\ \A u \in Slots : wake_pending[u] => wake_pending'[u]
      /\ \A u \in Slots : state'[u] = "UNUSED" <=> state[u] = "UNUSED"
      /\ \A u \in Slots : state'[u] = "BLOCKED" => state[u] = "BLOCKED"
      /\ \A w \in worker : wake_pending'[w] /\ state'[w] # "BLOCKED"
  <2>1. CASE worker = {} /\ UNCHANGED vars
    BY <2>1 DEF vars
  <2>2. CASE \E w \in worker : ThreadWake(t, w)
    <3>1. PICK w \in worker : ThreadWake(t, w)
      BY <2>2
    <3>2. w \in Slots /\ worker = {w}
      BY <3>1 DEF Roles
    <3>3. /\ wake_pending' = [wake_pending EXCEPT ![w] = TRUE]
          /\ state' = [state EXCEPT ![w] = Woken(w)]
      BY <3>1 DEF ThreadWake
    <3>4. Woken(w) # "BLOCKED" /\ (Woken(w) = "UNUSED" <=> state[w] = "UNUSED")
      BY DEF Woken
    <3> QED
      BY <3>2, <3>3, <3>4 DEF LInv, TypeOK
  <2> QED
    BY <2>1, <2>2 DEF Notify
<1>3. ClientTypeOK' /\ Roles' /\ Hands' /\ InHand' /\ Served'
  BY <1>0, <1>1, SubmitterStays DEF Waiting
<1>4. Links'
  <2>1. \A u \in Slots : state'[u] = "UNUSED" <=> state[u] = "UNUSED"
    BY <1>2
  <2>2. "test" \in AllPlaces
    BY DEF AllPlaces, Submitting
  <2> QED
    BY <1>0, <1>1, <2>1, <2>2, LinksMove DEF Submitting
<1>5. \A u \in Slots : at'[u] = IF u = t THEN "test" ELSE at[u]
  BY <1>0, <1>1
<1>6. \A u \in Slots : AboutToBlock(u, "sleep", "dequeue")' => u \in worker
  BY <1>1, <1>5 DEF AboutToBlock, Roles, WorkerPlaces
<1>7. Wakes'
  <2>1. \A u \in Slots : Answering(u)' <=> Answering(u)
    BY <1>0, <1>1, <1>5 DEF Answering
  <2>2. \A u \in Slots : AboutToBlock(u, "block", "test")' => AboutToBlock(u, "block", "test")
    BY <1>0, <1>1, <1>5 DEF AboutToBlock
  <2>3. ~(state'[t] = "BLOCKED")
    BY <1>0, <1>2
  <2> QED
    BY <1>1, <1>2, <1>5, <1>6, <2>1, <2>2, <2>3 DEF Wakes
<1> QED
  BY <1>3, <1>4, <1>7

LEMMA TestAgainKeeps == ASSUME SInv, NEW t \in Slots, TestAgain(t) PROVE CInv'
<1> USE DEF SInv, CInv
<1>0. /\ AtUser(t) /\ at[t] = "test" /\ ~req[t].done /\ at \in [Slots -> AllPlaces]
  BY DEF TestAgain, At, ClientTypeOK
<1>1. /\ UNCHANGED <<vars, queue, worker, req, serving, dangling, ops>>
      /\ at' = [at EXCEPT ![t] = "block"]
  BY DEF TestAgain, GoTo
<1>2. ClientTypeOK' /\ Roles' /\ Hands' /\ InHand' /\ Served'
  BY <1>0, <1>1, SubmitterStays DEF Waiting
<1>3. Links'
  BY <1>0, <1>1, LinksMove DEF AllPlaces, Submitting, vars
<1>4. \A u \in Slots : at'[u] = IF u = t THEN "block" ELSE at[u]
  BY <1>0, <1>1
<1>5. Wakes'
  BY <1>0, <1>1, <1>4 DEF Wakes, AboutToBlock, Answering, Notifying, vars
<1> QED
  BY <1>2, <1>3, <1>5

LEMMA BlockKeeps == ASSUME SInv, NEW t \in Slots, Block(t) PROVE CInv'
<1> USE DEF SInv, CInv
<1>0. /\ AtUser(t) /\ at[t] = "block" /\ at \in [Slots -> AllPlaces] /\ state[t] = "RUNNING"
  BY ClientRuns DEF Block, At, ClientTypeOK
<1>1. /\ UNCHANGED <<queue, worker, req, serving, dangling, ops, state, wake_pending, held>>
      /\ at' = [at EXCEPT ![t] = "test"] /\ pc' = [pc EXCEPT ![t] = "block"]
  BY DEF Block, GoTo, ThreadBlock, Goto
<1>2. ClientTypeOK' /\ Roles' /\ Hands' /\ InHand' /\ Served'
  BY <1>0, <1>1, SubmitterStays DEF Waiting
<1>3. Links'
  BY <1>0, <1>1, LinksMove DEF AllPlaces, Submitting
<1>4. \A u \in Slots : /\ at'[u] = IF u = t THEN "test" ELSE at[u]
                       /\ pc'[u] = IF u = t THEN "block" ELSE pc[u]
  BY <1>0, <1>1 DEF LInv, TypeOK
<1>5. Wakes'
  BY <1>0, <1>1, <1>4 DEF Wakes, AboutToBlock, Answering, Notifying
<1> QED
  BY <1>2, <1>3, <1>5

LEMMA SubmitReturnKeeps ==
  ASSUME SInv, NEW t \in Slots, SubmitReturn(t) PROVE CInv'
<1> USE DEF SInv, CInv
<1>0. /\ AtUser(t) /\ at[t] = "test" /\ req[t].done /\ ClientTypeOK
      /\ at \in [Slots -> AllPlaces] /\ serving \in SUBSET Slots /\ state[t] = "RUNNING"
  BY ClientRuns DEF SubmitReturn, At, ClientTypeOK
<1>1. /\ UNCHANGED <<vars, queue, worker, req, ops>>
      /\ dangling' = (dangling \/ t \in serving)
      /\ serving' = serving \ {t}
  BY DEF SubmitReturn
<1>2. PICK new \in {"fs_tables", "client", "on_init"} :
        /\ at' = [at EXCEPT ![t] = new]
        /\ t = Main <=> new = "fs_tables"
        /\ new = "on_init" <=> held[t] = 1
  <2>1. held[t] \in {0, 1} /\ (t = Main => held[t] = 0)
    BY <1>0 DEF Links
  <2>2. CASE t = Main
    BY <2>1, <2>2 DEF SubmitReturn, GoTo, Caller
  <2>3. CASE t # Main
    <3>1. Caller(t) = IF held[t] = 1 THEN "on_init" ELSE "client"
      BY <2>1, <2>3 DEF Caller
    <3> QED
      BY <2>3, <3>1 DEF SubmitReturn, GoTo
  <2> QED
    BY <2>2, <2>3
<1>3. at' \in [Slots -> AllPlaces] /\ Roles'
  BY <1>0, <1>1, <1>2, SubmitterMoves DEF Submitting
<1>4. Links'
  BY <1>0, <1>1, <1>2, LinksMove DEF AllPlaces, Submitting, vars
<1>5. ClientTypeOK'
  BY <1>0, <1>1, <1>3 DEF ClientTypeOK
<1>6. \A u \in Slots : at'[u] = IF u = t THEN new ELSE at[u]
  BY <1>0, <1>2
<1>7. ~InQueue(t)
  BY <1>0 DEF Hands
<1>8. Hands'
  <2>1. \A u \in Slots : InQueue(u)' <=> InQueue(u)
    BY <1>1 DEF InQueue
  <2> QED
    BY <1>0, <1>1, <1>6, <1>7, <2>1 DEF Hands, Waiting
<1>9. t \in serving => \A w \in Slots : at[w] \notin {"io", "done"}
  BY <1>0 DEF InHand
<1>10. InHand'
  BY <1>0, <1>1, <1>6, <1>9 DEF InHand
<1>11. Served'
  BY <1>0, <1>1, <1>6 DEF Served, Waiting
<1>12. Wakes'
  <2>1. \A u \in Slots : u # t => (Answering(u)' <=> Answering(u))
    BY <1>0, <1>1, <1>6 DEF Answering
  <2> QED
    BY <1>0, <1>1, <1>6, <2>1 DEF Wakes, AboutToBlock, Notifying, vars
<1> QED
  BY <1>3, <1>4, <1>5, <1>8, <1>10, <1>11, <1>12

-----------------------------------------------------------------------------
(* Steps of the worker.                                                    *)

LEMMA OneWorker ==
  ASSUME SInv, NEW t \in Slots, at[t] \in WorkerPlaces
  PROVE  /\ at[t] # "start" => worker = {t}
         /\ \A u \in Slots : u # t => at[u] \notin WorkerPlaces
         /\ t # Main
BY DEF SInv, CInv, Roles, WorkerPlaces, Submitting

LEMMA WorkerMoves ==
  ASSUME SInv, NEW t \in Slots, at[t] \in WorkerPlaces,
         NEW new \in WorkerPlaces \ {"start"},
         at' = [at EXCEPT ![t] = new], worker' = {t}
  PROVE  /\ at' \in [Slots -> AllPlaces] /\ Roles'
         /\ \A u \in Slots : at'[u] = IF u = t THEN new ELSE at[u]
         /\ \A u \in Slots : u # t => at[u] \notin WorkerPlaces
<1>1. at \in [Slots -> AllPlaces] /\ Main \in Slots
  BY ThreadsAssumption DEF SInv, CInv, ClientTypeOK, Main, Slots
<1>2. at' \in [Slots -> AllPlaces]
  BY <1>1 DEF AllPlaces
<1>3. \A u \in Slots : at'[u] = IF u = t THEN new ELSE at[u]
  BY <1>1
<1>4. t # Main /\ \A u \in Slots : u # t => at[u] \notin WorkerPlaces
  BY OneWorker
<1>5. worker' = {u \in Slots : at'[u] \in WorkerPlaces \ {"start"}}
  BY <1>3, <1>4
<1>6. \A u, v \in Slots : at'[u] \in WorkerPlaces /\ at'[v] \in WorkerPlaces => u = v
  BY <1>3, <1>4
<1>7. at[Main] # "create_storage"
  BY <1>1, <1>4 DEF SInv, CInv, Roles, WorkerPlaces
<1>8. /\ at'[Main] \in {"create_storage", "fs_init", "fs_tables", "create_client", "idle"} \cup Submitting
      /\ \A u \in Slots : u # Main =>
           at'[u] \in {"none", "client", "on_init"} \cup Submitting \cup WorkerPlaces
      /\ at'[Main] # "create_storage"
  BY <1>1, <1>3, <1>4, <1>7 DEF SInv, CInv, Roles
<1> QED
  BY <1>2, <1>3, <1>4, <1>5, <1>6, <1>8 DEF Roles

LEMMA WorkerLinks ==
  ASSUME SInv, NEW t \in Slots, AtUser(t), at[t] \in WorkerPlaces,
         NEW new \in WorkerPlaces \ {"start"},
         at' = [at EXCEPT ![t] = new], held' = held,
         \A u \in Slots : state'[u] = "UNUSED" <=> state[u] = "UNUSED",
         pc' = pc \/ (pc' = [pc EXCEPT ![t] = "block"] /\ new = "dequeue")
  PROVE  Links'
<1>1. /\ new \in AllPlaces /\ new \notin {"none", "on_init"}
      /\ at[t] \notin Submitting \cup {"none", "on_init"}
  BY DEF AllPlaces, WorkerPlaces, Submitting
<1>2. held[t] # 1
  BY <1>1 DEF SInv, CInv, Links
<1> QED
  BY <1>1, <1>2, LinksMove

\* Where the worker stands is nothing to the submitters.
LEMMA WorkerHands ==
  ASSUME SInv, NEW t \in Slots, at[t] \in WorkerPlaces, NEW new \in WorkerPlaces,
         \A u \in Slots : at'[u] = IF u = t THEN new ELSE at[u],
         UNCHANGED <<queue, req, serving>>
  PROVE  Hands'
<1>1. \A u \in Slots : \A place \in Waiting \cup {"enqueue"} : at'[u] = place <=> at[u] = place
  BY DEF WorkerPlaces, Waiting
<1>2. \A u \in Slots : InQueue(u)' <=> InQueue(u)
  BY DEF InQueue
<1> QED
  BY <1>1, <1>2 DEF SInv, CInv, ClientTypeOK, Hands, Waiting

LEMMA WorkerStartKeeps == ASSUME SInv, NEW t \in Slots, WorkerStart(t) PROVE CInv'
<1> USE DEF SInv, CInv
<1>0. /\ AtUser(t) /\ at[t] = "start" /\ at[t] \in WorkerPlaces /\ pc[t] = "user"
      /\ state[t] = "RUNNING" /\ serving \in SUBSET Slots
  BY ClientRuns DEF WorkerStart, At, ClientTypeOK, WorkerPlaces
<1>1. /\ UNCHANGED <<queue, req, serving, dangling, ops, state, wake_pending, pc, held>>
      /\ at' = [at EXCEPT ![t] = "dequeue"] /\ worker' = {t}
  BY DEF WorkerStart, GoTo, vars
<1>2. "dequeue" \in WorkerPlaces \ {"start"}
  BY DEF WorkerPlaces
<1>3. /\ at' \in [Slots -> AllPlaces] /\ Roles'
      /\ \A u \in Slots : at'[u] = IF u = t THEN "dequeue" ELSE at[u]
  BY <1>0, <1>1, <1>2, WorkerMoves
<1>4. Links'
  BY <1>0, <1>1, <1>2, WorkerLinks
<1>5. ClientTypeOK'
  BY <1>1, <1>3 DEF ClientTypeOK
<1>6. Hands'
  BY <1>0, <1>1, <1>2, <1>3, WorkerHands
<1>7. InHand'
  BY <1>0, <1>1, <1>3 DEF InHand
<1>8. Served'
  BY <1>0, <1>1, <1>3 DEF Served, Waiting
<1>9. Wakes'
  BY <1>0, <1>1, <1>3 DEF Wakes, AboutToBlock, Answering, Notifying
<1> QED
  BY <1>3, <1>4, <1>5, <1>6, <1>7, <1>8, <1>9

LEMMA DequeueKeeps == ASSUME SInv, NEW t \in Slots, Dequeue(t) PROVE CInv'
<1> USE DEF SInv, CInv
<1>0. /\ AtUser(t) /\ at[t] = "dequeue" /\ at[t] \in WorkerPlaces /\ pc[t] = "user"
      /\ state[t] = "RUNNING" /\ ClientTypeOK /\ serving \in SUBSET Slots
  BY ClientRuns DEF Dequeue, At, ClientTypeOK, WorkerPlaces
<1>1. UNCHANGED <<req, dangling, ops, state, wake_pending, pc, held, worker>>
  BY DEF Dequeue, BriefCritical
<1>2. worker' = {t} /\ \A u \in Slots : u # t => at[u] \notin WorkerPlaces
  BY <1>0, <1>1, OneWorker
<1>3. serving = {} /\ ~dangling
  BY <1>0, <1>2 DEF InHand, WorkerPlaces
<1>4. CASE queue = <<>> /\ GoTo(t, "sleep") /\ UNCHANGED <<queue, serving>>
  <2>1. "sleep" \in WorkerPlaces \ {"start"} /\ at' = [at EXCEPT ![t] = "sleep"]
    BY <1>4 DEF WorkerPlaces, GoTo
  <2>2. /\ at' \in [Slots -> AllPlaces] /\ Roles'
        /\ \A u \in Slots : at'[u] = IF u = t THEN "sleep" ELSE at[u]
    BY <1>0, <1>2, <2>1, WorkerMoves
  <2>3. Links'
    BY <1>0, <1>1, <2>1, WorkerLinks
  <2>4. ClientTypeOK'
    BY <1>1, <1>4, <2>2, <1>0 DEF ClientTypeOK
  <2>5. Hands'
    BY <1>0, <1>1, <1>4, <2>1, <2>2, WorkerHands
  <2>6. InHand'
    BY <1>1, <1>3, <1>4 DEF InHand
  <2>7. Served'
    BY <1>0, <1>1, <1>4, <2>2 DEF Served, Waiting
  <2>8. Wakes'
    BY <1>0, <1>1, <1>4, <2>2 DEF Wakes, AboutToBlock, Answering, Notifying
  <2> QED
    BY <2>2, <2>3, <2>4, <2>5, <2>6, <2>7, <2>8
<1>5. CASE queue # <<>> /\ GoTo(t, "io") /\ serving' = {Head(queue)} /\ queue' = Tail(queue)
  <2>0. PICK h \in Slots : h = Head(queue)
    BY <1>0, <1>5 DEF ClientTypeOK
  <2>1. "io" \in WorkerPlaces \ {"start"} /\ at' = [at EXCEPT ![t] = "io"]
    BY <1>5 DEF WorkerPlaces, GoTo
  <2>2. /\ at' \in [Slots -> AllPlaces] /\ Roles'
        /\ \A u \in Slots : at'[u] = IF u = t THEN "io" ELSE at[u]
    BY <1>0, <1>2, <2>1, WorkerMoves
  <2>3. Links'
    BY <1>0, <1>1, <2>1, WorkerLinks
  <2>4. /\ queue \in Seq(Slots) /\ h = queue[1] /\ h \in Slots /\ Len(queue) \in Nat \ {0}
        /\ queue' \in Seq(Slots) /\ Len(queue') = Len(queue) - 1
        /\ \A i \in 1 .. Len(queue) - 1 : queue'[i] = queue[i + 1]
    BY <1>0, <1>5, <2>0 DEF ClientTypeOK
  <2>5. ClientTypeOK'
    BY <1>0, <1>1, <1>5, <2>2, <2>4 DEF ClientTypeOK
  <2>6. \A u \in Slots : InQueue(u) <=> InQueue(u)' \/ u = h
    <3> SUFFICES ASSUME NEW u \in Slots PROVE InQueue(u) <=> InQueue(u)' \/ u = h
      OBVIOUS
    <3>1. ASSUME InQueue(u) PROVE InQueue(u)' \/ u = h
      <4>1. PICK i \in 1 .. Len(queue) : queue[i] = u
        BY <2>4, <3>1 DEF InQueue
      <4>2. CASE i = 1
        BY <2>4, <4>1, <4>2
      <4>3. CASE i # 1
        <5>1. i - 1 \in 1 .. Len(queue') /\ queue'[i - 1] = u
          BY <2>4, <4>1, <4>3
        <5> QED
          BY <2>4, <5>1 DEF InQueue
      <4> QED
        BY <4>2, <4>3
    <3>2. ASSUME InQueue(u)' PROVE InQueue(u)
      <4>1. PICK i \in 1 .. Len(queue') : queue'[i] = u
        BY <2>4, <3>2 DEF InQueue
      <4>2. i + 1 \in 1 .. Len(queue) /\ queue[i + 1] = u
        BY <2>4, <4>1
      <4> QED
        BY <2>4, <4>2 DEF InQueue
    <3>3. InQueue(h)
      BY <2>4 DEF InQueue
    <3> QED
      BY <3>1, <3>2, <3>3
  <2>7. at[h] \in Waiting /\ ~req[h].done
    BY <2>4, <2>6 DEF Hands
  <2>8. ~InQueue(h)'
    <3> SUFFICES ASSUME InQueue(h)' PROVE FALSE
      OBVIOUS
    <3>1. PICK i \in 1 .. Len(queue') : queue'[i] = h
      BY <2>4 DEF InQueue
    <3>2. i + 1 \in DOMAIN queue /\ 1 \in DOMAIN queue /\ queue[i + 1] = queue[1] /\ i + 1 # 1
      BY <2>4, <3>1
    <3> QED
      BY <3>2 DEF Hands
  <2>9. \A i, j \in DOMAIN queue' : queue'[i] = queue'[j] => i = j
    <3> SUFFICES ASSUME NEW i \in 1 .. Len(queue'), NEW j \in 1 .. Len(queue'),
                        queue'[i] = queue'[j]
                 PROVE  i = j
      BY <2>4
    <3>1. i + 1 \in DOMAIN queue /\ j + 1 \in DOMAIN queue /\ queue[i + 1] = queue[j + 1]
      BY <2>4
    <3> QED
      BY <3>1 DEF Hands
  <2>10. serving' = {h} /\ h # t
    BY <1>0, <1>5, <2>0, <2>7 DEF Waiting
  <2>11. Hands'
    <3>1. \A u \in Slots : /\ at'[u] \in Waiting <=> at[u] \in Waiting
                           /\ at'[u] = "enqueue" <=> at[u] = "enqueue"
                           /\ req'[u] = req[u]
      BY <1>0, <1>1, <2>2 DEF Waiting
    <3>2. \A u \in Slots : InQueue(u)' => at'[u] \in Waiting /\ ~req'[u].done /\ u \notin serving'
      BY <2>6, <2>8, <2>10, <3>1 DEF Hands
    <3>3. \A u \in serving' : at'[u] \in Waiting
      BY <2>7, <2>10, <3>1
    <3>4. \A u \in Slots : at'[u] \in Waiting /\ ~req'[u].done => InQueue(u)' \/ u \in serving'
      BY <1>3, <2>6, <2>10, <3>1 DEF Hands
    <3>5. \A u \in Slots : at'[u] = "enqueue" => ~req'[u].done
      BY <3>1 DEF Hands
    <3> QED
      BY <2>9, <3>2, <3>3, <3>4, <3>5 DEF Hands
  <2>12. InHand'
    BY <1>1, <1>2, <1>3, <2>2, <2>7, <2>10, <2>4 DEF InHand, WorkerPlaces
  <2>13. Served'
    BY <1>0, <1>1, <1>2, <1>3, <2>2, <2>4, <2>7, <2>10 DEF Served, Waiting, WorkerPlaces
  <2>14. Wakes'
    <3>1. \A u \in Slots : ~Answering(u)
      BY <1>3 DEF Answering
    <3>2. \A u \in Slots : ~AboutToBlock(u, "sleep", "dequeue")'
      BY <1>0, <1>1, <1>2, <2>2 DEF AboutToBlock, WorkerPlaces
    <3>3. \A u \in Slots : AboutToBlock(u, "block", "test")' => AboutToBlock(u, "block", "test")
      BY <1>0, <1>1, <2>2 DEF AboutToBlock
    <3> QED
      BY <1>0, <1>1, <1>2, <2>2, <3>1, <3>2, <3>3 DEF Wakes
  <2> QED
    BY <2>2, <2>3, <2>5, <2>11, <2>12, <2>13, <2>14
<1> QED
  BY <1>4, <1>5 DEF Dequeue

LEMMA SleepKeeps == ASSUME SInv, NEW t \in Slots, Sleep(t) PROVE CInv'
<1> USE DEF SInv, CInv
<1>0. /\ AtUser(t) /\ at[t] = "sleep" /\ at[t] \in WorkerPlaces /\ pc[t] = "user"
      /\ state[t] = "RUNNING" /\ serving \in SUBSET Slots
  BY ClientRuns DEF Sleep, At, ClientTypeOK, WorkerPlaces
<1>1. /\ UNCHANGED <<queue, worker, req, serving, dangling, ops, state, wake_pending, held>>
      /\ at' = [at EXCEPT ![t] = "dequeue"] /\ pc' = [pc EXCEPT ![t] = "block"]
  BY DEF Sleep, GoTo, ThreadBlock, Goto
<1>2. "dequeue" \in WorkerPlaces \ {"start"} /\ worker' = {t}
  BY <1>0, <1>1, OneWorker DEF WorkerPlaces
<1>3. /\ at' \in [Slots -> AllPlaces] /\ Roles'
      /\ \A u \in Slots : at'[u] = IF u = t THEN "dequeue" ELSE at[u]
  BY <1>0, <1>1, <1>2, WorkerMoves
<1>4. Links'
  BY <1>0, <1>1, <1>2, WorkerLinks
<1>5. ClientTypeOK'
  BY <1>1, <1>3 DEF ClientTypeOK
<1>6. Hands'
  BY <1>0, <1>1, <1>2, <1>3, WorkerHands
<1>7. InHand'
  BY <1>0, <1>1, <1>3 DEF InHand
<1>8. Served'
  BY <1>0, <1>1, <1>3 DEF Served, Waiting
<1>9. \A u \in Slots : pc'[u] = IF u = t THEN "block" ELSE pc[u]
  BY <1>1 DEF LInv, TypeOK
<1>10. Wakes'
  BY <1>0, <1>1, <1>3, <1>9 DEF Wakes, AboutToBlock, Answering, Notifying
<1> QED
  BY <1>3, <1>4, <1>5, <1>6, <1>7, <1>8, <1>10

LEMMA TransferKeeps == ASSUME SInv, NEW t \in Slots, Transfer(t) PROVE CInv'
<1> USE DEF SInv, CInv
<1>0. /\ AtUser(t) /\ at[t] = "io" /\ at[t] \in WorkerPlaces /\ pc[t] = "user"
      /\ state[t] = "RUNNING" /\ ClientTypeOK /\ serving \in SUBSET Slots
  BY ClientRuns DEF Transfer, At, ClientTypeOK, WorkerPlaces
<1>1. /\ UNCHANGED <<vars, queue, worker, serving, dangling>>
      /\ at' = [at EXCEPT ![t] = "done"]
  BY DEF Transfer, GoTo
<1>2. "done" \in WorkerPlaces \ {"start"} /\ worker' = {t}
  BY <1>0, <1>1, OneWorker DEF WorkerPlaces
<1>3. /\ at' \in [Slots -> AllPlaces] /\ Roles'
      /\ \A u \in Slots : at'[u] = IF u = t THEN "done" ELSE at[u]
      /\ \A u \in Slots : u # t => at[u] \notin WorkerPlaces
  BY <1>0, <1>1, <1>2, WorkerMoves
<1>4. Links'
  BY <1>0, <1>1, <1>2, WorkerLinks DEF vars
<1>5. /\ req' \in [Slots -> [result : {"none", "ok", "error"}, done : BOOLEAN]]
      /\ \A u \in Slots : /\ req'[u].done = req[u].done
                          /\ u \in serving => req'[u].result # "none"
                          /\ u \notin serving => req'[u] = req[u]
  <2>1. PICK r \in {"ok", "error"} :
          req' = [u \in Slots |-> IF u \in serving THEN [req[u] EXCEPT !.result = r] ELSE req[u]]
    BY DEF Transfer
  <2>2. \A u \in Slots : req[u] \in [result : {"none", "ok", "error"}, done : BOOLEAN]
    BY <1>0 DEF ClientTypeOK
  <2>3. ASSUME NEW u \in Slots
        PROVE  LET e == [req[u] EXCEPT !.result = r]
               IN  /\ e \in [result : {"none", "ok", "error"}, done : BOOLEAN]
                   /\ e.result = r /\ e.done = req[u].done
    BY <2>2
  <2> QED
    BY <2>1, <2>2, <2>3
<1>6. /\ \A u \in serving : ops[u] = 0 /\ ~req[u].done
      /\ \A u \in Slots : ops'[u] = IF u \in serving THEN ops[u] + 1 ELSE ops[u]
      /\ ops' \in [Slots -> 0 .. 1]
  <2>1. \A u \in serving : ops[u] = 0 /\ ~req[u].done
    BY <1>0 DEF Served, InHand
  <2>2. ops' = [u \in Slots |-> IF u \in serving THEN ops[u] + 1 ELSE ops[u]]
    BY DEF Transfer
  <2>3. ops \in [Slots -> 0 .. 1]
    BY <1>0 DEF ClientTypeOK
  <2> QED
    BY <1>0, <2>1, <2>2, <2>3
<1>7. ClientTypeOK'
  BY <1>0, <1>1, <1>3, <1>5, <1>6 DEF ClientTypeOK
<1>8. Hands'
  <2>1. \A u \in Slots : \A place \in Waiting \cup {"enqueue"} : at'[u] = place <=> at[u] = place
    BY <1>0, <1>3 DEF Waiting
  <2>2. \A u \in Slots : InQueue(u)' <=> InQueue(u)
    BY <1>1 DEF InQueue
  <2> QED
    BY <1>0, <1>1, <1>5, <2>1, <2>2 DEF Hands, Waiting
<1>9. InHand'
  BY <1>0, <1>1, <1>3, <1>5 DEF InHand
<1>10. Served'
  <2>1. \A u \in serving : ops'[u] = 1 /\ req'[u].result # "none"
    BY <1>0, <1>5, <1>6
  <2>2. ASSUME NEW u \in Slots
        PROVE  /\ at'[u] = "enqueue" => ops'[u] = 0
               /\ at'[u] \in Waiting /\ ~req'[u].done /\ u \notin serving => ops'[u] = 0
               /\ at'[u] \in Waiting /\ req'[u].done => ops'[u] = 1 /\ req'[u].result # "none"
    <3>1. /\ at'[u] = "enqueue" => at[u] = "enqueue"
          /\ at'[u] \in Waiting => at[u] \in Waiting
      BY <1>0, <1>3 DEF Waiting
    <3>2. u \in serving => at[u] # "enqueue" /\ ~req'[u].done
      BY <1>0, <1>5, <1>6 DEF Hands, Waiting
    <3>3. u \notin serving => ops'[u] = ops[u] /\ req'[u] = req[u]
      BY <1>5, <1>6
    <3> QED
      BY <3>1, <3>2, <3>3 DEF Served
  <2>3. \A w \in Slots : at'[w] # "io"
    BY <1>0, <1>3 DEF WorkerPlaces
  <2> QED
    BY <1>1, <2>1, <2>2, <2>3 DEF Served
<1>11. Wakes'
  BY <1>0, <1>1, <1>3, <1>5 DEF Wakes, AboutToBlock, Answering, Notifying, vars, WorkerPlaces
<1> QED
  BY <1>3, <1>4, <1>7, <1>8, <1>9, <1>10, <1>11

LEMMA SetDoneKeeps == ASSUME SInv, NEW t \in Slots, SetDone(t) PROVE CInv'
<1> USE DEF SInv, CInv
<1>0. /\ AtUser(t) /\ at[t] = "done" /\ at[t] \in WorkerPlaces /\ pc[t] = "user"
      /\ state[t] = "RUNNING" /\ ClientTypeOK /\ serving \in SUBSET Slots
  BY ClientRuns DEF SetDone, At, ClientTypeOK, WorkerPlaces
<1>1. /\ UNCHANGED <<vars, queue, worker, serving, dangling, ops>>
      /\ at' = [at EXCEPT ![t] = "reply"]
      /\ req' = [u \in Slots |-> IF u \in serving THEN [req[u] EXCEPT !.done = TRUE] ELSE req[u]]
  BY DEF SetDone, GoTo
<1>2. "reply" \in WorkerPlaces \ {"start"} /\ worker' = {t}
  BY <1>0, <1>1, OneWorker DEF WorkerPlaces
<1>3. /\ at' \in [Slots -> AllPlaces] /\ Roles'
      /\ \A u \in Slots : at'[u] = IF u = t THEN "reply" ELSE at[u]
      /\ \A u \in Slots : u # t => at[u] \notin WorkerPlaces
  BY <1>0, <1>1, <1>2, WorkerMoves
<1>4. Links'
  BY <1>0, <1>1, <1>2, WorkerLinks DEF vars
<1>5. /\ req' \in [Slots -> [result : {"none", "ok", "error"}, done : BOOLEAN]]
      /\ \A u \in Slots : /\ req'[u].result = req[u].result
                          /\ u \in serving => req'[u].done
                          /\ u \notin serving => req'[u] = req[u]
  <2>1. \A u \in Slots : req[u] \in [result : {"none", "ok", "error"}, done : BOOLEAN]
    BY <1>0 DEF ClientTypeOK
  <2>2. ASSUME NEW u \in Slots
        PROVE  LET e == [req[u] EXCEPT !.done = TRUE]
               IN  /\ e \in [result : {"none", "ok", "error"}, done : BOOLEAN]
                   /\ e.result = req[u].result /\ e.done
    BY <2>1
  <2> QED
    BY <1>1, <2>1, <2>2
<1>6. \A u \in serving : ops[u] = 1 /\ req[u].result # "none" /\ ~InQueue(u) /\ at[u] \in Waiting
  BY <1>0 DEF Served, Hands
<1>7. ClientTypeOK'
  BY <1>0, <1>1, <1>3, <1>5 DEF ClientTypeOK
<1>8. Hands'
  <2>1. \A u \in Slots : \A place \in Waiting \cup {"enqueue"} : at'[u] = place <=> at[u] = place
    BY <1>0, <1>3 DEF Waiting
  <2>2. \A u \in Slots : InQueue(u)' <=> InQueue(u)
    BY <1>1 DEF InQueue
  <2> QED
    BY <1>0, <1>1, <1>5, <1>6, <2>1, <2>2 DEF Hands, Waiting
<1>9. InHand'
  BY <1>0, <1>1, <1>3, <1>5 DEF InHand, WorkerPlaces
<1>10. Served'
  BY <1>0, <1>1, <1>3, <1>5, <1>6 DEF Served, Waiting, WorkerPlaces
<1>11. Wakes'
  <2>1. \A u \in serving : Answering(u)'
    BY <1>0, <1>1, <1>3 DEF Answering
  <2>2. \A u \in Slots : ~Answering(u)
    BY <1>0, <1>3 DEF Answering, WorkerPlaces
  <2> QED
    BY <1>0, <1>1, <1>3, <1>5, <2>1, <2>2 DEF Wakes, AboutToBlock, Notifying, vars
<1> QED
  BY <1>3, <1>4, <1>7, <1>8, <1>9, <1>10, <1>11

LEMMA ReplyKeeps == ASSUME SInv, NEW t \in Slots, Reply(t) PROVE CInv'
<1> USE DEF SInv, CInv
<1>0. /\ AtUser(t) /\ at[t] = "reply" /\ at[t] \in WorkerPlaces /\ pc[t] = "user"
      /\ state[t] = "RUNNING" /\ ClientTypeOK /\ serving \in SUBSET Slots
  BY ClientRuns DEF Reply, At, ClientTypeOK, WorkerPlaces
<1>1. /\ UNCHANGED <<queue, worker, req, ops, pc, held>>
      /\ at' = [at EXCEPT ![t] = "dequeue"]
      /\ serving' = {} /\ dangling' = FALSE
  BY DEF Reply, GoTo, ThreadWake, BriefCritical
<1>2. "dequeue" \in WorkerPlaces \ {"start"} /\ worker' = {t}
  BY <1>0, <1>1, OneWorker DEF WorkerPlaces
<1>3. /\ at' \in [Slots -> AllPlaces] /\ Roles'
      /\ \A u \in Slots : at'[u] = IF u = t THEN "dequeue" ELSE at[u]
  BY <1>0, <1>1, <1>2, WorkerMoves
<1>4. /\ \A u \in Slots : wake_pending[u] => wake_pending'[u]
      /\ \A u \in Slots : state'[u] = "UNUSED" <=> state[u] = "UNUSED"
      /\ \A u \in Slots : state'[u] = "BLOCKED" => state[u] = "BLOCKED"
      /\ \A u \in serving : wake_pending'[u] /\ state'[u] # "BLOCKED"
  <2>1. CASE dangling /\ BriefCritical(t)
    BY <2>1 DEF InHand, BriefCritical
  <2>2. CASE \E u \in Slots : ThreadWake(t, u) /\ (u \in serving \/ dangling)
    <3>1. PICK u \in Slots : ThreadWake(t, u) /\ (u \in serving \/ dangling)
      BY <2>2
    <3>2. \A v \in serving : v = u
      BY <3>1 DEF InHand
    <3>3. /\ wake_pending' = [wake_pending EXCEPT ![u] = TRUE]
          /\ state' = [state EXCEPT ![u] = Woken(u)]
      BY <3>1 DEF ThreadWake
    <3>4. Woken(u) # "BLOCKED" /\ (Woken(u) = "UNUSED" <=> state[u] = "UNUSED")
      BY DEF Woken
    <3> QED
      BY <3>1, <3>2, <3>3, <3>4 DEF LInv, TypeOK
  <2> QED
    BY <1>0, <2>1, <2>2 DEF Reply
<1>5. Links'
  <2>1. \A u \in Slots : state'[u] = "UNUSED" <=> state[u] = "UNUSED"
    BY <1>4
  <2> QED
    BY <1>0, <1>1, <1>2, <2>1, WorkerLinks
<1>6. ClientTypeOK'
  BY <1>0, <1>1, <1>3 DEF ClientTypeOK
<1>7. \A u \in serving : req[u].done
  BY <1>0 DEF InHand
<1>8. Hands'
  <2>1. \A u \in Slots : \A place \in Waiting \cup {"enqueue"} : at'[u] = place <=> at[u] = place
    BY <1>0, <1>3 DEF Waiting
  <2>2. \A u \in Slots : InQueue(u)' <=> InQueue(u)
    BY <1>1 DEF InQueue
  <2> QED
    BY <1>0, <1>1, <1>7, <2>1, <2>2 DEF Hands, Waiting
<1>9. InHand'
  BY <1>1, <1>3 DEF InHand
<1>10. Served'
  BY <1>0, <1>1, <1>3, <1>7 DEF Served, Waiting
<1>11. Wakes'
  <2>1. \A u \in Slots : Answering(u) => wake_pending'[u] /\ state'[u] # "BLOCKED"
    BY <1>4 DEF Answering
  <2>2. \A u \in Slots : AboutToBlock(u, "block", "test")' => AboutToBlock(u, "block", "test")
    BY <1>0, <1>1, <1>3 DEF AboutToBlock
  <2>3. \A u \in Slots : AboutToBlock(u, "sleep", "dequeue")' => AboutToBlock(u, "sleep", "dequeue")
    BY <1>0, <1>1, <1>3 DEF AboutToBlock
  <2>4. Notifying => Notifying'
    BY <1>0, <1>3 DEF Notifying
  <2> QED
    BY <1>0, <1>1, <1>3, <1>4, <2>1, <2>2, <2>3, <2>4 DEF Wakes
<1> QED
  BY <1>3, <1>5, <1>6, <1>8, <1>9, <1>10, <1>11

-----------------------------------------------------------------------------
(* Every step keeps the invariant.                                         *)

LEMMA StorageStep ==
  ASSUME SInv, [StorageNext]_storageVars PROVE SInv'
<1>1. LInv'
  BY StepIsCall, StepLInv DEF SInv
<1>2. ASSUME NEW t \in Slots, Work(t) PROVE CInv'
  <2>1. CASE Boot
    BY <2>1, BootKeeps
  <2>2. CASE SubmitStep(t)
    BY <2>2, EnqueueKeeps, NotifyKeeps, TestAgainKeeps, BlockKeeps, SubmitReturnKeeps DEF SubmitStep
  <2>3. CASE WorkerStep(t)
    BY <2>3, WorkerStartKeeps, DequeueKeeps, SleepKeeps, TransferKeeps, SetDoneKeeps, ReplyKeeps
       DEF WorkerStep
  <2>4. CASE ExitCritical(t)
    BY <2>4, CriticalKeeps
  <2> QED
    BY <1>2, <2>1, <2>2, <2>3, <2>4 DEF Work
<1>3. ASSUME NEW t \in Slots, LibraryStep(t) PROVE CInv'
  BY <1>3, LibraryKeeps, ClientsUnchanged DEF LibraryStep, CInv
<1>4. ASSUME NEW t \in Slots, Submit(t) PROVE CInv'
  BY <1>4, SubmitKeeps
<1>5. ASSUME NEW t \in Slots, EnterCritical(t) PROVE CInv'
  BY <1>5, CriticalKeeps
<1>6. CASE Tick
  BY <1>1, <1>6, TickKeeps, ClientsUnchanged DEF Tick, SInv, CInv
<1>7. CASE UNCHANGED storageVars
  <2>1. UNCHANGED clientVars /\ UNCHANGED vars
    BY <1>7 DEF storageVars
  <2>2. Links' /\ Wakes'
    BY <2>1 DEF SInv, CInv, Links, Wakes, AboutToBlock, Answering, Notifying, clientVars, vars
  <2> QED
    BY <1>1, <2>1, <2>2, ClientsUnchanged DEF SInv, CInv
<1> QED
  BY <1>1, <1>2, <1>3, <1>4, <1>5, <1>6, <1>7 DEF SInv, StorageNext

LEMMA StorageSafety == StorageSpec => []SInv
<1>1. SInv /\ [StorageNext]_storageVars => SInv'
  BY StorageStep
<1> QED
  BY <1>1, StorageInitial, PTL DEF StorageSpec

-----------------------------------------------------------------------------
(* Theorems.                                                               *)

(* The on_init of the text editor blocks inside wm_create_window's          *)
(* preempt_disable, and whoever runs then enters and leaves sections of     *)
(* its own.  The count comes out of it right: it is never more and never    *)
(* less than what all threads hold together, so preempt_enable sets IF      *)
(* again as soon as nobody is in a section, and no earlier.                 *)
THEOREM CountLeaksNothing == StorageSpec => []NothingLeaked
<1>1. SInv => NothingLeaked
  BY DEF SInv, LInv
<1> QED
  BY <1>1, StorageSafety, PTL

(* storage_read_sectors and storage_write_sectors return the result of a   *)
(* disk operation done for this very call, and done once.                  *)
THEOREM RequestsServedOnce == StorageSpec => []ServedOnce
<1>1. SInv => ServedOnce
  BY DEF SInv, CInv, Served, Waiting, ServedOnce
<1> QED
  BY <1>1, StorageSafety, PTL

(* Between enqueue and the worker's reply a request is neither lost nor    *)
(* doubled, and no interleaving of the test of req->done, thread_block,    *)
(* thread_wake and the timer leaves its waiter, or the worker, blocked     *)
(* with an answer, or with work, at hand.                                  *)
THEOREM NoRequestIsLost == StorageSpec => []NoRequestLost
<1>1. SInv => StorageTypeOK
  <2>1. SInv => TypeOK
    BY DEF SInv, LInv
  <2>2. SInv => worker \in SUBSET Slots
    BY DEF SInv, CInv, Roles
  <2> QED
    BY <2>1, <2>2 DEF SInv, CInv, ClientTypeOK, StorageTypeOK, AllPlaces, WorkerPlaces
<1>2. SInv => InOneHand
  <2> SUFFICES ASSUME SInv, NEW t \in Slots
      PROVE  LET queued  == {i \in DOMAIN queue : queue[i] = t}
                 pending == at[t] \in Waiting /\ ~req[t].done
             IN  /\ \A i, j \in queued : i = j
                 /\ pending => (queued # {}) # (t \in serving)
                 /\ queued # {} => pending
    BY DEF InOneHand, Waiting
  <2>1. {i \in DOMAIN queue : queue[i] = t} # {} <=> InQueue(t)
    BY DEF InQueue
  <2>2. \A i, j \in {k \in DOMAIN queue : queue[k] = t} : i = j
    BY DEF SInv, CInv, Hands
  <2> QED
    BY <2>1, <2>2 DEF SInv, CInv, Hands
<1>3. SInv => NobodyForgotten
  <2> SUFFICES ASSUME SInv PROVE NobodyForgotten
    OBVIOUS
  <2>1. \A w \in Slots : at[w] = "reply" => w \in worker
    BY DEF SInv, CInv, Roles, WorkerPlaces
  <2>2. worker \in SUBSET Slots
    BY DEF SInv, CInv, Roles
  <2> QED
    BY <2>1, <2>2 DEF SInv, CInv, Wakes, Answering, Notifying, NobodyForgotten
<1> QED
  BY <1>1, <1>2, <1>3, StorageSafety, PTL DEF NoRequestLost
=============================================================================
