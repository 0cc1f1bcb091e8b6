------------------------------ MODULE Storage ------------------------------
(***************************************************************************)
(* The storage worker (src/kernel/storage_thread.c) and the kernel's own   *)
(* threads on top of the thread library: main boots, creates the worker,   *)
(* mounts the file system through it, sets IF and creates the client       *)
(* threads (the kernel creates one, "wm"), then idles in hlt.  A client    *)
(* reads and writes sectors, and enters and leaves the preempt_disable     *)
(* section in which wm_create_window calls on_init.  The on_init of the    *)
(* text editor reads a file there, so a client may submit a request, and   *)
(* block, while it holds preempt_disable.  That breaks the rule which      *)
(* Threads assumes of its clients: nothing is taken from there but the     *)
(* functions of the library.                                               *)
(*                                                                         *)
(* A request lives on the stack of the thread that submits it, so it is    *)
(* named by that thread's slot, and its storage is gone once submit has    *)
(* returned.  The sectors themselves are not modelled: an operation is     *)
(* counted, and its result is chosen.                                      *)
(***************************************************************************)
EXTENDS Threads, Sequences, FiniteSets

ASSUME StorageAssumption == MAX_THREADS > 2

VARIABLES
  at,        \* where each thread stands in its own code
  queue,     \* the list from queue_head to queue_tail
  worker,    \* the set {worker}, empty while the pointer is 0
  req,       \* req[t]: the request on t's stack
  serving,   \* the set {*req} of the worker's local req, while that is a live request
  dangling,  \* req points to a request that is gone
  ops        \* ghost: disk operations done for t's present request

clientVars == <<at, queue, worker, req, serving, dangling, ops>>
storageVars == <<vars, clientVars>>

NoRequest == [result |-> "none", done |-> TRUE]

At(t, place) == AtUser(t) /\ at[t] = place

GoTo(t, place) == at' = [at EXCEPT ![t] = place]

\* The places of submit, and of the code a client returns to from it.
Submitting == {"enqueue", "notify", "test", "block"}

Caller(t) == IF t = Main THEN "fs_tables" ELSE IF held[t] > 0 THEN "on_init" ELSE "client"

-----------------------------------------------------------------------------
(* main: kernel_init and the creation of the clients. *)

BootCreate ==
  /\ at[Main] \in {"create_storage", "create_client"}
  /\ ThreadCreate(Main)
  /\ UNCHANGED clientVars

\* The kmalloc of thread_create.  When it fails there is no new thread, and
\* main, which does not look at the result, goes on.
BootAlloc ==
  /\ \/ ThreadCreateAlloc(Main, TRUE) /\ UNCHANGED at
     \/ /\ ThreadCreateAlloc(Main, FALSE)
        /\ GoTo(Main, IF at[Main] = "create_storage" THEN "fs_init" ELSE "idle")
  /\ UNCHANGED <<queue, worker, req, serving, dangling, ops>>

BootFill ==
  /\ ThreadCreateFill(Main)
  /\ at' = IF at[Main] = "create_storage"
           THEN [at EXCEPT ![Main] = "fs_init", ![found] = "start"]
           ELSE [at EXCEPT ![found] = "client",
                           ![Main] = IF \E s \in Slots : state'[s] = "UNUSED"
                                     THEN "create_client" ELSE "idle"]
  /\ UNCHANGED <<queue, worker, req, serving, dangling, ops>>

\* fs_init, which reads one sector at least, is done with the disk; the sti at
\* the end of kernel_init.
BootSti ==
  /\ At(Main, "fs_tables")
  /\ KernelSti(Main)
  /\ GoTo(Main, "create_client")
  /\ UNCHANGED <<queue, worker, req, serving, dangling, ops>>

Boot == BootCreate \/ BootAlloc \/ BootFill \/ BootSti

-----------------------------------------------------------------------------
(* A client's critical sections: wm_create_window around on_init. *)

\* kernel.c has one client, and main creates nothing after it: of several,
\* none opens a window before the last has been created.
EnterCritical(t) ==
  /\ At(t, "client") /\ at[Main] = "idle"
  /\ PreemptDisable(t)
  /\ GoTo(t, "on_init")
  /\ UNCHANGED <<queue, worker, req, serving, dangling, ops>>

ExitCritical(t) ==
  /\ At(t, "on_init")
  /\ PreemptEnable(t)
  /\ GoTo(t, "client")
  /\ UNCHANGED <<queue, worker, req, serving, dangling, ops>>

-----------------------------------------------------------------------------
(* submit and enqueue. *)

\* submit up to its call of enqueue: a new request on the stack.
Submit(t) ==
  /\ \E place \in {"fs_init", "fs_tables", "client", "on_init"} : At(t, place)
  /\ req' = [req EXCEPT ![t] = [result |-> "none", done |-> FALSE]]
  /\ ops' = [ops EXCEPT ![t] = 0]
  /\ GoTo(t, "enqueue")
  /\ UNCHANGED <<vars, queue, worker, serving, dangling>>

Enqueue_DropTail(t) ==
  /\ At(t, "enqueue")
  /\ BriefCritical(t)
  /\ queue' = <<t>>
  /\ GoTo(t, "notify")
  /\ UNCHANGED <<worker, req, serving, dangling, ops>>

\* enqueue's critical section.
Enqueue(t) ==
  /\ At(t, "enqueue")
  /\ BriefCritical(t)
  /\ queue' = Append(queue, t)
  /\ GoTo(t, "notify")
  /\ UNCHANGED <<worker, req, serving, dangling, ops>>

\* enqueue's wake, if there is a worker to wake.
Notify(t) ==
  /\ At(t, "notify")
  /\ \/ \E w \in worker : ThreadWake(t, w)
     \/ worker = {} /\ UNCHANGED vars
  /\ GoTo(t, "test")
  /\ UNCHANGED <<queue, worker, req, serving, dangling, ops>>

TestAgain(t) ==
  /\ At(t, "test") /\ ~req[t].done
  /\ GoTo(t, "block")
  /\ UNCHANGED <<vars, queue, worker, req, serving, dangling, ops>>

Block(t) ==
  /\ At(t, "block")
  /\ ThreadBlock(t)
  /\ GoTo(t, "test")
  /\ UNCHANGED <<queue, worker, req, serving, dangling, ops>>

SubmitReturn_NoLoop(t) ==
  /\ At(t, "test")
  /\ req[t].done \/ worker # {}
  /\ GoTo(t, Caller(t))
  /\ dangling' = (dangling \/ t \in serving)
  /\ serving' = serving \ {t}
  /\ UNCHANGED <<vars, queue, worker, req, ops>>

\* submit returns: the request's stack frame is gone.
SubmitReturn(t) ==
  /\ At(t, "test") /\ req[t].done
  /\ GoTo(t, Caller(t))
  /\ dangling' = (dangling \/ t \in serving)
  /\ serving' = serving \ {t}
  /\ UNCHANGED <<vars, queue, worker, req, ops>>

-----------------------------------------------------------------------------
(* storage_thread_main. *)

WorkerStart(t) ==
  /\ At(t, "start")
  /\ worker' = {t}
  /\ GoTo(t, "dequeue")
  /\ UNCHANGED <<vars, queue, req, serving, dangling, ops>>

Dequeue(t) ==
  /\ At(t, "dequeue")
  /\ BriefCritical(t)
  /\ \/ queue = <<>> /\ GoTo(t, "sleep") /\ UNCHANGED <<queue, serving>>
     \/ /\ queue # <<>> /\ GoTo(t, "io")
        /\ serving' = {Head(queue)}
        /\ queue' = Tail(queue)
  /\ UNCHANGED <<worker, req, dangling, ops>>

Sleep(t) ==
  /\ At(t, "sleep")
  /\ ThreadBlock(t)
  /\ GoTo(t, "dequeue")
  /\ UNCHANGED <<queue, worker, req, serving, dangling, ops>>

\* ide_read_sectors or ide_write_sectors, polled, with interrupts on.
Transfer(t) ==
  /\ At(t, "io")
  /\ \E r \in {"ok", "error"} :
       req' = [u \in Slots |-> IF u \in serving THEN [req[u] EXCEPT !.result = r] ELSE req[u]]
  /\ ops' = [u \in Slots |-> IF u \in serving THEN ops[u] + 1 ELSE ops[u]]
  /\ GoTo(t, "done")
  /\ UNCHANGED <<vars, queue, worker, serving, dangling>>

SetDone(t) ==
  /\ At(t, "done")
  /\ req' = [u \in Slots |-> IF u \in serving THEN [req[u] EXCEPT !.done = TRUE] ELSE req[u]]
  /\ GoTo(t, "reply")
  /\ UNCHANGED <<vars, queue, worker, serving, dangling, ops>>

\* thread_wake(req->waiter).  Once submit has returned, what is read as the
\* waiter is whatever the stack holds by then: a thread, or memory outside the
\* table, which the model does not have.
Reply(t) ==
  /\ At(t, "reply")
  /\ \/ \E u \in serving : ThreadWake(t, u)
     \/ dangling /\ \E u \in Slots : ThreadWake(t, u)
     \/ dangling /\ BriefCritical(t)
  /\ serving' = {}
  /\ dangling' = FALSE
  /\ GoTo(t, "dequeue")
  /\ UNCHANGED <<queue, worker, req, ops>>

-----------------------------------------------------------------------------

StorageInit ==
  /\ Init
  /\ at = [t \in Slots |-> IF t = Main THEN "create_storage" ELSE "none"]
  /\ queue = <<>>
  /\ worker = {}
  /\ req = [t \in Slots |-> NoRequest]
  /\ serving = {}
  /\ dangling = FALSE
  /\ ops = [t \in Slots |-> 0]

WorkerStep(t) ==
  \/ WorkerStart(t) \/ Dequeue(t) \/ Sleep(t) \/ Transfer(t) \/ SetDone(t) \/ Reply(t)

SubmitStep(t) ==
  \/ Enqueue(t) \/ Notify(t) \/ TestAgain(t) \/ Block(t) \/ SubmitReturn(t)

LibraryStep(t) ==
  /\ \/ Trampoline(t) \/ ThreadBlockConsume(t) \/ ThreadBlockSwitch(t)
     \/ ThreadBlockReturn(t) \/ IrqReturn(t)
  /\ UNCHANGED clientVars

\* What thread t's own code does next without a choice of its own.
Work(t) ==
  \/ t = Main /\ Boot
  \/ SubmitStep(t) \/ WorkerStep(t) \/ ExitCritical(t)

Tick == SchedulerTick /\ UNCHANGED clientVars

StorageNext ==
  \/ \E t \in Slots : Work(t) \/ LibraryStep(t) \/ Submit(t) \/ EnterCritical(t)
  \/ Tick

StorageSpec == StorageInit /\ [][StorageNext]_storageVars

(***************************************************************************)
(* Fairness: ticks keep coming and the library returns (see Threads); and  *)
(* a thread that is given the CPU again and again gets something of its    *)
(* own done: a tick is 10 ms, a step a few instructions.  No client is     *)
(* made to submit anything.                                                *)
(***************************************************************************)
StorageFair ==
  /\ SF_storageVars(Tick)
  /\ WF_storageVars(\E t \in Slots : LibraryStep(t))
  /\ \A t \in Slots : SF_storageVars(Work(t))

StorageFairSpec == StorageSpec /\ StorageFair

-----------------------------------------------------------------------------
(* Properties. *)

StorageTypeOK ==
  /\ TypeOK
  /\ at \in [Slots -> Submitting \cup {"none", "create_storage", "fs_init",
                "fs_tables", "create_client", "idle", "client", "on_init", "start", "dequeue",
                "sleep", "io", "done", "reply"}]
  /\ queue \in Seq(Slots)
  /\ worker \in SUBSET Slots
  /\ req \in [Slots -> [result : {"none", "ok", "error"}, done : BOOLEAN]]
  /\ serving \in SUBSET Slots
  /\ dangling \in BOOLEAN
  /\ ops \in [Slots -> 0 .. 1]

(* Whenever submit is about to return, the disk operation of this very     *)
(* call has been done, exactly once, and its result is the one returned.   *)
ServedOnce ==
  \A t \in Slots : at[t] = "test" /\ req[t].done => ops[t] = 1 /\ req[t].result # "none"

(* A request that is not done is in the hands of exactly one party once    *)
(* its submitter is past enqueue, the queue or the worker; the queue holds *)
(* no request twice and none whose submit has returned.                    *)
InOneHand ==
  \A t \in Slots :
    LET queued  == {i \in DOMAIN queue : queue[i] = t}
        pending == at[t] \in {"notify", "test", "block"} /\ ~req[t].done
    IN  /\ \A i, j \in queued : i = j
        /\ pending => (queued # {}) # (t \in serving)
        /\ queued # {} => pending

(* No wait of submit or of the worker is lost between its test and its     *)
(* block: a waiter that has been answered, or a worker with work, is never *)
(* blocked with nobody left to wake it.                                    *)
NobodyForgotten ==
  /\ \A t \in Slots : state[t] = "BLOCKED" /\ at[t] = "test" /\ req[t].done
                        => \E w \in worker : at[w] = "reply" /\ t \in serving
  /\ \A w \in worker : state[w] = "BLOCKED" /\ queue # <<>>
                        => \E t \in Slots : at[t] = "notify"

(* A request goes from its submitter to the worker and back without being  *)
(* lost, doubled or forgotten on the way, and is done at most once.        *)
NoRequestLost == StorageTypeOK /\ InOneHand /\ NobodyForgotten

(* preempt_disable's count leaks nothing: although the on_init of the      *)
(* editor switches threads inside it, and others then enter sections of    *)
(* their own, the count is at all times what the threads hold together, so *)
(* it is back at 0, and preempt_enable sets IF again, when the last one    *)
(* has left (thread.c lines 122-130).                                      *)
NothingLeaked ==
  disable_count = Cardinality({h \in Slots \X (1 .. MaxNest) : h[2] <= held[h[1]]})

(* What wm_create_window says of the section around on_init: it "never     *)
(* blocks" (wm.c line 125), and thread.c of preempt_disable's users: they  *)
(* "never call switch_to while holding it" (lines 133-134).                *)
OnInitNeverBlocks == \A t \in Slots : held[t] > 0 => state[t] # "BLOCKED"

\* thread_create did give the worker a stack.
HasWorker == \E w \in Slots : at[w] \in {"start", "dequeue", "sleep", "io", "done", "reply"}

(* submit's caller is answered: storage_read_sectors and                   *)
(* storage_write_sectors return, unless the worker's stack could not be    *)
(* allocated.                                                              *)
SubmitReturns ==
  \A t \in Slots : at[t] \in Submitting /\ HasWorker ~> at[t] \notin Submitting
=============================================================================
