---------------------------- MODULE WakeTokens ----------------------------
(***************************************************************************)
(* What thread_block and thread_wake promise their callers, without slots, *)
(* schedulers or interrupts: every thread owns one token.  A wake puts the *)
(* token down whatever its target is doing (thread.h lines 18-22); a wait  *)
(* ends by taking it.  Wakes that come before the token is taken count     *)
(* once.  A wait may also end without a token, but only when every other   *)
(* thread is waiting too, with no token of its own: the case the comment   *)
(* of pick_next (thread.c lines 81-85) calls "do not actually block".      *)
(***************************************************************************)
CONSTANT Threads

VARIABLES alive,    \* the threads that exist
          waiting,  \* those inside thread_block
          token     \* token[t]: a wake for t that no wait has taken

tokenVars == <<alive, waiting, token>>

Init == /\ alive \in SUBSET Threads
        /\ waiting = {}
        /\ token = [t \in Threads |-> FALSE]

Create(t) == /\ t \notin alive
             /\ alive' = alive \cup {t}
             /\ token' = [token EXCEPT ![t] = FALSE]
             /\ UNCHANGED waiting

Exit(t) == /\ t \in alive \ waiting
           /\ alive' = alive \ {t}
           /\ UNCHANGED <<waiting, token>>

Wait(t) == /\ t \in alive \ waiting
           /\ waiting' = waiting \cup {t}
           /\ UNCHANGED <<alive, token>>

Wake(t) == /\ token' = [token EXCEPT ![t] = TRUE]
           /\ UNCHANGED <<alive, waiting>>

Leave(t) == /\ waiting' = waiting \ {t}
            /\ token' = [token EXCEPT ![t] = FALSE]
            /\ UNCHANGED alive

TakeToken(t) == t \in waiting /\ token[t] /\ Leave(t)

AllOthersWait(t) == \A u \in alive \ {t} : u \in waiting /\ ~token[u]

GiveUp(t) == t \in waiting /\ AllOthersWait(t) /\ Leave(t)

Next == \E t \in Threads : \/ Create(t) \/ Exit(t) \/ Wait(t) \/ Wake(t)
                           \/ TakeToken(t) \/ GiveUp(t)

Spec == Init /\ [][Next]_tokenVars

\* A thread whose wake has come does leave thread_block.
FairSpec == Spec /\ \A t \in Threads : WF_tokenVars(TakeToken(t))
=============================================================================
