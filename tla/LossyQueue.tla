----------------------------- MODULE LossyQueue -----------------------------
(***************************************************************************)
(* What the event queue promises: it holds at most Capacity events, they   *)
(* come out in the order in which they went in, each at most once, and one *)
(* that was let in is there until it is taken or the queue is initialised. *)
(* Which events are let in is for the handlers to say (see Input).  An     *)
(* event that comes while the queue is being initialised tears it: of a    *)
(* torn queue nothing is promised.                                         *)
(***************************************************************************)
EXTENDS Naturals, Sequences, SequencesExt

CONSTANT Capacity

VARIABLES buf,   \* the events that wait
          out,   \* the set of the event taken last
          phase  \* "fresh", "resetting" (it is being initialised), "ready", "torn"

lossyVars == <<buf, out, phase>>

Init == buf = <<>> /\ out = {} /\ phase = "fresh"

\* One handler may bring several events.
Accept == /\ phase \in {"fresh", "ready"}
          /\ Len(buf') \in Len(buf) + 1 .. Capacity
          /\ IsPrefix(buf, buf')
          /\ UNCHANGED <<out, phase>>

Take == /\ phase = "ready"
        /\ buf # <<>>
        /\ out' = {Head(buf)}
        /\ buf' = Tail(buf)
        /\ UNCHANGED phase

\* Initialising the queue, once, empties it.
Reset == /\ phase = "fresh" /\ phase' = "resetting"
         /\ buf' = <<>>
         /\ UNCHANGED out

Ready == /\ phase = "resetting" /\ phase' = "ready"
         /\ UNCHANGED <<buf, out>>

\* An event meanwhile.
Tear == /\ phase = "resetting" /\ phase' = "torn"
        /\ UNCHANGED <<buf, out>>

Next == Accept \/ Take \/ Reset \/ Ready \/ Tear

Spec == Init /\ [][Next]_lossyVars

\* An event that waits is not left waiting.
FairSpec == Spec /\ WF_lossyVars(Take)
=============================================================================
