---------------------------- MODULE InputProofs ----------------------------
(***************************************************************************)
(* Proofs about Input for every ring and every set of keys and reports,    *)
(* with interrupts on from the start, inside event_init too.               *)
(***************************************************************************)
EXTENDS Input, FiniteSetTheorems, SequenceTheorems, WellFoundedInduction, TLAPS

\* Where event_wait runs with IF clear, and where it has found the ring empty.
Masked == pc \in {"test", "sleep", "copy", "advance", "count", "sti"} => ~intr

FoundEmpty == pc \in {"sleep", "shadow", "halted"} => q_count = 0

IInv == Masked /\ FoundEmpty

-----------------------------------------------------------------------------

LEMMA InitialState == Init => IInv
BY DEF Init, RingInit, IInv, Masked, FoundEmpty

(* The steps of event_wait and event_init themselves.                      *)
LEMMA ConsumerKeeps == IInv /\ Consumer => IInv'
<1> SUFFICES ASSUME IInv, Consumer PROVE IInv'
  OBVIOUS
<1>1. ASSUME Start PROVE IInv'
  BY <1>1 DEF Start, Initialise, InitHead, InitTail, InitCount, IInv, Masked, FoundEmpty
<1>2. ASSUME ReadCursor PROVE IInv'
  BY <1>2 DEF ReadCursor, vars, IInv, Masked, FoundEmpty
<1>3. ASSUME Dispatch PROVE IInv'
  BY <1>3 DEF Dispatch, IInv, Masked, FoundEmpty
<1>4. ASSUME Wait PROVE IInv'
  BY <1>4 DEF Wait, WaitCli, WaitTest, WaitSleep, WaitHlt, PopCopy, PopAdvance,
              PopCount, WaitSti, IInv, Masked, FoundEmpty
<1> QED
  BY <1>1, <1>2, <1>3, <1>4 DEF Consumer

(* A handler runs only where IF is set and no hlt is about to begin, and   *)
(* takes the consumer out of the hlt it was in.                            *)
LEMMA HandlerKeeps == ASSUME NEW es, IInv, Handler(es) PROVE IInv'
<1>1. intr' = intr /\ pc' = (IF pc = "halted" THEN "cli" ELSE pc)
  BY DEF Handler
<1>2. intr /\ pc # "shadow"
  BY DEF Handler, Interruptible
<1> QED
  BY <1>1, <1>2 DEF IInv, Masked, FoundEmpty

LEMMA InterruptKeeps == IInv /\ (KeyboardIrq \/ MouseIrq \/ TimerIrq) => IInv'
<1> SUFFICES ASSUME IInv, KeyboardIrq \/ MouseIrq \/ TimerIrq PROVE IInv'
  OBVIOUS
<1>1. \E es : Handler(es)
  <2>1. CASE KeyboardIrq
    BY <2>1 DEF KeyboardIrq, Pushing
  <2>2. CASE MouseIrq
    BY <2>2 DEF MouseIrq, Decode, Pushing
  <2>3. CASE TimerIrq
    BY <2>3 DEF TimerIrq, Pushing
  <2> QED
    BY <2>1, <2>2, <2>3
<1> QED
  BY <1>1, HandlerKeeps

LEMMA StepKeeps == IInv /\ [Next]_inputVars => IInv'
<1> SUFFICES ASSUME IInv, [Next]_inputVars PROVE IInv'
  OBVIOUS
<1>1. CASE User
  <2>1. UNCHANGED vars
    BY <1>1 DEF User, PressKey, ReleaseKey, Report, LoseByte
  <2> QED
    BY <2>1 DEF vars, IInv, Masked, FoundEmpty
<1>2. CASE UNCHANGED inputVars
  BY <1>2 DEF inputVars, vars, IInv, Masked, FoundEmpty
<1> QED
  BY <1>1, <1>2, ConsumerKeeps, InterruptKeeps DEF Next

(* The consumer never sleeps in hlt while an event waits, wherever the     *)
(* interrupts of timer, keyboard and mouse strike (event.c lines 32-35).   *)
THEOREM NeverSleepsOnEvent == Spec => []NoSleepOnEvent
<1>1. Spec => []IInv
  BY InitialState, StepKeeps, PTL DEF Spec
<1>2. IInv => NoSleepOnEvent
  BY DEF IInv, FoundEmpty, NoSleepOnEvent
<1> QED
  BY <1>1, <1>2, PTL

-----------------------------------------------------------------------------
(* The mouse: how far the driver is out of step with the wire.             *)

Sent == {PacketOf(r)[i] : r \in Reports, i \in 1 .. 3}

\* A packet that will be complete at the wrong byte.
Spoilt == packet # <<>> /\ Len(packet) # (3 - Len(mwire)) % 3

MInv ==
  /\ packet \in Seq(Sent) /\ Len(packet) \in 0 .. 2
  /\ mwire \in Seq(Sent) /\ Len(mwire) \in 0 .. 3
  /\ Len(mwire) = 3 => Bit(mwire[1], 3)
  /\ losses \in Nat /\ mistaken \in Nat /\ astray \in Nat
  /\ astray + (IF Spoilt THEN 1 ELSE 0) <= losses + mistaken
  /\ losses = 0 => mistaken = 0 /\ Len(packet) = (3 - Len(mwire)) % 3

\* A packet begins with a byte that has bit 3 set, whatever is reported.
LEMMA FirstByteMarked == \A r \in Reports : Bit(PacketOf(r)[1], 3)
<1> SUFFICES ASSUME NEW r \in Reports PROVE Bit(PacketOf(r)[1], 3)
  OBVIOUS
<1>1. \A a \in {0, 1}, b \in {0, 2}, c \in {0, 16}, d \in {0, 32}, e \in {0, 64} :
        ((8 + a + b + c + d + e) \div 8) % 2 = 1
  OBVIOUS
<1>2. 2^3 = 8
  OBVIOUS
<1> QED
  BY <1>1, <1>2 DEF PacketOf, Bit

\* Where the driver should be when k bytes are left on the wire.
LEMMA Aligned ==
  \A n \in 0 .. 2, k \in 0 .. 3 : n = (3 - k) % 3 <=> n + k = 3 \/ (n = 0 /\ k = 0)
<1>1. \A k \in 0 .. 3 : k = 0 \/ k = 1 \/ k = 2 \/ k = 3
  OBVIOUS
<1>2. 3 % 3 = 0 /\ 2 % 3 = 2 /\ 1 % 3 = 1 /\ 0 % 3 = 0
  OBVIOUS
<1> QED
  BY <1>1, <1>2

LEMMA MouseKeeps == MInv /\ MouseIrq => MInv'
<1> SUFFICES ASSUME MInv, MouseIrq PROVE MInv'
  OBVIOUS
<1>1. /\ mwire # <<>> /\ mwire' = Tail(mwire) /\ Head(mwire) = mwire[1] /\ Head(mwire) \in Sent
      /\ mwire' \in Seq(Sent) /\ Len(mwire) \in 1 .. 3 /\ Len(mwire') = Len(mwire) - 1
      /\ losses' = losses
  BY DEF MouseIrq, MInv, userVars
<1>2. PICK n \in 0 .. 2, k \in 1 .. 3 : n = Len(packet) /\ k = Len(mwire)
  BY <1>1 DEF MInv
<1>3. /\ packet = <<>> <=> n = 0
      /\ packet \in Seq(Sent)
      /\ Append(packet, Head(mwire)) \in Seq(Sent)
      /\ Len(Append(packet, Head(mwire))) = n + 1
  BY <1>1, <1>2 DEF MInv
<1>4. mistaken' = IF n = 0 /\ Bit(Head(mwire), 3) /\ k # 3 THEN mistaken + 1 ELSE mistaken
  BY <1>2, <1>3 DEF MouseIrq
<1>5. /\ Len(mwire') = k - 1 /\ k - 1 \in 0 .. 2
      /\ mistaken \in Nat /\ astray \in Nat /\ losses \in Nat
      /\ Spoilt <=> n # 0 /\ n + k # 3
      /\ astray + (IF n # 0 /\ n + k # 3 THEN 1 ELSE 0) <= losses + mistaken
      /\ losses = 0 => mistaken = 0 /\ n + k = 3
  <2>0. n = (3 - k) % 3 <=> n + k = 3
    BY Aligned
  <2>1. Spoilt <=> n # 0 /\ n + k # 3
    BY <1>2, <1>3, <2>0 DEF Spoilt
  <2>2. losses = 0 => mistaken = 0 /\ n = (3 - k) % 3
    BY <1>2 DEF MInv
  <2>3. losses = 0 => n + k = 3
    BY <2>0, <2>2
  <2>4. astray + (IF Spoilt THEN 1 ELSE 0) <= losses + mistaken
    BY DEF MInv
  <2> QED
    BY <1>1, <1>2, <2>1, <2>2, <2>3, <2>4 DEF MInv
\* What is left to show, in numbers.
<1>6. ASSUME NEW n1 \in 0 .. 2, n1 = Len(packet'), packet' \in Seq(Sent),
             mistaken' \in Nat, astray' \in Nat,
             astray' + (IF n1 # 0 /\ n1 + k # 4 THEN 1 ELSE 0) <= losses + mistaken',
             losses = 0 => mistaken' = 0 /\ (n1 + k = 4 \/ (n1 = 0 /\ k = 1))
      PROVE  MInv'
  <2>1. n1 # 0 <=> packet' # <<>>
    BY <1>6
  <2>2. n1 = (3 - (k - 1)) % 3 <=> n1 + k = 4 \/ (n1 = 0 /\ k = 1)
    BY <1>5, Aligned
  <2>3. Spoilt' <=> n1 # 0 /\ n1 + k # 4
    BY <1>5, <1>6, <2>1, <2>2 DEF Spoilt
  <2>4. losses = 0 => n1 = (3 - (k - 1)) % 3
    BY <1>6, <2>2
  <2>5. astray' + (IF Spoilt' THEN 1 ELSE 0) <= losses' + mistaken'
    BY <1>1, <1>6, <2>3
  <2>6. Len(mwire') # 3 /\ Len(mwire') \in 0 .. 3
    BY <1>5
  <2>7. losses' = 0 => mistaken' = 0 /\ Len(packet') = (3 - Len(mwire')) % 3
    BY <1>1, <1>5, <1>6, <2>4
  <2> QED
    BY <1>1, <1>5, <1>6, <2>5, <2>6, <2>7 DEF MInv
<1>7. CASE n = 0 /\ ~Bit(Head(mwire), 3)
  <2>1. packet' = packet /\ astray' = astray /\ mistaken' = mistaken
    BY <1>3, <1>4, <1>7 DEF MouseIrq, InPlace
  <2>2. k # 3
    BY <1>1, <1>2, <1>7 DEF MInv
  <2> QED
    BY <1>2, <1>3, <1>5, <1>6, <1>7, <2>1, <2>2
<1>8. CASE n < 2 /\ (n # 0 \/ Bit(Head(mwire), 3))
  <2>1. packet' = Append(packet, Head(mwire)) /\ astray' = astray
    BY <1>2, <1>3, <1>8 DEF MouseIrq, InPlace
  <2>2. n + 1 = Len(packet') /\ packet' \in Seq(Sent) /\ n + 1 \in 0 .. 2
    BY <1>3, <1>8, <2>1
  <2>3. mistaken' = IF n = 0 /\ k # 3 THEN mistaken + 1 ELSE mistaken
    BY <1>4, <1>8
  <2> QED
    BY <1>5, <1>6, <2>1, <2>2, <2>3
<1>9. CASE n = 2
  <2>1. packet' = <<>> /\ astray' = (IF k = 1 THEN astray ELSE astray + 1) /\ mistaken' = mistaken
    BY <1>2, <1>3, <1>4, <1>9 DEF MouseIrq, InPlace
  <2> QED
    BY <1>5, <1>6, <1>9, <2>1
<1> QED
  BY <1>7, <1>8, <1>9

LEMMA ReportKeeps == ASSUME MInv, NEW r \in Reports, Report(r) PROVE MInv'
<1>1. /\ mwire = <<>> /\ mwire' = PacketOf(r) /\ UNCHANGED <<packet, losses, mistaken, astray>>
  BY DEF Report, Gesture, mouseVars
<1>2. mwire' \in Seq(Sent) /\ Len(mwire') = 3
  BY <1>1 DEF PacketOf, Sent
<1>3. Bit(mwire'[1], 3)
  BY <1>1, FirstByteMarked
<1>4. (3 - Len(mwire')) % 3 = (3 - Len(mwire)) % 3
  BY <1>1, <1>2
<1> QED
  BY <1>1, <1>2, <1>3, <1>4 DEF MInv, Spoilt, Bit

LEMMA LossKeeps == MInv /\ LoseByte => MInv'
<1> SUFFICES ASSUME MInv, LoseByte PROVE MInv'
  OBVIOUS
<1>1. /\ losses' = losses + 1 /\ mwire # <<>> /\ mwire' = Tail(mwire)
      /\ UNCHANGED <<packet, mistaken, astray>>
  BY DEF LoseByte, mouseVars
<1>2. mwire' \in Seq(Sent) /\ Len(mwire') \in 0 .. 2
  BY <1>1 DEF MInv
<1>3. losses \in Nat /\ losses' \in Nat /\ losses' # 0 /\ Len(mwire') # 3
  <2>1. losses \in Nat
    BY DEF MInv
  <2>2. PICK k \in 0 .. 2 : k = Len(mwire')
    BY <1>2
  <2>3. k # 3
    OBVIOUS
  <2> QED
    BY <1>1, <2>1, <2>2, <2>3
<1>4. astray' + (IF Spoilt' THEN 1 ELSE 0) <= losses' + mistaken'
  BY <1>1 DEF MInv
<1> QED
  BY <1>1, <1>2, <1>3, <1>4 DEF MInv, Bit

LEMMA MouseInitial == Init => MInv
<1> SUFFICES ASSUME Init PROVE MInv
  OBVIOUS
<1>1. packet = <<>> /\ mwire = <<>> /\ losses = 0 /\ mistaken = 0 /\ astray = 0
  BY DEF Init
<1> QED
  BY <1>1 DEF MInv, Spoilt

LEMMA MouseStep == MInv /\ [Next]_inputVars => MInv'
<1> SUFFICES ASSUME MInv, [Next]_inputVars PROVE MInv'
  OBVIOUS
<1>1. CASE UNCHANGED <<packet, mwire, losses, mistaken, astray>>
  BY <1>1 DEF MInv, Spoilt
<1>2. CASE Consumer \/ KeyboardIrq \/ TimerIrq \/ UNCHANGED inputVars
  <2>1. UNCHANGED <<packet, mwire, losses, mistaken, astray>>
    BY <1>2 DEF Consumer, KeyboardIrq, TimerIrq, inputVars, mouseVars, userVars
  <2> QED
    BY <1>1, <2>1
<1>3. CASE MouseIrq
  BY <1>3, MouseKeeps
<1>4. CASE User
  <2>1. CASE \E k \in Keys : PressKey(k) \/ ReleaseKey(k)
    <3>1. UNCHANGED <<packet, mwire, losses, mistaken, astray>>
      BY <2>1 DEF PressKey, ReleaseKey, mouseVars
    <3> QED
      BY <1>1, <3>1
  <2>2. CASE \E r \in Reports : Report(r)
    BY <2>2, ReportKeeps
  <2>3. CASE LoseByte
    BY <2>3, LossKeeps
  <2> QED
    BY <1>4, <2>1, <2>2, <2>3 DEF User
<1> QED
  BY <1>2, <1>3, <1>4 DEF Next

(* The driver of mouse.c spoils one packet for each byte lost, and another *)
(* for each data byte with bit 3 set that it takes for a first byte; with  *)
(* no byte lost it is always in step ("drop until byte 0", mouse.c line 53)*)
THEOREM OneLossSpoilsOnePacket == Spec => []OneLossOnePacket
<1>1. MInv => OneLossOnePacket
  BY DEF MInv, OneLossOnePacket
<1> QED
  BY <1>1, MouseInitial, MouseStep, PTL DEF Spec

-----------------------------------------------------------------------------
(* The keyboard: the modifiers once the bytes on the wire are read.        *)

Code(k) == Last(Wire[k])

Extended(k) == Len(Wire[k]) = 2

\* The last byte of key k, and the modifiers after it.
Closing(k, isBreak) == [code |-> Code(k), break |-> isBreak]

Then(ms, k, isBreak) ==
  IF isBreak THEN ms \ Modifiers(Code(k), Extended(k)) ELSE ms \cup Modifiers(Code(k), Extended(k))

\* The bytes of key k are on the wire, all of them or without the prefix.
Arriving(k, isBreak) ==
  /\ \/ kwire = BytesOf(k, isBreak) /\ ~extended
     \/ kwire = <<Closing(k, isBreak)>> /\ extended /\ Extended(k)
  /\ down = Then(mods, k, isBreak)

KInv ==
  /\ extended \in BOOLEAN
  /\ kwire = <<>> => mods = down /\ ~extended
  /\ kwire # <<>> => \E k \in Keys, isBreak \in BOOLEAN : Arriving(k, isBreak)
  /\ \A m \in down : \E k \in held : m \in Modifiers(Code(k), Extended(k))
  /\ held \subseteq Keys

LEMMA Bytes ==
  \A k \in Keys, isBreak \in BOOLEAN :
    /\ Extended(k) => BytesOf(k, isBreak) = <<E0, Closing(k, isBreak)>>
    /\ ~Extended(k) => BytesOf(k, isBreak) = <<Closing(k, isBreak)>>
    /\ Code(k) # "E0"
<1> SUFFICES ASSUME NEW k \in Keys, NEW isBreak \in BOOLEAN
    PROVE  /\ Extended(k) => BytesOf(k, isBreak) = <<E0, Closing(k, isBreak)>>
           /\ ~Extended(k) => BytesOf(k, isBreak) = <<Closing(k, isBreak)>>
           /\ Code(k) # "E0"
  OBVIOUS
<1>1. k \in {"LSHIFT", "RSHIFT", "CTRL", "RCTRL", "ALT", "ALTGR", "A", "F1", "LEFT", "KP4"}
  BY InputAssumption DEF Wire
<1>2. \/ Len(Wire[k]) = 2 /\ Last(Wire[k]) = Wire[k][2] /\ Wire[k][2] # "E0"
      \/ Len(Wire[k]) = 1 /\ Last(Wire[k]) = Wire[k][1] /\ Wire[k][1] # "E0"
  <2>1. \/ Len(Wire[k]) = 2 /\ Wire[k][2] # "E0"
        \/ Len(Wire[k]) = 1 /\ Wire[k][1] # "E0"
    BY <1>1 DEF Wire
  <2> QED
    BY <2>1 DEF Last
<1>3. CASE Len(Wire[k]) = 2 /\ Last(Wire[k]) = Wire[k][2] /\ Wire[k][2] # "E0"
  BY <1>3 DEF Extended, BytesOf, Closing, Code
<1>4. CASE Len(Wire[k]) = 1 /\ Last(Wire[k]) = Wire[k][1] /\ Wire[k][1] # "E0"
  BY <1>4 DEF Extended, BytesOf, Closing, Code
<1> QED
  BY <1>2, <1>3, <1>4

LEMMA SomeByte == \A k, isBreak : BytesOf(k, isBreak) # <<>>
<1> SUFFICES ASSUME NEW k, NEW isBreak PROVE BytesOf(k, isBreak) # <<>>
  OBVIOUS
<1>1. CASE Len(Wire[k]) = 2
  <2>1. Len(BytesOf(k, isBreak)) = 2
    BY <1>1 DEF BytesOf
  <2> QED
    BY <2>1
<1>2. CASE Len(Wire[k]) # 2
  <2>1. Len(BytesOf(k, isBreak)) = 1
    BY <1>2 DEF BytesOf
  <2> QED
    BY <2>1
<1> QED
  BY <1>1, <1>2

\* What keyboard_irq_handler does with a prefix and with the byte that ends a key.
LEMMA Prefix == KeyboardByte(E0, mods, extended).mods = mods /\ KeyboardByte(E0, mods, extended).ext = TRUE
BY DEF KeyboardByte

LEMMA Close ==
  ASSUME NEW k \in Keys, NEW isBreak \in BOOLEAN
  PROVE  LET r == KeyboardByte(Closing(k, isBreak), mods, Extended(k))
         IN  r.mods = Then(mods, k, isBreak) /\ r.ext = FALSE
<1>1. Closing(k, isBreak) # E0
  BY Bytes DEF Closing, E0
<1>2. PICK ms : ms = Modifiers(Code(k), Extended(k))
  OBVIOUS
<1>3. ms = {} \/ \E m : ms = {m}
  BY <1>2 DEF Modifiers
<1>4. /\ KeyboardByte(Closing(k, isBreak), mods, Extended(k)).ext = FALSE
      /\ KeyboardByte(Closing(k, isBreak), mods, Extended(k)).mods =
           IF ms = {} THEN mods ELSE Modified(mods, CHOOSE x \in ms : TRUE, isBreak)
  BY <1>1, <1>2 DEF KeyboardByte, Closing
<1>5. CASE ms = {}
  BY <1>2, <1>4, <1>5 DEF Then
<1>6. CASE \E m : ms = {m}
  <2>1. PICK m : ms = {m}
    BY <1>6
  <2>2. (CHOOSE x \in ms : TRUE) = m
    BY <2>1
  <2> QED
    BY <1>2, <1>4, <2>1, <2>2 DEF Then, Modified
<1> QED
  BY <1>3, <1>5, <1>6

LEMMA KeyboardKeeps == KInv /\ KeyboardIrq => KInv'
<1> SUFFICES ASSUME KInv, KeyboardIrq PROVE KInv'
  OBVIOUS
<1>1. /\ kwire # <<>> /\ kwire' = Tail(kwire) /\ UNCHANGED <<down, held>>
      /\ mods' = KeyboardByte(Head(kwire), mods, extended).mods
      /\ extended' = KeyboardByte(Head(kwire), mods, extended).ext
  BY DEF KeyboardIrq, userVars
<1>2. PICK k \in Keys, isBreak \in BOOLEAN : Arriving(k, isBreak)
  BY <1>1 DEF KInv
<1>3. CASE kwire = BytesOf(k, isBreak) /\ ~extended /\ Extended(k)
  <2>1. kwire = <<E0, Closing(k, isBreak)>>
    BY <1>3, Bytes
  <2>2. Head(kwire) = E0 /\ kwire' = <<Closing(k, isBreak)>>
    BY <1>1, <2>1
  <2>3. mods' = mods /\ extended' = TRUE
    BY <1>1, <2>2, Prefix
  <2>4. kwire' # <<>>
    BY <2>2
  <2>5. Arriving(k, isBreak)'
    BY <1>1, <1>2, <1>3, <2>2, <2>3 DEF Arriving, Then
  <2> QED
    BY <1>1, <2>3, <2>4, <2>5 DEF KInv
<1>4. CASE kwire = <<Closing(k, isBreak)>> /\ (extended <=> Extended(k))
  <2>1. Head(kwire) = Closing(k, isBreak) /\ kwire' = <<>>
    BY <1>1, <1>4
  <2>2. mods' = Then(mods, k, isBreak) /\ extended' = FALSE
    <3>1. extended = Extended(k)
      BY <1>4 DEF KInv, Extended
    <3> QED
      BY <1>1, <2>1, <3>1, Close
  <2> QED
    BY <1>1, <1>2, <2>1, <2>2 DEF KInv, Arriving
<1> QED
  BY <1>2, <1>3, <1>4, Bytes DEF Arriving

(* A modifier is set exactly when the last thing done to one of its keys,  *)
(* left or right, was to press it, once the bytes of the last key are      *)
(* read: keyboard_get_mods is "live" (keyboard.h line 10).                 *)
THEOREM ModifiersStayHonest == Spec => []ModifiersHonest
<1>1. Init => KInv
  BY DEF Init, KInv
<1>2. KInv /\ [Next]_inputVars => KInv'
  <2> SUFFICES ASSUME KInv, [Next]_inputVars PROVE KInv'
    OBVIOUS
  <2>1. CASE UNCHANGED <<mods, extended, down, held, kwire>>
    BY <2>1 DEF KInv, Arriving, Then
  <2>2. CASE Consumer \/ MouseIrq \/ TimerIrq \/ LoseByte \/ (\E r \in Reports : Report(r))
             \/ UNCHANGED inputVars
    <3>1. UNCHANGED <<mods, extended, down, held, kwire>>
      BY <2>2 DEF Consumer, MouseIrq, TimerIrq, LoseByte, Report, inputVars, kbdVars, userVars
    <3> QED
      BY <2>1, <3>1
  <2>3. CASE KeyboardIrq
    BY <2>3, KeyboardKeeps
  <2>4. ASSUME NEW k \in Keys, PressKey(k) PROVE KInv'
    <3>1. /\ kwire = <<>> /\ kwire' = BytesOf(k, FALSE) /\ held' = held \cup {k}
          /\ down' = down \cup Modifiers(Code(k), Extended(k)) /\ UNCHANGED <<mods, extended>>
      BY <2>4 DEF PressKey, Gesture, kbdVars, Code, Extended
    <3>2. mods = down /\ ~extended
      BY <3>1 DEF KInv
    <3>3. down' = Then(mods', k, FALSE)
      BY <3>1, <3>2 DEF Then
    <3>4. \A m \in down' : \E j \in held' : m \in Modifiers(Code(j), Extended(j))
      BY <3>1 DEF KInv
    <3>5. kwire' # <<>>
      BY <3>1, SomeByte
    <3>6. Arriving(k, FALSE)'
      BY <3>1, <3>2, <3>3 DEF Arriving, Then
    <3> QED
      BY <3>1, <3>4, <3>5, <3>6 DEF KInv
  <2>5. ASSUME NEW k \in Keys, ReleaseKey(k) PROVE KInv'
    <3>1. /\ kwire = <<>> /\ kwire' = BytesOf(k, TRUE) /\ held' = held \ {k}
          /\ down' = down \ Modifiers(Code(k), Extended(k)) /\ UNCHANGED <<mods, extended>>
      BY <2>5 DEF ReleaseKey, Gesture, kbdVars, Code, Extended
    <3>2. mods = down /\ ~extended
      BY <3>1 DEF KInv
    <3>3. down' = Then(mods', k, TRUE)
      BY <3>1, <3>2 DEF Then
    <3>4. \A m \in down' : \E j \in held' : m \in Modifiers(Code(j), Extended(j))
      BY <3>1 DEF KInv
    <3>5. kwire' # <<>>
      BY <3>1, SomeByte
    <3>6. Arriving(k, TRUE)'
      BY <3>1, <3>2, <3>3 DEF Arriving, Then
    <3> QED
      BY <3>1, <3>4, <3>5, <3>6 DEF KInv
  <2> QED
    BY <2>2, <2>3, <2>4, <2>5 DEF Next, User
<1>3. KInv => ModifiersHonest
  BY DEF KInv, ModifiersHonest, Code, Extended
<1> QED
  BY <1>1, <1>2, <1>3, PTL DEF Spec

-----------------------------------------------------------------------------
(* The ring.  First what pushing does to it.                               *)

LEMMA SomeLeast ==
  ASSUME NEW I, I \subseteq Nat, I # {}
  PROVE  \E m \in I : \A i \in I : m <= i
<1>1. \E m \in I : \A i \in I : ~(<<i, m>> \in OpToRel(<, Nat))
  BY NatLessThanWellFounded, WFMin, Zenon
<1>2. PICK m \in I : \A i \in I : ~(<<i, m>> \in OpToRel(<, Nat))
  BY <1>1
<1>3. \A i, j \in Nat : i < j => <<i, j>> \in OpToRel(<, Nat)
  BY Zenon DEF OpToRel
<1>4. \A i \in I : i \in Nat
  OBVIOUS
<1>5. \A i \in I : ~(i < m)
  BY <1>2, <1>3, <1>4, Zenon
<1>6. \A i \in I : m <= i
  BY <1>4, <1>5
<1> QED
  BY <1>2, <1>6

\* The cell k places on from cell t.
On(t, k) == (t + k) % EVENT_QUEUE_SIZE

LEMMA Wrap ==
  ASSUME NEW t \in Cells, NEW k \in 0 .. EVENT_QUEUE_SIZE
  PROVE  /\ On(t, k) = IF t + k < EVENT_QUEUE_SIZE THEN t + k ELSE t + k - EVENT_QUEUE_SIZE
         /\ On(t, k) \in Cells
<1> DEFINE n == EVENT_QUEUE_SIZE
<1>1. n \in Nat \ {0} /\ t \in 0 .. n - 1 /\ k \in 0 .. n
  BY EventQueueAssumption DEF Cells
<1> HIDE DEF n
<1>2. \A x \in 0 .. n - 1 : x % n = x
  BY <1>1
<1>3. \A x \in n .. 2 * n - 1 : x % n = x - n
  BY <1>1
<1>4. (t + k) % n = IF t + k < n THEN t + k ELSE t + k - n
  BY <1>1, <1>2, <1>3
<1> QED
  BY <1>1, <1>4 DEF On, Cells, n

LEMMA SuccIsOn == \A t \in Cells, k \in 0 .. EVENT_QUEUE_SIZE - 1 :
                    Succ(On(t, k)) = On(t, k + 1) /\ On(Succ(t), k) = On(t, k + 1)
<1> SUFFICES ASSUME NEW t \in Cells, NEW k \in 0 .. EVENT_QUEUE_SIZE - 1
             PROVE  Succ(On(t, k)) = On(t, k + 1) /\ On(Succ(t), k) = On(t, k + 1)
  OBVIOUS
<1> DEFINE n == EVENT_QUEUE_SIZE
<1>0. n \in Nat \ {0} /\ t \in 0 .. n - 1 /\ k \in 0 .. n - 1 /\ 1 \in 0 .. n
  BY EventQueueAssumption DEF Cells
<1>1. \A c \in Cells : Succ(c) = On(c, 1)
  BY DEF Succ, On
<1>2. \A c \in Cells : Succ(c) \in Cells /\ Succ(c) = IF c + 1 < n THEN c + 1 ELSE c + 1 - n
  BY <1>0, <1>1, Wrap
<1>3. On(t, k) \in Cells /\ On(t, k) = IF t + k < n THEN t + k ELSE t + k - n
  BY <1>0, Wrap
<1>4. On(t, k + 1) = IF t + k + 1 < n THEN t + k + 1 ELSE t + k + 1 - n
  <2>1. k + 1 \in 0 .. n
    BY <1>0
  <2>2. On(t, k + 1) = IF t + (k + 1) < n THEN t + (k + 1) ELSE t + (k + 1) - n
    BY <2>1, Wrap
  <2> QED
    BY <1>0, <2>2
<1>5. On(Succ(t), k) = IF Succ(t) + k < n THEN Succ(t) + k ELSE Succ(t) + k - n
  BY <1>0, <1>2, Wrap
<1> HIDE DEF n
<1> QED
  BY <1>0, <1>2, <1>3, <1>4, <1>5 DEF Cells, n

\* Two places less than a ring apart are two cells.
LEMMA Distinct ==
  ASSUME NEW t \in Cells, NEW k \in 0 .. EVENT_QUEUE_SIZE, NEW j \in 0 .. k - 1,
         k < EVENT_QUEUE_SIZE
  PROVE  On(t, j) # On(t, k)
<1> DEFINE n == EVENT_QUEUE_SIZE
<1>1. n \in Nat \ {0} /\ t \in 0 .. n - 1 /\ k \in 0 .. n /\ k < n /\ j \in 0 .. n /\ j < k
  BY EventQueueAssumption DEF Cells
<1>2. On(t, j) = IF t + j < n THEN t + j ELSE t + j - n
  BY <1>1, Wrap
<1>3. On(t, k) = IF t + k < n THEN t + k ELSE t + k - n
  BY <1>1, Wrap
<1> HIDE DEF n
<1> QED
  BY <1>1, <1>2, <1>3

(* The ring r has been read up to cell t: head, count and cells agree, and  *)
(* all but the first w of its cells were written.                          *)
RingOk(r, t, w) ==
  /\ r.queue = [i \in Cells |-> r.queue[i]]
  /\ r.count \in 0 .. EVENT_QUEUE_SIZE
  /\ r.head = On(t, r.count)
  /\ \A k \in w .. r.count - 1 : r.queue[On(t, k)] # {}

\* r2 is r with n events of es behind what it held, or with as many as fit.
Adds(r, r2, t, es, n) ==
  /\ r.count <= r2.count
  /\ \A k \in 0 .. r.count - 1 : r2.queue[On(t, k)] = r.queue[On(t, k)]
  /\ r.count + n <= EVENT_QUEUE_SIZE =>
       /\ r2.count = r.count + n
       /\ \A k \in 0 .. n - 1 : r2.queue[On(t, r.count + k)] = {es[k + 1]}

LEMMA PushOk ==
  ASSUME NEW r, NEW r1, NEW t \in Cells, NEW es, NEW n \in Nat,
         NEW w \in Nat, RingOk(r, t, w), RingOk(r1, t, w), Adds(r, r1, t, es, n)
  PROVE  RingOk(Push(r1, es[n + 1]), t, w) /\ Adds(r, Push(r1, es[n + 1]), t, es, n + 1)
<1> DEFINE N == EVENT_QUEUE_SIZE
           e == es[n + 1]
           r2 == Push(r1, e)
<1>0. N \in Nat \ {0} /\ r.count \in 0 .. N /\ r1.count \in 0 .. N /\ r.count <= r1.count
  BY EventQueueAssumption DEF RingOk, Adds
<1>1. CASE r1.count >= N
  <2>1. r2 = r1
    BY <1>1 DEF Push
  <2>2. ~(r.count + (n + 1) <= N)
    BY <1>0, <1>1 DEF Adds
  <2> HIDE DEF r2
  <2>3. RingOk(r2, t, w) /\ Adds(r, r2, t, es, n + 1)
    BY <2>1, <2>2 DEF Adds
  <2> QED
    BY <2>3 DEF r2, e
<1>2. CASE r1.count < N
  <2> DEFINE c == r1.count
  <2>0. c \in 0 .. N - 1 /\ c \in 0 .. N
    BY <1>0, <1>2
  <2>1. /\ r2.queue = [r1.queue EXCEPT ![r1.head] = {e}]
        /\ r2.head = Succ(r1.head) /\ r2.count = c + 1
    BY <1>0, <1>2 DEF Push
  <2>2. r1.head = On(t, c) /\ On(t, c) \in Cells
    BY <2>0, Wrap DEF RingOk
  <2>3. r2.head = On(t, c + 1)
    BY <2>0, <2>1, <2>2, SuccIsOn
  <2>4. r1.queue = [i \in Cells |-> r1.queue[i]]
    BY DEF RingOk
  <2>5. /\ r2.queue = [i \in Cells |-> r2.queue[i]]
        /\ r2.queue[On(t, c)] = {e}
        /\ \A i : i # On(t, c) => r2.queue[i] = r1.queue[i]
    BY <2>1, <2>2, <2>4
  <2> HIDE DEF r2, e
  <2>6. \A k \in 0 .. c - 1 : r2.queue[On(t, k)] = r1.queue[On(t, k)]
    BY <1>2, <2>0, <2>5, Distinct
  <2>7. \A k \in w .. c - 1 : r1.queue[On(t, k)] # {}
    BY DEF RingOk
  <2>8. \A k \in w .. c : r2.queue[On(t, k)] # {}
    <3> SUFFICES ASSUME NEW k \in w .. c PROVE r2.queue[On(t, k)] # {}
      OBVIOUS
    <3>1. CASE k = c
      BY <2>5, <3>1
    <3>2. CASE k # c
      <4>1. k \in 0 .. c - 1 /\ k \in w .. c - 1
        BY <2>0, <3>2
      <4> QED
        BY <2>6, <2>7, <4>1
    <3> QED
      BY <3>1, <3>2
  <2>9. RingOk(r2, t, w)
    <3>1. (c + 1) - 1 = c /\ c + 1 \in 0 .. N
      BY <1>0, <2>0
    <3> QED
      BY <2>1, <2>3, <2>5, <2>8, <3>1 DEF RingOk
  <2>10. r.count <= r2.count /\ \A k \in 0 .. r.count - 1 : r2.queue[On(t, k)] = r.queue[On(t, k)]
    <3>1. r.count <= c + 1
      BY <1>0, <2>0
    <3>2. \A k \in 0 .. r.count - 1 : k \in 0 .. c - 1 /\ r1.queue[On(t, k)] = r.queue[On(t, k)]
      BY <1>0, <2>0 DEF Adds
    <3> QED
      BY <2>1, <2>6, <3>1, <3>2
  <2>11. ASSUME r.count + (n + 1) <= N
         PROVE  r2.count = r.count + (n + 1)
                /\ \A k \in 0 .. n : r2.queue[On(t, r.count + k)] = {es[k + 1]}
    <3>1. c = r.count + n /\ \A k \in 0 .. n - 1 : r1.queue[On(t, r.count + k)] = {es[k + 1]}
      <4>1. r.count + n <= N
        BY <1>0, <2>11
      <4> QED
        BY <4>1 DEF Adds
    <3>2. c + 1 = r.count + (n + 1)
      BY <1>0, <3>1
    <3>3. ASSUME NEW k \in 0 .. n PROVE r2.queue[On(t, r.count + k)] = {es[k + 1]}
      <4>1. CASE k = n
        BY <2>5, <3>1, <4>1 DEF e
      <4>2. CASE k # n
        <5>1. k \in 0 .. n - 1 /\ r.count + k \in 0 .. c - 1
          BY <1>0, <3>1, <4>2
        <5> QED
          BY <2>6, <3>1, <5>1
      <4> QED
        BY <4>1, <4>2
    <3> QED
      BY <2>1, <3>2, <3>3
  <2>12. Adds(r, r2, t, es, n + 1)
    <3>1. (n + 1) - 1 = n
      OBVIOUS
    <3> QED
      BY <2>10, <2>11, <3>1 DEF Adds
  <2> QED
    BY <2>9, <2>12 DEF r2, e
<1> QED
  BY <1>0, <1>1, <1>2

\* q is the ring after each of the first n calls of event_push.
Pushes(r, es, n, q) ==
  q = [j \in 0 .. n |-> IF j = 0 THEN r ELSE Push(q[j - 1], es[j])]

LEMMA MorePushes ==
  ASSUME NEW r, NEW es, NEW n \in Nat, NEW q, Pushes(r, es, n, q)
  PROVE  \E u : Pushes(r, es, n + 1, u)
<1> DEFINE u == [j \in 0 .. n + 1 |-> IF j = n + 1 THEN Push(q[n], es[n + 1]) ELSE q[j]]
<1>1. \A j \in 0 .. n : u[j] = q[j]
  OBVIOUS
<1>2. u[n + 1] = Push(u[n], es[n + 1])
  OBVIOUS
<1>3. \A j \in 0 .. n : q[j] = IF j = 0 THEN r ELSE Push(q[j - 1], es[j])
  BY DEF Pushes
<1>4. u = [j \in 0 .. n + 1 |-> u[j]]
  OBVIOUS
<1> HIDE DEF u
<1>5. ASSUME NEW j \in 0 .. n + 1 PROVE u[j] = IF j = 0 THEN r ELSE Push(u[j - 1], es[j])
  <2>1. CASE j = n + 1
    BY <1>2, <2>1
  <2>2. CASE j # n + 1 /\ j # 0
    <3>1. j \in 0 .. n /\ j - 1 \in 0 .. n
      BY <2>2
    <3> QED
      BY <1>1, <1>3, <2>2, <3>1
  <2>3. CASE j = 0
    BY <1>1, <1>3, <2>3
  <2> QED
    BY <2>1, <2>2, <2>3
<1>6. u = [j \in 0 .. n + 1 |-> IF j = 0 THEN r ELSE Push(u[j - 1], es[j])]
  BY <1>4, <1>5
<1> QED
  BY <1>6 DEF Pushes

LEMMA PushesExist ==
  ASSUME NEW r, NEW es, NEW n \in Nat
  PROVE  \E q : Pushes(r, es, n, q)
<1> DEFINE I == {j \in Nat : ~\E q : Pushes(r, es, j, q)}
<1> SUFFICES ASSUME I # {} PROVE FALSE
  OBVIOUS
<1>1. PICK m \in I : \A i \in I : m <= i
  BY SomeLeast
<1>2. m \in Nat /\ ~\E q : Pushes(r, es, m, q)
  OBVIOUS
<1>3. CASE m = 0
  <2> DEFINE q == [j \in 0 .. 0 |-> r]
  <2>1. \A j \in 0 .. 0 : j = 0
    OBVIOUS
  <2>2. Pushes(r, es, 0, q)
    BY <2>1 DEF Pushes
  <2> QED
    BY <1>2, <1>3, <2>2
<1>4. CASE m # 0
  <2>1. m - 1 \in Nat /\ (m - 1) + 1 = m /\ ~(m <= m - 1)
    BY <1>2, <1>4
  <2>2. PICK q : Pushes(r, es, m - 1, q)
    BY <1>1, <2>1
  <2> HIDE DEF I
  <2>3. \E u : Pushes(r, es, (m - 1) + 1, u)
    BY <2>1, <2>2, MorePushes
  <2> QED
    BY <1>2, <2>1, <2>3
<1> QED
  BY <1>3, <1>4

LEMMA PushedOk ==
  ASSUME NEW r, NEW t \in Cells, NEW w \in Nat, NEW E, NEW es \in Seq(E), RingOk(r, t, w)
  PROVE  RingOk(Pushed(r, es), t, w) /\ Adds(r, Pushed(r, es), t, es, Len(es))
<1>0. PICK n \in Nat : n = Len(es)
  OBVIOUS
<1> DEFINE q == CHOOSE u : Pushes(r, es, n, u)
<1>1. Pushed(r, es) = q[n]
  BY <1>0 DEF Pushed, Pushes
<1>2. Pushes(r, es, n, q)
  BY PushesExist
<1> HIDE DEF q
<1>3. q[0] = r /\ \A j \in 0 .. n - 1 : q[j + 1] = Push(q[j], es[j + 1])
  <2>1. \A j \in 0 .. n : q[j] = IF j = 0 THEN r ELSE Push(q[j - 1], es[j])
    BY <1>2 DEF Pushes
  <2>2. ASSUME NEW j \in 0 .. n - 1 PROVE q[j + 1] = Push(q[j], es[j + 1])
    <3>1. j + 1 \in 0 .. n /\ j + 1 # 0 /\ (j + 1) - 1 = j
      OBVIOUS
    <3> QED
      BY <2>1, <3>1
  <2> QED
    BY <2>1, <2>2
<1> DEFINE I == {j \in 0 .. n : ~(RingOk(q[j], t, w) /\ Adds(r, q[j], t, es, j))}
<1>4. I = {}
  <2> SUFFICES ASSUME I # {} PROVE FALSE
    OBVIOUS
  <2>0. I \subseteq Nat
    OBVIOUS
  <2>1. PICK m \in I : \A i \in I : m <= i
    BY <2>0, SomeLeast
  <2>2. m \in 0 .. n /\ ~(RingOk(q[m], t, w) /\ Adds(r, q[m], t, es, m))
    OBVIOUS
  <2>3. Adds(r, r, t, es, 0)
    <3>1. r.count \in Nat
      BY EventQueueAssumption DEF RingOk
    <3> QED
      BY <3>1 DEF Adds
  <2>4. m # 0
    BY <1>3, <2>2, <2>3
  <2>5. m - 1 \in 0 .. n - 1 /\ m - 1 \in 0 .. n /\ m - 1 \in Nat /\ (m - 1) + 1 = m /\ ~(m <= m - 1)
    BY <2>2, <2>4
  <2>6. RingOk(q[m - 1], t, w) /\ Adds(r, q[m - 1], t, es, m - 1)
    BY <2>1, <2>5
  <2> HIDE DEF I
  <2>7. q[m] = Push(q[m - 1], es[(m - 1) + 1])
    BY <1>3, <2>5
  <2>8. /\ RingOk(Push(q[m - 1], es[(m - 1) + 1]), t, w)
        /\ Adds(r, Push(q[m - 1], es[(m - 1) + 1]), t, es, (m - 1) + 1)
    BY <2>5, <2>6, PushOk
  <2> QED
    BY <2>2, <2>5, <2>7, <2>8
<1>5. RingOk(q[n], t, w) /\ Adds(r, q[n], t, es, n)
  BY <1>4
<1> QED
  BY <1>0, <1>1, <1>5

-----------------------------------------------------------------------------
(* The ring in Input's steps.                                              *)

\* keyboard_irq_handler pushes at most one event for a byte.
LEMMA KeyboardPushes ==
  ASSUME NEW b, NEW ms, NEW ext
  PROVE  \/ KeyboardByte(b, ms, ext).push = <<>> /\ KeyboardByte(b, ms, ext).mods = ms
         \/ \E x \in Modifiers(b.code, ext) \cup Ascii(b.code, ext, "SHIFT" \in ms) :
              KeyboardByte(b, ms, ext).push = <<KeyEvent(b, x, KeyboardByte(b, ms, ext).mods)>>
<1>1. CASE b = E0
  BY <1>1 DEF KeyboardByte
<1>2. CASE b # E0
  <2> DEFINE M == Modifiers(b.code, ext)
             A == Ascii(b.code, ext, "SHIFT" \in ms)
             to == KeyboardByte(b, ms, ext).mods
             S == {KeyEvent(b, x, to) : x \in M \cup A}
  <2>1. KeyboardByte(b, ms, ext).push = SetToSeq(S)
    BY <1>2 DEF KeyboardByte
  <2>2. M \cup A = {} \/ \E x : M \cup A = {x}
    BY DEF Modifiers, Ascii
  <2>3. S = {} \/ \E x \in M \cup A : S = {KeyEvent(b, x, to)}
    BY <2>2
  <2> HIDE DEF S, M, A, to
  <2>4. CASE S = {}
    <3>1. SetToSeq({}) = CHOOSE f \in [1 .. 0 -> {}] : IsInjective(f)
      BY FS_EmptySet DEF SetToSeq
    <3>2. \A f \in [1 .. 0 -> {}] : f = <<>>
      OBVIOUS
    <3>3. \E f \in [1 .. 0 -> {}] : IsInjective(f)
      <4> DEFINE f == [j \in 1 .. 0 |-> j]
      <4>1. f \in [1 .. 0 -> {}] /\ IsInjective(f)
        BY DEF IsInjective
      <4> QED
        BY <4>1
    <3>4. M = {}
      BY <2>4 DEF S
    <3>5. to = ms
      BY <1>2, <3>4 DEF KeyboardByte, M, to
    <3> QED
      BY <2>1, <2>4, <3>1, <3>2, <3>3, <3>5 DEF to
  <2>5. CASE \E x \in M \cup A : S = {KeyEvent(b, x, to)}
    <3>1. PICK x \in M \cup A : S = {KeyEvent(b, x, to)}
      BY <2>5
    <3>2. PICK e : e = KeyEvent(b, x, to)
      OBVIOUS
    <3>3. SetToSeq({e}) = CHOOSE f \in [1 .. 1 -> {e}] : IsInjective(f)
      BY FS_Singleton DEF SetToSeq
    <3>4. \A f \in [1 .. 1 -> {e}] : f = <<e>>
      <4>1. \A j \in 1 .. 1 : j = 1
        OBVIOUS
      <4> QED
        BY <4>1
    <3>5. \E f \in [1 .. 1 -> {e}] : IsInjective(f)
      <4> DEFINE f == [j \in 1 .. 1 |-> e]
      <4>1. f \in [1 .. 1 -> {e}] /\ IsInjective(f)
        BY DEF IsInjective
      <4> QED
        BY <4>1
    <3>6. SetToSeq({e}) = <<e>>
      BY <3>3, <3>4, <3>5
    <3> QED
      BY <2>1, <3>1, <3>2, <3>6 DEF M, A, to
  <2> QED
    BY <2>3, <2>4, <2>5
<1> QED
  BY <1>1, <1>2

\* What mouse_irq_handler makes of a packet: first where it moved, if it did.
MoveEvents(dx, dy) == IF dx # 0 \/ dy # 0 THEN << <<"MOUSE_MOVE", dx, dy>> >> ELSE <<>>

Across(p) == p[2] - (IF Bit(p[1], 4) THEN 256 ELSE 0)

Down(p) == -(p[3] - (IF Bit(p[1], 5) THEN 256 ELSE 0))

LEMMA DecodePushes ==
  ASSUME NEW p, Decode(p)
  PROVE  \/ Pushing(<<>>) /\ UNCHANGED <<mouse_x, mouse_y, last_buttons>>
         \/ /\ mouse_x' = Clamp(mouse_x + Across(p), SCREEN_W)
            /\ mouse_y' = Clamp(mouse_y + Down(p), SCREEN_H)
            /\ last_buttons' = ButtonsOf(p[1])
            /\ Pushing(MoveEvents(Across(p), Down(p)) \o ButtonEvents(ButtonsOf(p[1])))
BY Zenon DEF Decode, MoveEvents, Across, Down

\* Whatever interrupt it is, it pushes a sequence of events.
LEMMA InterruptPushes ==
  ASSUME KeyboardIrq \/ MouseIrq \/ TimerIrq
  PROVE  \E E : \E es \in Seq(E) : Pushing(es)
<1>1. CASE KeyboardIrq
  <2>1. PICK es : /\ es = KeyboardByte(Head(kwire), mods, extended).push
                  /\ Pushing(es)
    BY <1>1 DEF KeyboardIrq
  <2>2. es = <<>> \/ \E e : es = <<e>>
    BY <2>1, KeyboardPushes
  <2>3. \E E : es \in Seq(E)
    <3>1. CASE es = <<>>
      BY <3>1
    <3>2. CASE \E e : es = <<e>>
      <4>1. PICK e : es = <<e>>
        BY <3>2
      <4>2. es \in Seq({e})
        BY <4>1
      <4> QED
        BY <4>2
    <3> QED
      BY <2>2, <3>1, <3>2
  <2> QED
    BY <2>1, <2>3
<1>2. CASE MouseIrq
  <2>1. \/ Pushing(<<>>)
        \/ \E dx, dy, bs : Pushing(MoveEvents(dx, dy) \o ButtonEvents(bs))
    BY <1>2, DecodePushes DEF MouseIrq
  <2>2. ASSUME NEW dx, NEW dy, NEW bs
        PROVE  \E E : MoveEvents(dx, dy) \o ButtonEvents(bs) \in Seq(E)
    <3> DEFINE p == <<"MOUSE_MOVE", dx, dy>>
               d == <<"MOUSE_DOWN", bs \ last_buttons>>
               u == <<"MOUSE_UP", last_buttons \ bs>>
               E == {p, d, u}
    <3>1. <<p>> \in Seq(E) /\ <<d>> \in Seq(E) /\ <<u>> \in Seq(E) /\ <<>> \in Seq(E)
      <4> HIDE DEF p, d, u
      <4> QED
        OBVIOUS
    <3> HIDE DEF E
    <3>2. \A s1, s2 \in Seq(E) : s1 \o s2 \in Seq(E)
      OBVIOUS
    <3>3. MoveEvents(dx, dy) \in Seq(E)
      BY <3>1 DEF MoveEvents
    <3>4. /\ (IF bs \ last_buttons # {} THEN <<d>> ELSE <<>>) \in Seq(E)
          /\ (IF last_buttons \ bs # {} THEN <<u>> ELSE <<>>) \in Seq(E)
      BY <3>1
    <3>5. ButtonEvents(bs) \in Seq(E)
      BY <3>2, <3>4 DEF ButtonEvents
    <3> QED
      BY <3>2, <3>3, <3>5
  <2>3. CASE Pushing(<<>>)
    <3>1. <<>> \in Seq({})
      OBVIOUS
    <3> QED
      BY <2>3, <3>1
  <2>4. CASE \E dx, dy, bs : Pushing(MoveEvents(dx, dy) \o ButtonEvents(bs))
    <3>1. PICK dx, dy, bs : Pushing(MoveEvents(dx, dy) \o ButtonEvents(bs))
      BY <2>4
    <3> DEFINE es == MoveEvents(dx, dy) \o ButtonEvents(bs)
    <3>2. \E E : es \in Seq(E)
      BY <2>2
    <3> HIDE DEF es
    <3>3. Pushing(es)
      BY <3>1 DEF es
    <3> QED
      BY <3>2, <3>3
  <2> QED
    BY <2>1, <2>3, <2>4
<1>3. CASE TimerIrq
  <2>1. Pushing(<< <<"TIMER_TICK">> >>)
    BY <1>3 DEF TimerIrq
  <2>2. << <<"TIMER_TICK">> >> \in Seq({<<"TIMER_TICK">>})
    OBVIOUS
  <2> QED
    BY <2>1, <2>2
<1> QED
  BY <1>1, <1>2, <1>3

\* The sum of a cell and two distances, once round the ring or twice.
LEMMA OnTwice ==
  ASSUME NEW t \in Cells, NEW j \in 0 .. EVENT_QUEUE_SIZE, NEW k \in 0 .. EVENT_QUEUE_SIZE
  PROVE  On(On(t, j), k) = (t + j + k) % EVENT_QUEUE_SIZE
<1> DEFINE n == EVENT_QUEUE_SIZE
           c == On(t, j)
<1>1. n \in Nat \ {0} /\ t \in 0 .. n - 1 /\ j \in 0 .. n /\ k \in 0 .. n
  BY EventQueueAssumption DEF Cells
<1>2. c \in 0 .. n - 1 /\ c = IF t + j < n THEN t + j ELSE t + j - n
  BY Wrap DEF Cells
<1>3. c \in Cells
  BY <1>2 DEF Cells
<1> HIDE DEF c
<1>4. On(c, k) = IF c + k < n THEN c + k ELSE c + k - n
  BY <1>3, Wrap
<1> HIDE DEF n
<1>5. \A x \in 0 .. n - 1 : x % n = x
  BY <1>1
<1>6. \A x \in n .. 2 * n - 1 : x % n = x - n
  BY <1>1
<1>7. \A x \in 2 * n .. 3 * n - 1 : x % n = x - 2 * n
  BY <1>1
<1>8. (t + j + k) % n = IF c + k < n THEN c + k ELSE c + k - n
  <2> DEFINE x == t + j + k
  <2>1. x \in 0 .. 3 * n - 1
    BY <1>1
  <2>2. CASE t + j < n
    <3>1. c + k = x /\ x \in 0 .. 2 * n - 1
      BY <1>1, <1>2, <2>2
    <3>2. x % n = IF x < n THEN x ELSE x - n
      <4> HIDE DEF x
      <4> QED
        BY <1>1, <1>5, <1>6, <3>1
    <3> QED
      BY <1>1, <1>2, <3>1, <3>2
  <2>3. CASE ~(t + j < n)
    <3>1. c + k = x - n /\ x \in n .. 3 * n - 1
      BY <1>1, <1>2, <2>3
    <3>2. x % n = IF x - n < n THEN x - n ELSE x - n - n
      <4> HIDE DEF x
      <4> QED
        BY <1>1, <1>6, <1>7, <3>1
    <3> QED
      BY <1>1, <1>2, <3>1, <3>2
  <2> QED
    BY <2>2, <2>3
<1> QED
  BY <1>4, <1>8 DEF c, n

LEMMA OnNothing == \A t \in Cells : On(t, 0) = t
<1> SUFFICES ASSUME NEW t \in Cells PROVE On(t, 0) = t
  OBVIOUS
<1>1. 0 \in 0 .. EVENT_QUEUE_SIZE /\ t + 0 = t /\ t < EVENT_QUEUE_SIZE
  BY EventQueueAssumption DEF Cells
<1> QED
  BY <1>1, Wrap

LEMMA SuccOfOn ==
  ASSUME NEW t \in Cells, NEW j \in 0 .. EVENT_QUEUE_SIZE
  PROVE  Succ(t) \in Cells /\ On(Succ(t), j) = Succ(On(t, j))
<1> DEFINE n == EVENT_QUEUE_SIZE
<1>1. n \in Nat \ {0} /\ 1 \in 0 .. n /\ n \in 0 .. n
  BY EventQueueAssumption
<1>2. Succ(t) = On(t, 1)
  BY DEF Succ, On
<1>3. Succ(t) \in Cells
  BY <1>1, <1>2, Wrap
<1>4. CASE j = n
  <2>1. \A c \in Cells : c + n - n = c /\ ~(c + n < n)
    BY <1>1 DEF Cells
  <2>2. On(t, n) = t /\ On(Succ(t), n) = Succ(t)
    BY <1>1, <1>3, <2>1, Wrap
  <2> QED
    BY <1>3, <1>4, <2>2
<1>5. CASE j # n
  <2>1. j \in 0 .. n - 1
    BY <1>1, <1>5
  <2> QED
    BY <1>3, <2>1, SuccIsOn
<1> QED
  BY <1>4, <1>5

\* A head that is s cells on from cell 0 is also c cells on from some cell.
Start0(c, s) == IF c = s THEN 0 ELSE EVENT_QUEUE_SIZE - (c - s)

LEMMA FromZero ==
  ASSUME NEW c \in 0 .. EVENT_QUEUE_SIZE, NEW s \in 0 .. c
  PROVE  Start0(c, s) \in Cells /\ On(Start0(c, s), c) = On(0, s)
<1> DEFINE n == EVENT_QUEUE_SIZE
           t == Start0(c, s)
<1>1. n \in Nat \ {0} /\ c \in 0 .. n /\ s \in 0 .. n /\ 0 \in Cells /\ c \in Nat /\ s \in Nat /\ s <= c
  BY EventQueueAssumption DEF Cells
<1>2. t \in Cells
  BY <1>1 DEF Cells, Start0
<1>3. CASE c = s
  BY <1>3, <1>2 DEF Start0
<1>4. CASE c # s
  <2>1. t = n - (c - s) /\ ~(t + c < n) /\ t + c - n = s /\ 0 + s < n /\ 0 + s = s
    BY <1>1, <1>4 DEF Start0
  <2> HIDE DEF t
  <2>2. On(t, c) = s /\ On(0, s) = s
    BY <1>1, <1>2, <2>1, Wrap
  <2> QED
    BY <1>2, <2>2 DEF t
<1> QED
  BY <1>3, <1>4

\* The ring without the event that event_wait has read and not yet counted,
\* and the cell its first event is in: the consumer's tail is skew short of it.
Rest == [queue |-> queue, head |-> head, count |-> IF pc = "count" THEN q_count - 1 ELSE q_count]

Foremost == On(tail, skew)

(* The inductive invariant: outside event_init the ring is in order from    *)
(* Foremost on; inside it head is as far from the first cell as events have   *)
(* come, all of which q_count still counts.                                *)
RInv ==
  /\ IInv
  /\ tail \in Cells /\ q_count \in 0 .. EVENT_QUEUE_SIZE /\ skew \in 0 .. EVENT_QUEUE_SIZE
  /\ ~InInit => RingOk(Rest, Foremost, 0)
  /\ pc \in {"copy", "advance", "count"} => q_count > 0
  /\ InInit => queue = [i \in Cells |-> queue[i]] /\ head = On(0, skew) /\ skew <= q_count
  /\ pc = "init_count" => tail = 0
  /\ pc = "boot" => skew = 0
  /\ pc = "boot" \/ InInit => out = {}

LEMMA RingInitial == Init => RInv
<1> SUFFICES ASSUME Init PROVE RInv
  OBVIOUS
<1>1. 0 \in Cells /\ 0 \in 0 .. EVENT_QUEUE_SIZE
  BY EventQueueAssumption DEF Cells
<1>2. On(0, 0) = 0
  BY <1>1, OnNothing
<1>3. RingOk(Rest, Foremost, 0)
  BY <1>1, <1>2 DEF Init, RingInit, Rest, RingOk, Foremost
<1> QED
  BY <1>1, <1>3, InitialState DEF Init, RingInit, RInv, InInit

\* What holds of the ring where an interrupt may strike.
LEMMA AtInterrupt ==
  ASSUME RInv, Interruptible
  PROVE  /\ pc \notin {"test", "sleep", "copy", "advance", "count", "sti", "shadow"}
         /\ Rest = ring
<1>1. pc \notin {"test", "sleep", "copy", "advance", "count", "sti", "shadow"}
  BY DEF RInv, IInv, Masked, Interruptible
<1>2. Rest = ring
  BY <1>1 DEF Rest, ring
<1> QED
  BY <1>1, <1>2

LEMMA HandlerRing ==
  ASSUME RInv, NEW E, NEW es \in Seq(E), Handler(es)
  PROVE  /\ RInv'
         /\ ~InInit => skew' = skew /\ Adds(ring, ring', Foremost, es, Len(es))
         /\ InInit => /\ skew' = skew + (q_count' - q_count) /\ q_count <= q_count'
                      /\ Len(es) = 0 => q_count' = q_count
<1> DEFINE N == EVENT_QUEUE_SIZE
           r == Pushed(ring, es)
<1>0. N \in Nat \ {0} /\ 0 \in Cells /\ N \in Nat /\ 0 \in Nat
  BY EventQueueAssumption DEF Cells
<1>1. /\ pc \notin {"test", "sleep", "copy", "advance", "count", "sti", "shadow"}
      /\ Rest = ring /\ tail \in Cells /\ q_count \in 0 .. N /\ skew \in 0 .. N
  BY AtInterrupt DEF Handler, RInv
<1>2. /\ queue' = r.queue /\ head' = r.head /\ q_count' = r.count
      /\ skew' = (IF InInit THEN skew + (r.count - q_count) ELSE skew)
      /\ pc' = (IF pc = "halted" THEN "cli" ELSE pc)
      /\ tail' = tail /\ out' = out
  BY DEF Handler
<1>3. IInv'
  BY HandlerKeeps DEF RInv
<1>4. CASE ~InInit
  <2>1. RingOk(ring, Foremost, 0) /\ Foremost \in Cells
    BY <1>1, <1>4, Wrap DEF RInv, Foremost
  <2>2. RingOk(r, Foremost, 0) /\ Adds(ring, r, Foremost, es, Len(es))
    BY <1>0, <2>1, PushedOk
  <2> HIDE DEF r
  <2>3. ring' = [queue |-> r.queue, head |-> r.head, count |-> r.count]
    BY <1>2 DEF ring
  <2>4. RingOk(ring', Foremost, 0) /\ Adds(ring, ring', Foremost, es, Len(es))
    BY <2>2, <2>3 DEF RingOk, Adds
  <2>5. ~InInit' /\ pc' \notin {"copy", "advance", "count", "init_count"} /\ skew' = skew
        /\ (pc' = "boot" => pc = "boot") /\ out' = out
    BY <1>1, <1>2, <1>4 DEF InInit
  <2>6. Rest' = ring' /\ Foremost' = Foremost
    BY <1>2, <2>5 DEF Rest, ring, Foremost
  <2>7. q_count' \in 0 .. N
    BY <1>2, <2>2 DEF RingOk
  <2>8. RInv'
    BY <1>1, <1>2, <1>3, <2>4, <2>5, <2>6, <2>7 DEF RInv
  <2> QED
    BY <1>4, <2>4, <2>5, <2>8
<1>5. CASE InInit
  <2> DEFINE t == Start0(q_count, skew)
  <2>1. /\ queue = [i \in Cells |-> queue[i]] /\ head = On(0, skew) /\ skew \in 0 .. q_count
        /\ out = {}
    BY <1>1, <1>5 DEF RInv
  <2>2. t \in Cells /\ On(t, q_count) = On(0, skew)
    BY <1>1, <2>1, FromZero
  <2>3. RingOk(ring, t, N)
    <3> HIDE DEF t
    <3>1. \A k \in N .. q_count - 1 : FALSE
      BY <1>0, <1>1
    <3> QED
      BY <1>1, <2>1, <2>2, <3>1 DEF RingOk, ring
  <2>4. RingOk(r, t, N) /\ Adds(ring, r, t, es, Len(es))
    BY <1>0, <2>2, <2>3, PushedOk
  <2> HIDE DEF r
  <2>5. /\ queue' = [i \in Cells |-> queue'[i]] /\ q_count' \in 0 .. N /\ head' = On(t, q_count')
    BY <1>2, <2>4 DEF RingOk
  <2>6. q_count <= q_count' /\ skew' = skew + (q_count' - q_count)
    BY <1>2, <1>5, <2>4 DEF Adds, ring
  <2>7. skew' \in 0 .. q_count' /\ skew' \in 0 .. N /\ t = Start0(q_count', skew')
    <3>1. skew' \in 0 .. q_count' /\ skew' \in 0 .. N /\ q_count' - skew' = q_count - skew
          /\ (q_count' = skew' <=> q_count = skew)
      BY <1>0, <1>1, <2>1, <2>5, <2>6
    <3> QED
      BY <3>1 DEF Start0
  <2> HIDE DEF t
  <2>8. head' = On(0, skew')
    BY <2>5, <2>7, FromZero
  <2>9. pc' = pc /\ InInit'
    BY <1>2, <1>5 DEF InInit
  <2>10. pc \notin {"boot", "copy", "advance", "count"} /\ skew' <= q_count'
    BY <1>5, <2>7 DEF InInit
  <2>11. RInv'
    BY <1>1, <1>2, <1>3, <2>1, <2>5, <2>7, <2>8, <2>9, <2>10 DEF RInv
  <2>12. ASSUME Len(es) = 0 PROVE q_count' = q_count
    <3>1. ring.count + 0 <= N /\ ring.count + 0 = q_count
      BY <1>0, <1>1 DEF ring
    <3>2. r.count = q_count
      BY <2>4, <2>12, <3>1 DEF Adds
    <3> QED
      BY <1>2, <3>2
  <2> QED
    BY <1>5, <2>6, <2>11, <2>12
<1> QED
  BY <1>4, <1>5

LEMMA RingUnchanged == RInv /\ UNCHANGED vars => RInv'
<1> SUFFICES ASSUME RInv, UNCHANGED vars PROVE RInv'
  OBVIOUS
<1>1. UNCHANGED <<queue, head, tail, q_count, pc, intr, skew, out>>
  BY DEF vars
<1>2. Rest' = Rest /\ Foremost' = Foremost /\ InInit' = InInit
  BY <1>1 DEF Rest, Foremost, InInit
<1> QED
  BY <1>1, <1>2 DEF RInv, IInv, Masked, FoundEmpty

\* A step of the consumer that leaves the ring alone.
LEMMA SameRing ==
  ASSUME RInv, IInv', UNCHANGED <<queue, head, tail, q_count, skew>>,
         pc \notin {"init_tail", "init_count", "count"},
         pc' \notin {"boot", "init_tail", "init_count", "count"},
         pc' \in {"copy", "advance"} => q_count > 0
  PROVE  RInv'
<1>1. Rest' = Rest /\ Foremost' = Foremost /\ ~InInit /\ ~InInit'
  BY DEF Rest, Foremost, InInit
<1> QED
  BY <1>1 DEF RInv

LEMMA ConsumerRing == RInv /\ Consumer => RInv'
<1> SUFFICES ASSUME RInv, Consumer PROVE RInv'
  OBVIOUS
<1> DEFINE n == EVENT_QUEUE_SIZE
<1>0. IInv'
  BY ConsumerKeeps DEF RInv
<1>z. n \in Nat \ {0} /\ 0 \in Cells /\ 0 \in 0 .. n
  BY EventQueueAssumption DEF Cells
<1>1. CASE Start
  <2>1. CASE InitHead
    <3>1. /\ pc = "boot" /\ pc' = "init_tail" /\ head' = 0
          /\ UNCHANGED <<queue, tail, q_count, skew, out>>
      BY <2>1 DEF InitHead
    <3>2. queue = [i \in Cells |-> queue[i]] /\ skew = 0
      BY <3>1 DEF RInv, RingOk, Rest, InInit
    <3>3. On(0, skew') = 0 /\ skew' <= q_count'
      BY <1>z, <3>1, <3>2, OnNothing DEF RInv
    <3> QED
      BY <1>0, <3>1, <3>2, <3>3 DEF RInv, InInit
  <2>2. CASE InitTail
    <3>1. /\ pc = "init_tail" /\ pc' = "init_count" /\ tail' = 0
          /\ UNCHANGED <<queue, head, q_count, skew, out>>
      BY <2>2 DEF InitTail
    <3> QED
      BY <1>0, <1>z, <3>1 DEF RInv, InInit
  <2>3. CASE InitCount
    <3>1. /\ pc = "init_count" /\ pc' = "call" /\ q_count' = 0
          /\ UNCHANGED <<queue, head, tail, skew>>
      BY <2>3 DEF InitCount
    <3>2. tail = 0 /\ head = On(0, skew) /\ queue = [i \in Cells |-> queue[i]] /\ skew \in 0 .. n
      BY <3>1 DEF RInv, InInit
    <3>3. On(On(0, skew), 0) = On(0, skew)
      BY <1>z, <3>2, Wrap, OnNothing
    <3>4. Rest' = [queue |-> queue, head |-> head, count |-> 0] /\ Foremost' = On(0, skew)
      BY <3>1, <3>2 DEF Rest, Foremost
    <3>5. RingOk(Rest', Foremost', 0)
      BY <1>z, <3>2, <3>3, <3>4 DEF RingOk
    <3> QED
      BY <1>0, <1>z, <3>1, <3>2, <3>5 DEF RInv, InInit
  <2> QED
    BY <1>1, <2>1, <2>2, <2>3 DEF Start, Initialise
<1>2. CASE ReadCursor
  BY <1>2, RingUnchanged DEF ReadCursor
<1>3. CASE Dispatch
  BY <1>0, <1>3, SameRing DEF Dispatch
<1>4. CASE Wait
  <2>1. CASE WaitCli \/ WaitTest \/ WaitSleep \/ WaitHlt
    <3>1. pc = "test" /\ q_count # 0 => q_count > 0
      BY <1>z DEF RInv
    <3> QED
      BY <1>0, <2>1, <3>1, SameRing DEF WaitCli, WaitTest, WaitSleep, WaitHlt
  <2>2. CASE PopCopy
    BY <1>0, <2>2, SameRing DEF PopCopy, RInv
  <2>3. CASE PopAdvance
    <3> DEFINE g == Foremost
    <3>1. /\ pc = "advance" /\ pc' = "count" /\ tail' = Succ(tail)
          /\ UNCHANGED <<queue, head, q_count, skew>>
          /\ q_count > 0 /\ q_count \in 0 .. n /\ tail \in Cells /\ skew \in 0 .. n
      BY <2>3 DEF PopAdvance, RInv
    <3>2. RingOk(ring, g, 0)
      <4>1. Rest = ring
        BY <3>1 DEF Rest, ring
      <4> QED
        BY <3>1, <4>1 DEF RInv, InInit
    <3>3. /\ queue = [i \in Cells |-> queue[i]]
          /\ head = On(g, q_count)
          /\ \A k \in 0 .. q_count - 1 : queue[On(g, k)] # {}
      BY <3>2 DEF RingOk, ring
    <3>4. q_count - 1 \in 0 .. n - 1 /\ q_count - 1 \in 0 .. n
      BY <1>z, <3>1
    <3>5. g \in Cells
      BY <3>1, Wrap DEF Foremost
    <3>6. Succ(tail) \in Cells /\ Foremost' = Succ(g)
      BY <3>1, SuccOfOn DEF Foremost
    <3> HIDE DEF g
    <3>7. \A k \in 0 .. q_count - 1 : On(Succ(g), k) = On(g, k + 1)
      BY <1>z, <3>1, <3>5, SuccIsOn
    <3>8. head = On(Succ(g), q_count - 1)
      <4>1. (q_count - 1) + 1 = q_count /\ q_count - 1 \in 0 .. q_count - 1
        BY <3>1
      <4> QED
        BY <3>3, <3>7, <4>1
    <3>9. \A k \in 0 .. q_count - 1 - 1 : queue[On(Succ(g), k)] # {}
      <4>1. \A k \in 0 .. q_count - 1 - 1 : k \in 0 .. q_count - 1 /\ k + 1 \in 0 .. q_count - 1
        BY <3>1
      <4> QED
        BY <3>3, <3>7, <4>1
    <3>10. RingOk(Rest', Foremost', 0)
      <4>1. Rest' = [queue |-> queue, head |-> head, count |-> q_count - 1]
        BY <3>1 DEF Rest
      <4>2. RingOk([queue |-> queue, head |-> head, count |-> q_count - 1], Succ(g), 0)
        BY <3>3, <3>4, <3>8, <3>9 DEF RingOk
      <4> QED
        BY <3>6, <4>1, <4>2
    <3> QED
      BY <1>0, <3>1, <3>6, <3>10 DEF RInv, InInit
  <2>4. CASE PopCount
    <3>1. /\ pc = "count" /\ pc' = "sti" /\ q_count' = q_count - 1
          /\ UNCHANGED <<queue, head, tail, skew>>
      BY <2>4 DEF PopCount
    <3>2. Rest' = Rest /\ Foremost' = Foremost
      BY <3>1 DEF Rest, Foremost
    <3>3. q_count' \in 0 .. n
      BY <1>z, <3>1 DEF RInv
    <3> QED
      BY <1>0, <3>1, <3>2, <3>3 DEF RInv, InInit
  <2>5. CASE WaitSti
    BY <1>0, <2>5, SameRing DEF WaitSti
  <2> QED
    BY <1>4, <2>1, <2>2, <2>3, <2>4, <2>5 DEF Wait
<1> QED
  BY <1>1, <1>2, <1>3, <1>4 DEF Consumer

LEMMA RingStep == RInv /\ [Next]_inputVars => RInv'
<1> SUFFICES ASSUME RInv, [Next]_inputVars PROVE RInv'
  OBVIOUS
<1>1. CASE KeyboardIrq \/ MouseIrq \/ TimerIrq
  <2>1. PICK E : \E es \in Seq(E) : Pushing(es)
    BY <1>1, InterruptPushes
  <2> QED
    BY <2>1, HandlerRing DEF Pushing
<1>2. CASE User \/ UNCHANGED inputVars
  <2>1. UNCHANGED vars
    BY <1>2 DEF User, PressKey, ReleaseKey, Report, LoseByte, inputVars
  <2> QED
    BY <2>1, RingUnchanged
<1> QED
  BY <1>1, <1>2, ConsumerRing DEF Next

\* The events that wait, from Foremost on.
LEMMA FirstWaiting ==
  RInv => /\ First \in Cells /\ Waiting \in 0 .. EVENT_QUEUE_SIZE
          /\ head = On(On(First, skew), Waiting)
          /\ skew = 0 => \A k \in 0 .. Waiting - 1 : queue[On(First, k)] # {}
<1> SUFFICES ASSUME RInv
             PROVE  /\ First \in Cells /\ Waiting \in 0 .. EVENT_QUEUE_SIZE
                    /\ head = On(On(First, skew), Waiting)
                    /\ skew = 0 => \A k \in 0 .. Waiting - 1 : queue[On(First, k)] # {}
  OBVIOUS
<1> DEFINE n == EVENT_QUEUE_SIZE
<1>0. /\ n \in Nat \ {0} /\ 0 \in Cells /\ 0 \in 0 .. n
      /\ tail \in Cells /\ q_count \in 0 .. n /\ skew \in 0 .. n
      /\ pc \in {"copy", "advance", "count"} => q_count > 0
  BY EventQueueAssumption DEF RInv, Cells
<1>1. CASE InInit
  <2>1. First = 0 /\ Waiting = 0 /\ head = On(0, skew) /\ On(0, skew) \in Cells
    BY <1>0, <1>1, Wrap DEF First, Waiting, RInv, InInit
  <2>2. \A k \in 0 .. Waiting - 1 : FALSE
    BY <2>1
  <2>3. On(On(First, skew), Waiting) = On(0, skew)
    BY <2>1, OnNothing
  <2>4. First \in Cells /\ Waiting \in 0 .. n
    BY <1>0, <2>1
  <2>5. head = On(On(First, skew), Waiting)
    BY <2>1, <2>3
  <2> QED
    BY <2>2, <2>4, <2>5, Zenon
<1>2. CASE ~InInit
  <2>1. /\ RingOk(Rest, Foremost, 0)
        /\ Rest.queue = queue /\ Rest.head = head
        /\ Rest.count = IF pc = "count" THEN q_count - 1 ELSE q_count
    BY <1>2 DEF RInv, Rest
  <2>2. PICK w \in 0 .. n : w = Rest.count
    BY <2>1 DEF RingOk
  <2>3. head = On(Foremost, w) /\ \A k \in 0 .. w - 1 : queue[On(Foremost, k)] # {}
    BY <2>1, <2>2 DEF RingOk
  <2>4. skew = 0 => Foremost = tail
    BY <1>0, OnNothing DEF Foremost
  <2>5. CASE pc = "advance"
    <3>1. First = Succ(tail) /\ Waiting = w - 1 /\ w > 0
      BY <1>0, <1>2, <2>1, <2>2, <2>5 DEF First, Waiting
    <3>2. First \in Cells /\ On(First, skew) = Succ(Foremost)
      BY <1>0, <3>1, SuccOfOn DEF Foremost
    <3>3. Foremost \in Cells
      BY <1>0, Wrap DEF Foremost
    <3>4. \A k \in 0 .. w - 1 : On(Succ(Foremost), k) = On(Foremost, k + 1)
      BY <1>0, <3>3, SuccIsOn
    <3>5. head = On(Succ(Foremost), w - 1)
      <4>1. (w - 1) + 1 = w /\ w - 1 \in 0 .. w - 1
        BY <3>1
      <4> QED
        BY <2>3, <3>4, <4>1
    <3>6. ASSUME skew = 0, NEW k \in 0 .. w - 1 - 1 PROVE queue[On(First, k)] # {}
      <4>1. k \in 0 .. w - 1 /\ k + 1 \in 0 .. w - 1
        BY <3>1
      <4>2. On(First, k) = On(Foremost, k + 1)
        BY <2>4, <3>1, <3>4, <3>6, <4>1
      <4> QED
        BY <2>3, <4>1, <4>2
    <3>7. w - 1 \in 0 .. n
      BY <1>0, <3>1
    <3> QED
      BY <3>1, <3>2, <3>5, <3>6, <3>7
  <2>6. CASE pc # "advance"
    <3>1. First = tail /\ Waiting = w
      BY <1>2, <2>1, <2>2, <2>6 DEF First, Waiting
    <3> QED
      BY <1>0, <2>3, <2>4, <3>1 DEF Foremost
  <2> QED
    BY <2>5, <2>6
<1> QED
  BY <1>1, <1>2

LEMMA RingInSync == RInv => InSync
<1> SUFFICES ASSUME RInv PROVE InSync
  OBVIOUS
<1> DEFINE n == EVENT_QUEUE_SIZE
<1>0. n \in Nat \ {0} /\ q_count \in 0 .. n /\ skew \in 0 .. n
  BY EventQueueAssumption DEF RInv
<1>1. PICK f \in Cells : f = First
  BY FirstWaiting
<1>2. PICK w \in 0 .. n : w = Waiting
  BY FirstWaiting
<1>3. f \in Int
  BY <1>0 DEF Cells
<1>4. head = (f + w + skew) % n
  <2>1. head = (f + skew + w) % n
    BY <1>0, <1>1, <1>2, FirstWaiting, OnTwice
  <2>2. f + skew + w = f + w + skew
    BY <1>0, <1>3
  <2> QED
    BY <2>1, <2>2
<1>5. ASSUME skew = 0, NEW k \in 1 .. w PROVE WaitingCells[k] # {}
  <2>1. k - 1 \in 0 .. w - 1 /\ f + (k - 1) = f + k - 1
    BY <1>0, <1>3
  <2>2. WaitingCells[k] = queue[On(f, k - 1)]
    BY <1>1, <1>2, <2>1 DEF WaitingCells, On
  <2> QED
    BY <1>1, <1>2, <1>5, <2>1, <2>2, FirstWaiting
<1> QED
  BY <1>0, <1>1, <1>2, <1>4, <1>5 DEF InSync

(* head, tail and q_count describe one queue of written cells (event.c      *)
(* lines 6-7), wherever an interrupt strikes, in event_init and event_wait, *)
(* and however many events it brings; but for the events that came inside  *)
(* event_init, by which head stays ahead.                                  *)
THEOREM RingStaysInSync == Spec => []InSync
<1>1. RInv /\ [Next]_inputVars => RInv'
  BY RingStep
<1> QED
  BY <1>1, RingInitial, RingInSync, PTL DEF Spec

-----------------------------------------------------------------------------
(* The ring implements the lossy queue.                                    *)

\* What n cells from cell f on hold.
Buf(q, f, n) == [k \in 1 .. n |-> q[On(f, k - 1)]]

\* Two such sequences of S are compared cell by cell.
LEMMA BufSeq ==
  ASSUME NEW q, NEW f, NEW n \in Nat
  PROVE  \A S : (\A k \in 1 .. n : q[On(f, k - 1)] \in S) =>
           /\ Buf(q, f, n) \in Seq(S) /\ Len(Buf(q, f, n)) = n
           /\ \A k \in 1 .. n : Buf(q, f, n)[k] = q[On(f, k - 1)]
<1> SUFFICES ASSUME NEW S, \A k \in 1 .. n : q[On(f, k - 1)] \in S
             PROVE  /\ Buf(q, f, n) \in Seq(S) /\ Len(Buf(q, f, n)) = n
                    /\ \A k \in 1 .. n : Buf(q, f, n)[k] = q[On(f, k - 1)]
  OBVIOUS
<1> QED
  BY DEF Buf

LEMMA PrefixByCells ==
  ASSUME NEW S, NEW s \in Seq(S), NEW t \in Seq(S), Len(s) <= Len(t),
         \A k \in 1 .. Len(s) : t[k] = s[k]
  PROVE  LQ!IsPrefix(s, t)
<1>0. PICK n \in Nat : n = Len(s)
  OBVIOUS
<1>1. \A i \in 1 .. n : s[i] \in S /\ t[i] \in S
  BY <1>0
<1> DEFINE a == SubSeq(s, 1, n)
           b == SubSeq(t, 1, n)
<1>2. /\ a \in Seq(S) /\ Len(a) = n /\ \A i \in 1 .. n : a[i] = s[i]
      /\ b \in Seq(S) /\ Len(b) = n /\ \A i \in 1 .. n : b[i] = t[i]
  <2>1. /\ a \in Seq(S) /\ Len(a) = (IF 1 <= n THEN n - 1 + 1 ELSE 0)
        /\ \A i \in 1 .. n - 1 + 1 : a[i] = s[1 + i - 1]
    BY <1>1, SubSeqProperties
  <2>2. /\ b \in Seq(S) /\ Len(b) = (IF 1 <= n THEN n - 1 + 1 ELSE 0)
        /\ \A i \in 1 .. n - 1 + 1 : b[i] = t[1 + i - 1]
    BY <1>1, SubSeqProperties
  <2> HIDE DEF a, b
  <2>3. n - 1 + 1 = n /\ (IF 1 <= n THEN n - 1 + 1 ELSE 0) = n /\ \A i \in 1 .. n : 1 + i - 1 = i
    OBVIOUS
  <2> QED
    BY <2>1, <2>2, <2>3
<1> HIDE DEF a, b
<1>3. a = b
  BY <1>0, <1>2, SeqEqual
<1> QED
  BY <1>0, <1>3 DEF LQ!IsPrefix, a, b

LEMMA WaitingIsBuf ==
  RInv => /\ First \in Cells /\ Waiting \in 0 .. EVENT_QUEUE_SIZE
          /\ WaitingCells = Buf(queue, First, Waiting)
<1> SUFFICES ASSUME RInv
             PROVE  /\ First \in Cells /\ Waiting \in 0 .. EVENT_QUEUE_SIZE
                    /\ WaitingCells = Buf(queue, First, Waiting)
  OBVIOUS
<1>1. First \in Cells /\ Waiting \in 0 .. EVENT_QUEUE_SIZE
  BY FirstWaiting
<1>2. \A k \in 1 .. Waiting : First + k - 1 = First + (k - 1)
  BY <1>1, EventQueueAssumption DEF Cells
<1>3. WaitingCells = Buf(queue, First, Waiting)
  BY <1>2 DEF WaitingCells, Buf, On
<1> QED
  BY <1>1, <1>3

\* Steps that leave the waiting events, and what was taken, alone.
LEMMA LossyStutters ==
  ASSUME WaitingCells' = WaitingCells, out' = out, skew' = skew,
         pc' = "boot" <=> pc = "boot", InInit' <=> InInit
  PROVE  UNCHANGED LQ!lossyVars
<1>1. Events' = Events /\ Taken' = Taken
  BY DEF Events, Taken
<1>2. Phase' = Phase
  BY DEF Phase
<1> QED
  BY <1>1, <1>2 DEF LQ!lossyVars

\* Of a queue that was torn nothing is promised.
LEMMA TornStutters ==
  ASSUME RInv, skew # 0, skew' # 0, pc' # "boot"
  PROVE  UNCHANGED LQ!lossyVars
<1>1. Events' = Events /\ Taken' = Taken
  BY DEF Events, Taken
<1>2. Phase' = Phase
  BY DEF Phase, RInv
<1> QED
  BY <1>1, <1>2 DEF LQ!lossyVars

LEMMA InitialisingEmpty == InInit => WaitingCells = <<>>
BY DEF WaitingCells, Waiting, InInit

\* A handler inside event_init: the first event tears the queue.
LEMMA HandlerTears ==
  ASSUME RInv, NEW E, NEW es \in Seq(E), Handler(es), InInit
  PROVE  [LQ!Next]_(LQ!lossyVars)
<1>1. /\ q_count \in Int /\ q_count' \in Int /\ skew \in Int /\ skew >= 0
      /\ skew' = skew + (q_count' - q_count) /\ q_count <= q_count'
  BY HandlerRing, EventQueueAssumption DEF RInv
<1>2. pc' = pc /\ out' = out /\ pc # "boot"
  BY DEF Handler, InInit
<1>3. InInit' = InInit /\ InInit'
  BY <1>2 DEF InInit
<1>4. WaitingCells = <<>> /\ WaitingCells' = <<>>
  <2>1. (InInit => WaitingCells = <<>>)'
    BY InitialisingEmpty, PTL
  <2> QED
    BY <1>3, <2>1, InitialisingEmpty
<1>5. CASE skew # 0
  <2>0. \A a, b, c \in Int : a >= 0 /\ a # 0 /\ b <= c => a + (c - b) # 0
    OBVIOUS
  <2>1. skew' # 0
    BY <1>1, <1>5, <2>0
  <2> QED
    BY <1>2, <1>5, <2>1, TornStutters
<1>6. CASE skew = 0 /\ skew' = 0
  BY <1>2, <1>3, <1>4, <1>6, LossyStutters
<1>7. CASE skew = 0 /\ skew' # 0
  <2>1. Phase = "resetting" /\ Phase' = "torn" /\ Events = <<>> /\ Events' = <<>>
    BY <1>2, <1>4, <1>7 DEF Phase, Events
  <2>2. Taken = {}
    <3>1. out = {}
      BY <1>7 DEF RInv
    <3> QED
      BY <3>1 DEF Taken
  <2>3. Taken' = {}
    BY <1>7 DEF Taken
  <2> QED
    BY <2>1, <2>2, <2>3 DEF LQ!Next, LQ!Tear
<1> QED
  BY <1>5, <1>6, <1>7

LEMMA HandlerAccepts ==
  ASSUME RInv, NEW E, NEW es \in Seq(E), Handler(es)
  PROVE  [LQ!Next]_(LQ!lossyVars)
<1> SUFFICES ASSUME ~InInit PROVE [LQ!Next]_(LQ!lossyVars)
  BY HandlerTears
<1> DEFINE n == q_count
           m == q_count'
           W == Buf(queue, tail, n)
           V == Buf(queue', tail, m)
<1>0. /\ pc \notin {"advance", "count", "shadow"} /\ ~InInit
      /\ pc' = (IF pc = "halted" THEN "cli" ELSE pc) /\ out' = out /\ tail' = tail /\ skew' = skew
  BY AtInterrupt DEF Handler
<1>1. /\ pc' \notin {"advance", "count"} /\ ~InInit' /\ (pc' = "boot") = (pc = "boot")
      /\ InInit' = InInit
  BY <1>0 DEF InInit
<1>t. CASE skew # 0
  <2>1. pc # "boot"
    BY <1>t DEF RInv
  <2> QED
    BY <1>0, <1>1, <1>t, <2>1, TornStutters
<1>s. CASE skew = 0
  <2>2. First = tail /\ First' = tail /\ Waiting = n /\ Waiting' = m
    BY <1>0, <1>1 DEF First, Waiting
  <2>3. WaitingCells = W /\ n \in 0 .. EVENT_QUEUE_SIZE
    BY <2>2, WaitingIsBuf
  <2>4. RInv' /\ Adds(ring, ring', tail, es, Len(es))
    <3>1. Foremost = tail
      BY <1>s, OnNothing DEF Foremost, RInv
    <3> QED
      BY <3>1, HandlerRing
  <2>5. WaitingCells' = V /\ m \in 0 .. EVENT_QUEUE_SIZE
    <3>1. (RInv => /\ First \in Cells /\ Waiting \in 0 .. EVENT_QUEUE_SIZE
                   /\ WaitingCells = Buf(queue, First, Waiting))'
      BY WaitingIsBuf, PTL
    <3> QED
      BY <2>2, <2>4, <3>1
  <2>6. n <= m /\ \A k \in 0 .. n - 1 : queue'[On(tail, k)] = queue[On(tail, k)]
    BY <2>4 DEF Adds, ring
  <2>7. n \in Nat /\ m \in Nat
    BY <2>3, <2>5, EventQueueAssumption
  <2>8. \A k \in 1 .. n : queue'[On(tail, k - 1)] = queue[On(tail, k - 1)]
    <3>1. \A k \in 1 .. n : k - 1 \in 0 .. n - 1
      BY <2>7
    <3> QED
      BY <2>6, <3>1
  <2> DEFINE S == {queue[On(tail, k - 1)] : k \in 1 .. n} \cup {queue'[On(tail, k - 1)] : k \in 1 .. m}
  <2>9. /\ W \in Seq(S) /\ Len(W) = n /\ \A k \in 1 .. n : W[k] = queue[On(tail, k - 1)]
        /\ V \in Seq(S) /\ Len(V) = m /\ \A k \in 1 .. m : V[k] = queue'[On(tail, k - 1)]
    <3>1. /\ \A k \in 1 .. n : queue[On(tail, k - 1)] \in S
          /\ \A k \in 1 .. m : queue'[On(tail, k - 1)] \in S
      OBVIOUS
    <3> HIDE DEF S
    <3>2. W \in Seq(S) /\ Len(W) = n /\ \A k \in 1 .. n : W[k] = queue[On(tail, k - 1)]
      BY <2>7, <3>1, BufSeq
    <3>3. V \in Seq(S) /\ Len(V) = m /\ \A k \in 1 .. m : V[k] = queue'[On(tail, k - 1)]
      BY <2>7, <3>1, BufSeq
    <3> HIDE DEF W, V
    <3> QED
      BY <3>2, <3>3
  <2> HIDE DEF W, V, S
  <2>10. \A k \in 1 .. n : V[k] = W[k]
    <3>1. \A k \in 1 .. n : k \in 1 .. m
      BY <2>6, <2>7
    <3> QED
      BY <2>8, <2>9, <3>1
  <2>11. CASE m = n
    <3>1. V = W
      BY <2>9, <2>10, <2>11, SeqEqual
    <3> QED
      BY <1>0, <1>1, <2>3, <2>5, <3>1, LossyStutters
  <2>12. CASE m # n
    <3>1. LQ!IsPrefix(W, V)
      BY <2>6, <2>7, <2>9, <2>10, PrefixByCells
    <3>2. Len(V) \in Len(W) + 1 .. EVENT_QUEUE_SIZE
      BY <2>5, <2>6, <2>7, <2>9, <2>12
    <3>3. Events = W /\ Events' = V
      BY <1>0, <1>s, <2>3, <2>5 DEF Events
    <3>4. Taken' = Taken
      BY <1>0 DEF Taken
    <3>5. Phase' = Phase /\ Phase \in {"fresh", "ready"}
      BY <1>0, <1>1, <1>s DEF Phase
    <3>6. Len(Events') \in Len(Events) + 1 .. EVENT_QUEUE_SIZE /\ LQ!IsPrefix(Events, Events')
      BY <3>1, <3>2, <3>3, Zenon
    <3> QED
      BY <3>4, <3>5, <3>6, Zenon DEF LQ!Next, LQ!Accept
  <2> QED
    BY <2>11, <2>12
<1> QED
  BY <1>t, <1>s

\* The event copied out is the first of those that waited.
LEMMA CopyTakes ==
  ASSUME RInv, PopCopy, skew = 0
  PROVE  LQ!Take
<1> DEFINE n == q_count
           f == Succ(tail)
           W == Buf(queue, tail, n)
           V == Buf(queue, f, n - 1)
           S == {queue[On(tail, k - 1)] : k \in 1 .. n}
<1>1. /\ pc = "copy" /\ pc' = "advance" /\ out' = queue[tail]
      /\ UNCHANGED <<queue, head, tail, q_count>>
      /\ n > 0 /\ n \in 0 .. EVENT_QUEUE_SIZE /\ n \in Nat /\ tail \in Cells
      /\ \A k \in 0 .. n - 1 : queue[On(tail, k)] # {}
  <2>1. Rest.count = n /\ Rest.queue = queue /\ tail \in Cells /\ n > 0 /\ RingOk(Rest, Foremost, 0)
    BY DEF PopCopy, Rest, RInv, InInit
  <2>2. Foremost = tail
    BY <2>1, OnNothing DEF Foremost
  <2> QED
    BY <2>1, <2>2, EventQueueAssumption DEF PopCopy, RingOk
<1>2. First = tail /\ Waiting = n /\ First' = f /\ Waiting' = n - 1
  BY <1>1 DEF First, Waiting, InInit
<1>3. WaitingCells = W
  BY <1>2, WaitingIsBuf
<1>4. WaitingCells' = V
  <2>1. /\ f + 0 = f
        /\ \A k \in 1 .. n - 1 : f + k - 1 = f + (k - 1)
    <3>1. f \in Int
      BY <1>1, EventQueueAssumption DEF Succ, Cells
    <3> HIDE DEF f
    <3> QED
      BY <1>1, <3>1
  <2> HIDE DEF f
  <2> QED
    BY <1>1, <1>2, <2>1 DEF WaitingCells, Buf, On
<1>5. \A k \in 1 .. n - 1 : queue[On(f, k - 1)] = queue[On(tail, k)]
  <2>1. \A k \in 1 .. n - 1 : k - 1 \in 0 .. EVENT_QUEUE_SIZE - 1 /\ (k - 1) + 1 = k
    BY <1>1, EventQueueAssumption
  <2> QED
    BY <1>1, <2>1, SuccIsOn
<1>6. /\ W \in Seq(S) /\ Len(W) = n /\ \A k \in 1 .. n : W[k] = queue[On(tail, k - 1)]
      /\ V \in Seq(S) /\ Len(V) = n - 1 /\ \A k \in 1 .. n - 1 : V[k] = queue[On(f, k - 1)]
  <2>1. \A k \in 1 .. n : queue[On(tail, k - 1)] \in S
    OBVIOUS
  <2>2. \A k \in 1 .. n - 1 : queue[On(f, k - 1)] \in S
    <3>1. \A k \in 1 .. n - 1 : k + 1 \in 1 .. n /\ (k + 1) - 1 = k
      BY <1>1
    <3> QED
      BY <1>5, <3>1
  <2> HIDE DEF S
  <2>3. n - 1 \in Nat
    BY <1>1
  <2> HIDE DEF f, n
  <2>4. W \in Seq(S) /\ Len(W) = n /\ \A k \in 1 .. n : W[k] = queue[On(tail, k - 1)]
    BY <1>1, <2>1, BufSeq
  <2>5. V \in Seq(S) /\ Len(V) = n - 1 /\ \A k \in 1 .. n - 1 : V[k] = queue[On(f, k - 1)]
    BY <2>2, <2>3, BufSeq
  <2> HIDE DEF W, V
  <2> QED
    BY <2>4, <2>5
<1>7. On(tail, 0) = tail
  BY <1>1, OnNothing
<1> HIDE DEF W, V, S, f
<1>8. W # <<>> /\ Head(W) = queue[tail]
  <2>1. W # <<>> /\ Head(W) = W[1] /\ 1 \in 1 .. n
    BY <1>1, <1>6
  <2> QED
    BY <1>6, <1>7, <2>1
<1>9. Tail(W) = V
  <2>1. /\ Tail(W) \in Seq(S) /\ Len(Tail(W)) = n - 1
        /\ \A k \in 1 .. Len(Tail(W)) : Tail(W)[k] = W[k + 1]
    BY <1>6, <1>8, HeadTailProperties
  <2> DEFINE T == Tail(W)
  <2>2. T \in Seq(S) /\ Len(T) = n - 1 /\ \A k \in 1 .. n - 1 : T[k] = W[k + 1]
    BY <2>1
  <2> HIDE DEF T
  <2>3. \A k \in 1 .. n - 1 : W[k + 1] = queue[On(tail, k)]
    <3>1. \A k \in 1 .. n - 1 : k + 1 \in 1 .. n /\ (k + 1) - 1 = k
      BY <1>1
    <3> QED
      BY <1>6, <3>1
  <2>4. \A k \in 1 .. n - 1 : T[k] = V[k]
    BY <1>5, <1>6, <2>2, <2>3
  <2>5. T = V
    BY <1>6, <2>2, <2>4, SeqEqual
  <2> QED
    BY <2>5 DEF T
<1>10. queue[tail] # {}
  <2>1. 0 \in 0 .. n - 1
    BY <1>1
  <2> QED
    BY <1>1, <1>7, <2>1
<1>11. skew' = 0 /\ Taken' = {Head(W)}
  BY <1>1, <1>8, <1>10 DEF PopCopy, Taken
<1>12. Phase = "ready" /\ Phase' = "ready"
  BY <1>1, <1>11 DEF Phase, InInit
<1>13. Events = W /\ Events' = V
  BY <1>3, <1>4, <1>11 DEF Events
<1> QED
  BY <1>8, <1>9, <1>11, <1>12, <1>13, Zenon DEF LQ!Take

LEMMA ConsumerRefines ==
  ASSUME RInv, Consumer
  PROVE  [LQ!Next]_(LQ!lossyVars)
<1>0. (InInit => WaitingCells = <<>>)'
  BY InitialisingEmpty, PTL
<1>1. CASE Start
  <2>0. out' = out /\ skew' = skew /\ out = {} /\ Taken = {} /\ Taken' = {}
    BY <1>1 DEF Start, Initialise, InitHead, InitTail, InitCount, RInv, InInit, Taken
  <2>1. CASE InitHead
    <3>1. pc = "boot" /\ pc' = "init_tail" /\ skew = 0
      BY <2>1 DEF InitHead, RInv
    <3>2. Phase = "fresh" /\ Phase' = "resetting" /\ Events' = <<>>
      BY <1>0, <2>0, <3>1 DEF Phase, Events, InInit
    <3> QED
      BY <2>0, <3>2, Zenon DEF LQ!Next, LQ!Reset
  <2>2. CASE InitTail
    <3>1. WaitingCells = <<>> /\ WaitingCells' = <<>> /\ InInit /\ InInit'
          /\ pc # "boot" /\ pc' # "boot"
      BY <1>0, <2>2, InitialisingEmpty DEF InitTail, InInit
    <3> QED
      BY <2>0, <3>1, LossyStutters
  <2>3. CASE InitCount
    <3>1. WaitingCells = <<>> /\ InInit /\ pc # "boot" /\ pc' = "call" /\ ~InInit' /\ q_count' = 0
      BY <2>3, InitialisingEmpty DEF InitCount, InInit
    <3>2. Waiting' = 0
      BY <3>1 DEF Waiting
    <3>3. WaitingCells' = <<>>
      BY <3>2 DEF WaitingCells
    <3>4. CASE skew = 0
      <4>1. Phase = "resetting" /\ Phase' = "ready" /\ Events = <<>> /\ Events' = <<>>
        BY <2>0, <3>1, <3>3, <3>4 DEF Phase, Events
      <4> QED
        BY <2>0, <4>1, Zenon DEF LQ!Next, LQ!Ready
    <3>5. CASE skew # 0
      BY <2>0, <3>1, <3>5, TornStutters
    <3> QED
      BY <3>4, <3>5
  <2> QED
    BY <1>1, <2>1, <2>2, <2>3 DEF Start, Initialise
<1>2. CASE PopCopy
  <2>1. CASE skew = 0
    BY <1>2, <2>1, CopyTakes DEF LQ!Next
  <2>2. CASE skew # 0
    <3>1. skew' # 0 /\ pc' # "boot"
      BY <1>2, <2>2 DEF PopCopy
    <3> QED
      BY <2>2, <3>1, TornStutters
  <2> QED
    BY <2>1, <2>2
<1>3. CASE ReadCursor
  <2>1. UNCHANGED <<queue, tail, q_count, out, pc, skew>>
    BY <1>3 DEF ReadCursor, vars
  <2>2. InInit' = InInit
    BY <2>1 DEF InInit
  <2>3. WaitingCells' = WaitingCells
    BY <2>1, <2>2 DEF WaitingCells, Waiting, First
  <2> QED
    BY <2>1, <2>2, <2>3, LossyStutters
<1>4. CASE Dispatch \/ WaitCli \/ WaitTest \/ WaitSleep \/ WaitHlt \/ WaitSti
  <2>1. /\ UNCHANGED <<queue, tail, q_count, out, skew>>
        /\ pc \notin {"boot", "init_tail", "init_count", "advance", "count"}
        /\ pc' \notin {"boot", "init_tail", "init_count", "advance", "count"}
    BY <1>4 DEF Dispatch, WaitCli, WaitTest, WaitSleep, WaitHlt, WaitSti
  <2>2. ~InInit /\ ~InInit'
    BY <2>1 DEF InInit
  <2>3. WaitingCells' = WaitingCells
    BY <2>1, <2>2 DEF WaitingCells, Waiting, First
  <2> QED
    BY <2>1, <2>2, <2>3, LossyStutters
<1>5. CASE PopAdvance
  <2>1. /\ UNCHANGED <<queue, q_count, out, skew>> /\ tail' = Succ(tail)
        /\ pc = "advance" /\ pc' = "count" /\ ~InInit /\ ~InInit'
    BY <1>5 DEF PopAdvance, InInit
  <2>2. First' = First /\ Waiting' = Waiting
    BY <2>1 DEF First, Waiting
  <2>3. WaitingCells' = WaitingCells
    BY <2>1, <2>2 DEF WaitingCells
  <2> QED
    BY <2>1, <2>3, LossyStutters
<1>6. CASE PopCount
  <2>1. /\ UNCHANGED <<queue, tail, out, skew>> /\ q_count' = q_count - 1
        /\ pc = "count" /\ pc' = "sti" /\ ~InInit /\ ~InInit'
    BY <1>6 DEF PopCount, InInit
  <2>2. First' = First /\ Waiting' = Waiting
    BY <2>1 DEF First, Waiting
  <2>3. WaitingCells' = WaitingCells
    BY <2>1, <2>2 DEF WaitingCells
  <2> QED
    BY <2>1, <2>3, LossyStutters
<1> QED
  BY <1>1, <1>2, <1>3, <1>4, <1>5, <1>6 DEF Consumer, Wait

LEMMA StepRefines ==
  RInv /\ [Next]_inputVars => [LQ!Next]_(LQ!lossyVars)
<1> SUFFICES ASSUME RInv, [Next]_inputVars
             PROVE  [LQ!Next]_(LQ!lossyVars)
  OBVIOUS
<1>1. CASE KeyboardIrq \/ MouseIrq \/ TimerIrq
  <2>1. PICK E : \E es \in Seq(E) : Pushing(es)
    BY <1>1, InterruptPushes
  <2> QED
    BY <2>1, HandlerAccepts DEF Pushing
<1>2. CASE User \/ UNCHANGED inputVars
  <2>1. UNCHANGED <<queue, tail, q_count, out, pc, skew>>
    BY <1>2 DEF User, PressKey, ReleaseKey, Report, LoseByte, inputVars, vars
  <2>2. InInit' = InInit
    BY <2>1 DEF InInit
  <2>3. WaitingCells' = WaitingCells
    BY <2>1, <2>2 DEF WaitingCells, Waiting, First
  <2> QED
    BY <2>1, <2>2, <2>3, LossyStutters
<1> QED
  BY <1>1, <1>2, ConsumerRefines DEF Next

(* The ring is a first in, first out queue: every step of event_init, of    *)
(* event_wait and of a handler's calls of event_push is a step of           *)
(* LossyQueue or none.  No event is lost once it is in, none is delivered   *)
(* twice, and none is made up, until an event comes inside event_init.     *)
THEOREM RingIsLossyQueue == Spec => LQ!Spec
<1>1. Init => LQ!Init
  <2> SUFFICES ASSUME Init PROVE LQ!Init
    OBVIOUS
  <2>1. out = {} /\ pc = "boot" /\ skew = 0 /\ Waiting = 0
    BY DEF Init, RingInit, Waiting, InInit
  <2>2. WaitingCells = <<>>
    BY <2>1 DEF WaitingCells
  <2>3. Events = <<>> /\ Taken = {} /\ Phase = "fresh"
    BY <2>1, <2>2 DEF Events, Taken, Phase
  <2> QED
    BY <2>3 DEF LQ!Init
<1>2. RInv /\ [Next]_inputVars => RInv'
  BY RingStep
<1>3. RInv /\ [Next]_inputVars => [LQ!Next]_(LQ!lossyVars)
  BY StepRefines
<1> QED
  BY <1>1, <1>2, <1>3, RingInitial, PTL DEF Spec, LQ!Spec

-----------------------------------------------------------------------------
(* The window manager catches up.  A run of events, and what it makes of    *)
(* the buttons and the modifiers.                                          *)

ButtonsAfter(bs, e) ==
  CASE e[1] = "MOUSE_DOWN" -> bs \cup e[2]
    [] e[1] = "MOUSE_UP"   -> bs \ e[2]
    [] OTHER -> bs

ModsAfter(ms, e) == IF e[1] \in {"KEY_DOWN", "KEY_UP"} THEN e[3] ELSE ms

\* A press is of buttons that are up, a release of buttons that are down.
Fits(bs, e) ==
  /\ e[1] = "MOUSE_DOWN" => e[2] \cap bs = {}
  /\ e[1] = "MOUSE_UP"   => e[2] \subseteq bs

\* B and M are the buttons and the modifiers after each of the n events p.
Replay(n, p, B, M) ==
  \A k \in 1 .. n : /\ B[k] = ButtonsAfter(B[k - 1], p[k])
                    /\ M[k] = ModsAfter(M[k - 1], p[k])
                    /\ Fits(B[k - 1], p[k])

\* The n events p lead from buttons bs and modifiers ms to bs1 and ms1.
Leads(bs, ms, n, p, bs1, ms1) ==
  \E B, M : Replay(n, p, B, M) /\ B[0] = bs /\ M[0] = ms /\ B[n] = bs1 /\ M[n] = ms1

LEMMA NoEvents == ASSUME NEW bs, NEW ms, NEW p PROVE Leads(bs, ms, 0, p, bs, ms)
<1>1. /\ Replay(0, p, [k \in {0} |-> bs], [k \in {0} |-> ms])
      /\ [k \in {0} |-> bs][0] = bs /\ [k \in {0} |-> ms][0] = ms
  BY DEF Replay
<1> QED
  BY <1>1 DEF Leads

LEMMA OneEvent ==
  ASSUME NEW bs, NEW ms, NEW e, Fits(bs, e)
  PROVE  Leads(bs, ms, 1, <<e>>, ButtonsAfter(bs, e), ModsAfter(ms, e))
<1> DEFINE B == [k \in {0, 1} |-> IF k = 0 THEN bs ELSE ButtonsAfter(bs, e)]
           M == [k \in {0, 1} |-> IF k = 0 THEN ms ELSE ModsAfter(ms, e)]
<1>1. B[0] = bs /\ M[0] = ms /\ B[1] = ButtonsAfter(bs, e) /\ M[1] = ModsAfter(ms, e)
  OBVIOUS
<1> HIDE DEF B, M
<1>2. <<e>>[1] = e /\ \A k \in 1 .. 1 : k = 1 /\ k - 1 = 0
  OBVIOUS
<1>3. Replay(1, <<e>>, B, M)
  BY <1>1, <1>2 DEF Replay
<1> QED
  BY <1>1, <1>3 DEF Leads

\* Events after events: q is p, then r.
LEMMA MoreEvents ==
  ASSUME NEW bs, NEW ms, NEW n \in Nat, NEW p, NEW bs1, NEW ms1, Leads(bs, ms, n, p, bs1, ms1),
         NEW m \in Nat, NEW r, NEW bs2, NEW ms2, Leads(bs1, ms1, m, r, bs2, ms2),
         NEW q, \A k \in 1 .. n : q[k] = p[k], \A k \in 1 .. m : q[n + k] = r[k]
  PROVE  Leads(bs, ms, n + m, q, bs2, ms2)
<1>1. PICK B, M : Replay(n, p, B, M) /\ B[0] = bs /\ M[0] = ms /\ B[n] = bs1 /\ M[n] = ms1
  BY DEF Leads
<1>2. PICK C, L : Replay(m, r, C, L) /\ C[0] = bs1 /\ L[0] = ms1 /\ C[m] = bs2 /\ L[m] = ms2
  BY DEF Leads
<1> DEFINE D == [k \in 0 .. n + m |-> IF k <= n THEN B[k] ELSE C[k - n]]
           N == [k \in 0 .. n + m |-> IF k <= n THEN M[k] ELSE L[k - n]]
<1>3. \A k \in 0 .. n : D[k] = B[k] /\ N[k] = M[k]
  <2>1. \A k \in 0 .. n : k \in 0 .. n + m /\ k <= n
    OBVIOUS
  <2> QED
    BY <2>1
<1>4. \A k \in 0 .. m : D[n + k] = C[k] /\ N[n + k] = L[k]
  <2> SUFFICES ASSUME NEW k \in 0 .. m PROVE D[n + k] = C[k] /\ N[n + k] = L[k]
    OBVIOUS
  <2>1. CASE k = 0
    <3>1. n + k = n /\ n \in 0 .. n
      BY <2>1
    <3> HIDE DEF D, N
    <3> QED
      BY <1>1, <1>2, <1>3, <2>1, <3>1
  <2>2. CASE k # 0
    <3>1. n + k \in 0 .. n + m /\ ~(n + k <= n) /\ (n + k) - n = k
      BY <2>2
    <3> QED
      BY <3>1
  <2> QED
    BY <2>1, <2>2
<1> HIDE DEF D, N
<1>5. ASSUME NEW k \in 1 .. n + m
      PROVE  /\ D[k] = ButtonsAfter(D[k - 1], q[k])
             /\ N[k] = ModsAfter(N[k - 1], q[k])
             /\ Fits(D[k - 1], q[k])
  <2>1. CASE k <= n
    <3>1. k \in 1 .. n /\ k \in 0 .. n /\ k - 1 \in 0 .. n
      BY <2>1
    <3>2. /\ B[k] = ButtonsAfter(B[k - 1], p[k])
          /\ M[k] = ModsAfter(M[k - 1], p[k])
          /\ Fits(B[k - 1], p[k])
      BY <1>1, <3>1 DEF Replay
    <3> QED
      BY <1>3, <3>1, <3>2
  <2>2. CASE ~(k <= n)
    <3>1. PICK j \in 1 .. m : k = n + j
      <4>1. k - n \in 1 .. m /\ k = n + (k - n)
        BY <2>2
      <4> QED
        BY <4>1
    <3>2. j \in 0 .. m /\ j - 1 \in 0 .. m /\ k - 1 = n + (j - 1)
      BY <3>1
    <3>3. /\ C[j] = ButtonsAfter(C[j - 1], r[j])
          /\ L[j] = ModsAfter(L[j - 1], r[j])
          /\ Fits(C[j - 1], r[j])
      BY <1>2 DEF Replay
    <3>4. D[k] = C[j] /\ N[k] = L[j] /\ D[k - 1] = C[j - 1] /\ N[k - 1] = L[j - 1] /\ q[k] = r[j]
      BY <1>4, <3>1, <3>2
    <3> QED
      BY <3>3, <3>4
  <2> QED
    BY <2>1, <2>2
<1>6. Replay(n + m, q, D, N)
  BY <1>5 DEF Replay
<1>7. D[0] = bs /\ N[0] = ms /\ D[n + m] = bs2 /\ N[n + m] = ms2
  BY <1>1, <1>2, <1>3, <1>4
<1> QED
  BY <1>6, <1>7 DEF Leads

\* The first event handled.
LEMMA OneLess ==
  ASSUME NEW bs, NEW ms, NEW n \in Nat, NEW p, NEW bs1, NEW ms1, Leads(bs, ms, n + 1, p, bs1, ms1),
         NEW q, \A k \in 1 .. n : q[k] = p[k + 1]
  PROVE  Leads(ButtonsAfter(bs, p[1]), ModsAfter(ms, p[1]), n, q, bs1, ms1)
<1>1. PICK B, M : Replay(n + 1, p, B, M) /\ B[0] = bs /\ M[0] = ms /\ B[n + 1] = bs1 /\ M[n + 1] = ms1
  BY DEF Leads
<1> DEFINE C == [k \in 0 .. n |-> B[k + 1]]
           L == [k \in 0 .. n |-> M[k + 1]]
<1>2. \A k \in 0 .. n : C[k] = B[k + 1] /\ L[k] = M[k + 1]
  OBVIOUS
<1> HIDE DEF C, L
<1>3. ASSUME NEW k \in 1 .. n
      PROVE  /\ C[k] = ButtonsAfter(C[k - 1], q[k])
             /\ L[k] = ModsAfter(L[k - 1], q[k])
             /\ Fits(C[k - 1], q[k])
  <2>1. k \in 0 .. n /\ k - 1 \in 0 .. n /\ (k - 1) + 1 = k /\ k + 1 \in 1 .. n + 1 /\ (k + 1) - 1 = k
    OBVIOUS
  <2>2. /\ B[k + 1] = ButtonsAfter(B[k], p[k + 1])
        /\ M[k + 1] = ModsAfter(M[k], p[k + 1])
        /\ Fits(B[k], p[k + 1])
    BY <1>1, <2>1 DEF Replay
  <2> QED
    BY <1>2, <2>1, <2>2
<1>4. Replay(n, q, C, L)
  BY <1>3 DEF Replay
<1>5. C[0] = ButtonsAfter(bs, p[1]) /\ L[0] = ModsAfter(ms, p[1])
  <2>1. 1 \in 1 .. n + 1 /\ 1 - 1 = 0 /\ 0 \in 0 .. n /\ 0 + 1 = 1
    OBVIOUS
  <2>2. B[1] = ButtonsAfter(B[1 - 1], p[1]) /\ M[1] = ModsAfter(M[1 - 1], p[1])
    BY <1>1, <2>1 DEF Replay
  <2> QED
    BY <1>1, <1>2, <2>1, <2>2
<1>6. C[n] = bs1 /\ L[n] = ms1
  BY <1>1, <1>2
<1> QED
  BY <1>4, <1>5, <1>6 DEF Leads

\* The same events under another name.
LEMMA SameEvents ==
  ASSUME NEW bs, NEW ms, NEW n, NEW p, NEW bs1, NEW ms1, Leads(bs, ms, n, p, bs1, ms1),
         NEW q, \A k \in 1 .. n : q[k] = p[k]
  PROVE  Leads(bs, ms, n, q, bs1, ms1)
BY DEF Leads, Replay

-----------------------------------------------------------------------------
(* The events between the drivers and the window manager: the one that     *)
(* event_wait has copied out, and those in the ring.                       *)

Busy == pc \in {"advance", "count", "sti", "handle"}

Total == Waiting + IF Busy THEN 1 ELSE 0

Pend == [k \in 1 .. Total |->
           IF Busy THEN IF k = 1 THEN Event ELSE EventIn(WaitingCells[k - 1])
                   ELSE EventIn(WaitingCells[k])]

LEMMA TotalIsNat == RInv => Total \in Nat /\ Waiting \in Nat
BY WaitingIsBuf, EventQueueAssumption DEF Total

LEMMA CellContents ==
  RInv => \A k \in 1 .. Waiting : WaitingCells[k] = queue[On(First, k - 1)]
<1> SUFFICES ASSUME RInv, NEW k \in 1 .. Waiting
             PROVE  WaitingCells[k] = queue[On(First, k - 1)]
  OBVIOUS
<1> QED
  BY WaitingIsBuf DEF Buf

LEMMA PendingIsPend ==
  RInv => Len(Pending) = Total /\ \A k \in 1 .. Total : Pending[k] = Pend[k]
<1> SUFFICES ASSUME RInv PROVE Len(Pending) = Total /\ \A k \in 1 .. Total : Pending[k] = Pend[k]
  OBVIOUS
<1> DEFINE a == IF pc \in {"advance", "count", "sti", "handle"} THEN <<Event>> ELSE <<>>
           b == [k \in 1 .. Waiting |-> EventIn(WaitingCells[k])]
           S == {Event} \cup {b[k] : k \in 1 .. Waiting}
<1>0. Waiting \in Nat
  BY TotalIsNat
<1>1. b \in Seq(S) /\ Len(b) = Waiting /\ \A k \in 1 .. Waiting : b[k] = EventIn(WaitingCells[k])
  <2>1. b = [k \in 1 .. Waiting |-> b[k]] /\ \A k \in 1 .. Waiting : b[k] = EventIn(WaitingCells[k])
    OBVIOUS
  <2>2. \A k \in 1 .. Waiting : b[k] \in S
    OBVIOUS
  <2> HIDE DEF b, S
  <2>3. b \in [1 .. Waiting -> S]
    BY <2>1, <2>2
  <2> QED
    BY <1>0, <2>1, <2>3
<1>2. a \in Seq(S) /\ Len(a) = (IF Busy THEN 1 ELSE 0) /\ (Busy => a[1] = Event)
  <2>1. Event \in S
    OBVIOUS
  <2> HIDE DEF S
  <2>2. CASE Busy
    <3>1. a = <<Event>>
      BY <2>2 DEF Busy
    <3> HIDE DEF a
    <3>2. PICK ev : ev = Event
      OBVIOUS
    <3>3. <<ev>> \in Seq(S) /\ Len(<<ev>>) = 1 /\ <<ev>>[1] = ev
      BY <2>1, <3>2
    <3> QED
      BY <2>2, <3>1, <3>2, <3>3
  <2>3. CASE ~Busy
    <3>1. a = <<>>
      BY <2>3 DEF Busy
    <3> HIDE DEF a
    <3> QED
      BY <2>3, <3>1
  <2> QED
    BY <2>2, <2>3
<1> HIDE DEF a, b, S
<1>3. /\ Len(a \o b) = Len(a) + Len(b)
      /\ \A k \in 1 .. Len(a) + Len(b) : (a \o b)[k] = IF k <= Len(a) THEN a[k] ELSE b[k - Len(a)]
  BY <1>1, <1>2, ConcatProperties
<1>4. Pending = a \o b
  BY DEF Pending, a, b
<1>5. CASE Busy
  <2>1. Total = 1 + Waiting /\ Total \in Nat
    BY <1>0, <1>5 DEF Total
  <2>2. Len(Pending) = Total
    BY <1>0, <1>1, <1>2, <1>3, <1>4, <1>5, <2>1
  <2>3. ASSUME NEW k \in 1 .. Total PROVE Pending[k] = Pend[k]
    <3>1. Pending[k] = IF k <= 1 THEN a[k] ELSE b[k - 1]
      BY <1>0, <1>1, <1>2, <1>3, <1>4, <1>5, <2>1
    <3>2. Pend[k] = IF k = 1 THEN Event ELSE EventIn(WaitingCells[k - 1])
      BY <1>5 DEF Pend
    <3>3. k # 1 => k - 1 \in 1 .. Waiting
      BY <1>0, <2>1
    <3> QED
      BY <1>1, <1>2, <1>5, <2>1, <3>1, <3>2, <3>3
  <2> QED
    BY <2>2, <2>3
<1>6. CASE ~Busy
  <2>1. Total = Waiting
    BY <1>0, <1>6 DEF Total
  <2>2. Len(Pending) = Total
    BY <1>0, <1>1, <1>2, <1>3, <1>4, <1>6, <2>1
  <2>3. ASSUME NEW k \in 1 .. Total PROVE Pending[k] = Pend[k]
    <3>1. Pending[k] = b[k]
      <4>1. Pending[k] = IF k <= 0 THEN a[k] ELSE b[k - 0]
        BY <1>0, <1>1, <1>2, <1>3, <1>4, <1>6, <2>1
      <4> QED
        BY <1>0, <2>1, <4>1
    <3>2. Pend[k] = EventIn(WaitingCells[k])
      BY <1>6 DEF Pend
    <3> QED
      BY <1>1, <2>1, <3>1, <3>2
  <2> QED
    BY <2>2, <2>3
<1> QED
  BY <1>5, <1>6

\* A handler whose events all fit puts them behind the rest.
LEMMA HandlerPends ==
  ASSUME RInv, skew = 0, NEW E, NEW es \in Seq(E), Handler(es), Len(es) <= Room
  PROVE  /\ Total' = Total + Len(es) /\ skew' = 0
         /\ \A k \in 1 .. Total : Pend'[k] = Pend[k]
         /\ \A k \in 1 .. Len(es) : Pend'[Total + k] = es[k]
<1> DEFINE n == q_count
<1>0. PICK m \in Nat : m = Len(es)
  OBVIOUS
<1>i. CASE InInit
  <2>1. m = 0 /\ skew' = 0
    <3>1. m = 0
      BY <1>0, <1>i DEF Room
    <3>2. q_count' = q_count /\ skew' = 0 + (q_count - q_count)
      BY <1>0, <1>i, <3>1, HandlerRing
    <3>3. q_count \in Int
      BY EventQueueAssumption DEF RInv
    <3> QED
      BY <3>1, <3>2, <3>3
  <2>2. InInit' /\ ~Busy /\ ~Busy'
    BY <1>i DEF Handler, InInit, Busy
  <2>3. Waiting = 0 /\ Waiting' = 0
    BY <1>i, <2>2 DEF Waiting, InInit
  <2>4. Total = 0 /\ Total' = 0
    BY <2>2, <2>3 DEF Total
  <2> QED
    BY <1>0, <2>1, <2>4
<1> SUFFICES ASSUME ~InInit
             PROVE  /\ Total' = Total + Len(es) /\ skew' = 0
                    /\ \A k \in 1 .. Total : Pend'[k] = Pend[k]
                    /\ \A k \in 1 .. Len(es) : Pend'[Total + k] = es[k]
  BY <1>i
<1>1. /\ pc \notin {"advance", "count", "sti", "shadow"} /\ ~InInit
      /\ pc' = (IF pc = "halted" THEN "cli" ELSE pc) /\ out' = out /\ tail' = tail
      /\ tail \in Cells /\ skew' = 0
  BY AtInterrupt DEF Handler, RInv
<1>2. First = tail /\ First' = tail /\ Waiting = n /\ Waiting' = q_count'
  BY <1>1 DEF First, Waiting, InInit
<1>3. Busy' = Busy /\ Event' = Event
  BY <1>1 DEF Busy, Event
<1>4. n \in Nat /\ n + m <= EVENT_QUEUE_SIZE
  BY <1>0, <1>1, <1>2, TotalIsNat, EventQueueAssumption DEF Room
<1>5. RInv' /\ Adds(ring, ring', tail, es, m)
  <2>1. Foremost = tail
    BY <1>1, OnNothing DEF Foremost
  <2> QED
    BY <1>0, <1>1, <2>1, HandlerRing
<1>6. /\ q_count' = n + m
      /\ \A k \in 0 .. n - 1 : queue'[On(tail, k)] = queue[On(tail, k)]
      /\ \A k \in 0 .. m - 1 : queue'[On(tail, n + k)] = {es[k + 1]}
  BY <1>4, <1>5 DEF Adds, ring
<1>7. /\ \A k \in 1 .. n : WaitingCells[k] = queue[On(tail, k - 1)]
      /\ \A k \in 1 .. n + m : WaitingCells'[k] = queue'[On(tail, k - 1)]
  <2>1. (RInv => \A k \in 1 .. Waiting : WaitingCells[k] = queue[On(First, k - 1)])'
    BY CellContents, PTL
  <2> QED
    BY <1>2, <1>5, <1>6, <2>1, CellContents
<1>8. \A k \in 1 .. n : WaitingCells'[k] = WaitingCells[k]
  <2>1. \A k \in 1 .. n : k \in 1 .. n + m /\ k - 1 \in 0 .. n - 1
    BY <1>4
  <2> QED
    BY <1>6, <1>7, <2>1
<1>9. \A k \in 1 .. m : EventIn(WaitingCells'[n + k]) = es[k]
  <2> SUFFICES ASSUME NEW k \in 1 .. m PROVE EventIn(WaitingCells'[n + k]) = es[k]
    OBVIOUS
  <2>1. n + k \in 1 .. n + m /\ (n + k) - 1 = n + (k - 1) /\ k - 1 \in 0 .. m - 1 /\ (k - 1) + 1 = k
    BY <1>4
  <2>2. WaitingCells'[n + k] = {es[k]}
    BY <1>6, <1>7, <2>1
  <2> QED
    BY <2>2 DEF EventIn
<1>10. CASE Busy
  <2>1. Total = n + 1 /\ Total' = n + m + 1
    BY <1>2, <1>3, <1>6, <1>10 DEF Total
  <2>2. /\ \A k \in 1 .. n + 1 : Pend[k] = IF k = 1 THEN Event ELSE EventIn(WaitingCells[k - 1])
        /\ \A k \in 1 .. n + m + 1 : Pend'[k] = IF k = 1 THEN Event ELSE EventIn(WaitingCells'[k - 1])
    BY <1>3, <1>10, <2>1 DEF Pend
  <2>3. \A k \in 1 .. n + 1 : k \in 1 .. n + m + 1 /\ (k # 1 => k - 1 \in 1 .. n)
    BY <1>4
  <2>4. \A k \in 1 .. n + 1 : Pend'[k] = Pend[k]
    BY <1>8, <2>2, <2>3
  <2>5. \A k \in 1 .. m : /\ n + 1 + k \in 1 .. n + m + 1 /\ n + 1 + k # 1
                          /\ (n + 1 + k) - 1 = n + k
    BY <1>4
  <2>6. \A k \in 1 .. m : Pend'[n + 1 + k] = es[k]
    BY <1>9, <2>2, <2>5
  <2>7. Total' = Total + m
    BY <1>4, <2>1
  <2> QED
    BY <1>0, <1>1, <2>1, <2>4, <2>6, <2>7
<1>11. CASE ~Busy
  <2>1. Total = n /\ Total' = n + m
    BY <1>2, <1>3, <1>4, <1>6, <1>11 DEF Total
  <2>2. /\ \A k \in 1 .. n : Pend[k] = EventIn(WaitingCells[k])
        /\ \A k \in 1 .. n + m : Pend'[k] = EventIn(WaitingCells'[k])
    BY <1>3, <1>11, <2>1 DEF Pend
  <2>3. \A k \in 1 .. n : k \in 1 .. n + m
    BY <1>4
  <2>4. \A k \in 1 .. n : Pend'[k] = Pend[k]
    BY <1>8, <2>2, <2>3
  <2>5. \A k \in 1 .. m : n + k \in 1 .. n + m
    BY <1>4
  <2>6. \A k \in 1 .. m : Pend'[n + k] = es[k]
    BY <1>9, <2>2, <2>5
  <2> QED
    BY <1>0, <1>1, <2>1, <2>4, <2>6
<1> QED
  BY <1>10, <1>11

\* event_wait's copy changes where the first event is, not what is pending.
LEMMA PopPends == ASSUME RInv, Consumer, PopCopy PROVE Total' = Total /\ Pend' = Pend
<1> DEFINE n == q_count
<1>1. /\ pc = "copy" /\ pc' = "advance" /\ out' = queue[tail] /\ n > 0
      /\ UNCHANGED <<queue, tail, q_count>>
      /\ tail \in Cells
  BY DEF PopCopy, RInv
<1>2. First = tail /\ Waiting = n /\ First' = Succ(tail) /\ Waiting' = n - 1
  BY <1>1 DEF First, Waiting, InInit
<1>3. Busy' /\ ~Busy
  BY <1>1 DEF Busy
<1>4. n \in Nat /\ n <= EVENT_QUEUE_SIZE /\ EVENT_QUEUE_SIZE \in Nat
  BY <1>2, WaitingIsBuf, EventQueueAssumption
<1>5. Total = n /\ Total' = n
  BY <1>2, <1>3, <1>4 DEF Total
<1>6. RInv'
  BY ConsumerRing
<1>7. /\ \A k \in 1 .. n : WaitingCells[k] = queue[On(tail, k - 1)]
      /\ \A k \in 1 .. n - 1 : WaitingCells'[k] = queue[On(Succ(tail), k - 1)]
  <2>1. (RInv => \A k \in 1 .. Waiting : WaitingCells[k] = queue[On(First, k - 1)])'
    BY CellContents, PTL
  <2> QED
    BY <1>1, <1>2, <1>6, <2>1, CellContents
<1>8. \A k \in 2 .. n : WaitingCells'[k - 1] = WaitingCells[k]
  <2> SUFFICES ASSUME NEW k \in 2 .. n PROVE WaitingCells'[k - 1] = WaitingCells[k]
    OBVIOUS
  <2>1. /\ k - 1 \in 1 .. n - 1 /\ k \in 1 .. n
        /\ (k - 1) - 1 \in 0 .. EVENT_QUEUE_SIZE - 1 /\ ((k - 1) - 1) + 1 = k - 1
    BY <1>4
  <2>2. On(Succ(tail), (k - 1) - 1) = On(tail, k - 1)
    BY <1>1, <2>1, SuccIsOn
  <2> QED
    BY <1>7, <2>1, <2>2
<1>9. Event' = EventIn(WaitingCells[1])
  <2>1. 1 \in 1 .. n /\ 1 - 1 = 0
    BY <1>1, <1>4
  <2>2. On(tail, 0) = tail
    <3>1. 0 \in 0 .. EVENT_QUEUE_SIZE /\ tail + 0 < EVENT_QUEUE_SIZE /\ tail + 0 = tail
      BY <1>1, <1>4 DEF Cells
    <3> QED
      BY <1>1, <3>1, Wrap
  <2>3. WaitingCells[1] = queue[tail]
    BY <1>7, <2>1, <2>2
  <2> QED
    BY <1>1, <2>3 DEF Event
<1>10. /\ Pend = [k \in 1 .. n |-> EventIn(WaitingCells[k])]
       /\ Pend' = [k \in 1 .. n |-> IF k = 1 THEN Event' ELSE EventIn(WaitingCells'[k - 1])]
  BY <1>3, <1>5 DEF Pend
<1>11. ASSUME NEW k \in 1 .. n
       PROVE  EventIn(WaitingCells[k]) = IF k = 1 THEN Event' ELSE EventIn(WaitingCells'[k - 1])
  <2>1. k # 1 => k \in 2 .. n
    OBVIOUS
  <2> QED
    BY <1>8, <1>9, <2>1
<1> QED
  BY <1>5, <1>10, <1>11

\* Any other step of event_wait leaves the events where they are.
LEMMA SamePends ==
  ASSUME WaitingCells' = WaitingCells, Waiting' = Waiting, Busy' = Busy, out' = out
  PROVE  Total' = Total /\ Pend' = Pend
BY DEF Total, Pend, Event

\* The thread is done with the first event.
LEMMA DispatchPends ==
  ASSUME RInv, Dispatch
  PROVE  /\ Total = Total' + 1 /\ Total' \in Nat /\ Pend[1] = Event
         /\ \A k \in 1 .. Total' : Pend'[k] = Pend[k + 1]
<1>1. /\ pc = "handle" /\ pc' = "call" /\ UNCHANGED <<queue, head, tail, q_count, out>>
  BY DEF Dispatch
<1>2. First' = First /\ Waiting' = Waiting
  BY <1>1 DEF First, Waiting, InInit
<1>3. WaitingCells' = WaitingCells
  BY <1>1, <1>2 DEF WaitingCells
<1>4. Busy /\ ~Busy' /\ Waiting \in Nat
  BY <1>1, TotalIsNat DEF Busy
<1>5. Total = Waiting + 1 /\ Total' = Waiting
  BY <1>2, <1>4 DEF Total
<1>6. /\ \A k \in 1 .. Waiting + 1 : Pend[k] = IF k = 1 THEN Event ELSE EventIn(WaitingCells[k - 1])
      /\ \A k \in 1 .. Waiting : Pend'[k] = EventIn(WaitingCells[k])
  BY <1>3, <1>4, <1>5 DEF Pend
<1>7. ASSUME NEW k \in 1 .. Waiting PROVE Pend'[k] = Pend[k + 1]
  <2>1. k + 1 \in 1 .. Waiting + 1 /\ k + 1 # 1 /\ (k + 1) - 1 = k
    BY <1>4
  <2> QED
    BY <1>6, <2>1
<1>8. 1 \in 1 .. Waiting + 1
  BY <1>4
<1> QED
  BY <1>4, <1>5, <1>6, <1>7, <1>8

LEMMA JoinedEvents ==
  ASSUME NEW S, NEW a \in Seq(S), NEW b \in Seq(S),
         NEW bs, NEW ms, NEW bs1, NEW ms1, Leads(bs, ms, Len(a), a, bs1, ms1),
         NEW bs2, NEW ms2, Leads(bs1, ms1, Len(b), b, bs2, ms2)
  PROVE  Leads(bs, ms, Len(a \o b), a \o b, bs2, ms2)
<1>0. PICK n \in Nat, m \in Nat : n = Len(a) /\ m = Len(b)
  OBVIOUS
<1> DEFINE q == a \o b
<1>1. Len(q) = n + m /\ \A k \in 1 .. n + m : q[k] = IF k <= n THEN a[k] ELSE b[k - n]
  BY <1>0, ConcatProperties
<1> HIDE DEF q
<1>2. \A k \in 1 .. n : q[k] = a[k]
  <2>1. \A k \in 1 .. n : k \in 1 .. n + m /\ k <= n
    OBVIOUS
  <2> QED
    BY <1>1, <2>1
<1>3. \A k \in 1 .. m : q[n + k] = b[k]
  <2> SUFFICES ASSUME NEW k \in 1 .. m PROVE q[n + k] = b[k]
    OBVIOUS
  <2>1. n + k \in 1 .. n + m /\ ~(n + k <= n) /\ (n + k) - n = k
    OBVIOUS
  <2>2. q[n + k] = IF n + k <= n THEN a[n + k] ELSE b[(n + k) - n]
    BY <1>1, <2>1
  <2> QED
    BY <2>1, <2>2
<1>4. Leads(bs, ms, n + m, q, bs2, ms2)
  BY <1>0, <1>2, <1>3, MoreEvents
<1> QED
  BY <1>1, <1>4 DEF q

\* None of the events es is the mouse's.
Silent(es) == \A k \in 1 .. Len(es) : ~OfMouse(es[k])

\* A packet's events: the buttons that differ, each once.
LEMMA MouseLeads ==
  ASSUME NEW dx, NEW dy, NEW bs, NEW ms
  PROVE  LET es == MoveEvents(dx, dy) \o ButtonEvents(bs) IN
         /\ \E E : es \in Seq(E)
         /\ Leads(last_buttons, ms, Len(es), es, bs, ms)
         /\ Silent(es) => dx = 0 /\ dy = 0
<1> DEFINE p == <<"MOUSE_MOVE", dx, dy>>
           d == <<"MOUSE_DOWN", bs \ last_buttons>>
           u == <<"MOUSE_UP", last_buttons \ bs>>
           S == {p, d, u}
           a == MoveEvents(dx, dy)
           b == IF bs \ last_buttons # {} THEN <<d>> ELSE <<>>
           c == IF last_buttons \ bs # {} THEN <<u>> ELSE <<>>
           mid == last_buttons \cup bs
<1>1. ASSUME NEW e \in S PROVE <<e>> \in Seq(S) /\ Len(<<e>>) = 1
  <2> HIDE DEF S
  <2> QED
    OBVIOUS
<1>2. <<>> \in Seq(S) /\ Len(<<>>) = 0
  BY EmptySeq
<1>3. a \in Seq(S) /\ Leads(last_buttons, ms, Len(a), a, last_buttons, ms)
  <2>1. CASE dx # 0 \/ dy # 0
    <3>1. a = <<p>>
      BY <2>1 DEF MoveEvents
    <3>2. ButtonsAfter(last_buttons, p) = last_buttons /\ ModsAfter(ms, p) = ms /\ Fits(last_buttons, p)
      BY DEF ButtonsAfter, ModsAfter, Fits
    <3>3. Leads(last_buttons, ms, 1, <<p>>, last_buttons, ms)
      <4> HIDE DEF p
      <4> QED
        BY <3>2, OneEvent
    <3>4. p \in S
      OBVIOUS
    <3> HIDE DEF a, p, S
    <3> QED
      BY <1>1, <3>1, <3>3, <3>4
  <2>2. CASE ~(dx # 0 \/ dy # 0)
    <3>1. a = <<>>
      BY <2>2 DEF MoveEvents
    <3> HIDE DEF a, S
    <3> QED
      BY <1>2, <3>1, NoEvents
  <2> QED
    BY <2>1, <2>2
<1>4. b \in Seq(S) /\ Leads(last_buttons, ms, Len(b), b, mid, ms)
  <2>1. CASE bs \ last_buttons # {}
    <3>1. b = <<d>> /\ d \in S
      BY <2>1
    <3>2. ButtonsAfter(last_buttons, d) = mid /\ ModsAfter(ms, d) = ms /\ Fits(last_buttons, d)
      BY DEF ButtonsAfter, ModsAfter, Fits
    <3> HIDE DEF b, d, S, mid
    <3>3. Leads(last_buttons, ms, 1, <<d>>, mid, ms)
      BY <3>2, OneEvent
    <3> QED
      BY <1>1, <3>1, <3>3
  <2>2. CASE bs \ last_buttons = {}
    <3>1. b = <<>> /\ mid = last_buttons
      BY <2>2
    <3> HIDE DEF b, S, mid
    <3> QED
      BY <1>2, <3>1, NoEvents
  <2> QED
    BY <2>1, <2>2
<1>5. c \in Seq(S) /\ Leads(mid, ms, Len(c), c, bs, ms)
  <2>1. CASE last_buttons \ bs # {}
    <3>1. c = <<u>> /\ u \in S
      BY <2>1
    <3>2. ButtonsAfter(mid, u) = bs /\ ModsAfter(ms, u) = ms /\ Fits(mid, u)
      BY DEF ButtonsAfter, ModsAfter, Fits
    <3> HIDE DEF c, u, S, mid
    <3>3. Leads(mid, ms, 1, <<u>>, bs, ms)
      BY <3>2, OneEvent
    <3> QED
      BY <1>1, <3>1, <3>3
  <2>2. CASE last_buttons \ bs = {}
    <3>1. c = <<>> /\ mid = bs
      BY <2>2
    <3> HIDE DEF c, S, mid
    <3> QED
      BY <1>2, <3>1, NoEvents
  <2> QED
    BY <2>1, <2>2
<1>6. ButtonEvents(bs) = b \o c
  BY DEF ButtonEvents
<1> HIDE DEF b, c, mid
<1> DEFINE f == b \o c
           es == a \o f
<1>7. f \in Seq(S) /\ Leads(last_buttons, ms, Len(f), f, bs, ms)
  <2> HIDE DEF S
  <2> QED
    BY <1>4, <1>5, JoinedEvents, ConcatProperties
<1>8. ASSUME Silent(es) PROVE dx = 0 /\ dy = 0
  <2> SUFFICES ASSUME dx # 0 \/ dy # 0 PROVE FALSE
    OBVIOUS
  <2>1. a = <<p>>
    BY DEF MoveEvents
  <2> HIDE DEF f, S, a
  <2>2. PICK n \in Nat : n = Len(f)
    BY <1>7
  <2>3. Len(a) = 1 /\ a[1] = p /\ OfMouse(p)
    BY <2>1 DEF OfMouse
  <2>4. Len(es) = 1 + n /\ \A k \in 1 .. 1 + n : es[k] = IF k <= 1 THEN a[k] ELSE f[k - 1]
    <3>1. /\ Len(es) = Len(a) + Len(f)
          /\ \A k \in 1 .. Len(a) + Len(f) : es[k] = IF k <= Len(a) THEN a[k] ELSE f[k - Len(a)]
      BY <1>3, <1>7, ConcatProperties
    <3>2. Len(a) = 1 /\ Len(f) = n
      BY <2>2, <2>3
    <3> HIDE DEF es
    <3>3. Len(es) = 1 + n
      BY <3>1, <3>2
    <3>4. \A k \in 1 .. 1 + n : es[k] = IF k <= 1 THEN a[k] ELSE f[k - 1]
      BY <3>1, <3>2, Zenon
    <3> QED
      BY <3>3, <3>4
  <2>5. 1 \in 1 .. Len(es) /\ es[1] = p
    BY <2>3, <2>4
  <2> HIDE DEF es, p
  <2> QED
    BY <1>8, <2>3, <2>5 DEF Silent
<1> HIDE DEF f
<1>9. es \in Seq(S) /\ Leads(last_buttons, ms, Len(es), es, bs, ms)
  <2> HIDE DEF S, a
  <2> QED
    BY <1>3, <1>7, JoinedEvents, ConcatProperties
<1>10. MoveEvents(dx, dy) \o ButtonEvents(bs) = es
  BY <1>6 DEF f
<1> HIDE DEF es, S
<1> QED
  BY <1>8, <1>9, <1>10

CursorInRange == mouse_x \in 0 .. SCREEN_W - 1 /\ mouse_y \in 0 .. SCREEN_H - 1

LEMMA SingleKey ==
  ASSUME NEW e, e[1] \in {"KEY_DOWN", "KEY_UP", "TIMER_TICK"}, NEW bs, NEW ms
  PROVE  /\ <<e>> \in Seq({e}) /\ Len(<<e>>) = 1
         /\ Leads(bs, ms, Len(<<e>>), <<e>>, bs, ModsAfter(ms, e))
<1>1. <<e>> \in Seq({e}) /\ Len(<<e>>) = 1
  OBVIOUS
<1>2. ButtonsAfter(bs, e) = bs /\ Fits(bs, e)
  BY DEF ButtonsAfter, Fits
<1> QED
  BY <1>1, <1>2, OneEvent

(* Whatever interrupt it is, its events say what it did to the buttons and  *)
(* the modifiers, and that the cursor moved if it did.                      *)
LEMMA InterruptLeads ==
  ASSUME KeyboardIrq \/ MouseIrq \/ TimerIrq
  PROVE  \E E : \E es \in Seq(E) :
           /\ Pushing(es) /\ UNCHANGED wmVars
           /\ Leads(last_buttons, mods, Len(es), es, last_buttons', mods')
           /\ CursorInRange /\ Silent(es) => UNCHANGED <<mouse_x, mouse_y>>
<1>0. <<>> \in Seq({}) /\ Leads(last_buttons, mods, Len(<<>>), <<>>, last_buttons, mods)
  <2>1. <<>> \in Seq({}) /\ Len(<<>>) = 0
    BY EmptySeq
  <2> QED
    BY <2>1, NoEvents
<1>1. CASE KeyboardIrq
  <2> DEFINE b == Head(kwire)
             es == KeyboardByte(b, mods, extended).push
  <2>1. /\ Pushing(es) /\ mods' = KeyboardByte(b, mods, extended).mods
        /\ UNCHANGED <<wmVars, mouse_x, mouse_y, last_buttons>>
    BY <1>1 DEF KeyboardIrq, mouseVars
  <2>2. \/ es = <<>> /\ mods' = mods
        \/ \E x : es = <<KeyEvent(b, x, mods')>>
    BY <2>1, KeyboardPushes
  <2> HIDE DEF es
  <2>3. CASE es = <<>> /\ mods' = mods
    BY <1>0, <2>1, <2>3
  <2>4. CASE \E x : es = <<KeyEvent(b, x, mods')>>
    <3>1. PICK x : es = <<KeyEvent(b, x, mods')>>
      BY <2>4
    <3> DEFINE e == KeyEvent(b, x, mods')
    <3>2. e[1] \in {"KEY_DOWN", "KEY_UP"} /\ e[3] = mods'
      BY DEF KeyEvent
    <3>3. es = <<e>>
      BY <3>1
    <3> HIDE DEF e
    <3>4. ModsAfter(mods, e) = mods'
      BY <3>2 DEF ModsAfter
    <3>5. es \in Seq({e}) /\ Leads(last_buttons, mods, Len(es), es, last_buttons, mods')
      BY <3>2, <3>3, <3>4, SingleKey
    <3> QED
      BY <2>1, <3>5
  <2> QED
    BY <2>2, <2>3, <2>4
<1>2. CASE MouseIrq
  <2>1. UNCHANGED <<mods, wmVars>>
    BY <1>2 DEF MouseIrq, kbdVars
  <2>2. \/ Pushing(<<>>) /\ UNCHANGED <<mouse_x, mouse_y, last_buttons>>
        \/ \E p : /\ mouse_x' = Clamp(mouse_x + Across(p), SCREEN_W)
                  /\ mouse_y' = Clamp(mouse_y + Down(p), SCREEN_H)
                  /\ last_buttons' = ButtonsOf(p[1])
                  /\ Pushing(MoveEvents(Across(p), Down(p)) \o ButtonEvents(ButtonsOf(p[1])))
    BY <1>2, DecodePushes DEF MouseIrq
  <2>3. CASE Pushing(<<>>) /\ UNCHANGED <<mouse_x, mouse_y, last_buttons>>
    BY <1>0, <2>1, <2>3
  <2>4. CASE \E p : /\ mouse_x' = Clamp(mouse_x + Across(p), SCREEN_W)
                    /\ mouse_y' = Clamp(mouse_y + Down(p), SCREEN_H)
                    /\ last_buttons' = ButtonsOf(p[1])
                    /\ Pushing(MoveEvents(Across(p), Down(p)) \o ButtonEvents(ButtonsOf(p[1])))
    <3>1. PICK dx, dy, bs : /\ mouse_x' = Clamp(mouse_x + dx, SCREEN_W)
                            /\ mouse_y' = Clamp(mouse_y + dy, SCREEN_H)
                            /\ last_buttons' = bs
                            /\ Pushing(MoveEvents(dx, dy) \o ButtonEvents(bs))
      BY <2>4
    <3> DEFINE es == MoveEvents(dx, dy) \o ButtonEvents(bs)
    <3>2. /\ \E E : es \in Seq(E)
          /\ Leads(last_buttons, mods, Len(es), es, last_buttons', mods)
          /\ Silent(es) => dx = 0 /\ dy = 0
      BY <3>1, MouseLeads
    <3>3. Pushing(es)
      BY <3>1
    <3> HIDE DEF es
    <3>4. CursorInRange /\ Silent(es) => UNCHANGED <<mouse_x, mouse_y>>
      BY <3>1, <3>2, InputAssumption DEF CursorInRange, Clamp
    <3> QED
      BY <2>1, <3>2, <3>3, <3>4
  <2> QED
    BY <2>2, <2>3, <2>4
<1>3. CASE TimerIrq
  <2> DEFINE e == <<"TIMER_TICK">>
  <2>1. e[1] = "TIMER_TICK" /\ ModsAfter(mods, e) = mods
    BY DEF ModsAfter
  <2>2. Pushing(<<e>>) /\ UNCHANGED <<mods, wmVars, mouse_x, mouse_y, last_buttons>>
    BY <1>3 DEF TimerIrq, kbdVars, mouseVars
  <2> HIDE DEF e
  <2>3. <<e>> \in Seq({e}) /\ Leads(last_buttons, mods, Len(<<e>>), <<e>>, last_buttons, mods)
    BY <2>1, SingleKey
  <2> QED
    BY <2>2, <2>3
<1> QED
  BY <1>1, <1>2, <1>3

LEMMA SentIsInt == Sent \subseteq Int
<1> SUFFICES ASSUME NEW r \in Reports PROVE \A i \in 1 .. 3 : PacketOf(r)[i] \in Int
  BY DEF Sent
<1>1. r.move[1] \in Int /\ r.move[2] \in Int
  <2>1. r.move \in (-256 .. 255) \X (-256 .. 255)
    BY InputAssumption
  <2>2. -256 .. 255 \subseteq Int
    OBVIOUS
  <2> QED
    BY <2>1, <2>2
<1>2. r.move[1] % 256 \in Int /\ r.move[2] % 256 \in Int
  BY <1>1
<1>3. /\ PacketOf(r)[1] \in Int
      /\ PacketOf(r)[2] = r.move[1] % 256 /\ PacketOf(r)[3] = r.move[2] % 256
  BY DEF PacketOf
<1>4. \A i \in 1 .. 3 : i = 1 \/ i = 2 \/ i = 3
  OBVIOUS
<1> QED
  BY <1>2, <1>3, <1>4

\* mouse.c keeps the cursor on the screen.
LEMMA CursorStays == MInv /\ CursorInRange /\ [Next]_inputVars => CursorInRange'
<1> SUFFICES ASSUME MInv, CursorInRange, [Next]_inputVars PROVE CursorInRange'
  OBVIOUS
<1>1. CASE UNCHANGED <<mouse_x, mouse_y>>
  BY <1>1 DEF CursorInRange
<1>2. CASE MouseIrq
  <2> DEFINE data == Head(mwire)
             p == Append(packet, data)
  <2>1. \/ UNCHANGED <<mouse_x, mouse_y>>
        \/ ~(Len(packet) < 2) /\ Decode(p)
    BY <1>2 DEF MouseIrq
  <2>2. CASE ~(Len(packet) < 2) /\ Decode(p)
    <3>1. packet \in Seq(Sent) /\ mwire \in Seq(Sent) /\ mwire # <<>>
      BY <1>2 DEF MInv, MouseIrq
    <3>2. data \in Sent
      BY <3>1, HeadTailProperties
    <3>3. PICK n \in Nat : n = Len(packet)
      BY <3>1
    <3>4. n \in 0 .. 2
      BY <3>3 DEF MInv
    <3>5. n = 2
      BY <2>2, <3>3, <3>4
    <3> HIDE DEF data
    <3>6. p \in Seq(Sent) /\ Len(p) = 3
      <4>1. p \in Seq(Sent) /\ Len(p) = Len(packet) + 1
        BY <3>1, <3>2, AppendProperties
      <4> HIDE DEF p
      <4>2. Len(packet) = 2
        BY <3>3, <3>5
      <4> QED
        BY <4>1, <4>2
    <3> HIDE DEF p
    <3>7. p[1] \in Int /\ p[2] \in Int /\ p[3] \in Int
      <4>1. 1 \in 1 .. Len(p) /\ 2 \in 1 .. Len(p) /\ 3 \in 1 .. Len(p)
        BY <3>6
      <4> QED
        BY <3>6, <4>1, ElementOfSeq, SentIsInt
    <3>8. Across(p) \in Int /\ Down(p) \in Int
      BY <3>7 DEF Across, Down
    <3>9. \/ UNCHANGED <<mouse_x, mouse_y>>
          \/ /\ mouse_x' = Clamp(mouse_x + Across(p), SCREEN_W)
             /\ mouse_y' = Clamp(mouse_y + Down(p), SCREEN_H)
      BY <2>2, DecodePushes
    <3> QED
      BY <1>1, <3>8, <3>9, InputAssumption DEF CursorInRange, Clamp
  <2> QED
    BY <1>1, <2>1, <2>2
<1>3. CASE KeyboardIrq \/ TimerIrq \/ Consumer \/ User \/ UNCHANGED inputVars
  <2>1. UNCHANGED <<mouse_x, mouse_y>>
    BY <1>3 DEF KeyboardIrq, TimerIrq, Consumer, User, PressKey, ReleaseKey, Report, LoseByte,
                mouseVars, inputVars
  <2> QED
    BY <1>1, <2>1
<1> QED
  BY <1>2, <1>3 DEF Next

-----------------------------------------------------------------------------
(* The inductive invariant.                                                *)

\* From the k-th on, no pending event is the mouse's.
Quiet(k) == \A j \in k .. Total : ~OfMouse(Pend[j])

\* What the thread has been told, or will be by what is pending.
Told ==
  /\ Leads(view.buttons, view.mods, Total, Pend, last_buttons, mods)
  /\ Quiet(1) => view.x = mouse_x /\ view.y = mouse_y

\* The coordinate it has read is right unless another event will follow.
HalfRead ==
  half # {} =>
    /\ pc = "handle" /\ OfMouse(Event)
    /\ \E h : /\ half = {h}
              /\ Quiet(2) => h = <<"x", mouse_x>> \/ h = <<"y", mouse_y>>

ViewIsRecord == view = [x |-> view.x, y |-> view.y, buttons |-> view.buttons, mods |-> view.mods]

CInv == ViewIsRecord /\ lost \in BOOLEAN /\ (~lost => Told /\ HalfRead /\ skew = 0)

\* A step that leaves the pending events, the drivers and the view alone.
LEMMA ToldStays ==
  ASSUME CInv, UNCHANGED <<view, half, lost, last_buttons, mods, mouse_x, mouse_y, skew>>,
         Total' = Total, Pend' = Pend, pc = "handle" => pc' = "handle" /\ out' = out
  PROVE  CInv'
<1>1. Quiet(1)' = Quiet(1) /\ Quiet(2)' = Quiet(2)
  BY DEF Quiet, OfMouse
<1>2. Told => Told'
  BY <1>1 DEF Told, Leads, Replay
<1>3. HalfRead => HalfRead'
  BY <1>1 DEF HalfRead, OfMouse, Event
<1> QED
  BY <1>2, <1>3 DEF CInv, ViewIsRecord

LEMMA InterruptTold ==
  ASSUME RInv, CursorInRange, CInv, KeyboardIrq \/ MouseIrq \/ TimerIrq
  PROVE  CInv'
<1>1. PICK E : \E es \in Seq(E) :
           /\ Pushing(es) /\ UNCHANGED wmVars
           /\ Leads(last_buttons, mods, Len(es), es, last_buttons', mods')
           /\ CursorInRange /\ Silent(es) => UNCHANGED <<mouse_x, mouse_y>>
  BY InterruptLeads
<1>2. PICK es \in Seq(E) :
           /\ Pushing(es) /\ UNCHANGED <<view, half>>
           /\ Leads(last_buttons, mods, Len(es), es, last_buttons', mods')
           /\ Silent(es) => UNCHANGED <<mouse_x, mouse_y>>
  BY <1>1 DEF wmVars
<1>3. PICK m \in Nat : m = Len(es)
  OBVIOUS
<1>4. /\ Handler(es) /\ lost' = (lost \/ m > Room)
      /\ q_count \in Int /\ Room \in Int
  BY <1>2, <1>3, EventQueueAssumption DEF Pushing, RInv, Room
<1>5. lost' \in BOOLEAN /\ ViewIsRecord'
  BY <1>2, <1>4 DEF CInv, ViewIsRecord
<1>6. ASSUME ~lost' PROVE Told' /\ HalfRead' /\ skew' = 0
  <2>1. ~lost /\ m <= Room
    <3>1. ~lost /\ ~(m > Room)
      BY <1>4, <1>6, Zenon
    <3> QED
      BY <1>4, <3>1
  <2>2. Told /\ HalfRead /\ skew = 0
    BY <2>1 DEF CInv
  <2>3. /\ Total' = Total + m
        /\ \A k \in 1 .. Total : Pend'[k] = Pend[k]
        /\ \A k \in 1 .. m : Pend'[Total + k] = es[k]
        /\ skew' = 0
    BY <1>3, <1>4, <2>1, <2>2, HandlerPends
  <2>4. Total \in Nat
    BY TotalIsNat
  <2>5. Leads(view'.buttons, view'.mods, Total', Pend', last_buttons', mods')
    <3>1. Leads(view.buttons, view.mods, Total, Pend, last_buttons, mods)
      BY <2>2 DEF Told
    <3>2. Leads(view.buttons, view.mods, Total + m, Pend', last_buttons', mods')
      BY <1>2, <1>3, <2>3, <2>4, <3>1, MoreEvents
    <3> QED
      BY <1>2, <2>3, <3>2
  <2>6. ASSUME NEW i \in {1, 2}, i = 1 \/ Total # 0, Quiet(i)'
        PROVE  Quiet(i) /\ UNCHANGED <<mouse_x, mouse_y>>
    <3>1. \A j \in i .. Total + m : ~OfMouse(Pend'[j])
      BY <2>3, <2>6 DEF Quiet, OfMouse
    <3>2. \A j \in i .. Total : j \in i .. Total + m /\ j \in 1 .. Total
      BY <2>4
    <3>3. Quiet(i)
      BY <2>3, <3>1, <3>2 DEF Quiet, OfMouse
    <3>4. \A k \in 1 .. m : Total + k \in i .. Total + m
      BY <2>4, <2>6
    <3>5. Silent(es)
      BY <1>3, <2>3, <3>1, <3>4 DEF Silent, OfMouse
    <3> QED
      BY <1>2, <3>3, <3>5
  <2>7. Told'
    BY <1>2, <2>2, <2>5, <2>6 DEF Told
  <2>8. HalfRead'
    <3> SUFFICES ASSUME half # {} PROVE HalfRead'
      BY <1>2 DEF HalfRead
    <3>1. pc = "handle" /\ OfMouse(Event)
      BY <2>2 DEF HalfRead
    <3>2. PICK h : half = {h} /\ (Quiet(2) => h = <<"x", mouse_x>> \/ h = <<"y", mouse_y>>)
      BY <2>2 DEF HalfRead
    <3>3. pc' = "handle" /\ out' = out
      BY <1>4, <3>1 DEF Handler
    <3>4. Total # 0
      BY <3>1, TotalIsNat DEF Total, Busy
    <3>5. Quiet(2)' => Quiet(2) /\ UNCHANGED <<mouse_x, mouse_y>>
      BY <2>6, <3>4
    <3>6. OfMouse(Event)'
      BY <3>1, <3>3 DEF OfMouse, Event
    <3>7. Quiet(2)' => h = <<"x", mouse_x'>> \/ h = <<"y", mouse_y'>>
      BY <3>2, <3>5
    <3> QED
      BY <1>2, <3>2, <3>3, <3>6, <3>7 DEF HalfRead
  <2> QED
    BY <2>3, <2>7, <2>8
<1> QED
  BY <1>5, <1>6 DEF CInv

LEMMA WaitPends ==
  ASSUME RInv, Wait, ~PopCopy
  PROVE  Total' = Total /\ Pend' = Pend
<1>1. out' = out /\ queue' = queue
  BY DEF Wait, WaitCli, WaitTest, WaitSleep, WaitHlt, PopAdvance, PopCount, WaitSti
<1>2. q_count \in Int
  BY DEF RInv
<1>3. First' = First /\ Waiting' = Waiting /\ Busy' = Busy
  <2>1. CASE WaitCli \/ WaitTest \/ WaitSleep \/ WaitHlt
    BY <2>1 DEF WaitCli, WaitTest, WaitSleep, WaitHlt, First, Waiting, Busy, InInit
  <2>2. CASE PopAdvance
    BY <2>2 DEF PopAdvance, First, Waiting, Busy, InInit
  <2>3. CASE PopCount
    BY <1>2, <2>3 DEF PopCount, First, Waiting, Busy, InInit
  <2>4. CASE WaitSti
    BY <2>4 DEF WaitSti, First, Waiting, Busy, InInit
  <2> QED
    BY <2>1, <2>2, <2>3, <2>4 DEF Wait
<1>4. WaitingCells' = WaitingCells
  BY <1>1, <1>3 DEF WaitingCells
<1> QED
  BY <1>1, <1>3, <1>4, SamePends

\* What event_init forgets was lost, unless there was nothing.
LEMMA StartPends ==
  ASSUME RInv, Initialise, ~(q_count > 0)
  PROVE  Total' = Total /\ Pend' = Pend /\ out' = out /\ skew' = skew /\ pc # "handle"
<1>1. out' = out /\ skew' = skew /\ pc \in {"boot", "init_tail", "init_count"} /\ ~Busy /\ ~Busy'
  BY DEF Initialise, InitHead, InitTail, InitCount, Busy
<1>2. Waiting = 0
  <2>1. CASE pc = "boot"
    <3>1. Waiting = q_count
      BY <2>1 DEF Waiting, InInit
    <3> QED
      BY <3>1, TotalIsNat
  <2>2. CASE pc \in {"init_tail", "init_count"}
    BY <2>2 DEF Waiting, InInit
  <2> QED
    BY <1>1, <2>1, <2>2
<1>3. Waiting' = 0
  BY <1>1, EventQueueAssumption DEF Initialise, InitHead, InitTail, InitCount, Waiting, InInit, RInv
<1>4. Total = 0 /\ Total' = 0
  BY <1>1, <1>2, <1>3 DEF Total
<1>5. Pend' = Pend
  <2>1. 1 .. 0 = {}
    OBVIOUS
  <2> QED
    BY <1>4, <2>1 DEF Pend
<1> QED
  BY <1>1, <1>4, <1>5

LEMMA DispatchTold ==
  ASSUME RInv, Dispatch, CInv, UNCHANGED <<last_buttons, mods, mouse_x, mouse_y>>
  PROVE  CInv'
<1> DEFINE v == ToldAll(view, Event)
<1>1. /\ lost' = lost /\ half' = {} /\ pc = "handle" /\ skew' = skew
      /\ \/ ~OfMouse(Event) /\ view' = v
         \/ \E h \in half :
              view' = [v EXCEPT !.x = IF h[1] = "x" THEN h[2] ELSE mouse_x,
                                !.y = IF h[1] = "y" THEN h[2] ELSE mouse_y]
  BY DEF Dispatch
<1>2. /\ v = [x |-> v.x, y |-> v.y, buttons |-> v.buttons, mods |-> v.mods]
      /\ v.x = view.x /\ v.y = view.y
      /\ v.buttons = ButtonsAfter(view.buttons, Event)
      /\ v.mods = ModsAfter(view.mods, Event)
  <2>1. PICK x, y, b, m : view = [x |-> x, y |-> y, buttons |-> b, mods |-> m]
    BY DEF CInv, ViewIsRecord
  <2> QED
    BY <2>1 DEF ToldAll, ButtonsAfter, ModsAfter
<1> HIDE DEF v
<1>3. ViewIsRecord' /\ view'.buttons = v.buttons /\ view'.mods = v.mods
  <2>1. PICK x, y, b, m : v = [x |-> x, y |-> y, buttons |-> b, mods |-> m]
    BY <1>2
  <2> QED
    BY <1>1, <2>1 DEF ViewIsRecord
<1>4. ASSUME ~lost' PROVE Told' /\ HalfRead' /\ skew' = 0
  <2>1. Told /\ HalfRead /\ skew' = 0
    BY <1>1, <1>4 DEF CInv
  <2>2. /\ Total = Total' + 1 /\ Total' \in Nat /\ Pend[1] = Event
        /\ \A k \in 1 .. Total' : Pend'[k] = Pend[k + 1]
    BY DispatchPends
  <2>3. Leads(view'.buttons, view'.mods, Total', Pend', last_buttons', mods')
    <3>1. Leads(view.buttons, view.mods, Total' + 1, Pend, last_buttons, mods)
      BY <2>1, <2>2 DEF Told
    <3>2. Leads(ButtonsAfter(view.buttons, Pend[1]), ModsAfter(view.mods, Pend[1]), Total', Pend',
                last_buttons, mods)
      BY <2>2, <3>1, OneLess
    <3> QED
      BY <1>2, <1>3, <2>2, <3>2
  <2>4. ASSUME Quiet(1)' PROVE view'.x = mouse_x' /\ view'.y = mouse_y'
    <3>1. Quiet(2)
      <4>1. \A k \in 1 .. Total' : ~OfMouse(Pend'[k])
        BY <2>4 DEF Quiet, OfMouse
      <4>2. \A t \in Nat : \A j \in 2 .. t + 1 : j - 1 \in 1 .. t /\ (j - 1) + 1 = j
        OBVIOUS
      <4>3. \A j \in 2 .. Total' + 1 : j - 1 \in 1 .. Total' /\ (j - 1) + 1 = j
        <5>1. Total' \in Nat
          BY <2>2
        <5> QED
          BY <4>2, <5>1
      <4>4. \A j \in 2 .. Total' + 1 : Pend'[j - 1] = Pend[j]
        BY <2>2, <4>3
      <4> QED
        BY <2>2, <4>1, <4>3, <4>4 DEF Quiet
    <3>2. CASE ~OfMouse(Event) /\ view' = v
      <4>1. Quiet(1)
        <5>1. \A t \in Nat : \A j \in 1 .. t : j = 1 \/ j \in 2 .. t
          OBVIOUS
        <5>2. \A j \in 1 .. Total : j = 1 \/ j \in 2 .. Total
          BY TotalIsNat, <5>1
        <5> QED
          BY <2>2, <3>1, <3>2, <5>2 DEF Quiet
      <4> QED
        BY <1>2, <2>1, <3>2, <4>1 DEF Told
    <3>3. ASSUME NEW h \in half,
                 view' = [v EXCEPT !.x = IF h[1] = "x" THEN h[2] ELSE mouse_x,
                                   !.y = IF h[1] = "y" THEN h[2] ELSE mouse_y]
          PROVE  view'.x = mouse_x /\ view'.y = mouse_y
      <4>1. h = <<"x", mouse_x>> \/ h = <<"y", mouse_y>>
        BY <2>1, <3>1, <3>3 DEF HalfRead
      <4>2. /\ view'.x = IF h[1] = "x" THEN h[2] ELSE mouse_x
            /\ view'.y = IF h[1] = "y" THEN h[2] ELSE mouse_y
        <5>1. PICK x, y, b, m : v = [x |-> x, y |-> y, buttons |-> b, mods |-> m]
          BY <1>2
        <5> QED
          BY <3>3, <5>1
      <4> QED
        BY <4>1, <4>2
    <3> QED
      BY <1>1, <3>2, <3>3
  <2>5. HalfRead'
    BY <1>1 DEF HalfRead
  <2> QED
    BY <2>1, <2>3, <2>4, <2>5 DEF Told
<1> QED
  BY <1>1, <1>3, <1>4 DEF CInv

LEMMA ConsumerTold == ASSUME RInv, CInv, Consumer PROVE CInv'
<1>1. UNCHANGED <<last_buttons, mods, mouse_x, mouse_y>>
  BY DEF Consumer, kbdVars, mouseVars
<1>2. CASE Start
  <2>1. Initialise /\ lost' = (lost \/ q_count > 0) /\ UNCHANGED <<view, half>>
    BY <1>2 DEF Start, wmVars
  <2>2. lost' \in BOOLEAN /\ lost \in BOOLEAN /\ ViewIsRecord'
    BY <2>1 DEF CInv, ViewIsRecord
  <2>3. ASSUME ~lost' PROVE CInv'
    <3>1. ~lost /\ ~(q_count > 0)
      BY <2>1, <2>3, Zenon
    <3>2. lost' = lost
      BY <2>2, <2>3, <3>1
    <3>3. Total' = Total /\ Pend' = Pend /\ skew' = skew /\ pc # "handle"
      BY <2>1, <3>1, StartPends
    <3> QED
      BY <1>1, <2>1, <3>2, <3>3, ToldStays
  <2> QED
    BY <2>2, <2>3 DEF CInv
<1>3. CASE ReadCursor
  <2>1. /\ pc = "handle" /\ OfMouse(Event)
        /\ \E h \in {<<"x", mouse_x>>, <<"y", mouse_y>>} : half' = {h}
        /\ UNCHANGED <<queue, head, tail, q_count, out, intr, pc, skew, view, lost>>
    BY <1>3 DEF ReadCursor, vars
  <2>2. First' = First /\ Waiting' = Waiting /\ Busy' = Busy
    BY <2>1 DEF First, Waiting, Busy, InInit
  <2>3. Total' = Total /\ Pend' = Pend
    BY <2>1, <2>2, SamePends DEF WaitingCells
  <2>4. Told => Told'
    BY <1>1, <2>1, <2>3 DEF Told, Leads, Replay, Quiet, OfMouse
  <2>5. HalfRead'
    BY <1>1, <2>1 DEF HalfRead, Event, OfMouse
  <2> QED
    BY <2>1, <2>4, <2>5 DEF CInv, ViewIsRecord
<1>4. CASE Dispatch
  BY <1>1, <1>4, DispatchTold
<1>5. CASE Wait /\ UNCHANGED <<wmVars, lost>>
  <2>1. UNCHANGED <<view, half, lost, skew>>
    BY <1>5 DEF wmVars, Wait, WaitCli, WaitTest, WaitSleep, WaitHlt, PopCopy, PopAdvance,
                PopCount, WaitSti
  <2>2. Total' = Total /\ Pend' = Pend
    BY <1>5, PopPends, WaitPends
  <2>3. pc # "handle"
    BY <1>5 DEF Wait, WaitCli, WaitTest, WaitSleep, WaitHlt, PopCopy, PopAdvance, PopCount, WaitSti
  <2> QED
    BY <1>1, <2>1, <2>2, <2>3, ToldStays
<1> QED
  BY <1>2, <1>3, <1>4, <1>5 DEF Consumer

LEMMA OthersTold ==
  ASSUME CInv, User \/ UNCHANGED inputVars
  PROVE  CInv'
<1>1. UNCHANGED <<queue, head, tail, q_count, out, intr, pc, skew, view, half, lost,
                  last_buttons, mods, mouse_x, mouse_y>>
  BY DEF User, PressKey, ReleaseKey, Report, LoseByte, inputVars, vars, kbdVars, mouseVars, wmVars
<1>2. First' = First /\ Waiting' = Waiting /\ Busy' = Busy
  BY <1>1 DEF First, Waiting, Busy, InInit
<1>3. Total' = Total /\ Pend' = Pend
  BY <1>1, <1>2, SamePends DEF WaitingCells
<1> QED
  BY <1>1, <1>3, ToldStays

LEMMA ToldInitial == Init => CInv
<1> SUFFICES ASSUME Init PROVE CInv
  OBVIOUS
<1>1. /\ view = [x |-> mouse_x, y |-> mouse_y, buttons |-> {}, mods |-> {}]
      /\ half = {} /\ lost = FALSE /\ last_buttons = {} /\ mods = {}
      /\ q_count = 0 /\ pc = "boot" /\ skew = 0
  BY DEF Init, RingInit
<1>2. Total = 0
  BY <1>1 DEF Total, Busy, Waiting, InInit
<1>3. Told
  BY <1>1, <1>2, NoEvents DEF Told
<1> QED
  BY <1>1, <1>3 DEF CInv, ViewIsRecord, HalfRead

LEMMA ToldStep ==
  ASSUME RInv, CursorInRange, CInv, [Next]_inputVars
  PROVE  CInv'
BY InterruptTold, ConsumerTold, OthersTold DEF Next

\* What each of the n events p leaves the window manager with.
Views(n, p, A) == A = [k \in 0 .. n |-> IF k = 0 THEN view ELSE ToldAll(A[k - 1], p[k])]

ViewOf(b, m) == [x |-> view.x, y |-> view.y, buttons |-> b, mods |-> m]

LEMMA TellView ==
  ASSUME NEW b, NEW m, NEW e
  PROVE  ToldAll(ViewOf(b, m), e) = ViewOf(ButtonsAfter(b, e), ModsAfter(m, e))
<1>1. PICK x, y : \A c, l : ViewOf(c, l) = [x |-> x, y |-> y, buttons |-> c, mods |-> l]
  BY DEF ViewOf
<1> QED
  BY <1>1 DEF ToldAll, ButtonsAfter, ModsAfter

LEMMA ViewsFollow ==
  ASSUME ViewIsRecord, NEW n \in Nat, NEW p, NEW B, NEW M, Replay(n, p, B, M),
         B[0] = view.buttons, M[0] = view.mods
  PROVE  /\ \E A : Views(n, p, A)
         /\ \A A : Views(n, p, A) => \A k \in 0 .. n : A[k] = ViewOf(B[k], M[k])
<1>1. ViewOf(B[0], M[0]) = view
  BY DEF ViewOf, ViewIsRecord
<1>2. ASSUME NEW k \in 1 .. n
      PROVE  ViewOf(B[k], M[k]) = ToldAll(ViewOf(B[k - 1], M[k - 1]), p[k])
  BY TellView DEF Replay
<1>3. \E A : Views(n, p, A)
  <2> DEFINE A == [k \in 0 .. n |-> ViewOf(B[k], M[k])]
  <2>1. ASSUME NEW k \in 0 .. n
        PROVE  ViewOf(B[k], M[k]) = IF k = 0 THEN view ELSE ToldAll(A[k - 1], p[k])
    <3>1. CASE k = 0
      BY <1>1, <3>1
    <3>2. CASE k # 0
      <4>1. k \in 1 .. n /\ k - 1 \in 0 .. n
        BY <3>2
      <4>2. A[k - 1] = ViewOf(B[k - 1], M[k - 1])
        BY <4>1
      <4> HIDE DEF A
      <4> QED
        BY <1>2, <3>2, <4>1, <4>2
    <3> QED
      BY <3>1, <3>2
  <2>2. A = [k \in 0 .. n |-> IF k = 0 THEN view ELSE ToldAll(A[k - 1], p[k])]
    BY <2>1
  <2> HIDE DEF A
  <2> QED
    BY <2>2 DEF Views
<1>4. ASSUME NEW A, Views(n, p, A) PROVE \A k \in 0 .. n : A[k] = ViewOf(B[k], M[k])
  <2> DEFINE I == {k \in 0 .. n : A[k] # ViewOf(B[k], M[k])}
  <2> SUFFICES ASSUME I # {} PROVE FALSE
    OBVIOUS
  <2>1. \A k \in 0 .. n : A[k] = IF k = 0 THEN view ELSE ToldAll(A[k - 1], p[k])
    BY <1>4 DEF Views
  <2>2. I \subseteq Nat
    OBVIOUS
  <2>3. PICK m \in I : \A i \in I : m <= i
    BY <2>2, SomeLeast
  <2>4. m \in 0 .. n /\ A[m] # ViewOf(B[m], M[m])
    OBVIOUS
  <2>5. m # 0
    BY <1>1, <2>1, <2>4
  <2>6. m \in 1 .. n /\ m - 1 \in 0 .. n /\ ~(m <= m - 1)
    BY <2>4, <2>5
  <2>7. A[m - 1] = ViewOf(B[m - 1], M[m - 1])
    BY <2>3, <2>6
  <2> HIDE DEF I
  <2>8. A[m] = ViewOf(B[m], M[m])
    BY <1>2, <2>1, <2>4, <2>5, <2>6, <2>7
  <2> QED
    BY <2>4, <2>8
<1> QED
  BY <1>3, <1>4

LEMMA ToldIsCaughtUp == RInv /\ CInv => CaughtUp
<1> SUFFICES ASSUME RInv, CInv, ~lost
             PROVE  LET A == CHOOSE A : Views(Len(Pending), Pending, A) IN
                    /\ A[Len(Pending)].buttons = last_buttons
                    /\ A[Len(Pending)].mods = mods
                    /\ \A k \in 1 .. Len(Pending) :
                         /\ Pending[k][1] = "MOUSE_DOWN" => Pending[k][2] \cap A[k - 1].buttons = {}
                         /\ Pending[k][1] = "MOUSE_UP"   => Pending[k][2] \subseteq A[k - 1].buttons
                    /\ (\A k \in 1 .. Len(Pending) : ~OfMouse(Pending[k]))
                         => view.x = mouse_x /\ view.y = mouse_y
  BY DEF CaughtUp, Views
<1>1. Told
  BY DEF CInv
<1>2. PICK n \in Nat : n = Total
  BY TotalIsNat
<1>3. PICK p : p = Pending
  OBVIOUS
<1>4. Len(p) = n /\ \A k \in 1 .. n : p[k] = Pend[k]
  BY <1>2, <1>3, PendingIsPend
<1>5. Leads(view.buttons, view.mods, n, p, last_buttons, mods)
  BY <1>1, <1>2, <1>4, SameEvents DEF Told
<1>6. PICK B, M : /\ Replay(n, p, B, M) /\ B[0] = view.buttons /\ M[0] = view.mods
                  /\ B[n] = last_buttons /\ M[n] = mods
  BY <1>5 DEF Leads
<1> DEFINE A == CHOOSE A : Views(n, p, A)
<1>7. \A k \in 0 .. n : A[k] = ViewOf(B[k], M[k])
  <2>1. Views(n, p, A)
    BY <1>6, ViewsFollow DEF CInv
  <2> HIDE DEF A
  <2> QED
    BY <1>6, <2>1, ViewsFollow DEF CInv
<1> HIDE DEF A
<1>8. \A k \in 0 .. n : A[k].buttons = B[k] /\ A[k].mods = M[k]
  <2>1. \A b, m : ViewOf(b, m).buttons = b /\ ViewOf(b, m).mods = m
    BY DEF ViewOf
  <2> QED
    BY <1>7, <2>1
<1>9. A[n].buttons = last_buttons /\ A[n].mods = mods
  BY <1>6, <1>8
<1>10. ASSUME NEW k \in 1 .. n
       PROVE  /\ p[k][1] = "MOUSE_DOWN" => p[k][2] \cap A[k - 1].buttons = {}
              /\ p[k][1] = "MOUSE_UP"   => p[k][2] \subseteq A[k - 1].buttons
  <2>1. Fits(B[k - 1], p[k])
    BY <1>6 DEF Replay
  <2>2. A[k - 1].buttons = B[k - 1]
    BY <1>8
  <2> QED
    BY <2>1, <2>2 DEF Fits
<1>11. ASSUME \A k \in 1 .. n : ~OfMouse(p[k]) PROVE view.x = mouse_x /\ view.y = mouse_y
  BY <1>1, <1>2, <1>4, <1>11 DEF Told, Quiet
<1> QED
  BY <1>3, <1>4, <1>9, <1>10, <1>11 DEF A

(* The window manager sees each press and release of a button in turn, and *)
(* when it has handled what is pending it has the drivers' buttons and      *)
(* modifiers and the cursor's place (mouse.h lines 10-11), however movement *)
(* and reading interleave, for every size of ring and screen.  Only a full  *)
(* ring or event_init can break this.                                      *)
THEOREM WindowManagerCatchesUp == Spec => []CaughtUp
<1> DEFINE AInv == RInv /\ MInv /\ CursorInRange /\ CInv
<1>1. Init => AInv
  <2>1. Init => CursorInRange
    <3> SUFFICES ASSUME Init PROVE CursorInRange
      OBVIOUS
    <3>1. mouse_x = SCREEN_W \div 2 /\ mouse_y = SCREEN_H \div 2
      BY DEF Init
    <3> QED
      BY <3>1, InputAssumption DEF CursorInRange
  <2> QED
    BY <2>1, RingInitial, MouseInitial, ToldInitial
<1>2. AInv /\ [Next]_inputVars => AInv'
  BY RingStep, MouseStep, CursorStays, ToldStep
<1>3. AInv => CaughtUp
  BY ToldIsCaughtUp
<1> HIDE DEF AInv
<1> QED
  BY <1>1, <1>2, <1>3, PTL DEF Spec
=============================================================================
