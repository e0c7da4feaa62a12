------------------------------ MODULE StreamProofs ------------------------------
(***************************************************************************)
(* What a viewer is sent: of a camera's live stream (Hub) and of a recording *)
(* on the disk (Avi).                                                       *)
(*                                                                         *)
(* The hub, for any number of viewers, pumps, errors and closes: at most one *)
(* pump is meant to run, an attached viewer has it, and its channel is open. *)
(*                                                                         *)
(* The recording, for any lengths of frames, gaps, cuts and leftover bytes:  *)
(* one that was not finished is refused, and the times of one that was are   *)
(* those of its frames.  The reader's walk is a recursive function over the  *)
(* file; that it is what its definition says is proved below from the least  *)
(* number that would be an exception (WalksExist, WalksAgree, WalkGoesOn).   *)
(***************************************************************************)
EXTENDS Hub, Avi, TLAPS, FiniteSetTheorems, SequenceTheorems, WellFoundedInduction


Running == {"wait", "dial", "open", "retry"}

(* Pumps start in order, each with the number after the current one's.      *)
StartedInOrder == /\ \A p \in Pumps : (p > current) <=> (pc[p] = "new")
                  /\ \A p \in stopped : p <= current
                  /\ cancel \in {NoPump, current}

(* A pump that is not cancelled is the one Hub.cancel would cancel, and     *)
(* Hub.running says that it runs: this is why starting another when nothing *)
(* runs never makes two.                                                    *)
OnlyCurrent == \A p \in Pumps : Live(p) => p = current /\ p = cancel /\ running = "yes"

(* Until a camera has refused the credentials, no pump stops before it is   *)
(* cancelled, and what runs is the current one, not cancelled.              *)
NoneGivesUp ==
  unauths = 0 =>
    /\ \A p \in Pumps : pc[p] # "new" /\ p \notin stopped => pc[p] \in Running
    /\ running = "yes" => current # NoPump /\ current \notin stopped /\ cancel = current
    /\ subs # {} => running = "yes"

Inductive == TypeOK /\ StartedInOrder /\ OnlyCurrent /\ NoneGivesUp /\ OpenChannels

LEMMA PumpsAreNumbers == Pumps \subseteq Nat /\ NoPump \notin Pumps /\ Pumps \cup {NoPump} \subseteq Int
BY BoundsAssumption DEF Pumps, NoPump

LEMMA InitInductive == Init => Inductive
BY BoundsAssumption, PumpsAreNumbers
   DEF Init, Inductive, TypeOK, StartedInOrder, OnlyCurrent, NoneGivesUp, OpenChannels, Live, Running,
       NoPump

LEMMA TypeStep == TypeOK /\ [Next]_vars => TypeOK'
<1> SUFFICES ASSUME TypeOK, [Next]_vars PROVE TypeOK'
  OBVIOUS
<1> USE BoundsAssumption, PumpsAreNumbers DEF TypeOK
<1>1. ASSUME NEW v \in Viewers, Subscribe(v) PROVE TypeOK'
  BY <1>1 DEF Subscribe, Start, bounds
<1>2. ASSUME NEW v \in Viewers, Remove(v) PROVE TypeOK'
  BY <1>2 DEF Remove, bounds
<1>3. ASSUME NEW v \in Viewers, Receive(v) PROVE TypeOK'
  BY <1>3 DEF Receive, hub, pumpVars, bounds
<1>4. CASE Close
  <2>1. stopped' \subseteq Pumps
    BY <1>4 DEF Close
  <2>2. chan' \in [Viewers -> {"empty", "frame", "closed"}] /\ subs' \subseteq Viewers
    BY <1>4 DEF Close, EndAll
  <2>3. closes' \in 0..MaxCloses
    BY <1>4 DEF Close
  <2> QED BY <1>4, <2>1, <2>2, <2>3 DEF Close
<1>5. ASSUME NEW p \in Pumps, PumpWait(p) PROVE TypeOK'
  BY <1>5 DEF PumpWait, PumpAt, PumpTo, Quiet, NoError, bounds
<1>6. ASSUME NEW p \in Pumps, PumpDial(p) PROVE TypeOK'
  BY <1>6 DEF PumpDial, PumpAt, PumpTo, Quiet, NoError, Breaks, bounds
<1>7. ASSUME NEW p \in Pumps, Broadcast(p) PROVE TypeOK'
  BY <1>7 DEF Broadcast, PumpAt, NoError, bounds
<1>8. ASSUME NEW p \in Pumps, PumpEnd(p) PROVE TypeOK'
  BY <1>8 DEF PumpEnd, PumpAt, PumpTo, Quiet, NoError, Breaks, bounds
<1>9. ASSUME NEW p \in Pumps, PumpRetry(p) PROVE TypeOK'
  BY <1>9 DEF PumpRetry, PumpAt, PumpTo, Quiet, NoError, bounds
<1>10. ASSUME NEW p \in Pumps, PumpDrop(p) PROVE TypeOK'
  BY <1>10 DEF PumpDrop, PumpAt, PumpTo, NoError, EndAll, bounds
<1>11. ASSUME NEW p \in Pumps, PumpStand(p) PROVE TypeOK'
  BY <1>11 DEF PumpStand, PumpAt, PumpTo, NoError, bounds
<1>12. ASSUME NEW p \in Pumps, PumpClose(p) PROVE TypeOK'
  BY <1>12 DEF PumpClose, PumpAt, PumpTo, Quiet, NoError, bounds
<1>13. CASE UNCHANGED vars
  BY <1>13 DEF vars, hub, viewVars, pumpVars, bounds
<1> QED BY <1>1, <1>2, <1>3, <1>4, <1>5, <1>6, <1>7, <1>8, <1>9, <1>10, <1>11, <1>12, <1>13 DEF Next, Pump, RunOn

LEMMA OrderStep == Inductive /\ [Next]_vars => StartedInOrder'
<1> SUFFICES ASSUME Inductive, [Next]_vars PROVE StartedInOrder'
  OBVIOUS
<1> USE BoundsAssumption, PumpsAreNumbers DEF Inductive, TypeOK, StartedInOrder
<1>1. ASSUME NEW v \in Viewers, Subscribe(v) PROVE StartedInOrder'
  BY <1>1 DEF Subscribe, Start, bounds
<1>2. ASSUME NEW v \in Viewers, Remove(v) PROVE StartedInOrder'
  <2>1. current' = current /\ pc' = pc /\ current \in Int
    BY <1>2 DEF Remove
  <2>2. stopped' \subseteq stopped \cup ({cancel} \ {NoPump}) /\ cancel' \in {cancel, NoPump}
    BY <1>2 DEF Remove
  <2> QED BY <2>1, <2>2
<1>3. ASSUME NEW v \in Viewers, Receive(v) PROVE StartedInOrder'
  BY <1>3 DEF Receive, hub, pumpVars, bounds
<1>4. CASE Close
  BY <1>4 DEF Close, EndAll, bounds
<1>5. ASSUME NEW p \in Pumps, PumpWait(p) PROVE StartedInOrder'
  BY <1>5 DEF PumpWait, PumpAt, PumpTo, Quiet, NoError, bounds
<1>6. ASSUME NEW p \in Pumps, PumpDial(p) PROVE StartedInOrder'
  BY <1>6 DEF PumpDial, PumpAt, PumpTo, Quiet, NoError, Breaks, bounds
<1>7. ASSUME NEW p \in Pumps, Broadcast(p) PROVE StartedInOrder'
  BY <1>7 DEF Broadcast, PumpAt, NoError, bounds
<1>8. ASSUME NEW p \in Pumps, PumpEnd(p) PROVE StartedInOrder'
  BY <1>8 DEF PumpEnd, PumpAt, PumpTo, Quiet, NoError, Breaks, bounds
<1>9. ASSUME NEW p \in Pumps, PumpRetry(p) PROVE StartedInOrder'
  BY <1>9 DEF PumpRetry, PumpAt, PumpTo, Quiet, NoError, bounds
<1>10. ASSUME NEW p \in Pumps, PumpDrop(p) PROVE StartedInOrder'
  BY <1>10 DEF PumpDrop, PumpAt, PumpTo, NoError, EndAll, bounds
<1>11. ASSUME NEW p \in Pumps, PumpStand(p) PROVE StartedInOrder'
  BY <1>11 DEF PumpStand, PumpAt, PumpTo, NoError, bounds
<1>12. ASSUME NEW p \in Pumps, PumpClose(p) PROVE StartedInOrder'
  BY <1>12 DEF PumpClose, PumpAt, PumpTo, Quiet, NoError, bounds
<1>13. CASE UNCHANGED vars
  BY <1>13 DEF vars, hub, viewVars, pumpVars, bounds
<1> QED BY <1>1, <1>2, <1>3, <1>4, <1>5, <1>6, <1>7, <1>8, <1>9, <1>10, <1>11, <1>12, <1>13 DEF Next, Pump, RunOn

LEMMA CurrentStep == Inductive /\ [Next]_vars => OnlyCurrent'
<1> SUFFICES ASSUME Inductive, [Next]_vars PROVE OnlyCurrent'
  OBVIOUS
<1> USE BoundsAssumption, PumpsAreNumbers DEF Inductive, TypeOK, StartedInOrder, OnlyCurrent, Live
<1>1. ASSUME NEW v \in Viewers, Subscribe(v) PROVE OnlyCurrent'
  BY <1>1 DEF Subscribe, Start, bounds
<1>2. ASSUME NEW v \in Viewers, Remove(v) PROVE OnlyCurrent'
  BY <1>2 DEF Remove, bounds
<1>3. ASSUME NEW v \in Viewers, Receive(v) PROVE OnlyCurrent'
  BY <1>3 DEF Receive, hub, pumpVars, bounds
<1>4. CASE Close
  BY <1>4 DEF Close, EndAll, bounds
<1>5. ASSUME NEW p \in Pumps, PumpWait(p) PROVE OnlyCurrent'
  BY <1>5 DEF PumpWait, PumpAt, PumpTo, Quiet, NoError, bounds
<1>6. ASSUME NEW p \in Pumps, PumpDial(p) PROVE OnlyCurrent'
  BY <1>6 DEF PumpDial, PumpAt, PumpTo, Quiet, NoError, Breaks, bounds
<1>7. ASSUME NEW p \in Pumps, Broadcast(p) PROVE OnlyCurrent'
  BY <1>7 DEF Broadcast, PumpAt, NoError, bounds
<1>8. ASSUME NEW p \in Pumps, PumpEnd(p) PROVE OnlyCurrent'
  BY <1>8 DEF PumpEnd, PumpAt, PumpTo, Quiet, NoError, Breaks, bounds
<1>9. ASSUME NEW p \in Pumps, PumpRetry(p) PROVE OnlyCurrent'
  BY <1>9 DEF PumpRetry, PumpAt, PumpTo, Quiet, NoError, bounds
<1>10. ASSUME NEW p \in Pumps, PumpDrop(p) PROVE OnlyCurrent'
  BY <1>10 DEF PumpDrop, PumpAt, PumpTo, NoError, EndAll, bounds
<1>11. ASSUME NEW p \in Pumps, PumpStand(p) PROVE OnlyCurrent'
  BY <1>11 DEF PumpStand, PumpAt, PumpTo, NoError, bounds
<1>12. ASSUME NEW p \in Pumps, PumpClose(p) PROVE OnlyCurrent'
  BY <1>12 DEF PumpClose, PumpAt, PumpTo, Quiet, NoError, bounds
<1>13. CASE UNCHANGED vars
  BY <1>13 DEF vars, hub, viewVars, pumpVars, bounds
<1> QED BY <1>1, <1>2, <1>3, <1>4, <1>5, <1>6, <1>7, <1>8, <1>9, <1>10, <1>11, <1>12, <1>13 DEF Next, Pump, RunOn

LEMMA GivesUpStep == Inductive /\ [Next]_vars => NoneGivesUp'
<1> SUFFICES ASSUME Inductive, [Next]_vars PROVE NoneGivesUp'
  OBVIOUS
<1> USE BoundsAssumption, PumpsAreNumbers DEF Inductive, TypeOK, StartedInOrder, NoneGivesUp, Running
<1>1. ASSUME NEW v \in Viewers, Subscribe(v) PROVE NoneGivesUp'
  BY <1>1 DEF Subscribe, Start, bounds
<1>2. ASSUME NEW v \in Viewers, Remove(v) PROVE NoneGivesUp'
  BY <1>2 DEF Remove, bounds
<1>3. ASSUME NEW v \in Viewers, Receive(v) PROVE NoneGivesUp'
  BY <1>3 DEF Receive, hub, pumpVars, bounds
<1>4. CASE Close
  BY <1>4 DEF Close, EndAll, bounds
<1>5. ASSUME NEW p \in Pumps, PumpWait(p) PROVE NoneGivesUp'
  BY <1>5 DEF PumpWait, PumpAt, PumpTo, Quiet, NoError, bounds
<1>6. ASSUME NEW p \in Pumps, PumpDial(p) PROVE NoneGivesUp'
  BY <1>6 DEF PumpDial, PumpAt, PumpTo, Quiet, NoError, Breaks, bounds
<1>7. ASSUME NEW p \in Pumps, Broadcast(p) PROVE NoneGivesUp'
  BY <1>7 DEF Broadcast, PumpAt, NoError, bounds
<1>8. ASSUME NEW p \in Pumps, PumpEnd(p) PROVE NoneGivesUp'
  BY <1>8 DEF PumpEnd, PumpAt, PumpTo, Quiet, NoError, Breaks, bounds
<1>9. ASSUME NEW p \in Pumps, PumpRetry(p) PROVE NoneGivesUp'
  BY <1>9 DEF PumpRetry, PumpAt, PumpTo, Quiet, NoError, bounds
<1>10. ASSUME NEW p \in Pumps, PumpDrop(p) PROVE NoneGivesUp'
  BY <1>10 DEF PumpDrop, PumpAt, PumpTo, NoError, EndAll, bounds
<1>11. ASSUME NEW p \in Pumps, PumpStand(p) PROVE NoneGivesUp'
  BY <1>11 DEF PumpStand, PumpAt, PumpTo, NoError, bounds
<1>12. ASSUME NEW p \in Pumps, PumpClose(p) PROVE NoneGivesUp'
  BY <1>12 DEF PumpClose, PumpAt, PumpTo, Quiet, NoError, bounds
<1>13. CASE UNCHANGED vars
  BY <1>13 DEF vars, hub, viewVars, pumpVars, bounds
<1> QED BY <1>1, <1>2, <1>3, <1>4, <1>5, <1>6, <1>7, <1>8, <1>9, <1>10, <1>11, <1>12, <1>13 DEF Next, Pump, RunOn

LEMMA ChannelStep == Inductive /\ [Next]_vars => OpenChannels'
<1> SUFFICES ASSUME Inductive, [Next]_vars PROVE OpenChannels'
  OBVIOUS
<1> USE BoundsAssumption, PumpsAreNumbers DEF Inductive, TypeOK, OpenChannels
<1>1. ASSUME NEW v \in Viewers, Subscribe(v) PROVE OpenChannels'
  BY <1>1 DEF Subscribe, Start, bounds
<1>2. ASSUME NEW v \in Viewers, Remove(v) PROVE OpenChannels'
  BY <1>2 DEF Remove, bounds
<1>3. ASSUME NEW v \in Viewers, Receive(v) PROVE OpenChannels'
  BY <1>3 DEF Receive, hub, pumpVars, bounds
<1>4. CASE Close
  BY <1>4 DEF Close, EndAll, bounds
<1>5. ASSUME NEW p \in Pumps, PumpWait(p) PROVE OpenChannels'
  BY <1>5 DEF PumpWait, PumpAt, PumpTo, Quiet, NoError, bounds
<1>6. ASSUME NEW p \in Pumps, PumpDial(p) PROVE OpenChannels'
  BY <1>6 DEF PumpDial, PumpAt, PumpTo, Quiet, NoError, Breaks, bounds
<1>7. ASSUME NEW p \in Pumps, Broadcast(p) PROVE OpenChannels'
  BY <1>7 DEF Broadcast, PumpAt, NoError, bounds
<1>8. ASSUME NEW p \in Pumps, PumpEnd(p) PROVE OpenChannels'
  BY <1>8 DEF PumpEnd, PumpAt, PumpTo, Quiet, NoError, Breaks, bounds
<1>9. ASSUME NEW p \in Pumps, PumpRetry(p) PROVE OpenChannels'
  BY <1>9 DEF PumpRetry, PumpAt, PumpTo, Quiet, NoError, bounds
<1>10. ASSUME NEW p \in Pumps, PumpDrop(p) PROVE OpenChannels'
  BY <1>10 DEF PumpDrop, PumpAt, PumpTo, NoError, EndAll, bounds
<1>11. ASSUME NEW p \in Pumps, PumpStand(p) PROVE OpenChannels'
  BY <1>11 DEF PumpStand, PumpAt, PumpTo, NoError, bounds
<1>12. ASSUME NEW p \in Pumps, PumpClose(p) PROVE OpenChannels'
  BY <1>12 DEF PumpClose, PumpAt, PumpTo, Quiet, NoError, bounds
<1>13. CASE UNCHANGED vars
  BY <1>13 DEF vars, hub, viewVars, pumpVars, bounds
<1> QED BY <1>1, <1>2, <1>3, <1>4, <1>5, <1>6, <1>7, <1>8, <1>9, <1>10, <1>11, <1>12, <1>13 DEF Next, Pump, RunOn


LEMMA InductiveInvariant == Spec => []Inductive
<1>1. Inductive /\ [Next]_vars => Inductive'
  BY TypeStep, OrderStep, CurrentStep, GivesUpStep, ChannelStep DEF Inductive
<1> QED BY InitInductive, <1>1, PTL DEF Spec

-----------------------------------------------------------------------------
(* The variables keep their types. *)
THEOREM TypeCorrect == Spec => []TypeOK
<1>1. Inductive => TypeOK
  BY DEF Inductive
<1> QED BY InductiveInvariant, <1>1, PTL

(* However viewers and pumps interleave, at most one pump is meant to run   *)
(* (Subscribe, remove, Close, pump).                                        *)
THEOREM AtMostOneLivePump == Spec => []OneLivePump
<1>1. Inductive => OneLivePump
  BY DEF Inductive, OnlyCurrent, OneLivePump
<1> QED BY InductiveInvariant, <1>1, PTL

(* Until a camera refuses the credentials, whoever is attached has a live   *)
(* pump: no stale stand-down and no late close takes it away.               *)
THEOREM AttachedIsPumped == Spec => []WatchedIsPumped
<1>1. Inductive => WatchedIsPumped
  <2> SUFFICES ASSUME Inductive, subs # {}, unauths = 0 PROVE running = "yes" /\ Live(current)
    BY DEF WatchedIsPumped
  <2>1. running = "yes" /\ current # NoPump /\ current \notin stopped
    BY DEF Inductive, NoneGivesUp
  <2>2. current \in Pumps /\ pc[current] # "new"
    BY <2>1, PumpsAreNumbers DEF Inductive, TypeOK, StartedInOrder
  <2>3. pc[current] \in Running
    BY <2>1, <2>2 DEF Inductive, NoneGivesUp
  <2> QED BY <2>1, <2>3 DEF Live, Running
<1> QED BY InductiveInvariant, <1>1, PTL

(* A subscriber in the table is attached and its channel is open, so a      *)
(* broadcast never sends on a closed channel.                               *)
THEOREM SubscribersAreOpen == Spec => []OpenChannels
<1>1. Inductive => OpenChannels
  BY DEF Inductive
<1> QED BY InductiveInvariant, <1>1, PTL

-----------------------------------------------------------------------------
(* Recordings on the disk.                                                  *)

(* A nonempty set of numbers has a least.                                   *)
LEMMA LeastNumber ==
  ASSUME NEW S \in SUBSET Nat, S # {}
  PROVE  \E x \in S : \A y \in S : x <= y
<1>1. PICK x \in S : \A y \in S : <<y, x>> \notin OpToRel(<, Nat)
  BY WFMin, NatLessThanWellFounded
<1>2. ASSUME NEW y \in S PROVE x <= y
  <2>1. <<y, x>> \notin OpToRel(<, Nat)
    BY <1>1
  <2> QED
    BY <2>1 DEF OpToRel
<1> QED
  BY <1>2

(* A set of numbers that has zero, and with each the next, has all.         *)
LEMMA AllNumbers ==
  ASSUME NEW S, 0 \in S, \A n \in Nat : n \in S => n + 1 \in S
  PROVE  Nat \subseteq S
<1> SUFFICES ASSUME Nat \ S # {} PROVE FALSE
  OBVIOUS
<1>1. PICK x \in Nat \ S : \A y \in Nat \ S : x <= y
  BY LeastNumber
<1>2. x - 1 \in Nat /\ x - 1 \in S
  BY <1>1
<1> QED
  BY <1>1, <1>2

(* The walk is what its definition says: a first state, and turn upon turn. *)
Begun(f) == [lists |-> Level(12, SizeOf(f)), got |-> NotFound]

WalkTo(f, n, g) == g = [i \in 0..n |-> IF i = 0 THEN Begun(f) ELSE Turn(f, g[i - 1])]

(* The walk's first states, up to any of them, are a function.                *)
LEMMA WalksExist == ASSUME NEW f, NEW n \in Nat PROVE \E g : WalkTo(f, n, g)
<1> DEFINE S == {m \in Nat : \E g : WalkTo(f, m, g)}
<1>1. 0 \in S
  <2>1. WalkTo(f, 0, [i \in 0..0 |-> Begun(f)])
    BY DEF WalkTo
  <2> QED
    BY <2>1
<1>2. ASSUME NEW m \in Nat, m \in S PROVE m + 1 \in S
  <2>1. PICK g : WalkTo(f, m, g)
    BY <1>2
  <2> DEFINE h == [i \in 0..m + 1 |-> IF i <= m THEN g[i] ELSE Turn(f, g[m])]
  <2>2. ASSUME NEW i \in 0..m + 1 PROVE h[i] = IF i = 0 THEN Begun(f) ELSE Turn(f, h[i - 1])
    <3>1. CASE i = 0
      BY <2>1, <3>1 DEF WalkTo
    <3>2. CASE i \in 1..m
      <4>1. h[i] = g[i] /\ h[i - 1] = g[i - 1] /\ i \in 0..m /\ i # 0
        BY <3>2
      <4> QED
        BY <2>1, <4>1 DEF WalkTo
    <3>3. CASE i = m + 1
      BY <3>3
    <3> QED
      BY <3>1, <3>2, <3>3
  <2>3. WalkTo(f, m + 1, h)
    BY <2>2 DEF WalkTo
  <2> QED
    BY <2>3
<1> HIDE DEF S
<1>3. Nat \subseteq S
  BY <1>1, <1>2, AllNumbers
<1> QED
  BY <1>3 DEF S

(* What the walk is at a turn does not depend on how far it is taken.         *)
LEMMA WalksAgree ==
  ASSUME NEW f, NEW n \in Nat, NEW m \in Nat, m <= n, NEW g, NEW h, WalkTo(f, n, g), WalkTo(f, m, h)
  PROVE  g[m] = h[m]
<1> DEFINE S == {i \in Nat : i <= m => g[i] = h[i]}
<1>1. 0 \in S
  BY DEF WalkTo
<1>2. ASSUME NEW i \in Nat, i \in S PROVE i + 1 \in S
  <2> SUFFICES ASSUME i + 1 <= m PROVE g[i + 1] = h[i + 1]
    OBVIOUS
  <2>1. g[i] = h[i]
    BY <1>2
  <2>2. i + 1 \in 0..n /\ i + 1 \in 0..m /\ i + 1 # 0 /\ (i + 1) - 1 = i
    OBVIOUS
  <2>3. g[i + 1] = Turn(f, g[i]) /\ h[i + 1] = Turn(f, h[i])
    BY <2>2 DEF WalkTo
  <2> QED
    BY <2>1, <2>3
<1> HIDE DEF S
<1>3. Nat \subseteq S
  BY <1>1, <1>2, AllNumbers
<1> QED
  BY <1>3 DEF S

(* The walk starts at the RIFF chunk's body, and each state is a turn from the last. *)
LEMMA WalkGoesOn ==
  ASSUME NEW f
  PROVE  /\ Walk(f)[0] = Begun(f)
         /\ \A n \in Nat : Walk(f)[n + 1] = Turn(f, Walk(f)[n])
<1> DEFINE to(n) == CHOOSE g : WalkTo(f, n, g)
           all == [n \in Nat |-> to(n)[n]]
<1>1. \A n \in Nat : WalkTo(f, n, to(n))
  BY WalksExist
<1> HIDE DEF to
<1>2. ASSUME NEW n \in Nat PROVE all[n] = IF n = 0 THEN Begun(f) ELSE Turn(f, all[n - 1])
  <2>1. CASE n = 0
    BY <1>1, <2>1 DEF WalkTo
  <2>2. CASE n # 0
    <3>1. n - 1 \in Nat /\ n \in 0..n /\ n - 1 <= n
      BY <2>2
    <3>2. to(n)[n] = Turn(f, to(n)[n - 1])
      BY <1>1, <2>2, <3>1 DEF WalkTo
    <3>3. to(n)[n - 1] = to(n - 1)[n - 1]
      BY <1>1, <3>1, WalksAgree
    <3> QED
      BY <2>2, <3>1, <3>2, <3>3
  <2> QED
    BY <2>1, <2>2
<1>3. all = [n \in Nat |-> IF n = 0 THEN Begun(f) ELSE Turn(f, all[n - 1])]
  BY <1>2
<1> HIDE DEF all
<1>4. Walk(f) = [n \in Nat |-> IF n = 0 THEN Begun(f) ELSE Turn(f, Walk(f)[n - 1])]
  BY <1>3 DEF Walk, Begun
<1>5. ASSUME NEW n \in Nat PROVE Walk(f)[n + 1] = Turn(f, Walk(f)[n])
  <2>1. n + 1 \in Nat /\ n + 1 # 0 /\ (n + 1) - 1 = n
    OBVIOUS
  <2> QED
    BY <1>4, <2>1
<1> QED
  BY <1>4, <1>5

(* Of what a file was given only its header has a list of frames.           *)
Sound(f) ==
  /\ \A c \in f.chunks : c.kind = "" /\ c.at \in Nat /\ c.at >= 224
  /\ \A c \in f.head.chunks : c.kind = "movi" => c.at = 212

(* A header that was not written to its end has none.                       *)
LEMMA NoMovieYet ==
  ASSUME NEW f, Sound(f), f.upto \in 0..223, NEW at
  PROVE  Kind(f, Look(f, at)) # "movi"
<1> DEFINE c == Look(f, at)
           there == {d \in f.chunks : d.at = at}
                    \cup (IF f.upto < at + 8 THEN {} ELSE {d \in f.head.chunks : d.at = at})
<1>1. CASE there # {}
  <2>1. c \in there
    BY <1>1 DEF Look
  <2>2. c \in f.chunks \/ c \in f.head.chunks
    BY <2>1
  <2> HIDE DEF c, there
  <2>3. c.kind = "movi" => c.at = 212
    BY <2>2, ZenonT(40) DEF Sound
  <2>4. ASSUME c.kind = "movi" PROVE Kind(f, c) = ""
    <3>1. c.at < HeaderBytes /\ f.upto < c.at + 12
      BY <2>3, <2>4 DEF HeaderBytes
    <3> QED
      BY <3>1 DEF Kind
  <2>5. Kind(f, c) # "movi"
    BY <2>4 DEF Kind
  <2> QED
    BY <2>5 DEF c
<1>2. CASE there = {}
  <2>1. c = Chunk(at, "", IF f.upto <= at /\ at + 8 <= HeaderBytes THEN 0 ELSE f.junk, "")
    BY <1>2 DEF Look
  <2> HIDE DEF c, there
  <2>2. c.kind = ""
    BY <2>1 DEF Chunk
  <2>3. Kind(f, c) # "movi"
    BY <2>2 DEF Kind
  <2> QED
    BY <2>3 DEF c
<1> QED
  BY <1>1, <1>2

(* Nor does the reader find one, turn upon turn.                            *)
NoMovie(s) == {"lists", "got"} = DOMAIN s /\ "movi" \in DOMAIN s.got /\ s.got.movi = 0

(* A turn of the walk in a file whose header is unfinished finds no movie list. *)
LEMMA TurnFindsNone ==
  ASSUME NEW f, Sound(f), f.upto \in 0..223, NEW s, NoMovie(s)
  PROVE  NoMovie(Turn(f, s))
<1> DEFINE at == Head(s.lists).at
           end == Head(s.lists).end
           c == Look(f, at)
           last == Least(end, f.len)
           size == Within(c.size, at + 8, end)
           over == Len(s.lists) > 9 \/ at + 8 > last \/ (c.id = "LIST" /\ at + 12 > last)
           next == (IF Descended(f, c) THEN Level(at + 12, at + 8 + size) ELSE <<>>)
                   \o Level(at + 8 + size + (size % 2), end) \o Tail(s.lists)
<1>1. \/ Turn(f, s) = s
      \/ Turn(f, s) = [s EXCEPT !.lists = Tail(@)]
      \/ Turn(f, s) = [lists |-> next, got |-> Found(f, c, size, s.got)]
  BY DEF Turn
<1>2. Kind(f, c) # "movi"
  BY NoMovieYet
<1> HIDE DEF next, size, c
<1>3. "movi" \in DOMAIN Found(f, c, size, s.got) /\ Found(f, c, size, s.got).movi = 0
  BY <1>2 DEF NoMovie, Found
<1>4. NoMovie([s EXCEPT !.lists = Tail(@)])
  BY DEF NoMovie
<1>5. NoMovie([lists |-> next, got |-> Found(f, c, size, s.got)])
  BY <1>3 DEF NoMovie
<1> QED
  BY <1>1, <1>4, <1>5

(* A file whose header was not written to its end is refused.                 *)
LEMMA UnfinishedIsRefused ==
  ASSUME NEW f, Sound(f), f.upto \in 0..223, f.len \in Nat
  PROVE  Refused(f)
<1> DEFINE S == {n \in Nat : NoMovie(Walk(f)[n])}
<1>1. 0 \in S
  <2>1. NoMovie(Begun(f))
    BY DEF Begun, NoMovie, NotFound
  <2> QED
    BY <2>1, WalkGoesOn
<1>2. ASSUME NEW n \in Nat, n \in S PROVE n + 1 \in S
  BY <1>2, WalkGoesOn, TurnFindsNone
<1> HIDE DEF S
<1>3. 2 * (f.len \div 8) \in S
  <2>1. 2 * (f.len \div 8) \in Nat
    OBVIOUS
  <2> QED
    BY <1>1, <1>2, <2>1, AllNumbers
<1>4. Sought(f).movi = 0
  BY <1>3 DEF S, Sought, NoMovie
<1> QED
  BY <1>4 DEF Refused, Frames

(* What % and \div are.                                                       *)
LEMMA Division ==
  ASSUME NEW w \in Nat \ {0}, NEW x \in Int
  PROVE  \E q \in Int, r \in 0..w-1 : x = w * q + r /\ x % w = r /\ x \div w = q
<1>1. x = w * (x \div w) + (x % w) /\ x % w \in 0..w-1 /\ x \div w \in Int
  OBVIOUS
<1> WITNESS x \div w \in Int, x % w \in 0..w-1
<1> QED
  BY <1>1
(* A number has one quotient and one remainder.                               *)
LEMMA DivUnique ==
  ASSUME NEW w \in Nat \ {0}, NEW q \in Int, NEW r \in 0..w-1, NEW q2 \in Int, NEW r2 \in 0..w-1,
         w * q + r = w * q2 + r2
  PROVE  q = q2 /\ r = r2
<1>1. w * (q - q2) = r2 - r
  OBVIOUS
<1>2. CASE q > q2
  <2>1. w * (q - q2) >= w
    <3>1. q - q2 - 1 \in Nat
      BY <1>2
    <3>2. w * (q - q2 - 1) >= 0
      BY <3>1
    <3> QED
      BY <3>2
  <2> QED
    BY <2>1, <1>1
<1>3. CASE q < q2
  <2>1. w * (q2 - q) >= w
    <3>1. q2 - q - 1 \in Nat
      BY <1>3
    <3>2. w * (q2 - q - 1) >= 0
      BY <3>1
    <3> QED
      BY <3>2
  <2> QED
    BY <2>1, <1>1
<1>4. CASE q = q2
  BY <1>1, <1>4
<1> QED
  BY <1>2, <1>3, <1>4
(* A sum may wrap at every step or once.                                      *)
LEMMA ModOfSum ==
  ASSUME NEW w \in Nat \ {0}, NEW x \in Nat, NEW y \in Nat
  PROVE  ((x % w) + y) % w = (x + y) % w
<1>0. x \in Int
  OBVIOUS
<1>1. PICK q \in Int, r \in 0..w - 1 : x = w * q + r /\ x % w = r
  BY <1>0, Division
<1>2. r + y \in Int /\ x + y \in Int
  BY <1>1
<1>3. PICK q1 \in Int, r1 \in 0..w - 1 : r + y = w * q1 + r1 /\ (r + y) % w = r1
  BY <1>2, Division
<1>4. PICK q2 \in Int, r2 \in 0..w - 1 : x + y = w * q2 + r2 /\ (x + y) % w = r2
  BY <1>2, Division
<1>5. w * (q + q1) + r1 = w * q2 + r2 /\ q + q1 \in Int
  BY <1>1, <1>3, <1>4
<1>6. r1 = r2
  BY <1>5, DivUnique
<1> QED
  BY <1>1, <1>3, <1>4, <1>6

(* A product is monotone.                                                     *)
LEMMA Products ==
  ASSUME NEW a \in Nat, NEW x \in Int, NEW y \in Int, x <= y
  PROVE  a * x <= a * y /\ a * x \in Int /\ a * y \in Int
<1>1. y - x \in Nat
  OBVIOUS
<1>2. a * (y - x) >= 0
  BY <1>1
<1> QED
  BY <1>2

(* A slack that holds for n frames holds for the first j in proportion.       *)
LEMMA Shares ==
  ASSUME NEW n \in Nat, NEW j \in Nat, j <= n, NEW m \in Nat, NEW d \in Int, n * d <= m + n
  PROVE  j * d <= m + j
<1>1. CASE d <= 1
  <2>1. j * d <= j * 1
    BY <1>1, Products
  <2> QED
    BY <2>1
<1>2. CASE d > 1
  <2>1. (d - 1) * j <= (d - 1) * n
    <3>1. d - 1 \in Nat
      BY <1>2
    <3> QED
      BY <3>1, Products
  <2>2. (d - 1) * n = n * d - n /\ (d - 1) * j = j * d - j
    OBVIOUS
  <2>3. n * d \in Int /\ j * d \in Int
    OBVIOUS
  <2> QED
    BY <2>1, <2>2, <2>3
<1> QED
  BY <1>1, <1>2

(* From the slack of a frame's time to that of the whole recording's.         *)
LEMMA Sums ==
  ASSUME NEW g \in Nat, NEW j \in Nat, NEW m \in Nat, NEW u \in Int, NEW v \in Int, NEW span \in Int,
         NEW r \in 0..m - 1, NEW a \in Int, j * v = m * a + r,
         j * (v - u) <= m + j, j * (u - v) <= m + j, g * u - span <= g, span - g * u <= g
  PROVE  /\ a * m * g - j * span <= (2 * m + 2 * (j + 1)) * g
         /\ - (a * m * g - j * span) <= (2 * m + 2 * (j + 1)) * g
<1> DEFINE x == j * (v - u)
           y == g * u - span
<1>1. x \in Int /\ y \in Int
  OBVIOUS
<1>2. a * m * g - j * span = g * x + j * y - g * r
  <2>1. a * m * g = (j * v - r) * g
    <3>1. a * m = j * v - r
      OBVIOUS
    <3> QED
      BY <3>1
  <2>2. (j * v - r) * g = g * (j * v) - g * r
    OBVIOUS
  <2>3. g * x = g * (j * v) - g * (j * u)
    OBVIOUS
  <2>4. j * y = j * (g * u) - j * span
    OBVIOUS
  <2>5. g * (j * u) = j * (g * u)
    OBVIOUS
  <2> QED
    BY <2>1, <2>2, <2>3, <2>4, <2>5
<1>3. x <= m + j /\ - x <= m + j /\ y <= g /\ - y <= g
  OBVIOUS
<1> HIDE DEF x, y
<1>4. g * x <= g * (m + j) /\ g * (- x) <= g * (m + j)
  BY <1>1, <1>3, Products
<1>5. j * y <= j * g /\ j * (- y) <= j * g
  BY <1>1, <1>3, Products
<1>6. g * r <= g * m /\ g * r >= 0
  BY Products
<1>7. g * (- x) = - (g * x) /\ j * (- y) = - (j * y)
  BY <1>1
<1>8. (2 * m + 2 * (j + 1)) * g = g * (m + j) + j * g + g * m + 2 * g
  OBVIOUS
<1>9. g * x \in Int /\ j * y \in Int /\ g * r \in Int /\ g * (m + j) \in Int /\ j * g \in Int /\ g * m \in Nat
  BY <1>1
<1> QED
  BY <1>2, <1>4, <1>5, <1>6, <1>7, <1>8, <1>9

(* A positive factor may be left out of a comparison.                         *)
LEMMA Cancels ==
  ASSUME NEW k \in Nat \ {0}, NEW x \in Int, NEW y \in Int
  PROVE  /\ k * x <= k * y => x <= y
         /\ k * x < k * y => x < y
<1>1. CASE x > y
  <2>1. k * (y + 1) <= k * x
    BY <1>1, Products
  <2>2. k * (y + 1) = k * y + k /\ k * y \in Int /\ k * x \in Int
    OBVIOUS
  <2> QED
    BY <2>1, <2>2
<1>2. CASE x = y
  <2>1. k * y \in Int
    OBVIOUS
  <2> QED
    BY <1>2, <2>1
<1>3. CASE x < y
  BY <1>3
<1> QED
  BY <1>1, <1>2, <1>3

(* A quotient is the last one below.                                          *)
LEMMA Between ==
  ASSUME NEW w \in Nat \ {0}, NEW x \in Int
  PROVE  /\ x \div w \in Int /\ w * (x \div w) <= x /\ x < w * (x \div w) + w
         /\ x >= 0 => x \div w >= 0
<1>1. PICK q \in Int, r \in 0..w - 1 : x = w * q + r /\ x \div w = q
  BY Division
<1>2. w * q \in Int /\ w * q <= x /\ x < w * q + w
  BY <1>1
<1>3. ASSUME x >= 0, q < 0 PROVE FALSE
  <2>1. w * q <= w * (- 1)
    BY <1>3, Products
  <2> QED
    BY <1>2, <1>3, <2>1
<1> QED
  BY <1>1, <1>2, <1>3

(* The rate that the header states, as scale over rate, is the mean gap but *)
(* for a millisecond a file and a microsecond.                              *)
LEMMA Stated ==
  ASSUME NEW n \in Nat \ {0}, NEW u \in Nat, NEW m \in Nat \ {0}, NEW k \in Nat \ {0},
         NEW d \in Int, d = (n * u) \div m, NEW scale \in Int, scale = IF d = 0 THEN 1 ELSE d,
         NEW v, v = (scale * m * k) \div (n * k)
  PROVE  /\ v \in Nat /\ n * (v - u) <= m /\ n * (u - v) <= m + n
         /\ v <= u \/ v <= m
<1>1. n * k \in Nat \ {0} /\ scale * m * k \in Int
  <2>1. n * k >= 1
    <3>1. n * 1 <= n * k
      BY Products
    <3> QED
      BY <3>1
  <2> QED
    BY <2>1
<1>2. v \in Int /\ (n * k) * v <= scale * m * k /\ scale * m * k < (n * k) * v + n * k
  BY <1>1, Between
<1>3. n * v <= scale * m /\ scale * m < n * v + n
  <2>1. n * v \in Int /\ scale * m \in Int /\ n * v + n \in Int
    BY <1>2
  <2>2. (n * k) * v = k * (n * v) /\ scale * m * k = k * (scale * m) /\ (n * k) * v + n * k = k * (n * v + n)
    BY <1>2
  <2> QED
    BY <1>2, <2>1, <2>2, Cancels
<1>4. n * u \in Nat /\ m * d <= n * u /\ n * u < m * d + m /\ d >= 0
  <2>1. n * u \in Nat
    OBVIOUS
  <2> QED
    BY <2>1, Between
<1>5. scale >= 1 /\ scale * m >= 0
  <2>1. scale >= 1
    BY <1>4
  <2>2. m * 0 <= m * scale
    BY <2>1, Products
  <2> QED
    BY <2>1, <2>2
<1>6. n * v \in Int /\ scale * m \in Int /\ m * d \in Int
  BY <1>2
<1>7. v >= 0
  <2>1. n * (- 1) < n * v
    BY <1>3, <1>5, <1>6
  <2>2. - 1 < v
    BY <1>2, <2>1, Cancels
  <2> QED
    BY <1>2, <2>2
<1>8. n * (v - u) = n * v - n * u /\ n * (u - v) = n * u - n * v
  BY <1>2
<1>9. CASE d = 0
  <2>1. scale * m = m /\ m * d = 0
    BY <1>9
  <2>2. n * v <= m /\ n * u < m
    BY <1>3, <1>4, <2>1
  <2>3. v <= m
    <3>1. 1 * v <= n * v
      <4>1. v * 1 <= v * n
        BY <1>2, <1>7, Products
      <4> QED
        BY <1>2, <4>1
    <3> QED
      BY <1>2, <1>6, <2>2, <3>1
  <2>4. n * v >= 0
    <3>1. n * 0 <= n * v
      BY <1>2, <1>7, Products
    <3> QED
      BY <3>1
  <2> QED
    BY <1>2, <1>4, <1>6, <1>7, <1>8, <2>2, <2>3, <2>4
<1>10. CASE d # 0
  <2>1. scale * m = m * d
    BY <1>10
  <2>2. n * v <= n * u /\ n * u < n * v + n + m
    BY <1>3, <1>4, <1>6, <2>1
  <2>3. v <= u
    BY <1>2, <2>2, Cancels
  <2> QED
    BY <1>2, <1>4, <1>6, <1>7, <1>8, <2>2, <2>3
<1> QED
  BY <1>9, <1>10

(* The mean gap, rounded.                                                   *)
LEMMA Rounded ==
  ASSUME NEW g \in Nat \ {0}, NEW span \in Nat \ {0}, NEW u,
         u = IF span \div g = 0 THEN 1 ELSE span \div g,
         NEW most \in Nat \ {0}, span <= most * g
  PROVE  u \in Nat \ {0} /\ u <= most /\ g * u - span <= g /\ span - g * u <= g
<1> DEFINE q == span \div g
<1>1. q \in Nat /\ g * q <= span /\ span < g * q + g
  BY Between
<1> HIDE DEF q
<1>2. g * q \in Nat
  BY <1>1
<1>3. CASE q = 0
  <2>1. u = 1 /\ g * q = 0
    BY <1>3 DEF q
  <2> QED
    BY <1>1, <2>1
<1>4. CASE q # 0
  <2>1. u = q
    BY <1>4 DEF q
  <2>2. g * q <= g * most
    BY <1>1, <1>2
  <2>3. q <= most
    BY <1>1, <2>2, Cancels
  <2> QED
    BY <1>1, <1>2, <1>4, <2>1, <2>3
<1> QED
  BY <1>3, <1>4

(* A remainder is a number.                                                   *)
LEMMA Remainders == ASSUME NEW w \in Nat \ {0}, NEW x \in Int PROVE x % w \in Nat
BY Division

(* What the proofs use of the constants.                                      *)
LEMMA AviConstants ==
  /\ Wrap \in Nat \ {0} /\ Wrap > 224 /\ HeaderBytes = 224
  /\ Kilo \in Nat \ {0} /\ Milli \in Nat \ {0} /\ Default \in Nat \ {0}
  /\ MaxFrames \in Nat /\ MinFrames \in Nat \ {0}
  /\ \A n \in Marks : n \in 0..223
  /\ Lengths \subseteq Nat /\ Gaps \subseteq Nat /\ Missing \subseteq Nat /\ Junk \subseteq Nat
BY AviAssumption DEF HeaderBytes

(* The writer's types, and what they rest on: nobody watches what is not    *)
(* finished, so that time is the writer's own until then.                   *)
WriterInv ==
  /\ WriterTypeOK
  /\ rec = "open" => now \in Nat
  /\ viewer # "none" => rec = "done"
  /\ rec \in {"open", "closing"} => file.len >= HeaderBytes /\ ~ cut
  /\ Sound(file)
  /\ rec # "done" => file.upto \in 0..223
  /\ rec = "done" => file.head = Header

(* A file has its fields.                                                     *)
LEMMA FilesAre ==
  ASSUME NEW f, f \in Files
  PROVE  /\ f.len \in Nat /\ f.upto \in 0..HeaderBytes /\ f.chunks \subseteq Chunks /\ f.head \in Heads
         /\ f.junk \in Nat /\ f.entries \in Seq([off : Nat, len : Nat])
         /\ f = [len |-> f.len, upto |-> f.upto, chunks |-> f.chunks, head |-> f.head,
                 junk |-> f.junk, entries |-> f.entries]
BY DEF Files

(* The elements of a sequence.                                                *)
LEMMA Elements ==
  ASSUME NEW S, NEW s \in Seq(S)
  PROVE  Len(s) \in Nat /\ DOMAIN s = 1..Len(s) /\ \A i \in DOMAIN s : s[i] \in S
OBVIOUS

(* A sequence with one more element.                                          *)
LEMMA Appended ==
  ASSUME NEW S, NEW s \in Seq(S), NEW m \in S
  PROVE  /\ Append(s, m) \in Seq(S) /\ Len(Append(s, m)) = Len(s) + 1
         /\ DOMAIN Append(s, m) = 1..Len(s) + 1
         /\ Append(s, m)[Len(s) + 1] = m
         /\ \A i \in 1..Len(s) : Append(s, m)[i] = s[i]
OBVIOUS

(* The frames written are records.                                            *)
LEMMA FramesAre ==
  ASSUME WriterTypeOK
  PROVE  /\ Len(made) \in Nat /\ DOMAIN made = 1..Len(made)
         /\ \A i \in DOMAIN made : /\ made[i] = [off |-> made[i].off, len |-> made[i].len, at |-> made[i].at]
                                  /\ made[i].off \in Nat /\ made[i].len \in Nat /\ made[i].at \in Nat
<1>1. made \in Seq([off : Nat, len : Nat, at : Nat])
  BY DEF WriterTypeOK
<1>2. /\ Len(made) \in Nat /\ DOMAIN made = 1..Len(made)
      /\ \A i \in DOMAIN made : made[i] \in [off : Nat, len : Nat, at : Nat]
  BY <1>1, Elements
<1> QED
  BY <1>2

(* The mean gap is a number.                                                  *)
LEMMA GapsAreNumbers ==
  ASSUME WriterTypeOK
  PROVE  UsPerFrame \in Int
<1>1. CASE Len(made) < 2
  BY <1>1, AviConstants DEF UsPerFrame
<1>2. CASE ~(Len(made) < 2)
  <2> DEFINE span == made[Len(made)].at - made[1].at
             gaps == Len(made) - 1
  <2>0. Len(made) \in Nat /\ DOMAIN made = 1..Len(made)
    BY FramesAre
  <2>1. Len(made) \in DOMAIN made /\ 1 \in DOMAIN made /\ gaps \in Nat \ {0}
    BY <1>2, <2>0
  <2>2. span \in Int
    BY <2>1, FramesAre
  <2> HIDE DEF span, gaps
  <2>3. span \div gaps \in Int
    BY <2>1, <2>2, Division
  <2>4. UsPerFrame = IF span = 0 THEN Default ELSE IF span \div gaps = 0 THEN 1 ELSE span \div gaps
    BY <1>2 DEF UsPerFrame, span, gaps
  <2> QED
    BY <2>3, <2>4, AviConstants
<1> QED
  BY <1>1, <1>2

(* The bytes of the frames are a number.                                      *)
LEMMA BytesAreNumbers ==
  ASSUME WriterTypeOK
  PROVE  Bytes(made) \in Int
<1>1. CASE made = <<>>
  BY <1>1 DEF Bytes
<1>2. CASE made # <<>>
  <2>1. Len(made) \in DOMAIN made
    BY <1>2, FramesAre DEF WriterTypeOK
  <2> DEFINE last == made[Len(made)]
  <2>2. last.off \in Nat /\ last.len \in Nat
    BY <2>1, FramesAre
  <2>3. last.len % 2 \in Int
    BY <2>2
  <2>4. Bytes(made) = (last.off + last.len + (last.len % 2)) - 224
    BY <1>2, AviConstants DEF Bytes
  <2> HIDE DEF last
  <2> QED
    BY <2>2, <2>3, <2>4
<1> QED
  BY <1>1, <1>2

(* What writeHeader fills in has its type.                                    *)
LEMMA HeaderTyped ==
  ASSUME WriterTypeOK
  PROVE  Header \in Heads
<1> DEFINE frames == Len(made)
           durMs == (frames * UsPerFrame) \div Milli
           movieBytes == Bytes(made) % Wrap
           movieList == (4 + movieBytes) % Wrap
           riff == (4 + 200 + 8 + movieList + 8 + 16 * frames) % Wrap
<1>1. frames \in Nat
  BY DEF WriterTypeOK
<1>2. durMs \in Int
  <2>1. frames * UsPerFrame \in Int
    BY <1>1, GapsAreNumbers
  <2> QED
    BY <2>1, Division, AviConstants
<1>3. movieBytes \in Nat
  BY BytesAreNumbers, Remainders, AviConstants
<1>4. movieList \in Nat
  <2>1. 4 + movieBytes \in Int
    BY <1>3
  <2> QED
    BY <2>1, Remainders, AviConstants
<1>5. riff \in Nat
  <2>1. 4 + 200 + 8 + movieList + 8 + 16 * frames \in Int
    BY <1>1, <1>4
  <2> QED
    BY <2>1, Remainders, AviConstants
<1>6. Header = [chunks |-> {Chunk(0, "RIFF", riff, "AVI "),
                  Chunk(12, "LIST", 192, "hdrl"), Chunk(24, "avih", 56, ""),
                  Chunk(88, "LIST", 116, "strl"), Chunk(100, "strh", 56, "vids"),
                  Chunk(164, "strf", 40, ""), Chunk(212, "LIST", movieList, "movi")},
                us |-> UsPerFrame, scale |-> IF durMs = 0 THEN 1 ELSE durMs, rate |-> frames * Kilo]
  BY DEF Header
<1> HIDE DEF frames, durMs, movieBytes, movieList, riff
<1>7. {Chunk(0, "RIFF", riff, "AVI "),
       Chunk(12, "LIST", 192, "hdrl"), Chunk(24, "avih", 56, ""),
       Chunk(88, "LIST", 116, "strl"), Chunk(100, "strh", 56, "vids"),
       Chunk(164, "strf", 40, ""), Chunk(212, "LIST", movieList, "movi")} \in SUBSET Chunks
  <2>1. /\ Chunk(0, "RIFF", riff, "AVI ") \in Chunks
        /\ Chunk(12, "LIST", 192, "hdrl") \in Chunks
        /\ Chunk(24, "avih", 56, "") \in Chunks
        /\ Chunk(88, "LIST", 116, "strl") \in Chunks
        /\ Chunk(100, "strh", 56, "vids") \in Chunks
        /\ Chunk(164, "strf", 40, "") \in Chunks
        /\ Chunk(212, "LIST", movieList, "movi") \in Chunks
    BY <1>4, <1>5 DEF Chunk, Chunks, Ids, Kinds
  <2> QED
    BY <2>1, ZenonT(40)
<1>8. frames * Kilo \in Int /\ (IF durMs = 0 THEN 1 ELSE durMs) \in Int
  BY <1>1, <1>2, AviConstants
<1> QED
  BY <1>6, <1>7, <1>8, GapsAreNumbers DEF Heads

(* Each frame's chunk follows the one before it, and the file ends with the *)
(* last; so the index states the offset of every frame, as it wraps.        *)
Laid == \A i \in DOMAIN made :
          made[i].off = IF i = 1 THEN HeaderBytes + 8 ELSE made[i - 1].off + Padded(made[i - 1].len)
Filled == rec = "open" => file.len = HeaderBytes + Bytes(made)

(* An index entry says where its frame is, from the tag of the movie list: the running *)
(* offset of Writer.Close is the place WriteFrame wrote at, modulo 2^32.      *)
LEMMA Entries ==
  ASSUME WriterTypeOK, Laid, NEW i \in DOMAIN made
  PROVE  Entry(i) = [off |-> (made[i].off - 228) % Wrap, len |-> made[i].len]
<1> DEFINE to == [j \in 1..i |-> (made[j].off - 228) % Wrap]
           IsOff(g) == g = [j \in 1..i |-> IF j = 1 THEN 4
                                           ELSE (g[j - 1] + Padded(made[j - 1].len)) % Wrap]
<1>0. /\ Len(made) \in Nat /\ DOMAIN made = 1..Len(made) /\ i \in Nat /\ i >= 1
      /\ \A j \in 1..i : j \in DOMAIN made
  BY FramesAre
<1>9. made[1].off = 232
  <2>1. 1 \in DOMAIN made
    BY <1>0
  <2>2. made[1].off = HeaderBytes + 8
    BY <2>1 DEF Laid
  <2> QED
    BY <2>2, AviConstants
<1>1. ASSUME NEW j \in 1..i PROVE /\ made[j].off \in Nat /\ made[j].len \in Nat
                                 /\ Padded(made[j].len) \in Nat
  <2>1. made[j].off \in Nat /\ made[j].len \in Nat
    BY <1>0, FramesAre
  <2>2. made[j].len % 2 \in Nat
    BY <2>1, Remainders
  <2> QED
    BY <2>1, <2>2 DEF Padded
<1>2. \A j \in 1..i : made[j].off >= 232
  <2> DEFINE S == {n \in Nat : n + 1 \in 1..i => made[n + 1].off >= 232}
  <2>1. 0 \in S
    BY <1>9
  <2>2. ASSUME NEW n \in Nat, n \in S PROVE n + 1 \in S
    <3> SUFFICES ASSUME n + 2 \in 1..i PROVE made[n + 2].off >= 232
      OBVIOUS
    <3>1. n + 1 \in 1..i /\ made[n + 1].off >= 232
      BY <1>0, <2>2
    <3>2. n + 2 # 1 /\ (n + 2) - 1 = n + 1 /\ n + 2 \in DOMAIN made
      BY <1>0
    <3>3. made[n + 2].off = made[n + 1].off + Padded(made[n + 1].len)
      BY <3>2 DEF Laid
    <3> QED
      BY <1>1, <3>1, <3>3
  <2> HIDE DEF S
  <2>3. Nat \subseteq S
    BY <2>1, <2>2, AllNumbers
  <2>4. ASSUME NEW j \in 1..i PROVE made[j].off >= 232
    <3>1. j - 1 \in S /\ (j - 1) + 1 = j
      BY <2>3
    <3> QED
      BY <3>1 DEF S
  <2> QED
    BY <2>4
<1>3. ASSUME NEW j \in 1..i PROVE to[j] = IF j = 1 THEN 4 ELSE (to[j - 1] + Padded(made[j - 1].len)) % Wrap
  <2>1. CASE j = 1
    <3>1. made[1].off - 228 = 4
      BY <1>9
    <3>2. 4 % Wrap = 4
      <4>1. Wrap * 0 + 4 = 4 /\ 4 \in 0..Wrap - 1 /\ 4 \in Int
        BY AviConstants
      <4>2. PICK q \in Int, r \in 0..Wrap - 1 : 4 = Wrap * q + r /\ 4 % Wrap = r
        BY <4>1, AviConstants, Division, ZenonT(40)
      <4>3. Wrap * 0 + 4 = Wrap * q + r
        BY <4>1, <4>2
      <4> QED
        BY <4>1, <4>2, <4>3, AviConstants, DivUnique
    <3> QED
      BY <2>1, <3>1, <3>2
  <2>2. CASE j # 1
    <3> DEFINE x == made[j - 1].off - 228
               y == Padded(made[j - 1].len)
    <3>1. j - 1 \in 1..i /\ j \in DOMAIN made
      BY <1>0, <2>2
    <3>2. x \in Nat /\ y \in Nat
      BY <1>1, <1>2, <3>1
    <3>3. made[j].off - 228 = x + y
      BY <1>1, <2>2, <3>1, SMTT(30) DEF Laid
    <3> HIDE DEF x, y
    <3>4. ((x % Wrap) + y) % Wrap = (x + y) % Wrap
      BY <3>2, AviConstants, ModOfSum
    <3>5. to[j - 1] = x % Wrap
      BY <3>1 DEF x
    <3> QED
      BY <2>2, <3>3, <3>4, <3>5, ZenonT(40) DEF y
  <2> QED
    BY <2>1, <2>2
<1>4. IsOff(to)
  BY <1>3
<1> HIDE DEF to
<1>5. ASSUME NEW g, IsOff(g) PROVE g[i] = to[i]
  <2> DEFINE S == {n \in Nat : n + 1 \in 1..i => g[n + 1] = to[n + 1]}
  <2>1. 0 \in S
    BY <1>4, <1>5
  <2>2. ASSUME NEW n \in Nat, n \in S PROVE n + 1 \in S
    <3> SUFFICES ASSUME n + 2 \in 1..i PROVE g[n + 2] = to[n + 2]
      OBVIOUS
    <3>1. n + 1 \in 1..i /\ g[n + 1] = to[n + 1] /\ n + 2 # 1 /\ (n + 2) - 1 = n + 1
      BY <1>0, <2>2
    <3>2. /\ g[n + 2] = (g[n + 1] + Padded(made[n + 1].len)) % Wrap
          /\ to[n + 2] = (to[n + 1] + Padded(made[n + 1].len)) % Wrap
      BY <1>4, <1>5, <3>1
    <3> QED
      BY <3>1, <3>2
  <2> HIDE DEF S
  <2>3. i - 1 \in S /\ (i - 1) + 1 = i
    BY <1>0, <2>1, <2>2, AllNumbers
  <2> QED
    BY <1>0, <2>3 DEF S
<1> DEFINE off == CHOOSE g : IsOff(g)
<1>6. IsOff(off)
  BY <1>4
<1>7. Entry(i) = [off |-> off[i], len |-> made[i].len]
  BY DEF Entry
<1> HIDE DEF off, IsOff
<1>8. off[i] = to[i]
  BY <1>5, <1>6
<1> QED
  BY <1>0, <1>7, <1>8 DEF to

WriterInductive == WriterInv /\ Laid /\ Filled

(* The frames end where the last of them does.                                *)
LEMMA Ends ==
  ASSUME NEW frames \in Seq([off : Nat, len : Nat, at : Nat])
  PROVE  /\ frames = <<>> => Bytes(frames) = 0
         /\ frames # <<>> => 224 + Bytes(frames) = frames[Len(frames)].off + Padded(frames[Len(frames)].len) - 8
<1>1. CASE frames = <<>>
  BY <1>1 DEF Bytes
<1>2. CASE frames # <<>>
  <2>1. Len(frames) \in Nat /\ Len(frames) # 0 /\ DOMAIN frames = 1..Len(frames)
    BY <1>2
  <2> DEFINE last == frames[Len(frames)]
  <2>2. last \in [off : Nat, len : Nat, at : Nat]
    <3>1. Len(frames) \in DOMAIN frames
      BY <2>1
    <3> QED
      BY <3>1, Elements
  <2>3. last.off \in Nat /\ last.len \in Nat
    BY <2>2
  <2>4. last.len % 2 \in Int
    BY <2>3
  <2>5. Bytes(frames) = (last.off + last.len + (last.len % 2)) - 224
    BY <1>2, AviConstants DEF Bytes
  <2>6. Padded(last.len) = 8 + last.len + (last.len % 2)
    BY DEF Padded
  <2> HIDE DEF last
  <2>7. 224 + Bytes(frames) = last.off + Padded(last.len) - 8
    BY <2>3, <2>4, <2>5, <2>6, SMTT(30)
  <2> QED
    BY <1>2, <2>7 DEF last
<1> QED
  BY <1>1, <1>2

(* The header's only movie list is at its place.                              *)
LEMMA HeaderSound == \A c \in Header.chunks : c.kind = "movi" => c.at = 212
<1>1. PICK riff, list : Header.chunks = {Chunk(0, "RIFF", riff, "AVI "),
                  Chunk(12, "LIST", 192, "hdrl"), Chunk(24, "avih", 56, ""),
                  Chunk(88, "LIST", 116, "strl"), Chunk(100, "strh", 56, "vids"),
                  Chunk(164, "strf", 40, ""), Chunk(212, "LIST", list, "movi")}
  BY ZenonT(40) DEF Header
<1> SUFFICES ASSUME NEW c \in Header.chunks, c.kind = "movi" PROVE c.at = 212
  OBVIOUS
<1>2. \/ c = Chunk(0, "RIFF", riff, "AVI ") \/ c = Chunk(12, "LIST", 192, "hdrl")
      \/ c = Chunk(24, "avih", 56, "") \/ c = Chunk(88, "LIST", 116, "strl")
      \/ c = Chunk(100, "strh", 56, "vids") \/ c = Chunk(164, "strf", 40, "")
      \/ c = Chunk(212, "LIST", list, "movi")
  BY <1>1
<1>3. Chunk(0, "RIFF", riff, "AVI ").kind # "movi" /\ Chunk(12, "LIST", 192, "hdrl").kind # "movi"
  BY DEF Chunk
<1>4. Chunk(24, "avih", 56, "").kind # "movi" /\ Chunk(88, "LIST", 116, "strl").kind # "movi"
  BY DEF Chunk
<1>5. Chunk(100, "strh", 56, "vids").kind # "movi" /\ Chunk(164, "strf", 40, "").kind # "movi"
  BY DEF Chunk
<1>6. Chunk(212, "LIST", list, "movi").at = 212
  BY DEF Chunk
<1> QED
  BY <1>2, <1>3, <1>4, <1>5, <1>6, ZenonT(40)

(* What is filled in of a header is in a file of the same kind.             *)
LEMMA HeadedTyped ==
  ASSUME WriterInv, rec = "closing", NEW n \in 0..HeaderBytes, Headed(n), UNCHANGED <<made, cut>>
  PROVE  file' \in Files /\ file'.upto = n /\ n <= file'.len /\ Sound(file') /\ file'.head = Header
<1>1. file \in Files /\ file.len >= HeaderBytes /\ Sound(file)
  BY DEF WriterInv, WriterTypeOK
<1>2. Header \in Heads
  BY HeaderTyped DEF WriterInv
<1>3. file' = [file EXCEPT !.head = Header, !.upto = n]
  BY DEF Headed
<1>4. /\ file' \in Files /\ file'.head = Header /\ file'.upto = n
      /\ file'.len = file.len /\ file'.chunks = file.chunks
  <2> DEFINE g == file'
             h == Header
  <2>1. g = [file EXCEPT !.head = h, !.upto = n] /\ file \in Files /\ h \in Heads /\ n \in 0..HeaderBytes
    BY <1>1, <1>2, <1>3
  <2> HIDE DEF g, h
  <2>2. g \in Files /\ g.head = h /\ g.upto = n /\ g.len = file.len /\ g.chunks = file.chunks
    BY <2>1 DEF Files
  <2> QED
    BY <2>2 DEF g, h
<1>6. file'.upto = n /\ n <= file'.len
  <2>1. file.len \in Nat
    BY <1>1, FilesAre
  <2> QED
    BY <1>1, <1>4, <2>1, AviConstants
<1>5. Sound(file')
  BY <1>1, <1>4, HeaderSound DEF Sound
<1> QED
  BY <1>4, <1>5, <1>6

(* NewWriter.                                                                 *)
LEMMA WriterInit == AviInit => WriterInductive
<1> SUFFICES ASSUME AviInit PROVE WriterInductive
  OBVIOUS
<1>1. PICK junk \in Junk : file = [len |-> HeaderBytes, upto |-> 0, chunks |-> {}, entries |-> <<>>,
                                   head |-> Zeroes, junk |-> junk]
  BY DEF AviInit
<1>2. Zeroes \in Heads /\ junk \in Nat
  BY AviConstants DEF Zeroes, Heads
<1>3. file \in Files
  BY <1>1, <1>2, AviConstants DEF Files
<1>4. file.upto = 0 /\ file.len = 224 /\ Sound(file)
  BY <1>1, AviConstants DEF Sound, Zeroes
<1>5. made = <<>> /\ rec = "open" /\ now = 0 /\ cut = FALSE /\ viewer = "none"
  BY DEF AviInit
<1>6. WriterTypeOK
  <2>1. made \in Seq([off : Nat, len : Nat, at : Nat])
    BY <1>5
  <2>2. file.upto <= file.len
    BY <1>4
  <2>3. cut \in BOOLEAN
    BY <1>5
  <2> QED
    BY <1>3, <1>5, <2>1, <2>2, <2>3 DEF WriterTypeOK
<1>7. Laid
  BY <1>5 DEF Laid
<1>8. Filled
  BY <1>4, <1>5, AviConstants DEF Filled, Bytes
<1> QED
  BY <1>4, <1>5, <1>6, <1>7, <1>8, AviConstants DEF WriterInductive, WriterInv

(* What the other lemmas use of the writer's invariant.                       *)
LEMMA WriterFacts ==
  ASSUME WriterInductive
  PROVE  /\ made \in Seq([off : Nat, len : Nat, at : Nat]) /\ Len(made) \in Nat /\ DOMAIN made = 1..Len(made)
         /\ file \in Files /\ file.len \in Nat /\ file.upto <= file.len /\ file.upto \in 0..224
         /\ file.chunks \in SUBSET Chunks
         /\ cut \in BOOLEAN /\ rec \in {"open", "closing", "done", "crashed", "lost"}
         /\ WriterTypeOK /\ Laid /\ Filled /\ Sound(file)
<1>1. WriterTypeOK /\ Laid /\ Filled /\ Sound(file)
  BY DEF WriterInductive, WriterInv
<1>2. /\ file \in Files /\ file.upto <= file.len /\ cut \in BOOLEAN
      /\ rec \in {"open", "closing", "done", "crashed", "lost"}
      /\ made \in Seq([off : Nat, len : Nat, at : Nat])
  BY <1>1 DEF WriterTypeOK
<1>3. file.len \in Nat /\ file.upto \in 0..224 /\ file.chunks \in SUBSET Chunks
  BY <1>2, FilesAre, AviConstants
<1>4. Len(made) \in Nat /\ DOMAIN made = 1..Len(made)
  BY <1>1, FramesAre
<1> QED
  BY <1>1, <1>2, <1>3, <1>4

(* The numbers among them.                                                    *)
LEMMA WriterNumbers ==
  ASSUME WriterInductive
  PROVE  /\ file.len \in Nat /\ file.upto \in Nat /\ file.upto <= file.len
         /\ Len(made) \in Nat /\ DOMAIN made = 1..Len(made)
<1>1. WriterTypeOK
  BY DEF WriterInductive, WriterInv
<1>2. file \in Files /\ file.upto <= file.len
  BY <1>1 DEF WriterTypeOK
<1>3. file.len \in Nat /\ file.upto \in 0..224
  BY <1>2, FilesAre, AviConstants
<1>4. file.upto \in Nat
  BY <1>3
<1> QED
  BY <1>1, <1>2, <1>3, <1>4, FramesAre

(* While a recording is open nobody watches it and it is as long as its frames. *)
LEMMA OpenFacts ==
  ASSUME WriterInductive, rec = "open"
  PROVE  /\ now \in Nat /\ viewer = "none" /\ file.len >= 224 /\ ~ cut /\ file.upto \in 0..223
         /\ file.len = 224 + Bytes(made)
BY AviConstants DEF WriterInductive, WriterInv, Filled

(* WriteFrame keeps the invariant.                                            *)
LEMMA WriteFrameKept ==
  ASSUME WriterInductive, NEW n \in Lengths, WriteFrame(n)
  PROVE  WriterInductive'
<1>0. file.len \in Nat /\ file.upto \in Nat /\ file.upto <= file.len /\ Len(made) \in Nat /\ DOMAIN made = 1..Len(made)
  BY WriterNumbers
<1>1. PICK gap \in Gaps : now' = now + gap
  BY DEF WriteFrame, Arrives
<1>2. rec = "open" /\ n \in Nat /\ n > 0 /\ n % 2 \in Nat
  <2>1. n \in Nat
    BY AviConstants
  <2> QED
    BY <2>1, Remainders DEF WriteFrame, Arrives
<1>3. now' \in Nat
  BY <1>1, <1>2, OpenFacts, AviConstants
<1> DEFINE c == Chunk(file.len, "00dc", n, "")
           m == [off |-> file.len + 8, len |-> n, at |-> now']
           cs == file.chunks \cup {c}
           l == file.len + 8 + n + (n % 2)
<1>4. c \in Chunks /\ c.kind = "" /\ c.at \in Nat /\ c.at >= 224
  BY <1>0, <1>2, OpenFacts DEF Chunk, Chunks, Ids, Kinds
<1>5. m \in [off : Nat, len : Nat, at : Nat] /\ m.off = file.len + 8 /\ m.len = n
  BY <1>2, <1>3, WriterFacts
<1>6. made' = Append(made, m) /\ UNCHANGED <<rec, cut, viewer>>
  BY DEF WriteFrame, replay
<1>7. file' = [file EXCEPT !.chunks = cs, !.len = l]
  BY DEF WriteFrame
<1> HIDE DEF c, m
<1>8. cs \in SUBSET Chunks /\ l \in Nat /\ l >= file.len
  <2>1. file.chunks \in SUBSET Chunks
    BY WriterFacts
  <2>2. cs \in SUBSET Chunks
    BY <1>4, <2>1
  <2>3. l \in Nat /\ l >= file.len
    BY <1>0, <1>2
  <2> QED
    BY <2>2, <2>3
<1>9. /\ file' \in Files /\ file'.len = l /\ file'.upto = file.upto
      /\ file'.chunks = cs /\ file'.head = file.head
  <2> HIDE DEF cs, l
  <2> QED
    BY <1>7, <1>8, WriterFacts DEF Files
<1>10. /\ made' \in Seq([off : Nat, len : Nat, at : Nat])
       /\ Len(made') = Len(made) + 1 /\ DOMAIN made' = 1..Len(made) + 1 /\ made'[Len(made) + 1] = m
       /\ \A i \in 1..Len(made) : made'[i] = made[i]
  BY <1>5, <1>6, WriterFacts, Appended
<1>11. WriterTypeOK'
  <2>1. file'.upto <= file'.len
    <3> HIDE DEF l
    <3> QED
      BY <1>0, <1>8, <1>9
  <2> QED
    BY <1>2, <1>6, <1>9, <1>10, <2>1, WriterFacts DEF WriterTypeOK
<1>12. Sound(file')
  BY <1>4, <1>9, WriterFacts, ZenonT(40) DEF Sound
<1>13. WriterInv'
  <2>1. file'.len >= 224 /\ file'.upto \in 0..223
    <3> HIDE DEF l
    <3> QED
      BY <1>2, <1>8, <1>9, OpenFacts, WriterFacts
  <2> QED
    BY <1>2, <1>3, <1>6, <1>11, <1>12, <2>1, OpenFacts, AviConstants DEF WriterInv
<1>14. Laid'
  <2> SUFFICES ASSUME NEW i \in DOMAIN made'
               PROVE  made'[i].off = IF i = 1 THEN HeaderBytes + 8
                                     ELSE made'[i - 1].off + Padded(made'[i - 1].len)
    BY DEF Laid
  <2>1. CASE i <= Len(made)
    <3>3. i \in 1..Len(made) + 1 /\ Len(made) \in Nat
      BY <1>0, <1>10
    <3>1. i \in 1..Len(made) /\ (i # 1 => i - 1 \in 1..Len(made))
      BY <2>1, <3>3
    <3>2. i \in DOMAIN made /\ made'[i] = made[i] /\ (i # 1 => made'[i - 1] = made[i - 1])
      BY <1>0, <1>10, <3>1
    <3> QED
      BY <3>2, WriterFacts DEF Laid
  <2>2. CASE i = Len(made) + 1 /\ i = 1
    <3>1. made = <<>>
      BY <2>2, WriterFacts
    <3>2. file.len = 224
      BY <1>2, <3>1, OpenFacts DEF Bytes
    <3>3. made'[i].off = 224 + 8
      BY <1>5, <1>10, <2>2, <3>2
    <3> QED
      BY <2>2, <3>3, AviConstants
  <2>3. CASE i = Len(made) + 1 /\ i # 1
    <3>1. made # <<>> /\ i - 1 = Len(made) /\ i - 1 \in 1..Len(made)
      BY <2>3, WriterFacts
    <3>2. made'[i - 1] = made[Len(made)] /\ made'[i] = m
      BY <1>10, <2>3, <3>1
    <3>3. file.len = made[Len(made)].off + Padded(made[Len(made)].len) - 8
      BY <1>2, <3>1, OpenFacts, WriterFacts, Ends
    <3>4. made[Len(made)].off \in Nat /\ Padded(made[Len(made)].len) \in Nat
      <4>1. made[Len(made)].off \in Nat /\ made[Len(made)].len \in Nat
        BY <3>1, WriterFacts, FramesAre
      <4>2. made[Len(made)].len % 2 \in Nat
        BY <4>1, Remainders
      <4> QED
        BY <4>1, <4>2 DEF Padded
    <3> QED
      BY <1>5, <2>3, <3>2, <3>3, <3>4
  <2> QED
    BY <1>10, <2>1, <2>2, <2>3, WriterFacts
<1>15. Filled'
  <2>1. made' # <<>> /\ Len(made') = Len(made) + 1
    BY <1>10, WriterFacts
  <2>2. 224 + Bytes(made') = m.off + Padded(m.len) - 8
    <3>1. 224 + Bytes(made') = made'[Len(made')].off + Padded(made'[Len(made')].len) - 8
      BY <1>10, <2>1, Ends DEF Bytes
    <3> QED
      BY <1>10, <2>1, <3>1
  <2>3. 224 + Bytes(made') = file'.len
    <3>1. Padded(m.len) = 8 + n + (n % 2)
      BY <1>5 DEF Padded
    <3>2. m.off + Padded(m.len) - 8 = l
      <4> DEFINE pad == n % 2
      <4>1. pad \in Nat /\ n \in Nat /\ Padded(m.len) = 8 + n + pad
        BY <1>2, <3>1
      <4>2. m.off = file.len + 8 /\ l = file.len + 8 + n + pad
        BY <1>5
      <4> HIDE DEF pad, l
      <4> QED
        BY <1>0, <4>1, <4>2
    <3> QED
      BY <1>9, <2>2, <3>2
  <2> QED
    BY <2>3, AviConstants DEF Filled
<1> QED
  BY <1>11, <1>13, <1>14, <1>15 DEF WriterInductive

(* So does the first half of Close.                                           *)
LEMMA CloseIndexKept ==
  ASSUME WriterInductive, CloseIndex
  PROVE  WriterInductive'
<1>0. file.len \in Nat /\ file.upto \in Nat /\ file.upto <= file.len /\ Len(made) \in Nat /\ DOMAIN made = 1..Len(made)
  BY WriterNumbers
<1>1. rec = "open" /\ rec' = "closing" /\ UNCHANGED <<made, cut, viewer>>
  BY DEF CloseIndex, replay
<1> DEFINE c == Chunk(file.len, "idx1", 16 * Len(made), "")
           e == [i \in DOMAIN made |-> Entry(i)]
           cs == file.chunks \cup {c}
           l == file.len + 8 + 16 * Len(made)
<1>3. c \in Chunks /\ c.kind = "" /\ c.at \in Nat /\ c.at >= 224
  BY <1>0, <1>1, OpenFacts DEF Chunk, Chunks, Ids, Kinds
<1>4. e \in Seq([off : Nat, len : Nat])
  <2>1. ASSUME NEW i \in DOMAIN made PROVE Entry(i) \in [off : Nat, len : Nat]
    <3>1. made[i].off \in Nat /\ made[i].len \in Nat
      BY FramesAre, WriterFacts
    <3>2. (made[i].off - 228) % Wrap \in Nat
      <4>1. made[i].off - 228 \in Int
        BY <3>1
      <4> QED
        BY <4>1, Remainders, AviConstants
    <3>3. Entry(i) = [off |-> (made[i].off - 228) % Wrap, len |-> made[i].len]
      BY WriterFacts, Entries
    <3> QED
      BY <3>1, <3>2, <3>3
  <2> HIDE DEF c
  <2> QED
    BY <2>1, WriterFacts
<1>5. file' = [file EXCEPT !.chunks = cs, !.entries = e, !.len = l]
  BY DEF CloseIndex
<1> HIDE DEF c, e
<1>6. cs \in SUBSET Chunks /\ l \in Nat /\ l >= file.len
  <2>1. file.chunks \in SUBSET Chunks
    BY WriterFacts
  <2>2. cs \in SUBSET Chunks
    BY <1>3, <2>1
  <2>3. l \in Nat /\ l >= file.len
    BY <1>0
  <2> QED
    BY <2>2, <2>3
<1>7. /\ file' \in Files /\ file'.len = l /\ file'.upto = file.upto
      /\ file'.chunks = cs /\ file'.head = file.head
  <2> HIDE DEF cs, l
  <2> QED
    BY <1>4, <1>5, <1>6, WriterFacts DEF Files
<1>8. WriterTypeOK'
  <2>1. file'.upto <= file'.len
    <3> HIDE DEF l
    <3> QED
      BY <1>0, <1>6, <1>7
  <2> QED
    BY <1>1, <1>7, <2>1, WriterFacts DEF WriterTypeOK
<1>9. Sound(file')
  BY <1>3, <1>7, WriterFacts, ZenonT(40) DEF Sound
<1>10. WriterInv'
  <2>1. file'.len >= 224 /\ file'.upto \in 0..223
    <3> HIDE DEF l
    <3> QED
      BY <1>1, <1>6, <1>7, OpenFacts, WriterFacts
  <2> QED
    BY <1>1, <1>8, <1>9, <2>1, OpenFacts, AviConstants DEF WriterInv
<1>11. Laid' /\ Filled'
  BY <1>1, WriterFacts DEF Laid, Filled
<1> QED
  BY <1>10, <1>11 DEF WriterInductive

(* The header is a function of the frames.                                    *)
LEMMA HeaderStays == ASSUME UNCHANGED made PROVE Header' = Header
BY DEF Header, UsPerFrame

(* Where the file and its recording stay, the writer's part does.           *)
LEMMA WriterUntouched ==
  ASSUME WriterInductive, UNCHANGED <<rec, made, file, cut>>,
         rec = "open" => now' \in Nat, viewer' # "none" => rec = "done"
  PROVE  WriterInductive'
<1>1. Header' = Header
  BY HeaderStays
<1> QED
  BY <1>1 DEF WriterInductive, WriterInv, WriterTypeOK, Laid, Filled

(* So does every step.                                                        *)
LEMMA WriterStep ==
  ASSUME WriterInductive, [AviNext]_aviVars
  PROVE  WriterInductive'
<1>1. CASE WriteNothing
  <2>1. PICK gap \in Gaps : now' = now + gap
    BY <1>1 DEF WriteNothing, Arrives
  <2>2. rec = "open" /\ UNCHANGED <<rec, made, file, cut, viewer>>
    BY <1>1 DEF WriteNothing, Arrives, replay
  <2>3. now' \in Nat /\ viewer' = "none"
    BY <2>1, <2>2, OpenFacts, AviConstants
  <2> QED
    BY <2>2, <2>3, WriterUntouched
<1>2. ASSUME NEW n \in Lengths, WriteFrame(n) PROVE WriterInductive'
  BY <1>2, WriteFrameKept
<1>3. CASE Abort
  <2>1. rec \in {"open", "closing"} /\ rec' = "lost" /\ UNCHANGED <<made, file, cut, viewer>>
    BY <1>3 DEF Abort, replay
  <2>2. viewer = "none" /\ file.upto \in 0..223
    BY <2>1 DEF WriterInductive, WriterInv
  <2> QED
    BY <2>1, <2>2 DEF WriterInductive, WriterInv, WriterTypeOK, Laid, Filled
<1>4. CASE CloseIndex
  BY <1>4, CloseIndexKept
<1>5. CASE CloseHeader
  <2>1. rec = "closing" /\ rec' = "done" /\ Headed(HeaderBytes) /\ UNCHANGED <<made, cut, viewer>>
    BY <1>5 DEF CloseHeader, replay
  <2>2. HeaderBytes \in 0..HeaderBytes
    BY AviConstants
  <2>3. file' \in Files /\ file'.upto = HeaderBytes /\ HeaderBytes <= file'.len /\ Sound(file') /\ file'.head = Header
    BY <2>1, <2>2, HeadedTyped DEF WriterInductive
  <2> QED
    BY <2>1, <2>3, HeaderStays DEF WriterInductive, WriterInv, WriterTypeOK, Laid, Filled
<1>6. CASE Crash
  <2>1. CASE rec = "open" /\ UNCHANGED file
    <3>1. rec' = "crashed" /\ UNCHANGED <<made, cut, viewer>> /\ viewer = "none" /\ file.upto \in 0..223
      BY <1>6, <2>1, OpenFacts DEF Crash, replay
    <3> QED
      BY <2>1, <3>1 DEF WriterInductive, WriterInv, WriterTypeOK, Laid, Filled
  <2>2. ASSUME rec = "closing", NEW n \in Marks, Headed(n) PROVE WriterInductive'
    <3>1. rec' = "crashed" /\ UNCHANGED <<made, cut, viewer>> /\ viewer = "none"
      BY <1>6, <2>2 DEF Crash, replay, WriterInductive, WriterInv
    <3>2. n \in 0..HeaderBytes /\ n \in 0..223
      BY AviConstants
    <3>3. file' \in Files /\ file'.upto = n /\ n <= file'.len /\ Sound(file')
      BY <2>2, <3>1, <3>2, HeadedTyped DEF WriterInductive
    <3> QED
      BY <3>1, <3>2, <3>3 DEF WriterInductive, WriterInv, WriterTypeOK, Laid, Filled
  <2> QED
    BY <1>6, <2>1, <2>2 DEF Crash
<1>7. ASSUME NEW n \in Froms, NEW s \in Speeds, Open(n, s) PROVE WriterInductive'
  <2>1. rec = "done" /\ UNCHANGED <<rec, made, file, cut>>
    BY <1>7 DEF Open
  <2> QED
    BY <2>1, WriterUntouched
<1>8. ASSUME NEW n \in Missing, Shorten(n) PROVE WriterInductive'
  <2>1. rec = "done" /\ file' = Cut(file, file.len - n) /\ n < file.len /\ n \in Nat
        /\ UNCHANGED <<rec, made, viewer>> /\ cut' = TRUE
    BY <1>8, AviConstants DEF Shorten, replay
  <2> DEFINE l == file.len - n
             u == Least(file.upto, l)
  <2>2. file' = [file EXCEPT !.len = l, !.upto = u]
    BY <2>1 DEF Cut
  <2>3. l \in Nat
    BY <2>1, WriterNumbers
  <2>4. u \in 0..HeaderBytes /\ u <= l
    <3>1. file.upto \in 0..224 /\ HeaderBytes = 224
      BY WriterFacts, AviConstants
    <3>2. (u = file.upto /\ file.upto <= l) \/ (u = l /\ l < file.upto)
      <4> HIDE DEF l
      <4> QED
        BY <2>3, <3>1 DEF Least
    <3> HIDE DEF l, u
    <3> QED
      BY <2>3, <3>1, <3>2
  <2>5. file' \in Files /\ file'.len = l /\ file'.upto = u /\ file'.chunks = file.chunks /\ file'.head = file.head
    <3> HIDE DEF l, u
    <3> QED
      BY <2>2, <2>3, <2>4, WriterFacts DEF Files
  <2>6. Sound(file')
    BY <2>5, WriterFacts DEF Sound
  <2> QED
    BY <2>1, <2>4, <2>5, <2>6, HeaderStays DEF WriterInductive, WriterInv, WriterTypeOK, Laid, Filled
<1>9. CASE Send \/ Over \/ Gone
  <2>1. viewer = "watching" /\ UNCHANGED <<rec, made, file, cut>>
    BY <1>9 DEF Send, Over, Gone
  <2>2. rec = "done"
    BY <2>1 DEF WriterInductive, WriterInv
  <2> QED
    BY <2>1, <2>2, WriterUntouched
<1>10. CASE UNCHANGED aviVars
  <2>1. UNCHANGED <<rec, made, file, cut, now, viewer>>
    BY <1>10 DEF aviVars
  <2> QED
    BY <2>1, WriterUntouched DEF WriterInductive, WriterInv
<1> QED
  BY <1>1, <1>2, <1>3, <1>4, <1>5, <1>6, <1>7, <1>8, <1>9, <1>10 DEF AviNext

(* The writer's invariant holds.                                              *)
LEMMA WriterAlways == AviSpec => []WriterInductive
<1>1. WriterInductive /\ [AviNext]_aviVars => WriterInductive'
  BY WriterStep
<1> QED
  BY <1>1, WriterInit, PTL DEF AviSpec

(* A recording whose Close did not run through - that is open, that was aborted, or during *)
(* which the service stopped, however much of its header was written - is refused by *)
(* ReadIndex, whatever bytes the header's place holds.                        *)
THEOREM UnfinishedIsNeverShown == AviSpec => []UnfinishedRefused
<1>1. WriterInductive => UnfinishedRefused
  BY WriterFacts, WriterNumbers, UnfinishedIsRefused DEF UnfinishedRefused, WriterInductive, WriterInv
<1> QED
  BY <1>1, WriterAlways, PTL

(* The lists the reader is in lie within the file.                          *)
Spans(e) == [at : Nat, end : {x \in Int : x <= e}]

(* A list that is not empty has a first and a rest.                           *)
LEMMA FirstAndRest ==
  ASSUME NEW S, NEW s \in Seq(S), s # <<>>
  PROVE  Head(s) \in S /\ Tail(s) \in Seq(S)
OBVIOUS

(* Two lists joined are a list.                                               *)
LEMMA Joined == ASSUME NEW S, NEW s \in Seq(S), NEW t \in Seq(S) PROVE s \o t \in Seq(S)
OBVIOUS

(* One level of the walk is a list of spans.                                  *)
LEMMA OneSpan ==
  ASSUME NEW e \in Int, NEW at \in Nat, NEW end \in Int, end <= e
  PROVE  Level(at, end) \in Seq(Spans(e))
<1>1. [at |-> at, end |-> end] \in Spans(e)
  BY DEF Spans
<1> HIDE DEF Spans
<1> QED
  BY <1>1 DEF Level

(* The reader finds a chunk header at the place it looks at.                  *)
LEMMA Looks ==
  ASSUME NEW f \in Files, NEW at \in Nat
  PROVE  Look(f, at).size \in Nat /\ Look(f, at).at = at
<1> DEFINE c == Look(f, at)
           there == {d \in f.chunks : d.at = at}
                    \cup (IF f.upto < at + 8 THEN {} ELSE {d \in f.head.chunks : d.at = at})
<1>1. CASE there # {}
  <2>1. c \in there
    BY <1>1 DEF Look
  <2>2. (c \in f.chunks \/ c \in f.head.chunks) /\ c.at = at
    BY <2>1
  <2>3. f.chunks \subseteq Chunks /\ f.head.chunks \subseteq Chunks
    <3>1. f.chunks \subseteq Chunks /\ f.head \in Heads
      BY FilesAre
    <3> QED
      BY <3>1 DEF Heads
  <2> HIDE DEF c
  <2>4. c \in Chunks
    BY <2>2, <2>3
  <2> QED
    BY <2>2, <2>4 DEF c, Chunks
<1>2. CASE there = {}
  <2>1. c = Chunk(at, "", IF f.upto <= at /\ at + 8 <= HeaderBytes THEN 0 ELSE f.junk, "")
    BY <1>2 DEF Look
  <2>2. f.junk \in Nat
    BY FilesAre
  <2> DEFINE n == IF f.upto <= at /\ at + 8 <= HeaderBytes THEN 0 ELSE f.junk
  <2>3. n \in Nat /\ c = Chunk(at, "", n, "")
    BY <2>1, <2>2
  <2> HIDE DEF c, n
  <2>4. c.size \in Nat /\ c.at = at
    BY <2>3 DEF Chunk
  <2> QED
    BY <2>4 DEF c
<1> QED
  BY <1>1, <1>2

Inside(s, e) == {"lists", "got"} = DOMAIN s /\ s.lists \in Seq(Spans(e))

(* No level of the walk reaches past the file's end.                          *)
LEMMA TurnsInside ==
  ASSUME NEW f \in Files, NEW e \in Int, NEW s, Inside(s, e)
  PROVE  Inside(Turn(f, s), e)
<1> DEFINE at == Head(s.lists).at
           end == Head(s.lists).end
           c == Look(f, at)
           last == Least(end, f.len)
           size == Within(c.size, at + 8, end)
           over == Len(s.lists) > 9 \/ at + 8 > last \/ (c.id = "LIST" /\ at + 12 > last)
           inner == IF Descended(f, c) THEN Level(at + 12, at + 8 + size) ELSE <<>>
           next == inner \o Level(at + 8 + size + (size % 2), end) \o Tail(s.lists)
<1>1. CASE s.lists = <<>>
  <2>1. Turn(f, s) = s
    BY <1>1 DEF Turn
  <2> QED
    BY <2>1
<1>2. CASE s.lists # <<>>
  <2>1. Head(s.lists) \in Spans(e) /\ Tail(s.lists) \in Seq(Spans(e))
    BY <1>2, FirstAndRest DEF Inside
  <2>2. at \in Nat /\ end \in Int /\ end <= e
    BY <2>1 DEF Spans
  <2>3. CASE over
    <3>1. Turn(f, s) = [s EXCEPT !.lists = Tail(s.lists)]
      BY <1>2, <2>3 DEF Turn
    <3> QED
      BY <2>1, <3>1 DEF Inside
  <2>4. CASE ~ over
    <3>1. Turn(f, s) = [lists |-> next, got |-> Found(f, c, size, s.got)]
      BY <1>2, <2>4 DEF Turn
    <3>2. at + 8 <= end
      <4>1. f.len \in Nat /\ ~(at + 8 > last)
        BY <2>4, FilesAre
      <4> HIDE DEF at, end
      <4> QED
        BY <2>2, <4>1 DEF Least
    <3>3. c.size \in Nat
      BY <2>2, Looks
    <3> HIDE DEF at, end, c
    <3>4. size \in Nat /\ at + 8 + size <= end
      BY <2>2, <3>2, <3>3 DEF Within
    <3>5. size % 2 \in Nat
      BY <3>4, Remainders
    <3> HIDE DEF size
    <3>6. Level(at + 12, at + 8 + size) \in Seq(Spans(e))
      <4>1. at + 12 \in Nat /\ at + 8 + size \in Int /\ at + 8 + size <= e
        BY <2>2, <3>4
      <4> QED
        BY <4>1, OneSpan
    <3>7. Level(at + 8 + size + (size % 2), end) \in Seq(Spans(e))
      <4>1. at + 8 + size + (size % 2) \in Nat
        BY <2>2, <3>4, <3>5
      <4> QED
        BY <2>2, <4>1, OneSpan
    <3>8. inner \in Seq(Spans(e))
      BY <3>6
    <3> HIDE DEF inner
    <3>9. next \in Seq(Spans(e))
      BY <2>1, <3>7, <3>8, Joined
    <3> HIDE DEF next
    <3> QED
      BY <3>1, <3>9 DEF Inside
  <2> QED
    BY <2>3, <2>4
<1> QED
  BY <1>1, <1>2

(* A movie list is found where the header has it, so in no file that says    *)
(* it is shorter.                                                           *)
LEMMA MovieAt ==
  ASSUME NEW f \in Files, Sound(f), NEW at \in Nat, Kind(f, Look(f, at)) = "movi"
  PROVE  at = 212
<1> DEFINE c == Look(f, at)
           there == {d \in f.chunks : d.at = at}
                    \cup (IF f.upto < at + 8 THEN {} ELSE {d \in f.head.chunks : d.at = at})
<1>1. c.kind = "movi"
  BY DEF Kind
<1>2. CASE there # {}
  <2>1. c \in there
    BY <1>2 DEF Look
  <2>2. c \in f.chunks \/ c \in f.head.chunks
    BY <2>1
  <2>3. c.at = at
    BY Looks
  <2> HIDE DEF c
  <2> QED
    BY <1>1, <2>2, <2>3 DEF Sound
<1>3. CASE there = {}
  <2>1. c = Chunk(at, "", IF f.upto <= at /\ at + 8 <= HeaderBytes THEN 0 ELSE f.junk, "")
    BY <1>3 DEF Look
  <2> HIDE DEF c
  <2>2. c.kind = ""
    BY <2>1 DEF Chunk
  <2> QED
    BY <1>1, <2>2
<1> QED
  BY <1>2, <1>3

(* In a file that ends in the header a turn finds no movie list.              *)
LEMMA ShortTurn ==
  ASSUME NEW f \in Files, Sound(f), NEW s, Inside(s, 223), NoMovie(s)
  PROVE  NoMovie(Turn(f, s))
<1> DEFINE at == Head(s.lists).at
           end == Head(s.lists).end
           c == Look(f, at)
           last == Least(end, f.len)
           size == Within(c.size, at + 8, end)
           over == Len(s.lists) > 9 \/ at + 8 > last \/ (c.id = "LIST" /\ at + 12 > last)
           next == (IF Descended(f, c) THEN Level(at + 12, at + 8 + size) ELSE <<>>)
                   \o Level(at + 8 + size + (size % 2), end) \o Tail(s.lists)
<1>1. CASE Turn(f, s) = s \/ Turn(f, s) = [s EXCEPT !.lists = Tail(@)]
  BY <1>1 DEF NoMovie
<1>2. CASE s.lists # <<>> /\ ~ over /\ Turn(f, s) = [lists |-> next, got |-> Found(f, c, size, s.got)]
  <2>1. Head(s.lists) \in Spans(223)
    BY <1>2, FirstAndRest DEF Inside
  <2>2. at \in Nat /\ end \in Int /\ end <= 223
    BY <2>1 DEF Spans
  <2>3. ~(c.id = "LIST" /\ Kind(f, c) = "movi")
    <3> SUFFICES ASSUME c.id = "LIST", Kind(f, c) = "movi" PROVE FALSE
      OBVIOUS
    <3>1. at = 212
      BY <2>2, MovieAt
    <3>2. ~(at + 12 > last) /\ f.len \in Nat
      BY <1>2, FilesAre
    <3> HIDE DEF at, end
    <3> QED
      BY <2>2, <3>1, <3>2 DEF Least
  <2> HIDE DEF next, size, c
  <2>4. "movi" \in DOMAIN Found(f, c, size, s.got) /\ Found(f, c, size, s.got).movi = 0
    BY <2>3 DEF NoMovie, Found
  <2>5. NoMovie([lists |-> next, got |-> Found(f, c, size, s.got)])
    BY <2>4 DEF NoMovie
  <2> QED
    BY <1>2, <2>5
<1> QED
  BY <1>1, <1>2 DEF Turn

(* A file that ends in the header is refused.                                 *)
LEMMA ShortIsRefused ==
  ASSUME NEW f \in Files, Sound(f), SizeOf(f) \in Int, SizeOf(f) < 224
  PROVE  Refused(f)
<1> DEFINE S == {n \in Nat : Inside(Walk(f)[n], 223) /\ NoMovie(Walk(f)[n])}
<1>1. 0 \in S
  <2>1. Inside(Begun(f), 223)
    <3>1. Level(12, SizeOf(f)) \in Seq(Spans(223))
      BY OneSpan
    <3> QED
      BY <3>1 DEF Begun, Inside
  <2>2. NoMovie(Begun(f))
    BY DEF Begun, NoMovie, NotFound
  <2> QED
    BY <2>1, <2>2, WalkGoesOn
<1>2. ASSUME NEW n \in Nat, n \in S PROVE n + 1 \in S
  BY <1>2, WalkGoesOn, TurnsInside, ShortTurn
<1> HIDE DEF S
<1>3. 2 * (f.len \div 8) \in S
  <2>1. 2 * (f.len \div 8) \in Nat
    BY FilesAre
  <2> QED
    BY <1>1, <1>2, <2>1, AllNumbers
<1>4. Sought(f).movi = 0
  BY <1>3 DEF S, Sought, NoMovie
<1> QED
  BY <1>4 DEF Refused, Frames

(* A header that is whole: what it says is found in four turns, and stays   *)
(* found.                                                                   *)
HasHeader(f) ==
  \E riff, list : f.head.chunks =
    {Chunk(0, "RIFF", riff, "AVI "), Chunk(12, "LIST", 192, "hdrl"), Chunk(24, "avih", 56, ""),
     Chunk(88, "LIST", 116, "strl"), Chunk(100, "strh", 56, "vids"), Chunk(164, "strf", 40, ""),
     Chunk(212, "LIST", list, "movi")}

Complete(f) ==
  /\ f.upto = 224 /\ f.len \in Nat /\ f.len >= 224 /\ SizeOf(f) \in Int /\ SizeOf(f) >= 224
  /\ \A c \in f.chunks : c.at \in Nat /\ c.at >= 224
  /\ HasHeader(f)

(* Where the header has one chunk, that one is found.                         *)
LEMMA OnlyOne ==
  ASSUME NEW f, Complete(f), NEW at \in 0..212, NEW c, c.at = at,
         c \in f.head.chunks, \A d \in f.head.chunks : d.at = at => d = c
  PROVE  Look(f, at) = c
<1> DEFINE there == {d \in f.chunks : d.at = at}
                    \cup (IF f.upto < at + 8 THEN {} ELSE {d \in f.head.chunks : d.at = at})
<1>1. {d \in f.chunks : d.at = at} = {}
  BY DEF Complete
<1>2. ~(f.upto < at + 8)
  BY DEF Complete
<1>3. there = {c}
  BY <1>1, <1>2
<1> HIDE DEF there
<1>4. Look(f, at) = CHOOSE d \in there : TRUE
  BY <1>3 DEF Look, there
<1> QED
  BY <1>3, <1>4

(* The chunks the walk finds on its way to the rates.                         *)
LEMMA HeaderLooks ==
  ASSUME NEW f, Complete(f)
  PROVE  /\ Look(f, 12) = Chunk(12, "LIST", 192, "hdrl") /\ Look(f, 24) = Chunk(24, "avih", 56, "")
         /\ Look(f, 88) = Chunk(88, "LIST", 116, "strl") /\ Look(f, 100) = Chunk(100, "strh", 56, "vids")
<1>1. PICK riff, list : f.head.chunks =
       {Chunk(0, "RIFF", riff, "AVI "), Chunk(12, "LIST", 192, "hdrl"), Chunk(24, "avih", 56, ""),
        Chunk(88, "LIST", 116, "strl"), Chunk(100, "strh", 56, "vids"), Chunk(164, "strf", 40, ""),
        Chunk(212, "LIST", list, "movi")}
  BY DEF Complete, HasHeader
<1> DEFINE c0 == Chunk(0, "RIFF", riff, "AVI ")
           c1 == Chunk(12, "LIST", 192, "hdrl")
           c2 == Chunk(24, "avih", 56, "")
           c3 == Chunk(88, "LIST", 116, "strl")
           c4 == Chunk(100, "strh", 56, "vids")
           c5 == Chunk(164, "strf", 40, "")
           c6 == Chunk(212, "LIST", list, "movi")
<1>2. c0.at = 0 /\ c1.at = 12 /\ c2.at = 24 /\ c3.at = 88 /\ c4.at = 100 /\ c5.at = 164 /\ c6.at = 212
  BY DEF Chunk
<1>3. f.head.chunks = {c0, c1, c2, c3, c4, c5, c6}
  BY <1>1
<1> HIDE DEF c0, c1, c2, c3, c4, c5, c6
<1>4. Look(f, 12) = c1 /\ Look(f, 24) = c2 /\ Look(f, 88) = c3 /\ Look(f, 100) = c4
  <2>1. 12 \in 0..212 /\ 24 \in 0..212 /\ 88 \in 0..212 /\ 100 \in 0..212
    OBVIOUS
  <2>2. c1 \in f.head.chunks /\ \A d \in f.head.chunks : d.at = 12 => d = c1
    BY <1>2, <1>3
  <2>3. c2 \in f.head.chunks /\ \A d \in f.head.chunks : d.at = 24 => d = c2
    BY <1>2, <1>3
  <2>4. c3 \in f.head.chunks /\ \A d \in f.head.chunks : d.at = 88 => d = c3
    BY <1>2, <1>3
  <2>5. c4 \in f.head.chunks /\ \A d \in f.head.chunks : d.at = 100 => d = c4
    BY <1>2, <1>3
  <2>6. Look(f, 12) = c1
    BY <1>2, <2>1, <2>2, OnlyOne
  <2>7. Look(f, 24) = c2
    BY <1>2, <2>1, <2>3, OnlyOne
  <2>8. Look(f, 88) = c3
    BY <1>2, <2>1, <2>4, OnlyOne
  <2>9. Look(f, 100) = c4
    BY <1>2, <2>1, <2>5, OnlyOne
  <2> QED
    BY <2>6, <2>7, <2>8, <2>9
<1> QED
  BY <1>4 DEF c1, c2, c3, c4

(* A level is put on top of the rest.                                         *)
LEMMA Pushed ==
  ASSUME NEW S, NEW a \in S, NEW b \in S, NEW r \in Seq(S), r # <<>>
  PROVE  LET l == (<<a>> \o <<b>>) \o Tail(r)
         IN l \in Seq(S) /\ l # <<>> /\ Head(l) = a /\ Len(l) = Len(r) + 1
OBVIOUS

(* The top level is replaced.                                                 *)
LEMMA Moved ==
  ASSUME NEW S, NEW b \in S, NEW r \in Seq(S), r # <<>>
  PROVE  LET l == (<<>> \o <<b>>) \o Tail(r)
         IN l \in Seq(S) /\ l # <<>> /\ Head(l) = b /\ Len(l) = Len(r)
OBVIOUS

SetUp(f, s) ==
  /\ {"lists", "got"} = DOMAIN s /\ {"us", "scale", "rate"} \subseteq DOMAIN s.got
  /\ s.got.us = f.head.us /\ s.got.scale = f.head.scale /\ s.got.rate = f.head.rate

(* What was read of the rates stays: a later avih or strh is read from the same bytes. *)
LEMMA StaysSetUp ==
  ASSUME NEW f, NEW s, SetUp(f, s)
  PROVE  SetUp(f, Turn(f, s))
<1> DEFINE at == Head(s.lists).at
           end == Head(s.lists).end
           c == Look(f, at)
           last == Least(end, f.len)
           size == Within(c.size, at + 8, end)
           next == (IF Descended(f, c) THEN Level(at + 12, at + 8 + size) ELSE <<>>)
                   \o Level(at + 8 + size + (size % 2), end) \o Tail(s.lists)
           g == Found(f, c, size, s.got)
<1>1. \/ Turn(f, s) = s
      \/ Turn(f, s) = [s EXCEPT !.lists = Tail(@)]
      \/ Turn(f, s) = [lists |-> next, got |-> g]
  BY DEF Turn
<1> HIDE DEF next, size, c
<1>2. /\ {"us", "scale", "rate"} \subseteq DOMAIN g
      /\ g.us = f.head.us /\ g.scale = f.head.scale /\ g.rate = f.head.rate
  BY DEF SetUp, Found
<1> HIDE DEF g
<1>3. SetUp(f, [s EXCEPT !.lists = Tail(@)])
  BY DEF SetUp
<1>4. SetUp(f, [lists |-> next, got |-> g])
  BY <1>2 DEF SetUp
<1> QED
  BY <1>1, <1>3, <1>4

ListHdrl == Chunk(12, "LIST", 192, "hdrl")
ListStrl == Chunk(88, "LIST", 116, "strl")
ChunkAvih == Chunk(24, "avih", 56, "")
ChunkStrh == Chunk(100, "strh", 56, "vids")

(* Which of these chunks hold others.                                         *)
LEMMA HeaderSays ==
  ASSUME NEW f, Complete(f)
  PROVE  /\ ListHdrl.size = 192 /\ Descended(f, ListHdrl) /\ ListStrl.size = 116 /\ Descended(f, ListStrl)
         /\ ChunkAvih.size = 56 /\ ~ Descended(f, ChunkAvih) /\ ChunkStrh.size = 56 /\ ~ Descended(f, ChunkStrh)
<1>1. /\ ListHdrl.at = 12 /\ ListHdrl.id = "LIST" /\ ListHdrl.size = 192 /\ ListHdrl.kind = "hdrl"
      /\ ListStrl.at = 88 /\ ListStrl.id = "LIST" /\ ListStrl.size = 116 /\ ListStrl.kind = "strl"
  BY DEF Chunk, ListHdrl, ListStrl
<1>2. ChunkAvih.id = "avih" /\ ChunkAvih.size = 56 /\ ChunkStrh.id = "strh" /\ ChunkStrh.size = 56
  BY DEF Chunk, ChunkAvih, ChunkStrh
<1>3. f.upto = 224 /\ HeaderBytes = 224
  BY AviConstants DEF Complete
<1>4. Kind(f, ListHdrl) = "hdrl" /\ Kind(f, ListStrl) = "strl"
  BY <1>1, <1>3 DEF Kind
<1>5. Descended(f, ListHdrl) /\ Descended(f, ListStrl) /\ ~ Descended(f, ChunkAvih) /\ ~ Descended(f, ChunkStrh)
  BY <1>1, <1>2, <1>4 DEF Descended
<1> QED
  BY <1>1, <1>2, <1>5

(* What these chunks have to say.                                             *)
LEMMA HeaderFinds ==
  ASSUME NEW f, Complete(f), NEW got
  PROVE  /\ Found(f, ListHdrl, 192, got) = got /\ Found(f, ListStrl, 116, got) = got
         /\ Found(f, ChunkAvih, 56, got) = [got EXCEPT !.us = f.head.us]
         /\ Found(f, ChunkStrh, 56, got) = [got EXCEPT !.scale = f.head.scale, !.rate = f.head.rate]
<1>1. /\ ListHdrl.at = 12 /\ ListHdrl.id = "LIST" /\ ListHdrl.size = 192 /\ ListHdrl.kind = "hdrl"
      /\ ListStrl.at = 88 /\ ListStrl.id = "LIST" /\ ListStrl.size = 116 /\ ListStrl.kind = "strl"
  BY DEF Chunk, ListHdrl, ListStrl
<1>2. ChunkAvih.id = "avih" /\ ChunkStrh.id = "strh"
  BY DEF Chunk, ChunkAvih, ChunkStrh
<1>3. f.upto = 224 /\ HeaderBytes = 224
  BY AviConstants DEF Complete
<1>4. Kind(f, ListHdrl) = "hdrl" /\ Kind(f, ListStrl) = "strl"
  BY <1>1, <1>3 DEF Kind
<1>5. Found(f, ListHdrl, 192, got) = got /\ Found(f, ListStrl, 116, got) = got
  BY <1>1, <1>4 DEF Found
<1>6. Found(f, ChunkAvih, 56, got) = [got EXCEPT !.us = f.head.us]
  BY <1>2 DEF Found
<1>7. Found(f, ChunkStrh, 56, got) = [got EXCEPT !.scale = f.head.scale, !.rate = f.head.rate]
  BY <1>2 DEF Found
<1> QED
  BY <1>5, <1>6, <1>7

(* The innermost list, and a chunk that fits into it: the reader goes down  *)
(* into the chunk, or past it.                                              *)
At(s) == Head(s.lists).at
End(s) == Head(s.lists).end
Here(f, s) == Look(f, At(s))

Fits(f, e, s) ==
  /\ f.len \in Nat /\ s.lists \in Seq(Spans(e)) /\ s.lists # <<>> /\ Len(s.lists) < 9
  /\ Here(f, s).size \in Nat /\ Here(f, s).size % 2 = 0
  /\ At(s) + 8 + Here(f, s).size <= End(s) /\ At(s) + 12 <= End(s) /\ At(s) + 12 <= f.len

(* A turn at a chunk that fits into its list.                                 *)
LEMMA Fitting ==
  ASSUME NEW f, NEW e \in Int, NEW s, Fits(f, e, s)
  PROVE  /\ At(s) \in Nat /\ End(s) \in Int /\ End(s) <= e
         /\ Turn(f, s) = [lists |-> (IF Descended(f, Here(f, s))
                                     THEN Level(At(s) + 12, At(s) + 8 + Here(f, s).size) ELSE <<>>)
                                    \o Level(At(s) + 8 + Here(f, s).size, End(s)) \o Tail(s.lists),
                          got |-> Found(f, Here(f, s), Here(f, s).size, s.got)]
<1> DEFINE a == At(s)
           b == End(s)
           c == Here(f, s)
           z == c.size
<1>1. Head(s.lists) \in Spans(e)
  BY FirstAndRest DEF Fits
<1>2. a \in Nat /\ b \in Int /\ b <= e
  BY <1>1 DEF Spans, At, End
<1>3. z \in Nat /\ z % 2 = 0 /\ a + 8 + z <= b /\ a + 12 <= b /\ a + 12 <= f.len /\ f.len \in Nat
  BY DEF Fits
<1>4. s.lists # <<>> /\ ~(Len(s.lists) > 9)
  BY Elements DEF Fits
<1>5. Head(s.lists).at = a /\ Head(s.lists).end = b /\ Look(f, a) = c
  BY DEF At, End, Here
<1> HIDE DEF a, b, c
<1>6. Within(z, a + 8, b) = z
  BY <1>2, <1>3 DEF Within
<1>7. ~(a + 8 > Least(b, f.len)) /\ ~(a + 12 > Least(b, f.len))
  BY <1>2, <1>3 DEF Least
<1>8. a + 8 + z + (z % 2) = a + 8 + z
  BY <1>2, <1>3
<1>9. Turn(f, s) = [lists |-> (IF Descended(f, c) THEN Level(a + 12, a + 8 + z) ELSE <<>>)
                              \o Level(a + 8 + z, b) \o Tail(s.lists),
                    got |-> Found(f, c, z, s.got)]
  BY <1>4, <1>5, <1>6, <1>7, <1>8 DEF Turn
<1> QED
  BY <1>2, <1>9 DEF a, b, c

(* The turn goes down into a list.                                            *)
LEMMA Down ==
  ASSUME NEW f, NEW e \in Int, NEW s, Fits(f, e, s), Descended(f, Here(f, s))
  PROVE  /\ Turn(f, s).got = Found(f, Here(f, s), Here(f, s).size, s.got)
         /\ DOMAIN Turn(f, s) = {"lists", "got"}
         /\ Turn(f, s).lists \in Seq(Spans(e)) /\ Turn(f, s).lists # <<>>
         /\ Len(Turn(f, s).lists) = Len(s.lists) + 1
         /\ At(Turn(f, s)) = At(s) + 12 /\ End(Turn(f, s)) = At(s) + 8 + Here(f, s).size
<1> DEFINE z == Here(f, s).size
           x == [at |-> At(s) + 12, end |-> At(s) + 8 + z]
           y == [at |-> At(s) + 8 + z, end |-> End(s)]
           l == (<<x>> \o <<y>>) \o Tail(s.lists)
<1>1. x \in Spans(e) /\ y \in Spans(e)
  <2>1. At(s) \in Nat /\ End(s) \in Int /\ End(s) <= e
    BY Fitting
  <2>2. z \in Nat /\ At(s) + 8 + z <= End(s) /\ At(s) + 12 <= End(s)
    BY DEF Fits
  <2> HIDE DEF z
  <2> QED
    BY <2>1, <2>2 DEF Spans
<1>2. Turn(f, s) = [lists |-> l, got |-> Found(f, Here(f, s), z, s.got)]
  BY Fitting DEF Level
<1>3. x.at = At(s) + 12 /\ x.end = At(s) + 8 + z
  OBVIOUS
<1> HIDE DEF x, y
<1>4. l \in Seq(Spans(e)) /\ l # <<>> /\ Head(l) = x /\ Len(l) = Len(s.lists) + 1
  BY <1>1, Pushed DEF Fits
<1> HIDE DEF l, z
<1> QED
  BY <1>2, <1>3, <1>4 DEF z, At, End

(* The turn goes on to the next chunk.                                        *)
LEMMA Along ==
  ASSUME NEW f, NEW e \in Int, NEW s, Fits(f, e, s), ~ Descended(f, Here(f, s))
  PROVE  /\ Turn(f, s).got = Found(f, Here(f, s), Here(f, s).size, s.got)
         /\ DOMAIN Turn(f, s) = {"lists", "got"}
         /\ Turn(f, s).lists \in Seq(Spans(e)) /\ Turn(f, s).lists # <<>>
         /\ Len(Turn(f, s).lists) = Len(s.lists)
         /\ At(Turn(f, s)) = At(s) + 8 + Here(f, s).size /\ End(Turn(f, s)) = End(s)
<1> DEFINE z == Here(f, s).size
           y == [at |-> At(s) + 8 + z, end |-> End(s)]
           l == (<<>> \o <<y>>) \o Tail(s.lists)
<1>1. y \in Spans(e)
  <2>1. At(s) \in Nat /\ End(s) \in Int /\ End(s) <= e
    BY Fitting
  <2>2. z \in Nat /\ At(s) + 8 + z <= End(s) /\ At(s) + 12 <= End(s)
    BY DEF Fits
  <2> HIDE DEF z
  <2> QED
    BY <2>1, <2>2 DEF Spans
<1>2. Turn(f, s) = [lists |-> l, got |-> Found(f, Here(f, s), z, s.got)]
  BY Fitting DEF Level
<1>3. y.at = At(s) + 8 + z /\ y.end = End(s)
  OBVIOUS
<1> HIDE DEF y
<1>4. l \in Seq(Spans(e)) /\ l # <<>> /\ Head(l) = y /\ Len(l) = Len(s.lists)
  BY <1>1, Moved DEF Fits
<1> HIDE DEF l, z
<1> QED
  BY <1>2, <1>3, <1>4 DEF z, At, End

(* hdrl, avih, strl, strh: after four turns the rates are read.               *)
LEMMA FourTurns ==
  ASSUME NEW f, Complete(f)
  PROVE  SetUp(f, Walk(f)[4])
<1> DEFINE e == SizeOf(f)
           s0 == Walk(f)[0]
           s1 == Walk(f)[1]
           s2 == Walk(f)[2]
           s3 == Walk(f)[3]
           s4 == Walk(f)[4]
           Listed(s) == s.lists \in Seq(Spans(e)) /\ s.lists # <<>>
<1>1. e \in Int /\ e >= 224 /\ f.len \in Nat /\ f.len >= 224
  BY DEF Complete
<1>2. s0 = Begun(f) /\ s1 = Turn(f, s0) /\ s2 = Turn(f, s1) /\ s3 = Turn(f, s2) /\ s4 = Turn(f, s3)
  <2>1. 0 \in Nat /\ 1 \in Nat /\ 2 \in Nat /\ 3 \in Nat /\ 0 + 1 = 1 /\ 1 + 1 = 2 /\ 2 + 1 = 3 /\ 3 + 1 = 4
    OBVIOUS
  <2> QED
    BY <2>1, WalkGoesOn
<1>3. Look(f, 12) = ListHdrl /\ Look(f, 24) = ChunkAvih /\ Look(f, 88) = ListStrl /\ Look(f, 100) = ChunkStrh
  BY HeaderLooks, ZenonT(40) DEF ListHdrl, ListStrl, ChunkAvih, ChunkStrh
<1> HIDE DEF e, s0, s1, s2, s3, s4
<1>6. Listed(s0) /\ Len(s0.lists) = 1 /\ At(s0) = 12 /\ End(s0) = e /\ s0.got = NotFound
  <2>1. Level(12, e) \in Seq(Spans(e))
    BY <1>1, OneSpan
  <2>2. s0 = [lists |-> Level(12, e), got |-> NotFound]
    BY <1>2 DEF Begun, e
  <2> QED
    BY <2>1, <2>2 DEF Level, At, End
<1>7. Listed(s1) /\ Len(s1.lists) = 2 /\ At(s1) = 24 /\ End(s1) = 212 /\ s1.got = NotFound
  <2>1. Here(f, s0) = ListHdrl /\ ListHdrl.size = 192 /\ Descended(f, ListHdrl)
    BY <1>3, <1>6, HeaderSays DEF Here
  <2>2. Fits(f, e, s0)
    BY <1>1, <1>6, <2>1 DEF Fits
  <2>3. /\ s1.got = Found(f, ListHdrl, 192, NotFound) /\ Listed(s1) /\ Len(s1.lists) = 1 + 1
        /\ At(s1) = 12 + 12 /\ End(s1) = 12 + 8 + 192
    <3>1. /\ Turn(f, s0).got = Found(f, Here(f, s0), Here(f, s0).size, s0.got)
          /\ Listed(Turn(f, s0)) /\ Len(Turn(f, s0).lists) = Len(s0.lists) + 1
          /\ At(Turn(f, s0)) = At(s0) + 12 /\ End(Turn(f, s0)) = At(s0) + 8 + Here(f, s0).size
      BY <1>1, <2>1, <2>2, Down
    <3> QED
      BY <1>2, <1>6, <2>1, <3>1
  <2>4. Found(f, ListHdrl, 192, NotFound) = NotFound
    BY HeaderFinds, ZenonT(40)
  <2> QED
    BY <2>3, <2>4
<1>8. Listed(s2) /\ Len(s2.lists) = 2 /\ At(s2) = 88 /\ End(s2) = 212 /\ s2.got = [NotFound EXCEPT !.us = f.head.us]
  <2>1. Here(f, s1) = ChunkAvih /\ ChunkAvih.size = 56 /\ ~ Descended(f, ChunkAvih)
    BY <1>3, <1>7, HeaderSays DEF Here
  <2>2. Fits(f, e, s1)
    BY <1>1, <1>7, <2>1 DEF Fits
  <2>3. /\ s2.got = Found(f, ChunkAvih, 56, NotFound) /\ Listed(s2) /\ Len(s2.lists) = 2
        /\ At(s2) = 24 + 8 + 56 /\ End(s2) = 212
    BY <1>1, <1>2, <1>7, <2>1, <2>2, Along
  <2>4. Found(f, ChunkAvih, 56, NotFound) = [NotFound EXCEPT !.us = f.head.us]
    BY HeaderFinds
  <2> QED
    BY <2>3, <2>4
<1>9. Listed(s3) /\ Len(s3.lists) = 3 /\ At(s3) = 100 /\ End(s3) = 212 /\ s3.got = s2.got
  <2>1. Here(f, s2) = ListStrl /\ ListStrl.size = 116 /\ Descended(f, ListStrl)
    BY <1>3, <1>8, HeaderSays DEF Here
  <2>2. Fits(f, e, s2)
    BY <1>1, <1>8, <2>1 DEF Fits
  <2>3. /\ s3.got = Found(f, ListStrl, 116, s2.got) /\ Listed(s3) /\ Len(s3.lists) = 2 + 1
        /\ At(s3) = 88 + 12 /\ End(s3) = 88 + 8 + 116
    <3>1. /\ Turn(f, s2).got = Found(f, Here(f, s2), Here(f, s2).size, s2.got)
          /\ Listed(Turn(f, s2)) /\ Len(Turn(f, s2).lists) = Len(s2.lists) + 1
          /\ At(Turn(f, s2)) = At(s2) + 12 /\ End(Turn(f, s2)) = At(s2) + 8 + Here(f, s2).size
      BY <1>1, <2>1, <2>2, Down
    <3> QED
      BY <1>2, <1>8, <2>1, <3>1
  <2>4. Found(f, ListStrl, 116, s2.got) = s2.got
    BY HeaderFinds, ZenonT(40)
  <2> QED
    BY <2>3, <2>4
<1>10. /\ s4.got = [s2.got EXCEPT !.scale = f.head.scale, !.rate = f.head.rate]
       /\ DOMAIN s4 = {"lists", "got"}
  <2>1. Here(f, s3) = ChunkStrh /\ ChunkStrh.size = 56 /\ ~ Descended(f, ChunkStrh)
    BY <1>3, <1>9, HeaderSays DEF Here
  <2>2. Fits(f, e, s3)
    BY <1>1, <1>9, <2>1 DEF Fits
  <2>3. s4.got = Found(f, ChunkStrh, 56, s2.got) /\ DOMAIN s4 = {"lists", "got"}
    BY <1>1, <1>2, <1>9, <2>1, <2>2, Along
  <2>4. Found(f, ChunkStrh, 56, s2.got) = [s2.got EXCEPT !.scale = f.head.scale, !.rate = f.head.rate]
    BY HeaderFinds
  <2> QED
    BY <2>3, <2>4
<1>11. SetUp(f, s4)
  BY <1>8, <1>10 DEF SetUp, NotFound
<1> QED
  BY <1>11 DEF s4

(* The reader has the rates the writer wrote.                                 *)
LEMMA HeaderIsRead ==
  ASSUME NEW f, Complete(f)
  PROVE  /\ Sought(f).us = f.head.us /\ Sought(f).scale = f.head.scale /\ Sought(f).rate = f.head.rate
<1> DEFINE S == {n \in Nat : SetUp(f, Walk(f)[n + 4])}
<1>1. 0 \in S
  BY FourTurns
<1>2. ASSUME NEW n \in Nat, n \in S PROVE n + 1 \in S
  <2>1. (n + 1) + 4 = (n + 4) + 1 /\ n + 4 \in Nat
    OBVIOUS
  <2>2. Walk(f)[(n + 1) + 4] = Turn(f, Walk(f)[n + 4])
    BY <2>1, WalkGoesOn
  <2> QED
    BY <1>2, <2>2, StaysSetUp
<1> HIDE DEF S
<1>3. 2 * (f.len \div 8) - 4 \in Nat
  BY DEF Complete
<1>4. 2 * (f.len \div 8) - 4 \in S
  BY <1>1, <1>2, <1>3, AllNumbers
<1>5. (2 * (f.len \div 8) - 4) + 4 = 2 * (f.len \div 8)
  BY DEF Complete
<1>6. SetUp(f, Walk(f)[2 * (f.len \div 8)])
  BY <1>4, <1>5 DEF S
<1> QED
  BY <1>6 DEF Sought, SetUp

(* A finished file that is not refused has its header, whole.               *)
LEMMA FinishedIsComplete ==
  ASSUME WriterInductive, rec = "done", ~ Refused(file)
  PROVE  Complete(file) /\ file.head = Header
<1>1. Sound(file) /\ file \in Files /\ file.upto \in 0..224 /\ file.len \in Nat /\ file.upto <= file.len
  BY WriterFacts, WriterNumbers
<1>2. file.head = Header
  BY DEF WriterInductive, WriterInv
<1>3. file.upto = 224
  <2>1. ~(file.upto \in 0..223)
    BY <1>1, UnfinishedIsRefused
  <2> QED
    BY <1>1, <2>1
<1>4. SizeOf(file) \in Int
  <2>1. Look(file, 0).size \in Nat
    BY <1>1, Looks
  <2> QED
    BY <1>1, <2>1 DEF SizeOf, Least
<1>5. SizeOf(file) >= 224
  <2>1. ~(SizeOf(file) < 224)
    BY <1>1, <1>4, ShortIsRefused
  <2> QED
    BY <1>4, <2>1
<1>6. HasHeader(file)
  <2>1. PICK riff, list : Header.chunks =
          {Chunk(0, "RIFF", riff, "AVI "), Chunk(12, "LIST", 192, "hdrl"), Chunk(24, "avih", 56, ""),
           Chunk(88, "LIST", 116, "strl"), Chunk(100, "strh", 56, "vids"), Chunk(164, "strf", 40, ""),
           Chunk(212, "LIST", list, "movi")}
    BY ZenonT(40) DEF Header
  <2> QED
    BY <1>2, <2>1, ZenonT(40) DEF HasHeader
<1>7. \A c \in file.chunks : c.at \in Nat /\ c.at >= 224
  BY <1>1 DEF Sound
<1> QED
  BY <1>1, <1>2, <1>3, <1>4, <1>5, <1>6, <1>7 DEF Complete

(* The time from the first frame to the last is a number.                     *)
LEMMA SpanIs ==
  ASSUME WriterInductive, Believed
  PROVE  Span \in Int
<1>1. Len(made) \in DOMAIN made /\ 1 \in DOMAIN made
  <2>1. Len(made) \in Nat /\ Len(made) > 1 /\ DOMAIN made = 1..Len(made)
    BY WriterNumbers DEF Believed
  <2> QED
    BY <2>1
<1>2. WriterTypeOK
  BY WriterFacts
<1>3. made[Len(made)].at \in Nat /\ made[1].at \in Nat
  BY <1>1, <1>2, FramesAre
<1> QED
  BY <1>3 DEF Span

(* What the reader makes of it: the gap that was measured, or one that is   *)
(* as near to it as the fraction says.                                      *)
LEMMA RateIsRead ==
  ASSUME WriterInductive, rec = "done", ~ Refused(file), Believed
  PROVE  /\ UsPerFrame \in Nat \ {0} /\ UsPerFrameExact(file) \in Nat
         /\ (Len(made) - 1) * UsPerFrame - Span <= Len(made) - 1
         /\ Span - (Len(made) - 1) * UsPerFrame <= Len(made) - 1
         /\ Len(made) * (UsPerFrameExact(file) - UsPerFrame) <= Milli + Len(made)
         /\ Len(made) * (UsPerFrame - UsPerFrameExact(file)) <= Milli + Len(made)
<1> DEFINE n == Len(made)
           g == Len(made) - 1
           u == UsPerFrame
           d == (n * u) \div Milli
           scale == IF d = 0 THEN 1 ELSE d
           v == (scale * Milli * Kilo) \div (n * Kilo)
           w == UsPerFrameExact(file)
<1>0. Len(made) \in Nat /\ Len(made) > 1 /\ DOMAIN made = 1..Len(made)
  BY WriterNumbers DEF Believed
<1>1. n \in Nat \ {0} /\ g \in Nat \ {0} /\ n = g + 1
  BY <1>0
<1>2. Span \in Nat \ {0} /\ Span <= TooLong * g
  <2>1. Span \in Int
    BY SpanIs
  <2> QED
    BY <2>1 DEF Believed
<1>3. TooLong \in Nat \ {0} /\ Milli <= TooLong
  <2>1. Milli * 1 <= Milli * (10 * Kilo)
    BY AviConstants, Products
  <2>2. TooLong = Milli * (10 * Kilo)
    BY AviConstants DEF TooLong
  <2> QED
    BY <2>1, <2>2, AviConstants
<1>4. u = IF Span \div g = 0 THEN 1 ELSE Span \div g
  BY <1>1, <1>2 DEF UsPerFrame, Span
<1>5. u \in Nat \ {0} /\ u <= TooLong /\ g * u - Span <= g /\ Span - g * u <= g
  <2> HIDE DEF u, g
  <2> QED
    BY <1>1, <1>2, <1>3, <1>4, Rounded
<1>6. /\ v \in Nat /\ n * (v - u) <= Milli /\ n * (u - v) <= Milli + n
      /\ v <= u \/ v <= Milli
  <2>1. d \in Int
    <3>1. n * u \in Int
      BY <1>1, <1>5
    <3> HIDE DEF n, u
    <3> QED
      BY <3>1, AviConstants, Between
  <2>2. scale \in Int
    BY <2>1
  <2> HIDE DEF n, u, v, scale, d
  <2>3. d = (n * u) \div Milli /\ scale = (IF d = 0 THEN 1 ELSE d) /\ v = (scale * Milli * Kilo) \div (n * Kilo)
    BY DEF d, scale, v
  <2> QED
    BY <1>1, <1>5, <2>1, <2>2, <2>3, AviConstants, Stated, ZenonT(40)
<1>7. /\ Sought(file).us = u /\ Sought(file).scale = scale /\ Sought(file).rate = n * Kilo
  <2>1. Header.us = u /\ Header.scale = scale /\ Header.rate = n * Kilo
    BY DEF Header
  <2>2. Complete(file) /\ file.head = Header
    BY FinishedIsComplete
  <2> HIDE DEF n, u, scale
  <2> QED
    BY <2>1, <2>2, HeaderIsRead
<1>8. n * Kilo # 0
  <2>1. n * 1 <= n * Kilo
    BY <1>1, AviConstants, Products
  <2> QED
    BY <1>1, <2>1
<1>9. w = IF v > 0 /\ v <= TooLong THEN v ELSE IF u > 0 /\ u <= TooLong THEN u ELSE Default
  <2> HIDE DEF n, u, scale
  <2> QED
    BY <1>7, <1>8 DEF UsPerFrameExact
<1> HIDE DEF n, g, u, v, w
<1>10. w \in Nat /\ n * (w - u) <= Milli + n /\ n * (u - w) <= Milli + n
  <2>1. CASE v = 0
    <3>1. w = u
      BY <1>5, <1>9, <2>1
    <3> QED
      BY <1>1, <1>5, <3>1, AviConstants
  <2>2. CASE v # 0
    <3>1. w = v
      BY <1>3, <1>5, <1>6, <1>9, <2>2, AviConstants
    <3>2. n * (v - u) \in Int /\ n * (v - u) <= Milli + n
      BY <1>1, <1>5, <1>6, AviConstants
    <3> QED
      BY <1>6, <3>1, <3>2
  <2> QED
    BY <2>1, <2>2
<1> QED
  BY <1>5, <1>10 DEF n, g, u, w

(* The replay's time of every frame of a finished recording, cut or whole, is where it would *)
(* be had the frames come evenly, to two milliseconds and two microseconds a frame: through *)
(* the mean of the writer, the header's rounded fraction and the reader's divisions. *)
THEOREM TimesAreTrue == AviSpec => []TimesTrue
<1>1. ASSUME WriterInductive PROVE TimesTrue
  <2> SUFFICES ASSUME rec = "done", ~ Refused(file), Believed, NEW i \in DOMAIN made
               PROVE  LET gaps == Len(made) - 1
                          off == AtMs(file, i) * Milli * gaps - (i - 1) * Span
                      IN off <= Slack(i) * gaps /\ - off <= Slack(i) * gaps
    BY DEF TimesTrue
  <2> DEFINE n == Len(made)
             g == Len(made) - 1
             u == UsPerFrame
             w == UsPerFrameExact(file)
             j == i - 1
             a == AtMs(file, i)
  <2>1. /\ u \in Nat \ {0} /\ w \in Nat /\ g * u - Span <= g /\ Span - g * u <= g
        /\ n * (w - u) <= Milli + n /\ n * (u - w) <= Milli + n
    BY <1>1, RateIsRead
  <2>0. Len(made) \in Nat /\ Len(made) > 1 /\ DOMAIN made = 1..Len(made)
    BY <1>1, WriterNumbers DEF Believed
  <2>2. n \in Nat /\ g \in Nat /\ j \in Nat /\ j <= n /\ i = j + 1
    BY <2>0
  <2>3. Span \in Int
    BY <1>1, SpanIs
  <2>4. a = (j * w) \div Milli
    BY DEF AtMs
  <2>5. Slack(i) = 2 * Milli + 2 * (j + 1)
    BY <2>2 DEF Slack
  <2> HIDE DEF n, g, u, w, j, a
  <2>6. j * (w - u) <= Milli + j /\ j * (u - w) <= Milli + j
    <3>1. w - u \in Int /\ u - w \in Int
      BY <2>1
    <3> QED
      BY <2>1, <2>2, <3>1, AviConstants, Shares
  <2>7. PICK r \in 0..Milli - 1 : j * w = Milli * a + r /\ a \in Int
    <3>1. j * w \in Int
      BY <2>1, <2>2
    <3>2. PICK q \in Int, r \in 0..Milli - 1 : j * w = Milli * q + r /\ (j * w) \div Milli = q
      BY <3>1, AviConstants, Division
    <3> QED
      BY <2>4, <3>2
  <2>8. /\ a * Milli * g - j * Span <= (2 * Milli + 2 * (j + 1)) * g
        /\ - (a * Milli * g - j * Span) <= (2 * Milli + 2 * (j + 1)) * g
    BY <2>1, <2>2, <2>3, <2>6, <2>7, AviConstants, Sums
  <2> QED
    BY <2>5, <2>8 DEF n, g, j, a
<1> QED
  BY <1>1, WriterAlways, PTL

-----------------------------------------------------------------------------
(* What is left of a recording whose end is missing.                        *)

(* Where the chunk after j frames begins.                                   *)
Ending == HeaderBytes + Bytes(made)
Place(j) == IF j < Len(made) THEN made[j + 1].off - 8 ELSE Ending

IdxChunk == Chunk(Ending, "idx1", 16 * Len(made), "")
FrameChunk(i) == Chunk(made[i].off - 8, "00dc", made[i].len, "")
FrameChunks == {FrameChunk(i) : i \in DOMAIN made}

(* What is in a file of which the frames are all written.                   *)
Placed ==
  /\ \A i \in DOMAIN made : made[i].len > 0
  /\ Len(made) <= MaxFrames
  /\ rec = "open" => file.chunks = FrameChunks
  /\ rec \in {"closing", "done"} =>
       /\ file.chunks = FrameChunks \cup {IdxChunk}
       /\ file.entries = [i \in DOMAIN made |-> Entry(i)]
       /\ file.len <= Ending + 8 + 16 * Len(made)
       /\ ~ cut => file.len = Ending + 8 + 16 * Len(made)
  /\ rec = "done" => file.upto = Least(HeaderBytes, file.len)

(* A padded chunk is as long as its frame and header, or one longer, and even. *)
LEMMA PaddedIs ==
  ASSUME NEW n \in Nat
  PROVE  Padded(n) \in Nat /\ Padded(n) >= 8 /\ Padded(n) >= 8 + n /\ Padded(n) <= 9 + n
<1>1. n % 2 \in {0, 1}
  OBVIOUS
<1> QED
  BY <1>1 DEF Padded

(* It is even.                                                              *)
LEMMA PaddedEven ==
  ASSUME NEW n \in Nat
  PROVE  \E h \in Nat : Padded(n) = 2 * h
<1>1. PICK q \in Int, r \in 0..2 - 1 : n = 2 * q + r /\ n % 2 = r
  BY Division
<1>2. Padded(n) = 2 * (4 + q + r) /\ 4 + q + r \in Nat
  BY <1>1 DEF Padded
<1> QED
  BY <1>2

(* The frames follow each other, the padding between them.                  *)
LEMMA PlaceTyped ==
  ASSUME WriterTypeOK, Laid, NEW j \in 0..Len(made)
  PROVE  /\ Place(j) \in Nat /\ Ending \in Int
         /\ j = 0 => Place(j) = 224
         /\ j # 0 => /\ j \in DOMAIN made /\ Place(j - 1) = made[j].off - 8
                     /\ Place(j) = Place(j - 1) + Padded(made[j].len)
<1>1. Len(made) \in Nat /\ DOMAIN made = 1..Len(made) /\ made \in Seq([off : Nat, len : Nat, at : Nat])
  BY FramesAre DEF WriterTypeOK
<1>0. Len(made) \in Nat
  BY <1>1
<1>6. j \in Nat /\ (j < Len(made) \/ j = Len(made))
  BY <1>0
<1>2. Ending \in Int
  BY BytesAreNumbers, AviConstants DEF Ending
<1>3. CASE j = 0 /\ Len(made) = 0
  <2>1. made = <<>>
    BY <1>1, <1>3
  <2>2. Bytes(made) = 0
    BY <1>1, <2>1, Ends
  <2> QED
    BY <1>2, <1>3, <2>2, AviConstants DEF Place, Ending
<1>4. CASE j = 0 /\ Len(made) # 0
  <2>1. 1 \in DOMAIN made /\ 0 < Len(made)
    BY <1>1, <1>4
  <2>2. made[1].off = 232
    BY <2>1, AviConstants DEF Laid
  <2> QED
    BY <1>2, <1>4, <2>1, <2>2 DEF Place
<1>5. CASE j # 0
  <2>1. j \in DOMAIN made /\ j - 1 < Len(made) /\ (j - 1) + 1 = j
    BY <1>1, <1>5
  <2>2. Place(j - 1) = made[j].off - 8
    BY <2>1 DEF Place
  <2>3. made[j].off \in Nat /\ made[j].len \in Nat /\ Padded(made[j].len) \in Nat
    <3>1. made[j].off \in Nat /\ made[j].len \in Nat
      BY <2>1, FramesAre
    <3>2. made[j].len % 2 \in Nat
      BY <3>1, Remainders
    <3> QED
      BY <3>1, <3>2 DEF Padded
  <2>4. Place(j) = made[j].off - 8 + Padded(made[j].len)
    <3>1. CASE j < Len(made)
      <4>1. j + 1 \in DOMAIN made /\ j + 1 # 1 /\ (j + 1) - 1 = j
        BY <1>1, <2>1, <3>1, SMTT(30)
      <4>2. made[j + 1].off = made[j].off + Padded(made[j].len)
        BY <4>1 DEF Laid
      <4>3. Place(j) = made[j + 1].off - 8
        BY <3>1 DEF Place
      <4> QED
        BY <2>3, <4>2, <4>3
    <3>2. CASE j = Len(made)
      <4>1. made # <<>>
        BY <1>1, <1>5, <3>2
      <4>2. 224 + Bytes(made) = made[j].off + Padded(made[j].len) - 8
        BY <1>1, <3>2, <4>1, Ends
      <4>3. Place(j) = 224 + Bytes(made)
        BY <1>1, <3>2, AviConstants DEF Place, Ending
      <4> QED
        BY <2>3, <4>2, <4>3
    <3> QED
      BY <1>6, <3>1, <3>2
  <2>5. made[j].off >= 8
    <3>1. j = 1 => made[j].off = 232
      BY <2>1, AviConstants DEF Laid
    <3>2. j # 1 => made[j].off = made[j - 1].off + Padded(made[j - 1].len)
      BY <2>1 DEF Laid
    <3>3. j # 1 => made[j - 1].off \in Nat /\ Padded(made[j - 1].len) \in Nat /\ Padded(made[j - 1].len) >= 8
      <4> SUFFICES ASSUME j # 1 PROVE made[j - 1].off \in Nat /\ Padded(made[j - 1].len) \in Nat
                                      /\ Padded(made[j - 1].len) >= 8
        OBVIOUS
      <4>1. j - 1 \in DOMAIN made
        BY <1>1, <2>1
      <4>2. made[j - 1].off \in Nat /\ made[j - 1].len \in Nat
        BY <4>1, FramesAre
      <4>3. \A n \in Nat : Padded(n) \in Nat /\ Padded(n) >= 8
        BY PaddedIs
      <4> QED
        BY <4>2, <4>3
    <3> QED
      BY <3>1, <3>2, <3>3
  <2>6. Place(j) \in Nat
    BY <2>3, <2>4, <2>5
  <2> QED
    BY <1>2, <1>5, <2>1, <2>2, <2>3, <2>4, <2>6
<1> QED
  BY <1>1, <1>3, <1>4, <1>5

(* The places of the frames are apart, and even.                            *)
LEMMA PlacesGrow ==
  ASSUME WriterTypeOK, Laid, NEW i \in 0..Len(made), NEW j \in 0..Len(made), i <= j
  PROVE  Place(j) >= Place(i) + 8 * (j - i)
<1>0. Len(made) \in Nat
  BY FramesAre
<1> DEFINE S == {d \in Nat : i + d <= Len(made) => Place(i + d) >= Place(i) + 8 * d}
<1>1. 0 \in S
  <2>1. i \in Nat /\ i + 0 = i
    BY <1>0
  <2>2. Place(i) \in Nat
    BY PlaceTyped
  <2> QED
    BY <2>1, <2>2
<1>2. ASSUME NEW d \in Nat, d \in S PROVE d + 1 \in S
  <2> SUFFICES ASSUME i + (d + 1) <= Len(made) PROVE Place(i + (d + 1)) >= Place(i) + 8 * (d + 1)
    OBVIOUS
  <2> DEFINE k == i + (d + 1)
  <2>1. k \in 0..Len(made) /\ k # 0 /\ k - 1 = i + d /\ i + d <= Len(made)
    BY <1>0
  <2>2. Place(i + d) >= Place(i) + 8 * d
    BY <1>2, <2>1
  <2> HIDE DEF k
  <2>3. k \in DOMAIN made /\ Place(k) \in Nat /\ Place(k) = Place(k - 1) + Padded(made[k].len)
    BY <2>1, PlaceTyped
  <2>4. Padded(made[k].len) \in Nat /\ Padded(made[k].len) >= 8
    <3>1. made[k].len \in Nat
      BY <2>3, FramesAre
    <3>2. \A n \in Nat : Padded(n) \in Nat /\ Padded(n) >= 8
      BY PaddedIs
    <3> QED
      BY <3>1, <3>2
  <2>5. Place(i) \in Nat /\ Place(k - 1) \in Nat
    <3>1. k - 1 \in 0..Len(made)
      BY <1>0, <2>1
    <3> QED
      BY <3>1, PlaceTyped
  <2>7. Place(k - 1) >= Place(i) + 8 * d
    BY <2>1, <2>2
  <2>6. Place(k) >= Place(i) + 8 * (d + 1)
    <3> DEFINE x == Place(i)
               y == Place(k - 1)
               z == Place(k)
               p == Padded(made[k].len)
    <3>1. x \in Nat /\ y \in Nat /\ z = y + p /\ p \in Nat /\ p >= 8 /\ y >= x + 8 * d
      BY <2>3, <2>4, <2>5, <2>7
    <3> HIDE DEF x, y, z, p
    <3>2. z >= x + 8 * (d + 1)
      BY <3>1
    <3> QED
      BY <3>2 DEF x, z
  <2> QED
    BY <2>6 DEF k
<1> HIDE DEF S
<1>3. j - i \in S
  <2>1. j - i \in Nat
    BY <1>0
  <2> QED
    BY <1>1, <1>2, <2>1, AllNumbers
<1>4. i + (j - i) = j
  BY <1>0
<1> QED
  BY <1>0, <1>3, <1>4 DEF S

(* Every chunk begins at an even offset.                                    *)
LEMMA PlacesAreEven ==
  ASSUME WriterTypeOK, Laid, NEW j \in 0..Len(made)
  PROVE  \E h \in Nat : Place(j) = 2 * h
<1>0. Len(made) \in Nat
  BY FramesAre
<1> DEFINE S == {n \in Nat : n <= Len(made) => \E h \in Nat : Place(n) = 2 * h}
<1>1. 0 \in S
  <2>1. Place(0) = 2 * 112
    <3>1. 0 \in 0..Len(made)
      BY <1>0
    <3> QED
      BY <3>1, PlaceTyped
  <2> QED
    BY <2>1
<1>2. ASSUME NEW n \in Nat, n \in S PROVE n + 1 \in S
  <2> SUFFICES ASSUME n + 1 <= Len(made) PROVE \E h \in Nat : Place(n + 1) = 2 * h
    OBVIOUS
  <2>1. n <= Len(made) /\ n + 1 \in 0..Len(made) /\ n + 1 # 0 /\ (n + 1) - 1 = n
    BY <1>0
  <2>2. PICK h \in Nat : Place(n) = 2 * h
    BY <1>2, <2>1
  <2>3. n + 1 \in DOMAIN made /\ Place(n + 1) = Place(n) + Padded(made[n + 1].len)
    BY <2>1, PlaceTyped
  <2>4. PICK g \in Nat : Padded(made[n + 1].len) = 2 * g
    <3>1. made[n + 1].len \in Nat
      BY <2>3, FramesAre
    <3> QED
      BY <3>1, PaddedEven
  <2>5. Place(n + 1) = 2 * (h + g) /\ h + g \in Nat
    BY <2>2, <2>3, <2>4
  <2> QED
    BY <2>5
<1> HIDE DEF S
<1>3. j \in Nat /\ j <= Len(made)
  BY <1>0
<1>4. j \in S
  BY <1>1, <1>2, <1>3, AllNumbers
<1> QED
  BY <1>3, <1>4 DEF S

(* What is known of the place of a frame.                                   *)
LEMMA PlaceOf ==
  ASSUME WriterTypeOK, Laid, NEW i \in DOMAIN made
  PROVE  /\ made[i].off \in Nat /\ made[i].len \in Nat
         /\ Place(i - 1) \in Nat /\ Place(i) \in Nat /\ Place(i - 1) >= 224
         /\ made[i].off = Place(i - 1) + 8
         /\ Place(i) = Place(i - 1) + Padded(made[i].len)
         /\ made[i].off + made[i].len <= Place(i) /\ Place(i) <= made[i].off + made[i].len + 1
<1>0. Len(made) \in Nat /\ DOMAIN made = 1..Len(made)
  BY FramesAre
<1>1. i \in 0..Len(made) /\ i - 1 \in 0..Len(made) /\ i # 0 /\ 0 \in 0..Len(made) /\ 0 <= i - 1
  BY <1>0
<1>2. /\ Place(i - 1) \in Nat /\ Place(i) \in Nat /\ Place(i - 1) = made[i].off - 8
      /\ Place(i) = Place(i - 1) + Padded(made[i].len)
  BY <1>1, PlaceTyped
<1>3. Place(i - 1) >= Place(0) + 8 * ((i - 1) - 0)
  BY <1>1, PlacesGrow
<1>4. Place(0) = 224
  BY <1>1, PlaceTyped
<1>5. Place(i - 1) >= 224
  <2>1. 8 * ((i - 1) - 0) \in Nat
    BY <1>0
  <2> QED
    BY <1>2, <1>3, <1>4, <2>1
<1>6. made[i].off \in Nat /\ made[i].len \in Nat
  BY FramesAre
<1>7. \A n \in Nat : Padded(n) \in Nat /\ Padded(n) >= 8 + n /\ Padded(n) <= 9 + n
  BY PaddedIs
<1>8. /\ Padded(made[i].len) \in Nat /\ Padded(made[i].len) >= 8 + made[i].len
      /\ Padded(made[i].len) <= 9 + made[i].len
  BY <1>6, <1>7
<1>9. made[i].off = Place(i - 1) + 8
  BY <1>2, <1>6
<1>10. made[i].off + made[i].len <= Place(i) /\ Place(i) <= made[i].off + made[i].len + 1
  BY <1>2, <1>6, <1>8, <1>9
<1> QED
  BY <1>2, <1>5, <1>6, <1>9, <1>10

(* What is left of a finished recording, its end cut off or not.            *)
Leftover(g) ==
  /\ g \in Files /\ g.head = Header /\ g.upto = Least(HeaderBytes, g.len)
  /\ g.chunks = FrameChunks \cup {IdxChunk}
  /\ g.entries = [i \in DOMAIN made |-> Entry(i)]
  /\ g.len <= Ending + 8 + 16 * Len(made)

(* The header's chunks begin below the movie's.                             *)
LEMMA HeaderIsLow == \A c \in Header.chunks : c.at \in 0..212
<1>1. PICK riff, list : Header.chunks = {Chunk(0, "RIFF", riff, "AVI "),
                  Chunk(12, "LIST", 192, "hdrl"), Chunk(24, "avih", 56, ""),
                  Chunk(88, "LIST", 116, "strl"), Chunk(100, "strh", 56, "vids"),
                  Chunk(164, "strf", 40, ""), Chunk(212, "LIST", list, "movi")}
  BY ZenonT(40) DEF Header
<1> SUFFICES ASSUME NEW c \in Header.chunks PROVE c.at \in 0..212
  OBVIOUS
<1>2. \/ c = Chunk(0, "RIFF", riff, "AVI ") \/ c = Chunk(12, "LIST", 192, "hdrl")
      \/ c = Chunk(24, "avih", 56, "") \/ c = Chunk(88, "LIST", 116, "strl")
      \/ c = Chunk(100, "strh", 56, "vids") \/ c = Chunk(164, "strf", 40, "")
      \/ c = Chunk(212, "LIST", list, "movi")
  BY <1>1
<1>3. Chunk(0, "RIFF", riff, "AVI ").at \in 0..212
  BY DEF Chunk
<1>4. Chunk(12, "LIST", 192, "hdrl").at \in 0..212
  BY DEF Chunk
<1>5. Chunk(24, "avih", 56, "").at \in 0..212
  BY DEF Chunk
<1>6. Chunk(88, "LIST", 116, "strl").at \in 0..212
  BY DEF Chunk
<1>7. Chunk(100, "strh", 56, "vids").at \in 0..212
  BY DEF Chunk
<1>8. Chunk(164, "strf", 40, "").at \in 0..212
  BY DEF Chunk
<1>9. Chunk(212, "LIST", list, "movi").at \in 0..212
  BY DEF Chunk
<1> QED
  BY <1>2, <1>3, <1>4, <1>5, <1>6, <1>7, <1>8, <1>9, ZenonT(40)

(* Where one chunk was written, and behind the header, that one is found.   *)
LEMMA LookBehind ==
  ASSUME NEW g, \A d \in g.head.chunks : d.at \in 0..212,
         NEW c \in g.chunks, c.at \in Nat, c.at >= 224, \A d \in g.chunks : d.at = c.at => d = c
  PROVE  Look(g, c.at) = c
<1> DEFINE there == {d \in g.chunks : d.at = c.at}
                    \cup (IF g.upto < c.at + 8 THEN {} ELSE {d \in g.head.chunks : d.at = c.at})
<1>1. \A d \in g.head.chunks : d.at # c.at
  OBVIOUS
<1>2. there = {c}
  BY <1>1
<1>3. Look(g, c.at) = CHOOSE d \in there : TRUE
  BY <1>2 DEF Look
<1> QED
  BY <1>2, <1>3

(* Behind the header the reader finds every frame, and the index, where it was written. *)
LEMMA FramesFound ==
  ASSUME WriterTypeOK, Laid, NEW g, Leftover(g)
  PROVE  /\ \A j \in 0..Len(made) : j < Len(made) => Look(g, Place(j)) = FrameChunk(j + 1)
         /\ Look(g, Ending) = IdxChunk
<1>0. Len(made) \in Nat /\ DOMAIN made = 1..Len(made)
  BY FramesAre
<1>1. \A d \in g.head.chunks : d.at \in 0..212
  BY HeaderIsLow DEF Leftover
<1>2. ASSUME NEW i \in DOMAIN made PROVE FrameChunk(i).at = Place(i - 1) /\ i - 1 \in 0..Len(made) /\ i - 1 < Len(made)
  <2>1. made[i].off - 8 = Place(i - 1)
    BY PlaceOf
  <2> QED
    BY <1>0, <2>1 DEF FrameChunk, Chunk
<1>3. IdxChunk.at = Place(Len(made)) /\ Ending = Place(Len(made))
  BY <1>0 DEF IdxChunk, Chunk, Place
<1>4. ASSUME NEW i \in 0..Len(made) PROVE Place(i) \in Nat /\ Place(i) >= 224
  <2>1. 0 \in 0..Len(made) /\ 0 <= i
    BY <1>0
  <2>2. Place(0) = 224 /\ Place(i) \in Nat
    BY <2>1, PlaceTyped
  <2>3. Place(i) >= Place(0) + 8 * (i - 0)
    BY <2>1, PlacesGrow
  <2> QED
    BY <1>0, <2>2, <2>3
<1>5. ASSUME NEW i \in 0..Len(made), NEW j \in 0..Len(made), i < j PROVE Place(i) # Place(j)
  <2>1. Place(j) >= Place(i) + 8 * (j - i)
    BY <1>0, <1>5, PlacesGrow
  <2>2. j - i \in Nat /\ j - i >= 1
    BY <1>0, <1>5
  <2> QED
    BY <1>4, <2>1, <2>2
<1>6. ASSUME NEW i \in 0..Len(made), NEW j \in 0..Len(made), Place(i) = Place(j) PROVE i = j
  BY <1>0, <1>5, <1>6
<1>7. g.chunks = FrameChunks \cup {IdxChunk}
  BY DEF Leftover
<1>8. ASSUME NEW i \in DOMAIN made PROVE Look(g, Place(i - 1)) = FrameChunk(i)
  <2>1. FrameChunk(i) \in g.chunks
    BY <1>7 DEF FrameChunks
  <2>2. ASSUME NEW d \in g.chunks, d.at = FrameChunk(i).at PROVE d = FrameChunk(i)
    <3>1. CASE d = IdxChunk
      <4>1. Place(i - 1) = Place(Len(made)) /\ i - 1 \in 0..Len(made) /\ Len(made) \in 0..Len(made)
        BY <1>0, <1>2, <1>3, <2>2, <3>1
      <4> QED
        BY <1>2, <1>6, <4>1
    <3>2. ASSUME NEW k \in DOMAIN made, d = FrameChunk(k) PROVE d = FrameChunk(i)
      <4>1. Place(i - 1) = Place(k - 1)
        BY <1>2, <2>2, <3>2
      <4>2. i - 1 = k - 1
        BY <1>2, <1>6, <4>1
      <4>3. i = k
        BY <1>0, <4>2
      <4> QED
        BY <3>2, <4>3
    <3> QED
      BY <1>7, <3>1, <3>2 DEF FrameChunks
  <2>3. FrameChunk(i).at \in Nat /\ FrameChunk(i).at >= 224
    BY <1>2, <1>4
  <2>4. Look(g, FrameChunk(i).at) = FrameChunk(i)
    BY <1>1, <2>1, <2>2, <2>3, LookBehind
  <2> QED
    BY <1>2, <2>4
<1>9. Look(g, Ending) = IdxChunk
  <2>1. IdxChunk \in g.chunks
    BY <1>7
  <2>2. ASSUME NEW d \in g.chunks, d.at = IdxChunk.at PROVE d = IdxChunk
    <3>1. ASSUME NEW k \in DOMAIN made, d = FrameChunk(k) PROVE FALSE
      <4>1. Place(k - 1) = Place(Len(made)) /\ Len(made) \in 0..Len(made)
        BY <1>0, <1>2, <1>3, <2>2, <3>1
      <4> QED
        BY <1>2, <1>6, <4>1
    <3> QED
      BY <1>7, <3>1 DEF FrameChunks
  <2>3. IdxChunk.at \in Nat /\ IdxChunk.at >= 224
    <3>1. Len(made) \in 0..Len(made)
      BY <1>0
    <3> QED
      BY <1>3, <1>4, <3>1
  <2>4. Look(g, IdxChunk.at) = IdxChunk
    BY <1>1, <2>1, <2>2, <2>3, LookBehind
  <2> QED
    BY <1>3, <2>4
<1>10. ASSUME NEW j \in 0..Len(made), j < Len(made) PROVE Look(g, Place(j)) = FrameChunk(j + 1)
  <2>1. j + 1 \in DOMAIN made /\ (j + 1) - 1 = j
    BY <1>0, <1>10
  <2> QED
    BY <1>8, <2>1
<1> QED
  BY <1>9, <1>10

(* The first frames, as they were written.                                  *)
FramePlaces == [off : Nat, len : Nat]
FirstFrames(k) == [i \in 1..k |-> [off |-> made[i].off, len |-> made[i].len]]

(* The first k frames, as the reader lists them.                            *)
LEMMA FirstTyped ==
  ASSUME WriterTypeOK, NEW k \in 0..Len(made)
  PROVE  /\ FirstFrames(k) \in Seq(FramePlaces) /\ Len(FirstFrames(k)) = k
         /\ DOMAIN FirstFrames(k) = 1..k
         /\ \A i \in 1..k : FirstFrames(k)[i] = [off |-> made[i].off, len |-> made[i].len]
<1>0. Len(made) \in Nat /\ DOMAIN made = 1..Len(made)
  BY FramesAre
<1>1. k \in Nat
  BY <1>0
<1>2. ASSUME NEW i \in 1..k PROVE [off |-> made[i].off, len |-> made[i].len] \in FramePlaces
  <2>1. i \in DOMAIN made
    BY <1>0
  <2>2. made[i].off \in Nat /\ made[i].len \in Nat
    BY <2>1, FramesAre
  <2> QED
    BY <2>2 DEF FramePlaces
<1>3. FirstFrames(k) \in [1..k -> FramePlaces]
  BY <1>2 DEF FirstFrames
<1>4. FirstFrames(k) \in Seq(FramePlaces) /\ Len(FirstFrames(k)) = k
  BY <1>1, <1>3
<1> QED
  BY <1>3, <1>4 DEF FirstFrames

(* Their list grows by the next frame.                                      *)
LEMMA OneMore ==
  ASSUME WriterTypeOK, NEW n \in DOMAIN made
  PROVE  Append(FirstFrames(n - 1), [off |-> made[n].off, len |-> made[n].len]) = FirstFrames(n)
<1>0. Len(made) \in Nat /\ DOMAIN made = 1..Len(made)
  BY FramesAre
<1>1. n - 1 \in 0..Len(made) /\ n \in 0..Len(made) /\ n \in Nat /\ n >= 1
  BY <1>0
<1> DEFINE s == FirstFrames(n - 1)
           m == [off |-> made[n].off, len |-> made[n].len]
           t == FirstFrames(n)
<1>2. s \in Seq(FramePlaces) /\ Len(s) = n - 1 /\ \A i \in 1..n - 1 : s[i] = [off |-> made[i].off, len |-> made[i].len]
  BY <1>1, FirstTyped
<1>3. t \in Seq(FramePlaces) /\ Len(t) = n /\ \A i \in 1..n : t[i] = [off |-> made[i].off, len |-> made[i].len]
  BY <1>1, FirstTyped
<1>4. m \in FramePlaces
  <2>1. made[n].off \in Nat /\ made[n].len \in Nat
    BY FramesAre
  <2> QED
    BY <2>1 DEF FramePlaces
<1>5. t[n] = m
  BY <1>1, <1>3
<1>6. ASSUME NEW i \in 1..n - 1 PROVE t[i] = s[i]
  <2>1. i \in 1..n
    BY <1>1
  <2>2. t[i] = [off |-> made[i].off, len |-> made[i].len]
    BY <1>3, <2>1
  <2> QED
    BY <1>2, <2>2
<1> HIDE DEF s, m, t
<1>7. Append(s, m) = t
  BY <1>1, <1>2, <1>3, <1>4, <1>5, <1>6
<1> QED
  BY <1>7 DEF s, m, t

(* They are the first k of what was written.                                *)
LEMMA FirstOfWritten ==
  ASSUME WriterTypeOK, NEW k \in 0..Len(made)
  PROVE  SubSeq(Written, 1, k) = FirstFrames(k)
<1>0. Len(made) \in Nat /\ DOMAIN made = 1..Len(made) /\ k \in Nat
  BY FramesAre
<1>1. Written = FirstFrames(Len(made))
  BY <1>0 DEF Written, FirstFrames
<1>2. Len(made) \in 0..Len(made)
  BY <1>0
<1>3. Written \in Seq(FramePlaces) /\ Len(Written) = Len(made)
      /\ \A i \in 1..Len(made) : Written[i] = [off |-> made[i].off, len |-> made[i].len]
  BY <1>1, <1>2, FirstTyped
<1> HIDE DEF Written
<1>4. SubSeq(Written, 1, k) = [i \in 1..k |-> Written[i]]
  BY <1>0, <1>3
<1> QED
  BY <1>0, <1>3, <1>4 DEF FirstFrames

(* How many frames are there before the end.                                *)
WholeUpTo(w, end) ==
  /\ \A i \in 1..w : made[i].off + made[i].len <= end
  /\ w < Len(made) => made[w + 1].off + made[w + 1].len > end

(* Up to any end there is a last frame that is whole.                       *)
LEMMA SomeAreWhole ==
  ASSUME WriterTypeOK, NEW end \in Int
  PROVE  \E w \in 0..Len(made) : WholeUpTo(w, end)
<1>0. Len(made) \in Nat /\ DOMAIN made = 1..Len(made)
  BY FramesAre
<1> DEFINE S == {i \in 1..Len(made) + 1 : i <= Len(made) => made[i].off + made[i].len > end}
<1>1. Len(made) + 1 \in S /\ S \in SUBSET Nat
  BY <1>0
<1>2. PICK x \in S : \A y \in S : x <= y
  BY <1>1, LeastNumber
<1>3. x \in Nat /\ x - 1 \in 0..Len(made) /\ (x - 1) + 1 = x
  BY <1>0
<1>4. ASSUME NEW i \in 1..x - 1 PROVE made[i].off + made[i].len <= end
  <2>1. i \notin S /\ i \in DOMAIN made
    BY <1>0, <1>2, <1>3
  <2>2. made[i].off \in Nat /\ made[i].len \in Nat
    BY <2>1, FramesAre
  <2> QED
    BY <1>0, <2>1, <2>2
<1>5. x - 1 < Len(made) => made[(x - 1) + 1].off + made[(x - 1) + 1].len > end
  BY <1>0, <1>2, <1>3
<1> QED
  BY <1>3, <1>4, <1>5 DEF WholeUpTo

(* The walk of the movie list, from its first chunk, stops where the frames *)
(* are no longer whole.                                                     *)
Reached(k) == [at |-> Place(k), frames |-> FirstFrames(k)]

(* A frame's chunk says so, and how long the frame is.                      *)
LEMMA ChunkOfFrame ==
  ASSUME NEW i
  PROVE  FrameChunk(i).id = "00dc" /\ FrameChunk(i).size = made[i].len
BY DEF FrameChunk, Chunk

(* The walk of the movie takes a frame that is whole.                       *)
LEMMA OneFrameOn ==
  ASSUME WriterTypeOK, Laid, \A i \in DOMAIN made : made[i].len > 0, Len(made) <= MaxFrames,
         NEW g, Leftover(g), NEW end \in Int, NEW n \in DOMAIN made, made[n].off + made[n].len <= end
  PROVE  NextChunk(g, end, Reached(n - 1)) = Reached(n)
<1>0. Len(made) \in Nat /\ DOMAIN made = 1..Len(made)
  BY FramesAre
<1>1. n - 1 \in 0..Len(made) /\ n - 1 < Len(made) /\ (n - 1) + 1 = n
  BY <1>0
<1> DEFINE s == Reached(n - 1)
           c == Look(g, s.at)
<1>2. s.at = Place(n - 1) /\ s.frames = FirstFrames(n - 1) /\ Len(s.frames) = n - 1
  BY <1>1, FirstTyped DEF Reached
<1>3. c = FrameChunk(n)
  BY <1>1, <1>2, FramesFound
<1>4. c.id = "00dc" /\ c.size = made[n].len
  BY <1>3, ChunkOfFrame
<1>5. /\ made[n].off \in Nat /\ made[n].len \in Nat /\ made[n].len > 0 /\ Place(n - 1) \in Nat
      /\ made[n].off = Place(n - 1) + 8 /\ Place(n) = Place(n - 1) + Padded(made[n].len)
  BY PlaceOf
<1>6. s.at + 8 = made[n].off
  BY <1>2, <1>5
<1>7. ~ (s.at + 8 > end) /\ ~ (Len(s.frames) = MaxFrames) /\ ~ (s.at + 8 + c.size > end)
  <2>1. made[n].off <= end
    BY <1>5
  <2>2. Len(s.frames) # MaxFrames
    BY <1>0, <1>1, <1>2, AviConstants
  <2>3. s.at + 8 + c.size = made[n].off + made[n].len
    BY <1>4, <1>6
  <2>4. ~ (made[n].off > end) /\ ~ (made[n].off + made[n].len > end)
    BY <1>5, <2>1
  <2> QED
    BY <1>6, <2>2, <2>3, <2>4, ZenonT(40)
<1>8. NextChunk(g, end, s) = [at |-> s.at + Stride(c.size), frames |-> Append(s.frames, [off |-> s.at + 8, len |-> c.size])]
  BY <1>4, <1>5, <1>7 DEF NextChunk
<1>9. Stride(c.size) = Padded(made[n].len)
  BY <1>4 DEF Stride, Padded
<1>10. Append(s.frames, [off |-> s.at + 8, len |-> c.size]) = FirstFrames(n)
  BY <1>2, <1>4, <1>6, OneMore
<1>11. s.at + Stride(c.size) = Place(n)
  BY <1>2, <1>5, <1>9
<1> HIDE DEF s, c
<1>12. NextChunk(g, end, s) = Reached(n)
  BY <1>8, <1>10, <1>11 DEF Reached
<1> QED
  BY <1>12 DEF s

(* At the first that is not it stays.                                       *)
LEMMA NoFrameOn ==
  ASSUME WriterTypeOK, Laid, NEW g, Leftover(g), NEW end \in Int, end <= Ending,
         NEW w \in 0..Len(made), WholeUpTo(w, end)
  PROVE  NextChunk(g, end, Reached(w)) = Reached(w)
<1>0. Len(made) \in Nat /\ DOMAIN made = 1..Len(made)
  BY FramesAre
<1>1. Place(w) \in Nat /\ Ending \in Int
  BY PlaceTyped
<1>2. CASE w = Len(made)
  <2>1. Place(w) + 8 > end
    BY <1>1, <1>2 DEF Place
  <2> QED
    BY <2>1 DEF NextChunk, Reached
<1>3. CASE w # Len(made)
  <2>0. Len(made) \in Nat
    BY <1>0
  <2>7. w < Len(made) /\ w + 1 \in 1..Len(made) /\ (w + 1) - 1 = w
    BY <1>3, <2>0
  <2>1. w < Len(made) /\ w + 1 \in DOMAIN made /\ (w + 1) - 1 = w
    BY <1>0, <2>7
  <2>2. made[w + 1].off + made[w + 1].len > end
    BY <2>1 DEF WholeUpTo
  <2>3. made[w + 1].off = Place(w) + 8
    BY <2>1, PlaceOf
  <2>4. Look(g, Place(w)) = FrameChunk(w + 1)
    BY <2>1, FramesFound
  <2>5. Look(g, Place(w)).size = made[w + 1].len
    BY <2>4, ChunkOfFrame
  <2>6. Place(w) + 8 + Look(g, Place(w)).size > end
    BY <2>2, <2>3, <2>5
  <2> QED
    BY <2>6 DEF NextChunk, Reached
<1> QED
  BY <1>2, <1>3

(* After k steps it has the first k frames, or all that are whole.          *)
LEMMA MovieIsWalked ==
  ASSUME WriterTypeOK, Laid, \A i \in DOMAIN made : made[i].len > 0, Len(made) <= MaxFrames,
         NEW g, Leftover(g), NEW end \in Int, end <= Ending, NEW w \in 0..Len(made), WholeUpTo(w, end),
         NEW k \in Nat
  PROVE  MovieWalk(g, 224, end)[k] = Reached(Least(k, w))
<1>0. Len(made) \in Nat /\ DOMAIN made = 1..Len(made) /\ w \in Nat
  BY FramesAre
<1> DEFINE IsWalk(f) == f = [n \in Nat |-> IF n = 0 THEN [at |-> 224, frames |-> <<>>] ELSE NextChunk(g, end, f[n - 1])]
           to == [n \in Nat |-> Reached(Least(n, w))]
<1>1. Reached(0) = [at |-> 224, frames |-> <<>>]
  <2>1. 0 \in 0..Len(made)
    BY <1>0
  <2>2. Place(0) = 224
    BY <2>1, PlaceTyped
  <2>3. FirstFrames(0) = <<>>
    BY DEF FirstFrames
  <2> QED
    BY <2>2, <2>3 DEF Reached
<1>2. ASSUME NEW n \in Nat PROVE Reached(Least(n, w)) = IF n = 0 THEN [at |-> 224, frames |-> <<>>]
                                                         ELSE NextChunk(g, end, Reached(Least(n - 1, w)))
  <2>1. CASE n = 0
    BY <1>0, <1>1, <2>1 DEF Least
  <2>2. CASE n # 0 /\ n <= w
    <3>1. n \in DOMAIN made /\ Least(n, w) = n /\ Least(n - 1, w) = n - 1 /\ n \in 1..w
      BY <1>0, <2>2 DEF Least
    <3>2. made[n].off + made[n].len <= end
      BY <3>1 DEF WholeUpTo
    <3>3. NextChunk(g, end, Reached(n - 1)) = Reached(n)
      BY <3>1, <3>2, OneFrameOn
    <3> QED
      BY <2>2, <3>1, <3>3
  <2>3. CASE n # 0 /\ n > w
    <3>1. Least(n, w) = w /\ Least(n - 1, w) = w
      BY <1>0, <2>3 DEF Least
    <3> QED
      BY <2>3, <3>1, NoFrameOn
  <2> QED
    BY <1>0, <2>1, <2>2, <2>3
<1>3. IsWalk(to)
  <2>1. ASSUME NEW n \in Nat PROVE to[n] = IF n = 0 THEN [at |-> 224, frames |-> <<>>] ELSE NextChunk(g, end, to[n - 1])
    <3>1. n # 0 => n - 1 \in Nat
      OBVIOUS
    <3> QED
      BY <1>2, <3>1
  <2> QED
    BY <2>1
<1> DEFINE f == MovieWalk(g, 224, end)
<1>4. IsWalk(f)
  <2> HIDE DEF to
  <2> QED
    BY <1>3 DEF MovieWalk
<1> HIDE DEF f
<1> DEFINE S == {n \in Nat : f[n] = Reached(Least(n, w))}
<1>5. 0 \in S
  BY <1>0, <1>1, <1>4 DEF Least
<1>6. ASSUME NEW n \in Nat, n \in S PROVE n + 1 \in S
  <2>1. n + 1 \in Nat /\ n + 1 # 0 /\ (n + 1) - 1 = n
    OBVIOUS
  <2>2. f[n + 1] = NextChunk(g, end, f[n])
    BY <1>4, <2>1
  <2>3. f[n] = Reached(Least(n, w))
    BY <1>6
  <2>4. Reached(Least(n + 1, w)) = NextChunk(g, end, Reached(Least(n, w)))
    BY <1>2, <2>1
  <2> QED
    BY <2>1, <2>2, <2>3, <2>4
<1> HIDE DEF S
<1>7. k \in S
  BY <1>5, <1>6, AllNumbers
<1> QED
  BY <1>7 DEF S, f

(* What the header says of the lengths, where they do not wrap.             *)
MovieList == (4 + (Bytes(made) % Wrap)) % Wrap
RiffSize == (4 + 200 + 8 + MovieList + 8 + 16 * Len(made)) % Wrap
WholeLen == Ending + 8 + 16 * Len(made)

(* A number below 2^32 does not wrap.                                       *)
LEMMA SmallStays ==
  ASSUME NEW x \in Nat, x < Wrap
  PROVE  x % Wrap = x
<1>0. x \in Int
  OBVIOUS
<1>1. PICK q \in Int, r \in 0..Wrap - 1 : x = Wrap * q + r /\ x % Wrap = r
  BY <1>0, AviConstants, Division, ZenonT(40)
<1>2. Wrap * 0 + x = Wrap * q + r /\ x \in 0..Wrap - 1
  BY <1>1, AviConstants
<1>3. x = r
  BY <1>1, <1>2, AviConstants, DivUnique
<1> QED
  BY <1>1, <1>3

(* The frames end at an even number that leaves each of them its chunk header. *)
LEMMA EndingTyped ==
  ASSUME WriterTypeOK, Laid
  PROVE  /\ Len(made) \in Nat /\ Ending \in Nat /\ Ending >= 224 + 8 * Len(made) /\ Bytes(made) = Ending - 224
         /\ \E h \in Nat : Ending = 2 * h
<1>0. Len(made) \in Nat
  BY FramesAre
<1>1. 0 \in 0..Len(made) /\ Len(made) \in 0..Len(made) /\ 0 <= Len(made)
  BY <1>0
<1>2. Place(Len(made)) = Ending
  BY <1>0 DEF Place
<1>3. Ending \in Nat /\ Place(0) = 224
  BY <1>1, <1>2, PlaceTyped
<1>4. Ending >= Place(0) + 8 * (Len(made) - 0)
  BY <1>1, <1>2, PlacesGrow
<1>5. \E h \in Nat : Ending = 2 * h
  BY <1>1, <1>2, PlacesAreEven
<1>6. Bytes(made) \in Int
  BY BytesAreNumbers
<1>7. Bytes(made) = Ending - 224
  BY <1>6, AviConstants DEF Ending
<1> QED
  BY <1>0, <1>3, <1>4, <1>5, <1>7

(* Below 2^32 bytes the header states the lengths that are.                 *)
LEMMA StatedLengths ==
  ASSUME WriterTypeOK, Laid, WholeLen <= Wrap
  PROVE  MovieList = Ending - 220 /\ RiffSize = WholeLen - 8 /\ WholeLen \in Nat
<1>1. Len(made) \in Nat /\ Ending \in Nat /\ Ending >= 224 + 8 * Len(made) /\ Bytes(made) = Ending - 224
  BY EndingTyped
<1> DEFINE n == Len(made)
           b == Bytes(made)
<1>2. n \in Nat /\ b \in Nat /\ Ending = b + 224 /\ WholeLen = b + 232 + 16 * n
  BY <1>1 DEF WholeLen
<1> HIDE DEF n, b
<1>3. b < Wrap /\ 4 + b < Wrap /\ 4 + 200 + 8 + (4 + b) + 8 + 16 * n < Wrap
  BY <1>2, AviConstants
<1>4. b % Wrap = b
  BY <1>2, <1>3, SmallStays
<1>5. (4 + b) % Wrap = 4 + b
  BY <1>2, <1>3, SmallStays
<1>6. MovieList = 4 + b
  BY <1>4, <1>5 DEF MovieList, b
<1>7. (4 + 200 + 8 + (4 + b) + 8 + 16 * n) % Wrap = 4 + 200 + 8 + (4 + b) + 8 + 16 * n
  <2>1. 4 + 200 + 8 + (4 + b) + 8 + 16 * n \in Nat
    BY <1>2
  <2> QED
    BY <1>3, <2>1, SmallStays
<1>8. RiffSize = 4 + 200 + 8 + (4 + b) + 8 + 16 * n
  BY <1>6, <1>7 DEF RiffSize, n
<1> QED
  BY <1>2, <1>6, <1>8

(* The header's chunks, with these lengths named.                           *)
LEMMA HeaderIs ==
  Header.chunks = {Chunk(0, "RIFF", RiffSize, "AVI "), Chunk(12, "LIST", 192, "hdrl"), Chunk(24, "avih", 56, ""),
                   Chunk(88, "LIST", 116, "strl"), Chunk(100, "strh", 56, "vids"),
                   Chunk(164, "strf", 40, ""), Chunk(212, "LIST", MovieList, "movi")}
BY ZenonT(40) DEF Header, RiffSize, MovieList

(* Whatever is left of a recording whose header is whole, it is all that is read. *)
LEMMA HeaderThere ==
  ASSUME WriterTypeOK, Laid, NEW g, Leftover(g), g.len >= 224
  PROVE  /\ Look(g, 0) = Chunk(0, "RIFF", RiffSize, "AVI ") /\ Look(g, 12) = Chunk(12, "LIST", 192, "hdrl")
         /\ Look(g, 24) = Chunk(24, "avih", 56, "") /\ Look(g, 88) = Chunk(88, "LIST", 116, "strl")
         /\ Look(g, 100) = Chunk(100, "strh", 56, "vids") /\ Look(g, 164) = Chunk(164, "strf", 40, "")
         /\ Look(g, 212) = Chunk(212, "LIST", MovieList, "movi")
<1>1. g.upto = 224 /\ g.len \in Nat
  <2>1. g.len \in Nat /\ g.upto = Least(HeaderBytes, g.len)
    BY FilesAre DEF Leftover
  <2> QED
    BY <2>1, AviConstants DEF Least
<1>2. \A c \in g.chunks : c.at >= 224 /\ c.at \in Nat
  <2>1. ASSUME NEW i \in DOMAIN made PROVE FrameChunk(i).at >= 224 /\ FrameChunk(i).at \in Nat
    <3>1. made[i].off = Place(i - 1) + 8 /\ Place(i - 1) >= 224 /\ Place(i - 1) \in Nat
      BY PlaceOf
    <3>2. made[i].off - 8 >= 224 /\ made[i].off - 8 \in Nat
      BY <3>1
    <3> QED
      BY <3>2 DEF FrameChunk, Chunk
  <2>2. IdxChunk.at >= 224 /\ IdxChunk.at \in Nat
    <3>1. Ending >= 224 /\ Ending \in Nat
      <4>1. Len(made) \in Nat /\ Ending \in Nat /\ Ending >= 224 + 8 * Len(made)
        BY EndingTyped
      <4> QED
        BY <4>1
    <3> QED
      BY <3>1 DEF IdxChunk, Chunk
  <2> QED
    BY <2>1, <2>2 DEF Leftover, FrameChunks
<1> DEFINE c0 == Chunk(0, "RIFF", RiffSize, "AVI ")
           c1 == Chunk(12, "LIST", 192, "hdrl")
           c2 == Chunk(24, "avih", 56, "")
           c3 == Chunk(88, "LIST", 116, "strl")
           c4 == Chunk(100, "strh", 56, "vids")
           c5 == Chunk(164, "strf", 40, "")
           c6 == Chunk(212, "LIST", MovieList, "movi")
<1>3. c0.at = 0 /\ c1.at = 12 /\ c2.at = 24 /\ c3.at = 88 /\ c4.at = 100 /\ c5.at = 164 /\ c6.at = 212
  BY DEF Chunk
<1>4. g.head.chunks = {c0, c1, c2, c3, c4, c5, c6}
  BY HeaderIs DEF Leftover
<1> HIDE DEF c0, c1, c2, c3, c4, c5, c6
<1>5. ASSUME NEW at \in 0..212, NEW c, c.at = at, c \in g.head.chunks,
             \A d \in g.head.chunks : d.at = at => d = c
      PROVE  Look(g, at) = c
  <2> DEFINE there == {d \in g.chunks : d.at = at}
                      \cup (IF g.upto < at + 8 THEN {} ELSE {d \in g.head.chunks : d.at = at})
  <2>1. {d \in g.chunks : d.at = at} = {}
    BY <1>2
  <2>2. ~(g.upto < at + 8)
    BY <1>1
  <2>3. there = {c}
    BY <1>5, <2>1, <2>2
  <2> HIDE DEF there
  <2>4. Look(g, at) = CHOOSE d \in there : TRUE
    BY <2>3 DEF Look, there
  <2> QED
    BY <2>3, <2>4
<1>6. /\ 0 \in 0..212 /\ 12 \in 0..212 /\ 24 \in 0..212 /\ 88 \in 0..212 /\ 100 \in 0..212
      /\ 164 \in 0..212 /\ 212 \in 0..212
  OBVIOUS
<1>10. c0 \in g.head.chunks /\ \A d \in g.head.chunks : d.at = 0 => d = c0
  BY <1>3, <1>4
<1>11. c1 \in g.head.chunks /\ \A d \in g.head.chunks : d.at = 12 => d = c1
  BY <1>3, <1>4
<1>12. c2 \in g.head.chunks /\ \A d \in g.head.chunks : d.at = 24 => d = c2
  BY <1>3, <1>4
<1>13. c3 \in g.head.chunks /\ \A d \in g.head.chunks : d.at = 88 => d = c3
  BY <1>3, <1>4
<1>14. c4 \in g.head.chunks /\ \A d \in g.head.chunks : d.at = 100 => d = c4
  BY <1>3, <1>4
<1>15. c5 \in g.head.chunks /\ \A d \in g.head.chunks : d.at = 164 => d = c5
  BY <1>3, <1>4
<1>16. c6 \in g.head.chunks /\ \A d \in g.head.chunks : d.at = 212 => d = c6
  BY <1>3, <1>4
<1>20. Look(g, 0) = c0
  BY <1>3, <1>5, <1>6, <1>10
<1>21. Look(g, 12) = c1
  BY <1>3, <1>5, <1>6, <1>11
<1>22. Look(g, 24) = c2
  BY <1>3, <1>5, <1>6, <1>12
<1>23. Look(g, 88) = c3
  BY <1>3, <1>5, <1>6, <1>13
<1>24. Look(g, 100) = c4
  BY <1>3, <1>5, <1>6, <1>14
<1>25. Look(g, 164) = c5
  BY <1>3, <1>5, <1>6, <1>15
<1>26. Look(g, 212) = c6
  BY <1>3, <1>5, <1>6, <1>16
<1> QED
  BY <1>20, <1>21, <1>22, <1>23, <1>24, <1>25, <1>26 DEF c0, c1, c2, c3, c4, c5, c6

(* The length a recording states is the one it had.                         *)
LEMMA SizeIsLen ==
  ASSUME WriterTypeOK, Laid, WholeLen <= Wrap, NEW g, Leftover(g), g.len >= 224
  PROVE  SizeOf(g) = g.len
<1>1. Look(g, 0).size = RiffSize
  <2>1. Look(g, 0) = Chunk(0, "RIFF", RiffSize, "AVI ")
    BY HeaderThere
  <2>2. Chunk(0, "RIFF", RiffSize, "AVI ").size = RiffSize
    BY DEF Chunk
  <2> QED
    BY <2>1, <2>2
<1>2. RiffSize = WholeLen - 8 /\ WholeLen \in Nat
  BY StatedLengths
<1>3. g.len <= WholeLen /\ g.len \in Nat
  BY FilesAre DEF Leftover, WholeLen
<1>4. Look(g, 0).size + 8 = WholeLen
  BY <1>1, <1>2
<1>5. Least(WholeLen, g.len) = g.len
  BY <1>2, <1>3 DEF Least
<1> QED
  BY <1>4, <1>5 DEF SizeOf

(* The reader in a list, from a place in it, with the rest of the lists it is in. *)
In(a, b, rest, got) == [lists |-> Level(a, b) \o rest, got |-> got]

Levels == [at : Nat, end : Int]

Inner(g, a, z) == IF Descended(g, Look(g, a)) THEN Level(a + 12, a + 8 + z) ELSE <<>>

(* A field of a record of two.                                              *)
LEMMA FieldSet ==
  ASSUME NEW p, NEW q, NEW x, NEW s, s = [lists |-> p, got |-> q]
  PROVE  [s EXCEPT !.lists = x] = [lists |-> x, got |-> q]
OBVIOUS

(* One level is a list of levels.                                           *)
LEMMA OneLevel ==
  ASSUME NEW a \in Nat, NEW b \in Int
  PROVE  Level(a, b) \in Seq(Levels)
<1>1. [at |-> a, end |-> b] \in Levels
  BY DEF Levels
<1> HIDE DEF Levels
<1> QED
  BY <1>1 DEF Level

(* Joining them is associative.                                             *)
LEMMA LevelsJoin == \A x, y, z \in Seq(Levels) : (x \o y) \o z = x \o (y \o z)
<1>1. \A S : \A x, y, z \in Seq(S) : (x \o y) \o z = x \o (y \o z)
  BY ConcatAssociative, ZenonT(40)
<1> QED
  BY <1>1

(* It comes before the levels it is put in front of.                        *)
LEMMA LevelFirst ==
  ASSUME NEW a \in Nat, NEW b \in Int, NEW rest \in Seq(Levels)
  PROVE  /\ Level(a, b) \o rest \in Seq(Levels) /\ Level(a, b) \o rest # <<>>
         /\ Head(Level(a, b) \o rest) = [at |-> a, end |-> b] /\ Tail(Level(a, b) \o rest) = rest
         /\ Len(Level(a, b) \o rest) = Len(rest) + 1
<1> DEFINE x == [at |-> a, end |-> b]
<1>1. x \in Levels
  BY DEF Levels
<1>2. x.at = a /\ x.end = b
  OBVIOUS
<1> HIDE DEF x
<1>3. ASSUME NEW S, NEW y \in S, NEW r \in Seq(S)
      PROVE  /\ <<y>> \o r \in Seq(S) /\ <<y>> \o r # <<>> /\ Head(<<y>> \o r) = y /\ Tail(<<y>> \o r) = r
             /\ Len(<<y>> \o r) = Len(r) + 1
  OBVIOUS
<1>4. Level(a, b) = <<x>>
  BY DEF Level, x
<1> HIDE DEF Levels
<1> QED
  BY <1>1, <1>3, <1>4 DEF x

(* A turn at a chunk of which the header fits into the list.                *)
Taken(g, a, b) == Within(Look(g, a).size, a + 8, b)
Room(g, a, b) == ~ (a + 8 > Least(b, g.len)) /\ (Look(g, a).id = "LIST" => ~ (a + 12 > Least(b, g.len)))
After(g, a, b, rest, t) ==
  [lists |-> Inner(g, a, Taken(g, a, b)) \o Level(a + 8 + Taken(g, a, b) + (Taken(g, a, b) % 2), b) \o rest,
   got |-> Found(g, Look(g, a), Taken(g, a, b), t)]

(* Such a turn takes the chunk and goes on behind it, and into it first where it is a list *)
(* of headers.                                                              *)
LEMMA TurnIs ==
  ASSUME NEW g, NEW a \in Nat, NEW b \in Int, NEW rest \in Seq(Levels), Len(rest) <= 8, NEW t, Room(g, a, b)
  PROVE  Turn(g, In(a, b, rest, t)) = After(g, a, b, rest, t)
<1> DEFINE l == Level(a, b) \o rest
           s == In(a, b, rest, t)
           c == Look(g, a)
           z == Taken(g, a, b)
<1>1. l # <<>> /\ Head(l) = [at |-> a, end |-> b] /\ Tail(l) = rest /\ Len(l) = Len(rest) + 1
  BY LevelFirst, ZenonT(40)
<1>2. s.lists = l /\ s.got = t
  BY DEF In
<1>3. Head(s.lists).at = a /\ Head(s.lists).end = b
  BY <1>1, <1>2
<1>4. ~ (Len(s.lists) > 9)
  <2>1. Len(rest) \in Nat
    BY Elements
  <2> QED
    BY <1>1, <1>2, <2>1
<1>5. s.lists # <<>> /\ Tail(s.lists) = rest
  BY <1>1, <1>2
<1>6. ~ (a + 8 > Least(b, g.len)) /\ (c.id = "LIST" => ~ (a + 12 > Least(b, g.len))) /\ z = Within(c.size, a + 8, b)
  BY DEF Room, Taken
<1> HIDE DEF l, s, c, z
<1>7. Turn(g, s) = [lists |-> (IF Descended(g, c) THEN Level(a + 12, a + 8 + z) ELSE <<>>)
                              \o Level(a + 8 + z + (z % 2), b) \o rest,
                    got |-> Found(g, c, z, t)]
  BY <1>2, <1>3, <1>4, <1>5, <1>6 DEF Turn, c
<1> QED
  BY <1>7 DEF s, c, z, After, Inner

(* At the end of a list the turn leaves it.                                 *)
LEMMA TurnLeaves ==
  ASSUME NEW g, NEW a \in Nat, NEW b \in Int, NEW rest \in Seq(Levels),
         NEW t, a + 8 > Least(b, g.len)
  PROVE  Turn(g, In(a, b, rest, t)) = [lists |-> rest, got |-> t]
<1> DEFINE l == Level(a, b) \o rest
           s == In(a, b, rest, t)
<1>1. l # <<>> /\ Head(l) = [at |-> a, end |-> b] /\ Tail(l) = rest
  BY LevelFirst, ZenonT(40)
<1>2. s = [lists |-> l, got |-> t]
  BY DEF In
<1>4. Head(s.lists).at = a /\ Head(s.lists).end = b /\ s.lists # <<>> /\ Tail(s.lists) = rest
  BY <1>1, <1>2
<1> HIDE DEF l, s
<1>5. Turn(g, s) = [s EXCEPT !.lists = Tail(s.lists)]
  BY <1>4 DEF Turn
<1>6. [s EXCEPT !.lists = rest] = [lists |-> rest, got |-> t]
  BY <1>2, FieldSet
<1> QED
  BY <1>4, <1>5, <1>6 DEF s

(* A chunk of an even length that fits: the turn goes down into it, or past it. *)
LEMMA TurnDown ==
  ASSUME NEW g, g.len \in Nat, NEW a \in Nat, NEW b \in Int, b <= g.len,
         NEW rest \in Seq(Levels), Len(rest) <= 8, NEW t, NEW z \in Nat, z % 2 = 0, a + 8 + z <= b, a + 12 <= b,
         Look(g, a).size = z, Descended(g, Look(g, a))
  PROVE  /\ Turn(g, In(a, b, rest, t)) = In(a + 12, a + 8 + z, Level(a + 8 + z, b) \o rest, Found(g, Look(g, a), z, t))
         /\ Level(a + 8 + z, b) \o rest \in Seq(Levels) /\ Len(Level(a + 8 + z, b) \o rest) = Len(rest) + 1
<1>1. ~ (a + 8 > Least(b, g.len)) /\ ~ (a + 12 > Least(b, g.len))
  BY DEF Least
<1>2. Within(z, a + 8, b) = z
  BY DEF Within
<1>3. a + 8 + z + (z % 2) = a + 8 + z
  OBVIOUS
<1>4. Turn(g, In(a, b, rest, t)) = [lists |-> Level(a + 12, a + 8 + z) \o Level(a + 8 + z, b) \o rest,
                                    got |-> Found(g, Look(g, a), z, t)]
  <2>1. Taken(g, a, b) = z
    BY <1>2 DEF Taken
  <2>2. Turn(g, In(a, b, rest, t)) =
           [lists |-> Inner(g, a, z) \o Level(a + 8 + z + (z % 2), b) \o rest,
            got |-> Found(g, Look(g, a), z, t)]
    <3>1. Room(g, a, b)
      BY <1>1 DEF Room
    <3>2. Turn(g, In(a, b, rest, t)) = After(g, a, b, rest, t)
      BY <3>1, TurnIs
    <3> QED
      BY <2>1, <3>2 DEF After
  <2>3. Inner(g, a, z) = Level(a + 12, a + 8 + z)
    BY DEF Inner
  <2> QED
    BY <1>3, <2>2, <2>3
<1>5. a + 12 \in Nat /\ a + 8 + z \in Nat /\ a + 8 + z \in Int
  OBVIOUS
<1>6. Level(a + 12, a + 8 + z) \in Seq(Levels) /\ Level(a + 8 + z, b) \in Seq(Levels)
  BY <1>5, OneLevel
<1>8. Level(a + 12, a + 8 + z) \o Level(a + 8 + z, b) \o rest = Level(a + 12, a + 8 + z) \o (Level(a + 8 + z, b) \o rest)
  <2> DEFINE x == Level(a + 12, a + 8 + z)
             y == Level(a + 8 + z, b)
  <2>1. x \in Seq(Levels) /\ y \in Seq(Levels)
    BY <1>6
  <2> HIDE DEF x, y
  <2>2. (x \o y) \o rest = x \o (y \o rest)
    BY <2>1, LevelsJoin, ZenonT(40)
  <2> QED
    BY <2>2 DEF x, y
<1>9. Level(a + 8 + z, b) \o rest \in Seq(Levels) /\ Len(Level(a + 8 + z, b) \o rest) = Len(rest) + 1
  BY <1>5, LevelFirst, ZenonT(40)
<1> QED
  BY <1>4, <1>8, <1>9 DEF In

(* Any other chunk is passed.                                               *)
LEMMA TurnPast ==
  ASSUME NEW g, g.len \in Nat, NEW a \in Nat, NEW b \in Int, b <= g.len,
         NEW rest \in Seq(Levels), Len(rest) <= 8, NEW t, NEW z \in Nat, a + 8 <= b,
         Look(g, a).id = "LIST" => a + 12 <= b, Within(Look(g, a).size, a + 8, b) = z, ~ Descended(g, Look(g, a))
  PROVE  Turn(g, In(a, b, rest, t)) = In(a + 8 + z + (z % 2), b, rest, Found(g, Look(g, a), z, t))
<1>1. ~ (a + 8 > Least(b, g.len)) /\ (Look(g, a).id = "LIST" => ~ (a + 12 > Least(b, g.len)))
  BY DEF Least
<1>2. Turn(g, In(a, b, rest, t)) = [lists |-> <<>> \o Level(a + 8 + z + (z % 2), b) \o rest,
                                    got |-> Found(g, Look(g, a), z, t)]
  <2>1. Turn(g, In(a, b, rest, t)) =
           [lists |-> Inner(g, a, z) \o Level(a + 8 + z + (z % 2), b) \o rest,
            got |-> Found(g, Look(g, a), z, t)]
    <3>1. Room(g, a, b)
      BY <1>1 DEF Room
    <3>2. Turn(g, In(a, b, rest, t)) = After(g, a, b, rest, t)
      BY <3>1, TurnIs
    <3>3. Taken(g, a, b) = z
      BY DEF Taken
    <3> QED
      BY <3>2, <3>3 DEF After
  <2>2. Inner(g, a, z) = <<>>
    BY DEF Inner
  <2> QED
    BY <2>1, <2>2
<1>3. z % 2 \in Nat
  BY Remainders
<1>4. Level(a + 8 + z + (z % 2), b) \in Seq(Levels)
  <2>1. a + 8 + z + (z % 2) \in Nat
    BY <1>3
  <2> QED
    BY <2>1, OneLevel
<1>5. ASSUME NEW S, NEW p \in Seq(S) PROVE <<>> \o p = p
  OBVIOUS
<1>6. <<>> \o Level(a + 8 + z + (z % 2), b) = Level(a + 8 + z + (z % 2), b)
  BY <1>4, <1>5
<1> QED
  BY <1>2, <1>6 DEF In

(* The same, in terms of what the reader finds there.                       *)
Under(g, a, b) == a + 8 + Taken(g, a, b)
Beyond(g, a, b) == a + 8 + Taken(g, a, b) + (Taken(g, a, b) % 2)
Goes(g, a, b) ==
  /\ g.len \in Nat /\ b <= g.len /\ Taken(g, a, b) \in Nat /\ Taken(g, a, b) % 2 = 0 /\ Look(g, a).size = Taken(g, a, b)
  /\ a + 8 + Taken(g, a, b) <= b /\ a + 12 <= b /\ Descended(g, Look(g, a))
Passes(g, a, b) ==
  /\ g.len \in Nat /\ b <= g.len /\ Taken(g, a, b) \in Nat /\ a + 8 <= b
  /\ Look(g, a).id = "LIST" => a + 12 <= b
  /\ ~ Descended(g, Look(g, a))

(* TurnDown, for the places the reader comes to.                            *)
LEMMA GoesDown ==
  ASSUME NEW g, NEW a \in Nat, NEW b \in Int, NEW rest \in Seq(Levels), Len(rest) <= 8, NEW t, Goes(g, a, b)
  PROVE  Turn(g, In(a, b, rest, t)) =
           In(a + 12, Under(g, a, b), Level(Under(g, a, b), b) \o rest, Found(g, Look(g, a), Taken(g, a, b), t))
BY TurnDown DEF Goes, Under

(* TurnPast, likewise.                                                      *)
LEMMA PassesOn ==
  ASSUME NEW g, NEW a \in Nat, NEW b \in Int, NEW rest \in Seq(Levels), Len(rest) <= 8, NEW t, Passes(g, a, b)
  PROVE  Turn(g, In(a, b, rest, t)) = In(Beyond(g, a, b), b, rest, Found(g, Look(g, a), Taken(g, a, b), t))
<1>1. Within(Look(g, a).size, a + 8, b) = Taken(g, a, b)
  BY DEF Taken
<1> QED
  BY <1>1, TurnPast DEF Passes, Beyond

Leaves(g, a, b) == a + 8 > Least(b, g.len)

(* TurnLeaves, likewise.                                                    *)
LEMMA GoesUp ==
  ASSUME NEW g, NEW a \in Nat, NEW b \in Int, NEW rest \in Seq(Levels), NEW t, Leaves(g, a, b)
  PROVE  Turn(g, In(a, b, rest, t)) = [lists |-> rest, got |-> t]
<1>1. a + 8 > Least(b, g.len)
  BY DEF Leaves
<1> QED
  BY <1>1, TurnLeaves

(* What the reader has found of the frames.                                 *)
Fields(t) == {"movi", "moviEnd", "idx", "idxBytes"} \subseteq DOMAIN t
Same(t, u) == /\ Fields(u) /\ u.movi = t.movi /\ u.moviEnd = t.moviEnd
              /\ u.idx = t.idx /\ u.idxBytes = t.idxBytes

(* A chunk that is neither the movie nor the index says nothing of them.    *)
LEMMA FoundElse ==
  ASSUME NEW g, NEW c, NEW z, NEW t, Fields(t), c.id # "idx1", c.id = "LIST" => Kind(g, c) # "movi"
  PROVE  Same(t, Found(g, c, z, t))
BY DEF Fields, Same, Found

(* The movie list says where the frames are.                                *)
LEMMA FoundMovie ==
  ASSUME NEW g, NEW c, NEW z, NEW t, Fields(t), c.id = "LIST", Kind(g, c) = "movi"
  PROVE  /\ Fields(Found(g, c, z, t)) /\ Found(g, c, z, t).movi = c.at + 8 /\ Found(g, c, z, t).moviEnd = c.at + 8 + z
         /\ Found(g, c, z, t).idx = t.idx /\ Found(g, c, z, t).idxBytes = t.idxBytes
BY DEF Fields, Found

(* The index says where it is.                                              *)
LEMMA FoundIndex ==
  ASSUME NEW g, NEW c, NEW z, NEW t, Fields(t), c.id = "idx1"
  PROVE  /\ Fields(Found(g, c, z, t)) /\ Found(g, c, z, t).movi = t.movi /\ Found(g, c, z, t).moviEnd = t.moviEnd
         /\ Found(g, c, z, t).idx = c.at + 8 /\ Found(g, c, z, t).idxBytes = z
BY DEF Fields, Found

(* The header's chunks, as the reader takes them.                           *)
LEMMA HeaderTaken ==
  ASSUME WriterTypeOK, Laid, NEW g, Leftover(g), g.len >= 224
  PROVE  /\ Look(g, 12).id = "LIST" /\ Look(g, 12).size = 192 /\ Kind(g, Look(g, 12)) = "hdrl"
         /\ Look(g, 24).id = "avih" /\ Look(g, 24).size = 56
         /\ Look(g, 88).id = "LIST" /\ Look(g, 88).size = 116 /\ Kind(g, Look(g, 88)) = "strl"
         /\ Look(g, 100).id = "strh" /\ Look(g, 100).size = 56
         /\ Look(g, 164).id = "strf" /\ Look(g, 164).size = 40
         /\ Look(g, 212).id = "LIST" /\ Look(g, 212).size = MovieList /\ Kind(g, Look(g, 212)) = "movi"
         /\ Look(g, 212).at = 212
<1> DEFINE c1 == Chunk(12, "LIST", 192, "hdrl")
           c2 == Chunk(24, "avih", 56, "")
           c3 == Chunk(88, "LIST", 116, "strl")
           c4 == Chunk(100, "strh", 56, "vids")
           c5 == Chunk(164, "strf", 40, "")
           c6 == Chunk(212, "LIST", MovieList, "movi")
<1>1. /\ Look(g, 12) = c1 /\ Look(g, 24) = c2 /\ Look(g, 88) = c3 /\ Look(g, 100) = c4
      /\ Look(g, 164) = c5 /\ Look(g, 212) = c6
  BY HeaderThere, ZenonT(40)
<1>2. g.upto = 224 /\ HeaderBytes = 224
  <2>1. g.len \in Nat /\ g.upto = Least(HeaderBytes, g.len)
    BY FilesAre DEF Leftover
  <2> QED
    BY <2>1, AviConstants DEF Least
<1>3. c1.at = 12 /\ c1.id = "LIST" /\ c1.size = 192 /\ c1.kind = "hdrl"
  BY DEF Chunk
<1>4. c2.id = "avih" /\ c2.size = 56 /\ c4.id = "strh" /\ c4.size = 56 /\ c5.id = "strf" /\ c5.size = 40
  BY DEF Chunk
<1>5. c3.at = 88 /\ c3.id = "LIST" /\ c3.size = 116 /\ c3.kind = "strl"
  BY DEF Chunk
<1>6. c6.at = 212 /\ c6.id = "LIST" /\ c6.size = MovieList /\ c6.kind = "movi"
  BY DEF Chunk
<1> HIDE DEF c1, c2, c3, c4, c5, c6
<1>7. Kind(g, c1) = "hdrl" /\ Kind(g, c3) = "strl" /\ Kind(g, c6) = "movi"
  BY <1>2, <1>3, <1>5, <1>6 DEF Kind
<1> QED
  BY <1>1, <1>3, <1>4, <1>5, <1>6, <1>7

(* After seven turns the reader stands before the movie list and knows nothing of the frames. *)
LEMMA BeforeMovie ==
  ASSUME WriterTypeOK, Laid, NEW g, Leftover(g), g.len >= 224, SizeOf(g) = g.len
  PROVE  \E t : Walk(g)[7] = In(212, g.len, <<>>, t) /\ Same(NotFound, t)
<1> DEFINE e == g.len
           w(n) == Walk(g)[n]
           L1 == Level(212, e) \o <<>>
           L2 == Level(212, 212) \o L1
           t1 == Found(g, Look(g, 12), 192, NotFound)
           t2 == Found(g, Look(g, 24), 56, t1)
           t3 == Found(g, Look(g, 88), 116, t2)
           t4 == Found(g, Look(g, 100), 56, t3)
           t5 == Found(g, Look(g, 164), 40, t4)
<1>0. e \in Nat /\ e >= 224 /\ e \in Int
  BY FilesAre DEF Leftover
<1>1. w(0) = Begun(g) /\ \A n \in Nat : w(n + 1) = Turn(g, w(n))
  BY WalkGoesOn
<1>2. /\ w(1) = Turn(g, w(0)) /\ w(2) = Turn(g, w(1)) /\ w(3) = Turn(g, w(2)) /\ w(4) = Turn(g, w(3))
      /\ w(5) = Turn(g, w(4)) /\ w(6) = Turn(g, w(5)) /\ w(7) = Turn(g, w(6))
  <2>1. /\ 0 + 1 = 1 /\ 1 + 1 = 2 /\ 2 + 1 = 3 /\ 3 + 1 = 4 /\ 4 + 1 = 5 /\ 5 + 1 = 6 /\ 6 + 1 = 7
        /\ {0, 1, 2, 3, 4, 5, 6} \subseteq Nat
    OBVIOUS
  <2> HIDE DEF w
  <2> QED
    BY <1>1, <2>1
<1>3. w(0) = In(12, e, <<>>, NotFound)
  <2>1. Level(12, e) \o <<>> = Level(12, e)
    BY <1>0, OneLevel
  <2> QED
    BY <1>1, <2>1 DEF Begun, In
<1>4. <<>> \in Seq(Levels) /\ Len(<<>>) = 0
  OBVIOUS
<1>18. 12 \in Nat /\ 24 \in Nat /\ 88 \in Nat /\ 100 \in Nat /\ 164 \in Nat /\ 212 \in Nat /\ 212 \in Int /\ 0 + 1 = 1 /\ 1 + 1 = 2
  OBVIOUS
<1>20. ASSUME NEW a \in Nat, NEW b \in Int, NEW rest \in Seq(Levels)
       PROVE  Level(a, b) \o rest \in Seq(Levels) /\ Len(Level(a, b) \o rest) = Len(rest) + 1
  BY LevelFirst, ZenonT(40)
<1>5. L1 \in Seq(Levels) /\ Len(L1) = 1
  <2> DEFINE none == <<>>
             k == 212
  <2>1. none \in Seq(Levels) /\ Len(none) = 0 /\ k \in Nat
    BY <1>4
  <2> HIDE DEF none, k
  <2>2. Level(k, e) \o none \in Seq(Levels) /\ Len(Level(k, e) \o none) = Len(none) + 1
    BY <1>0, <2>1, <1>20, ZenonT(40)
  <2>3. Len(Level(k, e) \o none) = 1
    BY <2>1, <2>2
  <2> QED
    BY <2>2, <2>3 DEF none, k
<1>6. L2 \in Seq(Levels) /\ Len(L2) = 2
  <2> HIDE DEF L1
  <2>1. L2 \in Seq(Levels) /\ Len(L2) = Len(L1) + 1
    <3> DEFINE k == 212
    <3>1. k \in Nat /\ k \in Int
      OBVIOUS
    <3> HIDE DEF k
    <3>2. Level(k, k) \o L1 \in Seq(Levels) /\ Len(Level(k, k) \o L1) = Len(L1) + 1
      BY <1>5, <3>1, <1>20, ZenonT(40)
    <3> QED
      BY <3>2 DEF k
  <2> QED
    BY <1>5, <2>1
<1>19. Len(<<>>) <= 8 /\ Len(L1) <= 8 /\ Len(L2) <= 8
  <2> HIDE DEF L1, L2
  <2> QED
    BY <1>4, <1>5, <1>6
<1>7. /\ Descended(g, Look(g, 12)) /\ Descended(g, Look(g, 88)) /\ ~ Descended(g, Look(g, 24))
      /\ ~ Descended(g, Look(g, 100)) /\ ~ Descended(g, Look(g, 164))
  BY HeaderTaken DEF Descended
<1>8. Fields(NotFound)
  BY DEF Fields, NotFound
<1>9. Same(NotFound, t5)
  <2>1. Same(NotFound, t1)
    BY <1>8, HeaderTaken, FoundElse
  <2> HIDE DEF t1
  <2>2. Same(t1, t2)
    BY <2>1, HeaderTaken, FoundElse DEF Same
  <2> HIDE DEF t2
  <2>3. Same(t2, t3)
    BY <2>2, HeaderTaken, FoundElse DEF Same
  <2> HIDE DEF t3
  <2>4. Same(t3, t4)
    BY <2>3, HeaderTaken, FoundElse DEF Same
  <2> HIDE DEF t4
  <2>5. Same(t4, t5)
    BY <2>4, HeaderTaken, FoundElse DEF Same
  <2> HIDE DEF t5
  <2> QED
    BY <2>1, <2>2, <2>3, <2>4, <2>5 DEF Same
<1> HIDE DEF L1, L2, t1, t2, t3, t4, t5, w
<1>10. w(1) = In(24, 212, L1, t1)
  <2>1. Taken(g, 12, e) = 192 /\ Under(g, 12, e) = 212
    BY <1>0, HeaderTaken DEF Taken, Within, Under
  <2>2. Goes(g, 12, e)
    BY <1>0, <1>7, <2>1, HeaderTaken DEF Goes
  <2>3. ASSUME NEW a \in Nat, NEW b \in Int, Goes(g, a, b)
        PROVE  Turn(g, In(a, b, <<>>, NotFound)) =
                 In(a + 12, Under(g, a, b), Level(Under(g, a, b), b) \o <<>>, Found(g, Look(g, a), Taken(g, a, b), NotFound))
    BY <1>4, <1>19, <2>3, GoesDown
  <2>4. Turn(g, In(12, e, <<>>, NotFound)) =
          In(12 + 12, Under(g, 12, e), Level(Under(g, 12, e), e) \o <<>>, Found(g, Look(g, 12), Taken(g, 12, e), NotFound))
    BY <1>0, <2>2, <2>3
  <2> QED
    BY <1>2, <1>3, <2>1, <2>4 DEF L1, t1
<1>11. w(2) = In(88, 212, L1, t2)
  <2>1. Taken(g, 24, 212) = 56 /\ Beyond(g, 24, 212) = 88
    BY HeaderTaken DEF Taken, Within, Beyond
  <2>2. Passes(g, 24, 212)
    BY <1>0, <1>7, <2>1, HeaderTaken DEF Passes
  <2>3. ASSUME NEW a \in Nat, NEW b \in Int, Passes(g, a, b)
        PROVE  Turn(g, In(a, b, L1, t1)) = In(Beyond(g, a, b), b, L1, Found(g, Look(g, a), Taken(g, a, b), t1))
    BY <1>5, <1>19, <2>3, PassesOn
  <2>4. Turn(g, In(24, 212, L1, t1)) = In(Beyond(g, 24, 212), 212, L1, Found(g, Look(g, 24), Taken(g, 24, 212), t1))
    BY <1>0, <2>2, <2>3
  <2> QED
    BY <1>2, <1>10, <2>1, <2>4 DEF t2
<1>12. w(3) = In(100, 212, L2, t3)
  <2>1. Taken(g, 88, 212) = 116 /\ Under(g, 88, 212) = 212
    BY <1>0, HeaderTaken DEF Taken, Within, Under
  <2>2. Goes(g, 88, 212)
    BY <1>0, <1>7, <2>1, HeaderTaken DEF Goes
  <2>3. ASSUME NEW a \in Nat, NEW b \in Int, Goes(g, a, b)
        PROVE  Turn(g, In(a, b, L1, t2)) =
                 In(a + 12, Under(g, a, b), Level(Under(g, a, b), b) \o L1, Found(g, Look(g, a), Taken(g, a, b), t2))
    BY <1>5, <1>19, <2>3, GoesDown, ZenonT(40)
  <2>4. Turn(g, In(88, 212, L1, t2)) =
          In(88 + 12, Under(g, 88, 212), Level(Under(g, 88, 212), 212) \o L1, Found(g, Look(g, 88), Taken(g, 88, 212), t2))
    BY <1>0, <2>2, <2>3
  <2> QED
    BY <1>2, <1>11, <2>1, <2>4 DEF L2, t3
<1>13. w(4) = In(164, 212, L2, t4)
  <2>1. Taken(g, 100, 212) = 56 /\ Beyond(g, 100, 212) = 164
    BY HeaderTaken DEF Taken, Within, Beyond
  <2>2. Passes(g, 100, 212)
    BY <1>0, <1>7, <2>1, HeaderTaken DEF Passes
  <2>3. ASSUME NEW a \in Nat, NEW b \in Int, Passes(g, a, b)
        PROVE  Turn(g, In(a, b, L2, t3)) = In(Beyond(g, a, b), b, L2, Found(g, Look(g, a), Taken(g, a, b), t3))
    BY <1>6, <1>19, <2>3, PassesOn
  <2>4. Turn(g, In(100, 212, L2, t3)) = In(Beyond(g, 100, 212), 212, L2, Found(g, Look(g, 100), Taken(g, 100, 212), t3))
    BY <1>0, <2>2, <2>3
  <2> QED
    BY <1>2, <1>12, <2>1, <2>4 DEF t4
<1>14. w(5) = In(212, 212, L2, t5)
  <2>1. Taken(g, 164, 212) = 40 /\ Beyond(g, 164, 212) = 212
    BY HeaderTaken DEF Taken, Within, Beyond
  <2>2. Passes(g, 164, 212)
    BY <1>0, <1>7, <2>1, HeaderTaken DEF Passes
  <2>3. ASSUME NEW a \in Nat, NEW b \in Int, Passes(g, a, b)
        PROVE  Turn(g, In(a, b, L2, t4)) = In(Beyond(g, a, b), b, L2, Found(g, Look(g, a), Taken(g, a, b), t4))
    BY <1>6, <1>19, <2>3, PassesOn
  <2>4. Turn(g, In(164, 212, L2, t4)) = In(Beyond(g, 164, 212), 212, L2, Found(g, Look(g, 164), Taken(g, 164, 212), t4))
    BY <1>0, <2>2, <2>3
  <2> QED
    BY <1>2, <1>13, <2>1, <2>4 DEF t5
<1>15. 212 + 8 > Least(212, g.len)
  BY <1>0 DEF Least
<1>16. w(6) = In(212, 212, L1, t5)
  <2>1. Turn(g, In(212, 212, L2, t5)) = [lists |-> L2, got |-> t5]
    BY <1>6, <1>15, TurnLeaves
  <2> QED
    BY <1>2, <1>14, <2>1, ZenonT(40) DEF L2, In
<1>17. w(7) = In(212, e, <<>>, t5)
  <2>1. Turn(g, In(212, 212, L1, t5)) = [lists |-> L1, got |-> t5]
    BY <1>5, <1>15, TurnLeaves
  <2> QED
    BY <1>2, <1>16, <2>1, ZenonT(40) DEF L1, In
<1> QED
  BY <1>9, <1>17 DEF w

(* What a leftover that has its header says of its movie list and its index. *)
Kept(g, t) ==
  /\ t.movi = 220 /\ t.moviEnd = Least(Ending, g.len)
  /\ Ending + 8 > g.len => t.idx = 0
  /\ Ending + 8 <= g.len => t.idx = Ending + 8 /\ t.idxBytes = g.len - (Ending + 8)

(* The lists are left for good.                                             *)
LEMMA StaysDone ==
  ASSUME NEW g, NEW t, NEW k \in Nat, Walk(g)[k] = [lists |-> <<>>, got |-> t], NEW n \in Nat, n >= k
  PROVE  Walk(g)[n].got = t
<1> DEFINE S == {d \in Nat : Walk(g)[k + d] = [lists |-> <<>>, got |-> t]}
<1>1. 0 \in S
  OBVIOUS
<1>2. ASSUME NEW d \in Nat, d \in S PROVE d + 1 \in S
  <2>1. k + (d + 1) = (k + d) + 1 /\ k + d \in Nat
    OBVIOUS
  <2>2. Walk(g)[(k + d) + 1] = Turn(g, Walk(g)[k + d])
    BY <2>1, WalkGoesOn
  <2>3. Turn(g, [lists |-> <<>>, got |-> t]) = [lists |-> <<>>, got |-> t]
    BY DEF Turn
  <2> QED
    BY <1>2, <2>1, <2>2, <2>3
<1> HIDE DEF S
<1>3. n - k \in S
  <2>1. n - k \in Nat
    OBVIOUS
  <2> QED
    BY <1>1, <1>2, <2>1, AllNumbers
<1>4. k + (n - k) = n
  OBVIOUS
<1> QED
  BY <1>3, <1>4 DEF S

(* Behind the frames it finds the index.                                    *)
LEMMA IndexTaken ==
  ASSUME WriterTypeOK, Laid, NEW g, Leftover(g)
  PROVE  /\ Look(g, Ending).id = "idx1" /\ Look(g, Ending).size = 16 * Len(made) /\ Look(g, Ending).at = Ending
<1>1. Look(g, Ending) = IdxChunk
  BY FramesFound
<1>2. IdxChunk.id = "idx1" /\ IdxChunk.size = 16 * Len(made) /\ IdxChunk.at = Ending
  BY DEF IdxChunk, Chunk
<1> QED
  BY <1>1, <1>2

(* Two turns more, or one, and it knows of both what is left of them.       *)
LEMMA AllIsFound ==
  ASSUME WriterTypeOK, Laid, WholeLen <= Wrap, NEW g, Leftover(g), g.len >= 224
  PROVE  Kept(g, Sought(g))
<1> DEFINE e == g.len
           w(n) == Walk(g)[n]
<1>0. e \in Nat /\ e >= 224 /\ e \in Int /\ SizeOf(g) = e /\ e <= Ending + 8 + 16 * Len(made)
  BY FilesAre, SizeIsLen DEF Leftover
<1>1. PICK t : w(7) = In(212, e, <<>>, t) /\ Same(NotFound, t)
  BY <1>0, BeforeMovie
<1>2. Len(made) \in Nat /\ Ending \in Nat /\ Ending >= 224 + 8 * Len(made)
  BY EndingTyped
<1>3. PICK h \in Nat : Ending = 2 * h
  BY EndingTyped
<1>4. MovieList = Ending - 220
  BY StatedLengths
<1>5. <<>> \in Seq(Levels) /\ Len(<<>>) <= 8
  OBVIOUS
<1>14. ASSUME NEW a \in Nat, NEW b \in Int, NEW x, Leaves(g, a, b)
       PROVE  Turn(g, In(a, b, <<>>, x)) = [lists |-> <<>>, got |-> x]
  <2> DEFINE none == <<>>
  <2>1. none \in Seq(Levels)
    OBVIOUS
  <2> HIDE DEF none
  <2>2. Turn(g, In(a, b, none, x)) = [lists |-> none, got |-> x]
    BY <1>14, <2>1, GoesUp
  <2> QED
    BY <2>2 DEF none
<1>15. ASSUME NEW a \in Nat, NEW b \in Int, NEW x, Passes(g, a, b)
       PROVE  Turn(g, In(a, b, <<>>, x)) = In(Beyond(g, a, b), b, <<>>, Found(g, Look(g, a), Taken(g, a, b), x))
  BY <1>5, <1>15, PassesOn, ZenonT(40)
<1> DEFINE z == Taken(g, 212, e)
           u == Found(g, Look(g, 212), z, t)
           at == Beyond(g, 212, e)
<1>6. z = (IF Ending > e THEN e - 220 ELSE Ending - 220) /\ z \in Nat
  <2>1. z = Within(Ending - 220, 212 + 8, e)
    BY <1>4, HeaderTaken DEF Taken
  <2> HIDE DEF z, e
  <2> QED
    BY <1>0, <1>2, <2>1 DEF Within
<1>7. at \in Nat /\ (Ending <= e => at = Ending) /\ (Ending > e => at >= e)
  <2>1. at = 220 + z + (z % 2)
    BY DEF Beyond
  <2>2. z % 2 \in Nat
    BY <1>6, Remainders
  <2>3. Ending <= e => z % 2 = 0
    <3>1. Ending <= e => z = 2 * (h - 110)
      BY <1>0, <1>2, <1>3, <1>6
    <3>2. h - 110 \in Int /\ (2 * (h - 110)) % 2 = 0
      OBVIOUS
    <3> QED
      BY <3>1, <3>2
  <2> HIDE DEF z, at, e
  <2> QED
    BY <1>0, <1>2, <1>6, <2>1, <2>2, <2>3
<1>8. w(8) = In(at, e, <<>>, u)
  <2>1. Passes(g, 212, e)
    <3>1. ~ Descended(g, Look(g, 212))
      BY HeaderTaken DEF Descended
    <3> QED
      BY <1>0, <1>6, <3>1 DEF Passes
  <2>3. w(8) = Turn(g, w(7))
    <3>1. 7 \in Nat /\ 7 + 1 = 8
      OBVIOUS
    <3> QED
      BY <3>1, WalkGoesOn
  <2> QED
    BY <1>0, <1>1, <1>15, <2>1, <2>3
<1>9. Fields(u) /\ u.movi = 220 /\ u.moviEnd = Least(Ending, e) /\ u.idx = 0
  <2>1. Fields(t) /\ t.idx = 0
    BY <1>1 DEF Same, NotFound
  <2>2. Fields(u) /\ u.movi = 212 + 8 /\ u.moviEnd = 212 + 8 + z /\ u.idx = t.idx
    <3> HIDE DEF z
    <3>1. Look(g, 212).id = "LIST" /\ Kind(g, Look(g, 212)) = "movi" /\ Look(g, 212).at = 212
      BY HeaderTaken
    <3> QED
      BY <2>1, <3>1, FoundMovie
  <2> HIDE DEF u, z, e
  <2>3. 212 + 8 + z = Least(Ending, e)
    BY <1>0, <1>2, <1>6 DEF Least
  <2> QED
    BY <2>1, <2>2, <2>3
<1>10. ASSUME NEW k \in {9, 10}, NEW v, w(k) = [lists |-> <<>>, got |-> v] PROVE Sought(g) = v
  <2>1. 2 * (e \div 8) \in Nat /\ 2 * (e \div 8) >= k /\ k \in Nat
    BY <1>0, <1>10
  <2>2. Walk(g)[2 * (e \div 8)].got = v
    <3> HIDE DEF e
    <3> QED
      BY <1>10, <2>1, StaysDone
  <2> QED
    BY <2>2 DEF Sought
<1> HIDE DEF u, z, at
<1>11. w(9) = Turn(g, w(8)) /\ w(10) = Turn(g, w(9))
  <2>1. 8 \in Nat /\ 8 + 1 = 9 /\ 9 \in Nat /\ 9 + 1 = 10
    OBVIOUS
  <2> QED
    BY <2>1, WalkGoesOn
<1>12. CASE Ending + 8 > e
  <2>1. Leaves(g, at, e)
    BY <1>0, <1>2, <1>7, <1>12 DEF Leaves, Least
  <2>2. w(9) = [lists |-> <<>>, got |-> u]
    <3>1. Turn(g, In(at, e, <<>>, u)) = [lists |-> <<>>, got |-> u]
      BY <1>0, <1>7, <1>14, <2>1
    <3> QED
      BY <1>8, <1>11, <3>1
  <2>3. Sought(g) = u
    BY <1>10, <2>2
  <2> QED
    BY <1>0, <1>2, <1>9, <1>12, <2>3 DEF Kept
<1>13. CASE Ending + 8 <= e
  <2> DEFINE y == Taken(g, Ending, e)
             v == Found(g, Look(g, Ending), y, u)
             on == Beyond(g, Ending, e)
  <2>1. at = Ending
    BY <1>0, <1>2, <1>7, <1>13
  <2>2. y = e - (Ending + 8) /\ y \in Nat
    <3>1. y = Within(16 * Len(made), Ending + 8, e)
      BY IndexTaken DEF Taken
    <3> HIDE DEF y, e
    <3> QED
      BY <1>0, <1>2, <1>13, <3>1 DEF Within
  <2>3. on \in Nat /\ on >= e
    <3>1. on = Ending + 8 + y + (y % 2)
      BY DEF Beyond
    <3>2. y % 2 \in Nat
      BY <2>2, Remainders
    <3> HIDE DEF on, y, e
    <3> QED
      BY <1>0, <1>2, <2>2, <3>1, <3>2
  <2>4. w(9) = In(on, e, <<>>, v)
    <3>1. Passes(g, Ending, e)
      <4>1. ~ Descended(g, Look(g, Ending)) /\ Look(g, Ending).id # "LIST"
        BY IndexTaken DEF Descended
      <4> QED
        BY <1>0, <1>2, <1>13, <2>2, <4>1 DEF Passes
    <3>2. Turn(g, In(Ending, e, <<>>, u)) = In(Beyond(g, Ending, e), e, <<>>, Found(g, Look(g, Ending), Taken(g, Ending, e), u))
      BY <1>0, <1>2, <1>15, <3>1
    <3> QED
      BY <1>8, <1>11, <2>1, <3>2
  <2>5. Fields(v) /\ v.movi = 220 /\ v.moviEnd = Least(Ending, e) /\ v.idx = Ending + 8 /\ v.idxBytes = y
    <3> HIDE DEF y
    <3> QED
      BY <1>9, IndexTaken, FoundIndex
  <2>6. Leaves(g, on, e)
    <3> HIDE DEF on
    <3> QED
      BY <1>0, <2>3 DEF Leaves, Least
  <2> HIDE DEF on, v, y
  <2>7. w(10) = [lists |-> <<>>, got |-> v]
    <3>1. Turn(g, In(on, e, <<>>, v)) = [lists |-> <<>>, got |-> v]
      BY <1>0, <1>14, <2>3, <2>6
    <3> QED
      BY <1>11, <2>4, <3>1
  <2>8. Sought(g) = v
    BY <1>10, <2>7
  <2> QED
    BY <1>0, <1>2, <1>13, <2>2, <2>5, <2>8 DEF Kept
<1> QED
  BY <1>0, <1>2, <1>12, <1>13

(* Of entries that all have a length none is passed over.                   *)
LEMMA NothingLeftOut ==
  ASSUME NEW S, NEW s \in Seq(S), \A i \in DOMAIN s : s[i].len # 0
  PROVE  Nonempty(s) = s
<1> DEFINE IsKept(f) == f = [i \in 0..Len(s) |-> IF i = 0 THEN <<>>
                              ELSE IF s[i].len = 0 THEN f[i - 1] ELSE Append(f[i - 1], s[i])]
           to == [i \in 0..Len(s) |-> SubSeq(s, 1, i)]
<1>0. Len(s) \in Nat /\ DOMAIN s = 1..Len(s) /\ \A i \in DOMAIN s : s[i] \in S
  BY Elements
<1>1. ASSUME NEW i \in 0..Len(s) PROVE SubSeq(s, 1, i) = IF i = 0 THEN <<>> ELSE Append(SubSeq(s, 1, i - 1), s[i])
  <2>1. CASE i = 0
    BY <2>1
  <2>2. CASE i # 0
    <3>1. i \in 1..Len(s) /\ i - 1 \in 0..Len(s) /\ i \in Nat
      BY <1>0, <2>2
    <3>2. SubSeq(s, 1, i) \in Seq(S) /\ Len(SubSeq(s, 1, i)) = i /\ \A k \in 1..i : SubSeq(s, 1, i)[k] = s[k]
      BY <1>0, <3>1
    <3>3. SubSeq(s, 1, i - 1) \in Seq(S) /\ Len(SubSeq(s, 1, i - 1)) = i - 1
          /\ \A k \in 1..i - 1 : SubSeq(s, 1, i - 1)[k] = s[k]
      BY <1>0, <3>1
    <3>4. s[i] \in S
      BY <1>0, <3>1
    <3> DEFINE p == SubSeq(s, 1, i - 1)
               q == SubSeq(s, 1, i)
    <3> HIDE DEF p, q
    <3>5. q = Append(p, s[i])
      <4>1. p \in Seq(S) /\ Len(p) = i - 1 /\ \A k \in 1..i - 1 : p[k] = s[k]
        BY <3>3 DEF p
      <4>2. q \in Seq(S) /\ Len(q) = i /\ \A k \in 1..i : q[k] = s[k]
        BY <3>2 DEF q
      <4>3. \A k \in 1..i : q[k] = Append(p, s[i])[k]
        BY <3>1, <3>4, <4>1, <4>2
      <4> QED
        BY <3>1, <3>4, <4>1, <4>2, <4>3
    <3> QED
      BY <2>2, <3>5 DEF p, q
  <2> QED
    BY <2>1, <2>2
<1>2. IsKept(to)
  <2>1. ASSUME NEW i \in 0..Len(s) PROVE to[i] = IF i = 0 THEN <<>>
                              ELSE IF s[i].len = 0 THEN to[i - 1] ELSE Append(to[i - 1], s[i])
    <3>1. i # 0 => i - 1 \in 0..Len(s) /\ s[i].len # 0
      BY <1>0
    <3> QED
      BY <1>1, <3>1
  <2> QED
    BY <2>1
<1> DEFINE kept == CHOOSE f : IsKept(f)
<1>3. IsKept(kept)
  <2> HIDE DEF to
  <2> QED
    BY <1>2
<1>4. Nonempty(s) = kept[Len(s)]
  BY DEF Nonempty
<1> HIDE DEF kept, to
<1> DEFINE T == {n \in Nat : n <= Len(s) => kept[n] = SubSeq(s, 1, n)}
<1>5. 0 \in T
  BY <1>0, <1>1, <1>3
<1>6. ASSUME NEW n \in Nat, n \in T PROVE n + 1 \in T
  <2> SUFFICES ASSUME n + 1 <= Len(s) PROVE kept[n + 1] = SubSeq(s, 1, n + 1)
    OBVIOUS
  <2>1. n + 1 \in 0..Len(s) /\ n + 1 # 0 /\ (n + 1) - 1 = n /\ n + 1 \in DOMAIN s /\ n <= Len(s)
    BY <1>0
  <2>2. kept[n] = SubSeq(s, 1, n)
    BY <1>6, <2>1
  <2>3. kept[n + 1] = Append(kept[n], s[n + 1])
    BY <1>3, <2>1
  <2>4. SubSeq(s, 1, n + 1) = Append(SubSeq(s, 1, n), s[n + 1])
    BY <1>1, <2>1
  <2> QED
    BY <2>2, <2>3, <2>4
<1> HIDE DEF T
<1>7. Len(s) \in T
  BY <1>0, <1>5, <1>6, AllNumbers
<1>8. SubSeq(s, 1, Len(s)) = s
  BY <1>0
<1> QED
  BY <1>0, <1>4, <1>7, <1>8 DEF T

(* The first entries of the index.                                          *)
FirstEntries(n) == [i \in 1..n |-> Entry(i)]

(* The reader's first n entries are the first n of the index.               *)
LEMMA EntriesRead ==
  ASSUME WriterTypeOK, Laid, \A i \in DOMAIN made : made[i].len > 0, NEW g, Leftover(g), NEW n \in 0..Len(made)
  PROVE  /\ Nonempty(SubSeq(g.entries, 1, n)) = FirstEntries(n)
         /\ DOMAIN FirstEntries(n) = 1..n /\ (n # 0 => FirstEntries(n) # <<>>) /\ (n = 0 => FirstEntries(n) = <<>>)
         /\ \A i \in 1..n : FirstEntries(n)[i] = Entry(i)
<1>0. Len(made) \in Nat /\ DOMAIN made = 1..Len(made) /\ n \in Nat
  BY FramesAre
<1>1. ASSUME NEW i \in DOMAIN made PROVE Entry(i) \in FramePlaces /\ Entry(i).len # 0
  <2>1. Entry(i) = [off |-> (made[i].off - 228) % Wrap, len |-> made[i].len]
    BY Entries
  <2>2. made[i].len \in Nat /\ made[i].len # 0 /\ made[i].off \in Nat
    BY FramesAre
  <2>3. (made[i].off - 228) % Wrap \in Nat
    <3>1. made[i].off - 228 \in Int
      BY <2>2
    <3> QED
      BY <3>1, AviConstants, Remainders
  <2> QED
    BY <2>1, <2>2, <2>3 DEF FramePlaces
<1> DEFINE E == [i \in DOMAIN made |-> Entry(i)]
<1>2. E \in Seq(FramePlaces) /\ Len(E) = Len(made) /\ DOMAIN E = 1..Len(made) /\ \A i \in 1..Len(made) : E[i] = Entry(i)
  BY <1>0, <1>1
<1>3. g.entries = E
  BY DEF Leftover
<1> HIDE DEF E
<1>4. SubSeq(E, 1, n) \in Seq(FramePlaces) /\ Len(SubSeq(E, 1, n)) = n /\ \A i \in 1..n : SubSeq(E, 1, n)[i] = E[i]
  BY <1>0, <1>2
<1>5. SubSeq(E, 1, n) = FirstEntries(n)
  <2>1. SubSeq(E, 1, n) = [i \in 1..n |-> E[i]]
    BY <1>0, <1>2
  <2> QED
    BY <1>0, <1>2, <2>1 DEF FirstEntries
<1>6. \A i \in DOMAIN FirstEntries(n) : FirstEntries(n)[i].len # 0
  BY <1>0, <1>1 DEF FirstEntries
<1>7. Nonempty(SubSeq(E, 1, n)) = SubSeq(E, 1, n)
  BY <1>4, <1>5, <1>6, NothingLeftOut
<1>8. DOMAIN FirstEntries(n) = 1..n /\ \A i \in 1..n : FirstEntries(n)[i] = Entry(i)
  BY DEF FirstEntries
<1>9. n = 0 => FirstEntries(n) = <<>>
  BY DEF FirstEntries
<1>10. n # 0 => FirstEntries(n) # <<>>
  BY <1>0, <1>4, <1>5
<1> QED
  BY <1>3, <1>5, <1>7, <1>8, <1>9, <1>10

(* How many entries the reader takes.                                       *)
LEMMA EntriesTaken ==
  ASSUME Len(made) \in Nat, Len(made) <= MaxFrames, NEW b \in 0..16 * Len(made)
  PROVE  /\ Least(b, 16 * MaxFrames) = b /\ b \div 16 \in 0..Len(made)
<1>1. b \in Nat /\ 16 * MaxFrames \in Nat /\ b <= 16 * MaxFrames
  BY AviConstants
<1>2. Least(b, 16 * MaxFrames) = b
  BY <1>1 DEF Least
<1>3. b \div 16 \in 0..Len(made)
  OBVIOUS
<1> QED
  BY <1>2, <1>3

(* How long a list is.                                                      *)
LEMMA LengthOf ==
  ASSUME NEW n \in Nat, NEW f, f = [i \in 1..n |-> f[i]]
  PROVE  Len(f) = n /\ (n = 0 => f = <<>>)
<1> DEFINE S == {f[i] : i \in 1..n}
<1>1. f \in [1..n -> S]
  OBVIOUS
<1> HIDE DEF S
<1>2. f \in Seq(S)
  BY <1>1, SeqDef
<1>3. DOMAIN f = 1..n
  BY <1>1
<1>4. Len(f) \in Nat /\ DOMAIN f = 1..Len(f)
  BY <1>2, Elements
<1>5. n = 0 => f = <<>>
  BY <1>2, <1>4, <1>3
<1> QED
  BY <1>3, <1>4, <1>5

(* What is read of the index: nothing, or as many frames as entries were taken. *)
LEMMA IndexIsShort ==
  ASSUME WriterTypeOK, Laid, \A i \in DOMAIN made : made[i].len > 0, Len(made) <= MaxFrames,
         NEW g, Leftover(g), NEW got, got.idx = 0 \/ got.idxBytes \in 0..16 * Len(made), NEW size
  PROVE  FromIndex(g, got, size) = <<>> \/ \E n \in 0..Len(made) : n # 0 /\ Len(FromIndex(g, got, size)) = n
<1>0. Len(made) \in Nat /\ DOMAIN made = 1..Len(made)
  BY FramesAre
<1>1. CASE got.idx = 0
  BY <1>1 DEF FromIndex
<1>2. CASE got.idx # 0
  <2> DEFINE n == Least(got.idxBytes, 16 * MaxFrames) \div 16
  <2>1. n \in 0..Len(made)
    <3>1. got.idxBytes \in 0..16 * Len(made)
      BY <1>2
    <3> QED
      BY <1>0, <3>1, EntriesTaken
  <2>2. Nonempty(SubSeq(g.entries, 1, n)) = FirstEntries(n) /\ DOMAIN FirstEntries(n) = 1..n
    <3> HIDE DEF n
    <3> QED
      BY <2>1, EntriesRead
  <2> DEFINE entries == Nonempty(SubSeq(g.entries, 1, n))
             bases == {base \in {got.movi, 0} : ChunkAt(g, base + entries[1].off, size)}
             base == IF got.movi \in bases THEN got.movi ELSE 0
             frames == [i \in DOMAIN entries |-> [off |-> base + entries[i].off + 8, len |-> entries[i].len]]
  <2>3. FromIndex(g, got, size) = <<>> \/ FromIndex(g, got, size) = frames
    BY DEF FromIndex
  <2>4. frames = [i \in DOMAIN entries |-> frames[i]]
    OBVIOUS
  <2>5. DOMAIN entries = 1..n /\ n \in Nat
    BY <1>0, <2>1, <2>2
  <2> HIDE DEF frames, entries, n
  <2>6. Len(frames) = n /\ (n = 0 => frames = <<>>)
    BY <2>4, <2>5, LengthOf
  <2> QED
    BY <2>1, <2>3, <2>6
<1> QED
  BY <1>1, <1>2

(* How much of the index is left.                                           *)
IndexLeft(g) == IF Ending + 8 > g.len THEN 0 ELSE (g.len - (Ending + 8)) \div 16

(* It is a number of entries.                                               *)
LEMMA LeftIs ==
  ASSUME WriterTypeOK, Laid, NEW g, Leftover(g)
  PROVE  IndexLeft(g) \in 0..Len(made)
<1>1. Len(made) \in Nat /\ Ending \in Nat
  BY EndingTyped
<1>2. g.len \in Nat /\ g.len <= Ending + 8 + 16 * Len(made)
  BY FilesAre DEF Leftover
<1> QED
  BY <1>1, <1>2 DEF IndexLeft

(* Each entry says where its frame is.                                      *)
LEMMA EntryPlace ==
  ASSUME WriterTypeOK, Laid, WholeLen <= Wrap, NEW i \in DOMAIN made
  PROVE  /\ Entry(i).off = made[i].off - 228 /\ Entry(i).len = made[i].len
         /\ made[i].off \in Nat /\ made[i].len \in Nat /\ made[i].off >= 232
         /\ made[i].off + made[i].len <= Ending
<1>0. Len(made) \in Nat /\ DOMAIN made = 1..Len(made)
  BY FramesAre
<1>1. /\ made[i].off \in Nat /\ made[i].len \in Nat /\ Place(i) \in Nat /\ Place(i - 1) \in Nat
      /\ Place(i - 1) >= 224 /\ made[i].off = Place(i - 1) + 8 /\ made[i].off + made[i].len <= Place(i)
  BY PlaceOf
<1>2. Ending \in Nat
  BY EndingTyped
<1>3. Place(i) <= Ending
  <2>1. i \in 0..Len(made) /\ Len(made) \in 0..Len(made) /\ i <= Len(made) /\ Len(made) - i \in Nat
    BY <1>0
  <2>2. Place(Len(made)) >= Place(i) + 8 * (Len(made) - i)
    BY <2>1, PlacesGrow
  <2>3. Place(Len(made)) = Ending
    BY <1>0 DEF Place
  <2> QED
    <3> DEFINE d == Len(made) - i
               x == Place(i)
    <3>1. d \in Nat /\ x \in Nat /\ Ending >= x + 8 * d
      BY <1>1, <2>1, <2>2, <2>3
    <3> HIDE DEF d, x
    <3>2. x <= Ending
      BY <1>2, <3>1
    <3> QED
      BY <3>2 DEF x
<1>4. made[i].off >= 232 /\ made[i].off + made[i].len <= Ending
  BY <1>1, <1>2, <1>3
<1>5. made[i].off - 228 \in Nat /\ made[i].off - 228 < Wrap
  <2>1. Ending + 8 + 16 * Len(made) <= Wrap
    BY DEF WholeLen
  <2> DEFINE m == Len(made)
             x == made[i].off
             l == made[i].len
  <2>2. m \in Nat /\ x \in Nat /\ l \in Nat /\ x >= 232 /\ x + l <= Ending /\ Ending + 8 + 16 * m <= Wrap
    BY <1>0, <1>1, <1>4, <2>1
  <2> HIDE DEF m, x, l
  <2>3. x - 228 \in Nat /\ x - 228 < Wrap
    BY <1>2, <2>2, AviConstants
  <2> QED
    BY <2>3 DEF x
<1>6. (made[i].off - 228) % Wrap = made[i].off - 228
  BY <1>5, SmallStays
<1>7. Entry(i) = [off |-> (made[i].off - 228) % Wrap, len |-> made[i].len]
  BY Entries
<1> QED
  BY <1>1, <1>4, <1>6, <1>7

(* What is left of the index is read as the first frames, each at its place. *)
LEMMA IndexIsRead ==
  ASSUME WriterTypeOK, Laid, \A i \in DOMAIN made : made[i].len > 0, Len(made) <= MaxFrames, WholeLen <= Wrap,
         NEW g, Leftover(g), NEW got, Kept(g, got)
  PROVE  FromIndex(g, got, g.len) = FirstFrames(IndexLeft(g))
<1>0. Len(made) \in Nat /\ DOMAIN made = 1..Len(made)
  BY FramesAre
<1>1. Ending \in Nat /\ Ending >= 224 + 8 * Len(made)
  BY EndingTyped
<1>2. g.len \in Nat /\ g.len <= Ending + 8 + 16 * Len(made)
  BY FilesAre DEF Leftover
<1>3. IndexLeft(g) \in 0..Len(made)
  BY LeftIs
<1>4. FirstFrames(0) = <<>>
  BY DEF FirstFrames
<1>5. CASE Ending + 8 > g.len
  BY <1>4, <1>5 DEF Kept, FromIndex, IndexLeft
<1>6. CASE Ending + 8 <= g.len
  <2> DEFINE n == Least(got.idxBytes, 16 * MaxFrames) \div 16
             entries == Nonempty(SubSeq(g.entries, 1, n))
             bases == {base \in {got.movi, 0} : ChunkAt(g, base + entries[1].off, g.len)}
             base == IF got.movi \in bases THEN got.movi ELSE 0
             frames == [i \in DOMAIN entries |-> [off |-> base + entries[i].off + 8, len |-> entries[i].len]]
  <2>0. FromIndex(g, got, g.len) =
          IF got.idx = 0 THEN <<>>
          ELSE IF entries = <<>> THEN <<>>
          ELSE IF bases = {} \/ \E i \in DOMAIN frames : frames[i].off + frames[i].len > g.len THEN <<>>
          ELSE frames
    BY DEF FromIndex
  <2>1. n = IndexLeft(g)
    <3>1. got.idxBytes = g.len - (Ending + 8)
      BY <1>6 DEF Kept
    <3>2. got.idxBytes \in 0..16 * Len(made)
      BY <1>0, <1>1, <1>2, <1>6, <3>1
    <3>3. Least(got.idxBytes, 16 * MaxFrames) = got.idxBytes
      BY <1>0, <3>2, EntriesTaken
    <3> QED
      BY <1>1, <1>2, <1>6, <3>1, <3>3 DEF IndexLeft
  <2>2. got.idx # 0 /\ got.movi = 220
    BY <1>1, <1>6 DEF Kept
  <2>3. /\ entries = FirstEntries(n) /\ DOMAIN entries = 1..n /\ (n = 0 => entries = <<>>) /\ (n # 0 => entries # <<>>)
        /\ \A i \in 1..n : entries[i] = Entry(i)
    <3>1. n \in 0..Len(made)
      BY <1>3, <2>1
    <3> HIDE DEF n
    <3> QED
      BY <3>1, EntriesRead
  <2>4. CASE n = 0
    BY <1>4, <2>0, <2>1, <2>3, <2>4
  <2>5. CASE n # 0
    <3> HIDE DEF n, entries
    <3>1. 1 \in 1..n /\ n \in Nat /\ 1 \in DOMAIN made /\ \A i \in 1..n : i \in DOMAIN made
      BY <1>0, <1>3, <2>1, <2>5
    <3>2. entries[1].off = 4
      <4>1. Entry(1).off = made[1].off - 228
        BY <3>1, EntryPlace
      <4>2. made[1].off = 232
        BY <3>1, AviConstants, SMTT(30) DEF Laid
      <4> QED
        BY <2>3, <3>1, <4>1, <4>2
    <3>3. ChunkAt(g, 220 + entries[1].off, g.len)
      <4>1. Look(g, 224).id = "00dc"
        <5>1. 0 \in 0..Len(made) /\ 0 < Len(made)
          BY <1>0, <3>1
        <5>2. Place(0) = 224
          BY <5>1, PlaceTyped
        <5>3. Look(g, Place(0)) = FrameChunk(0 + 1)
          BY <5>1, FramesFound
        <5>4. FrameChunk(0 + 1).id = "00dc"
          BY ChunkOfFrame
        <5> QED
          BY <5>2, <5>3, <5>4
      <4>2. 224 + 8 <= g.len
        BY <1>0, <1>1, <1>2, <1>6
      <4>3. 220 + entries[1].off = 224
        BY <3>2
      <4> QED
        BY <4>1, <4>2, <4>3 DEF ChunkAt
    <3>4. got.movi \in bases
      BY <2>2, <3>3
    <3>5. bases # {} /\ base = 220
      BY <2>2, <3>4
    <3> HIDE DEF bases, base
    <3>6. ASSUME NEW i \in 1..n PROVE frames[i] = [off |-> made[i].off, len |-> made[i].len]
                                      /\ ~ (frames[i].off + frames[i].len > g.len)
      <4>1. i \in DOMAIN made
        BY <3>1
      <4>2. /\ Entry(i).off = made[i].off - 228 /\ Entry(i).len = made[i].len
            /\ made[i].off \in Nat /\ made[i].len \in Nat /\ made[i].off + made[i].len <= Ending
        BY <4>1, EntryPlace
      <4>3. frames[i] = [off |-> base + Entry(i).off + 8, len |-> Entry(i).len]
        BY <2>3
      <4>4. base + Entry(i).off + 8 = made[i].off
        BY <3>5, <4>2
      <4>5. ~ (made[i].off + made[i].len > g.len)
        BY <1>1, <1>2, <1>6, <4>2, SMTT(30)
      <4> QED
        BY <4>2, <4>3, <4>4, <4>5
    <3>7. DOMAIN frames = 1..n
      BY <2>3
    <3>8. frames = FirstFrames(n)
      BY <2>3, <3>6 DEF FirstFrames
    <3> HIDE DEF frames
    <3>9. ~ \E i \in DOMAIN frames : frames[i].off + frames[i].len > g.len
      BY <3>6, <3>7
    <3> QED
      BY <2>0, <2>1, <2>2, <2>3, <2>5, <3>5, <3>8, <3>9
  <2> QED
    BY <2>4, <2>5
<1> QED
  BY <1>1, <1>2, <1>5, <1>6

(* The frames that are whole are the first ones.                            *)
LEMMA WholeAreFirst ==
  ASSUME WriterTypeOK, Laid, NEW e \in Nat, NEW w \in 0..Len(made), WholeUpTo(w, e)
  PROVE  Cardinality({i \in DOMAIN made : made[i].off + made[i].len <= e}) = w
<1>0. Len(made) \in Nat /\ DOMAIN made = 1..Len(made) /\ w \in Nat
  BY FramesAre
<1>1. ASSUME NEW i \in DOMAIN made, i > w PROVE ~ (made[i].off + made[i].len <= e)
  <2>1. w < Len(made) /\ w + 1 \in DOMAIN made
    BY <1>0, <1>1
  <2>2. made[w + 1].off + made[w + 1].len > e
    BY <2>1 DEF WholeUpTo
  <2>3. made[w + 1].off \in Nat /\ made[w + 1].len \in Nat /\ made[w + 1].off + made[w + 1].len <= Place(w + 1) /\ Place(w + 1) \in Nat
    BY <2>1, PlaceOf
  <2>4. made[i].off \in Nat /\ made[i].len \in Nat /\ made[i].off = Place(i - 1) + 8 /\ Place(i - 1) \in Nat
    BY PlaceOf
  <2>5. CASE i = w + 1
    BY <2>2, <2>3, <2>5
  <2>6. CASE i # w + 1
    <3>1. i - 1 \in 0..Len(made) /\ w + 1 \in 0..Len(made) /\ w + 1 <= i - 1 /\ (i - 1) - (w + 1) \in Nat
      BY <1>0, <1>1, <2>6
    <3>2. Place(i - 1) >= Place(w + 1) + 8 * ((i - 1) - (w + 1))
      BY <3>1, PlacesGrow
    <3> DEFINE d == (i - 1) - (w + 1)
               x == Place(i - 1)
               y == Place(w + 1)
               p == made[w + 1].off + made[w + 1].len
               q == made[i].off
               l == made[i].len
    <3>3. /\ d \in Nat /\ x \in Nat /\ y \in Nat /\ p \in Nat /\ q \in Nat /\ l \in Nat
          /\ x >= y + 8 * d /\ p <= y /\ p > e /\ q = x + 8
      <4>1. d \in Nat /\ x >= y + 8 * d
        BY <3>1, <3>2
      <4>2. y \in Nat /\ p \in Nat /\ p <= y /\ p > e
        BY <2>2, <2>3, SMTT(30)
      <4>3. x \in Nat /\ q \in Nat /\ l \in Nat /\ q = x + 8
        BY <2>4
      <4> HIDE DEF d, x, y, p, q, l
      <4> QED
        BY <4>1, <4>2, <4>3
    <3> HIDE DEF d, x, y, p, q, l
    <3>4. ~ (q + l <= e)
      BY <3>3
    <3> QED
      BY <3>4 DEF q, l
  <2> QED
    BY <2>5, <2>6
<1>2. {i \in DOMAIN made : made[i].off + made[i].len <= e} = 1..w
  <2>1. \A i \in 1..w : i \in DOMAIN made /\ made[i].off + made[i].len <= e
    BY <1>0 DEF WholeUpTo
  <2>2. \A i \in DOMAIN made : made[i].off + made[i].len <= e => i \in 1..w
    BY <1>0, <1>1
  <2> QED
    BY <2>1, <2>2
<1>3. Cardinality(1..w) = w
  BY <1>0, FS_Interval
<1> QED
  BY <1>2, <1>3

(* There are as many steps as chunks.                                       *)
LEMMA EnoughSteps ==
  ASSUME WriterTypeOK, Laid, NEW e \in Nat, NEW w \in 0..Len(made), WholeUpTo(w, e)
  PROVE  Least(e \div 8, w) = w
<1>0. Len(made) \in Nat /\ DOMAIN made = 1..Len(made) /\ w \in Nat
  BY FramesAre
<1>1. 8 * w <= e
  <2>1. CASE w = 0
    BY <2>1
  <2>2. CASE w # 0
    <3>1. w \in DOMAIN made /\ w \in 1..w /\ w - 1 \in 0..Len(made) /\ 0 \in 0..Len(made) /\ 0 <= w - 1
      BY <1>0, <2>2
    <3>2. made[w].off + made[w].len <= e
      BY <3>1 DEF WholeUpTo
    <3>3. made[w].off \in Nat /\ made[w].len \in Nat /\ made[w].off = Place(w - 1) + 8 /\ Place(w - 1) \in Nat
      BY <3>1, PlaceOf
    <3>4. Place(w - 1) >= Place(0) + 8 * ((w - 1) - 0)
      BY <3>1, PlacesGrow
    <3>5. Place(0) = 224
      BY <3>1, PlaceTyped
    <3> DEFINE x == Place(w - 1)
               q == made[w].off
               l == made[w].len
    <3>6. x \in Nat /\ q \in Nat /\ l \in Nat /\ q = x + 8 /\ q + l <= e /\ x >= 224 + 8 * (w - 1)
      BY <3>2, <3>3, <3>4, <3>5
    <3> HIDE DEF x, q, l
    <3> QED
      BY <1>0, <3>6
  <2> QED
    BY <2>1, <2>2
<1>2. e \div 8 >= w /\ e \div 8 \in Nat
  BY <1>0, <1>1
<1> QED
  BY <1>0, <1>2 DEF Least

(* What is read of the leftover.                                            *)
IsRead(g, k, w) ==
  /\ WholeUpTo(w, g.len) /\ k <= w /\ Frames(g) = FirstFrames(k)
  /\ g.len = WholeLen \/ g.len < WholeLen - 16 * (Len(made) - 1) => k = w

(* Where the header is not whole nothing is read.                           *)
LEMMA ShortLeftover ==
  ASSUME WriterTypeOK, Laid, NEW g, Leftover(g), Sound(g), g.len < 224
  PROVE  IsRead(g, 0, 0)
<1>0. Len(made) \in Nat /\ DOMAIN made = 1..Len(made)
  BY FramesAre
<1>1. g \in Files /\ g.len \in Nat
  BY FilesAre DEF Leftover
<1>2. SizeOf(g) \in Int /\ SizeOf(g) < 224
  <2>1. Look(g, 0).size \in Nat
    BY <1>1, Looks
  <2> QED
    BY <1>1, <2>1 DEF SizeOf, Least
<1>3. Refused(g)
  BY <1>1, <1>2, ShortIsRefused
<1>4. Frames(g) = FirstFrames(0)
  BY <1>3 DEF Refused, FirstFrames
<1>5. WholeUpTo(0, g.len)
  <2> SUFFICES ASSUME 0 < Len(made) PROVE made[0 + 1].off + made[0 + 1].len > g.len
    BY DEF WholeUpTo
  <2>1. 1 \in DOMAIN made
    BY <1>0
  <2>2. made[1].off = 232 /\ made[1].len \in Nat
    BY <2>1, FramesAre, AviConstants DEF Laid
  <2> QED
    BY <1>1, <2>2
<1> QED
  BY <1>4, <1>5 DEF IsRead

(* Where it is, the first frames are read: by the index, where an entry of it is left, and by the *)
(* movie, where none is.                                                    *)
LEMMA LongLeftover ==
  ASSUME WriterTypeOK, Laid, \A i \in DOMAIN made : made[i].len > 0, Len(made) <= MaxFrames, WholeLen <= Wrap,
         NEW g, Leftover(g), g.len >= 224
  PROVE  \E w \in 0..Len(made), k \in 0..Len(made) : IsRead(g, k, w)
<1> DEFINE e == g.len
           end == Least(Ending, e)
           got == Sought(g)
<1>0. Len(made) \in Nat /\ DOMAIN made = 1..Len(made)
  BY FramesAre
<1>1. Ending \in Nat /\ Ending >= 224 + 8 * Len(made)
  BY EndingTyped
<1>2. e \in Nat /\ e <= WholeLen /\ WholeLen = Ending + 8 + 16 * Len(made)
  BY FilesAre DEF Leftover, WholeLen
<1>3. PICK w \in 0..Len(made) : WholeUpTo(w, e)
  <2>1. e \in Int
    BY <1>2
  <2> QED
    BY <2>1, SomeAreWhole
<1>4. ASSUME NEW i \in DOMAIN made PROVE made[i].off \in Nat /\ made[i].len \in Nat /\ made[i].off + made[i].len <= Ending
  BY EntryPlace
<1>5. end \in Int /\ end <= Ending /\ end <= e
  BY <1>1, <1>2 DEF Least
<1>6. WholeUpTo(w, end)
  <2>1. ASSUME NEW i \in 1..w PROVE made[i].off + made[i].len <= end
    <3>1. i \in DOMAIN made
      BY <1>0
    <3>2. made[i].off + made[i].len <= e
      BY <1>3 DEF WholeUpTo
    <3>3. end = e \/ end = Ending
      BY DEF Least
    <3> QED
      BY <1>4, <3>1, <3>2, <3>3
  <2>2. ASSUME w < Len(made) PROVE made[w + 1].off + made[w + 1].len > end
    <3>1. w + 1 \in DOMAIN made
      BY <1>0, <2>2
    <3>2. made[w + 1].off + made[w + 1].len > e
      BY <1>3, <2>2 DEF WholeUpTo
    <3> DEFINE x == made[w + 1].off + made[w + 1].len
    <3>3. x \in Nat /\ x > e
      BY <1>4, <3>1, <3>2
    <3> HIDE DEF x, end, e
    <3>4. x > end
      BY <1>2, <1>5, <3>3
    <3> QED
      BY <3>4 DEF x
  <2> QED
    BY <2>1, <2>2 DEF WholeUpTo
<1>7. Kept(g, got)
  BY AllIsFound
<1>8. SizeOf(g) = e
  BY SizeIsLen
<1>9. FromIndex(g, got, e) = FirstFrames(IndexLeft(g)) /\ IndexLeft(g) \in 0..Len(made)
  BY <1>7, IndexIsRead, LeftIs
<1>10. FirstFrames(IndexLeft(g)) = <<>> <=> IndexLeft(g) = 0
  <2>1. Len(FirstFrames(IndexLeft(g))) = IndexLeft(g)
    BY <1>9, FirstTyped
  <2>2. FirstFrames(0) = <<>>
    BY DEF FirstFrames
  <2> QED
    BY <2>1, <2>2
<1>11. g.upto = 224
  <2>1. g.upto = Least(HeaderBytes, g.len)
    BY DEF Leftover
  <2> QED
    BY <1>2, <2>1, AviConstants DEF Least
<1>12. Frames(g) = IF IndexLeft(g) # 0 THEN FirstFrames(IndexLeft(g)) ELSE FromMovie(g, 224, end)
  <2>1. got.movi = 220 /\ Least(got.moviEnd, e) = end
    <3>1. got.movi = 220 /\ got.moviEnd = end
      BY <1>7 DEF Kept
    <3> HIDE DEF got, end, e
    <3>2. Least(end, e) = end
      BY <1>2, <1>5 DEF Least
    <3> QED
      BY <3>1, <3>2
  <2>2. got.movi + 4 = 224 /\ got.movi # 0
    BY <2>1
  <2>3. ~ (g.len < 12 \/ g.upto < 12)
    BY <1>2, <1>11
  <2>4. Frames(g) = IF FromIndex(g, got, e) # <<>> THEN FromIndex(g, got, e) ELSE FromMovie(g, got.movi + 4, Least(got.moviEnd, e))
    BY <1>8, <2>2, <2>3 DEF Frames
  <2> HIDE DEF got, end
  <2> QED
    BY <1>9, <1>10, <2>1, <2>2, <2>4
<1>13. CASE IndexLeft(g) = 0
  <2>1. FromMovie(g, 224, end) = FirstFrames(w)
    <3>1. e \div 8 \in Nat
      BY <1>2
    <3>2. MovieWalk(g, 224, end)[e \div 8] = Reached(Least(e \div 8, w))
      <4> HIDE DEF end
      <4> QED
        BY <1>5, <1>6, <3>1, MovieIsWalked
    <3>3. Least(e \div 8, w) = w
      BY <1>2, <1>3, EnoughSteps
    <3> HIDE DEF end
    <3> QED
      BY <3>2, <3>3 DEF FromMovie, Reached
  <2>2. IsRead(g, w, w)
    BY <1>0, <1>3, <1>12, <1>13, <2>1 DEF IsRead
  <2> QED
    BY <2>2
<1>14. CASE IndexLeft(g) # 0
  <2> DEFINE k == IndexLeft(g)
  <2>1. k = (e - (Ending + 8)) \div 16 /\ e >= Ending + 8
    BY <1>1, <1>2, <1>14 DEF IndexLeft
  <2>2. e >= Ending + 24
    <3> HIDE DEF e
    <3> QED
      BY <1>1, <1>2, <1>14, <2>1, SMTT(30)
  <2>3. w = Len(made)
    <3>1. ~ (w < Len(made))
      <4> SUFFICES ASSUME w < Len(made) PROVE FALSE
        OBVIOUS
      <4>1. w + 1 \in DOMAIN made
        BY <1>0
      <4>2. made[w + 1].off + made[w + 1].len > e
        BY <1>3 DEF WholeUpTo
      <4> QED
        BY <1>1, <1>2, <1>4, <2>2, <4>1, <4>2, SMTT(30)
    <3>2. Len(made) \in Nat
      BY <1>0
    <3> QED
      BY <3>1, <3>2
  <2>4. e = WholeLen => k = w
    <3> DEFINE m == Len(made)
    <3>1. m \in Nat /\ WholeLen = Ending + 8 + 16 * m /\ w = m
      BY <1>0, <1>2, <2>3
    <3> HIDE DEF m, e, k
    <3> QED
      BY <1>1, <1>2, <2>1, <3>1
  <2>5. ~ (e < WholeLen - 16 * (Len(made) - 1))
    <3> DEFINE m == Len(made)
    <3>1. m \in Nat /\ WholeLen = Ending + 8 + 16 * m
      BY <1>0, <1>2
    <3> HIDE DEF m, e
    <3>2. ~ (e < WholeLen - 16 * (m - 1))
      BY <1>1, <1>2, <2>2, <3>1
    <3> QED
      BY <3>2 DEF m
  <2>6. k <= w
    BY <1>0, <1>9, <2>3
  <2>7. IsRead(g, k, w)
    BY <1>3, <1>12, <1>14, <2>4, <2>5, <2>6 DEF IsRead
  <2> QED
    BY <1>9, <2>7
<1> QED
  BY <1>13, <1>14

(* NewWriter has written nothing.                                           *)
LEMMA PlacedInit == AviInit => Placed
<1> SUFFICES ASSUME AviInit PROVE Placed
  OBVIOUS
<1>1. made = <<>> /\ rec = "open"
  BY DEF AviInit
<1>2. PICK junk \in Junk : file = [len |-> HeaderBytes, upto |-> 0, chunks |-> {}, entries |-> <<>>,
                                   head |-> Zeroes, junk |-> junk]
  BY DEF AviInit
<1>3. file.chunks = {}
  BY <1>2
<1>4. FrameChunks = {} /\ Len(made) = 0 /\ DOMAIN made = {}
  BY <1>1 DEF FrameChunks
<1> QED
  BY <1>1, <1>3, <1>4, AviConstants DEF Placed

(* Where no frame is written, nothing that was placed moves.                *)
LEMMA PlacesStay ==
  ASSUME UNCHANGED made
  PROVE  /\ Ending' = Ending /\ FrameChunks' = FrameChunks /\ IdxChunk' = IdxChunk
         /\ [i \in DOMAIN made |-> Entry(i)]' = [i \in DOMAIN made |-> Entry(i)]
BY DEF Ending, FrameChunks, FrameChunk, IdxChunk, Entry

(* Nor where the file is left alone.                                        *)
LEMMA PlacedUntouched ==
  ASSUME Placed, UNCHANGED <<rec, made, file, cut>>
  PROVE  Placed'
BY PlacesStay DEF Placed

(* WriteFrame places a frame behind the last.                               *)
LEMMA PlacedWrite ==
  ASSUME WriterInductive, Placed, NEW n \in Lengths, WriteFrame(n)
  PROVE  Placed'
<1>0. /\ Len(made) \in Nat /\ DOMAIN made = 1..Len(made) /\ file.len \in Nat
      /\ made \in Seq([off : Nat, len : Nat, at : Nat])
  BY WriterFacts
<1>1. PICK gap \in Gaps : now' = now + gap
  BY DEF WriteFrame, Arrives
<1>2. rec = "open" /\ rec' = "open" /\ n \in Nat /\ n > 0 /\ Len(made) < MaxFrames
  BY AviConstants DEF WriteFrame, Arrives
<1>3. now' \in Nat
  BY <1>1, <1>2, OpenFacts, AviConstants
<1> DEFINE m == [off |-> file.len + 8, len |-> n, at |-> now']
<1>4. m \in [off : Nat, len : Nat, at : Nat] /\ made' = Append(made, m)
  BY <1>0, <1>2, <1>3 DEF WriteFrame
<1>5. m.off = file.len + 8 /\ m.len = n
  OBVIOUS
<1> HIDE DEF m
<1>6. /\ Len(made') = Len(made) + 1 /\ DOMAIN made' = 1..Len(made) + 1
      /\ made'[Len(made) + 1] = m /\ \A i \in 1..Len(made) : made'[i] = made[i]
  BY <1>0, <1>4, Appended
<1>7. file'.chunks = file.chunks \cup {Chunk(file.len, "00dc", n, "")}
  <2>1. file \in Files
    BY WriterFacts
  <2>2. file' = [file EXCEPT !.chunks = @ \cup {Chunk(file.len, "00dc", n, "")}, !.len = @ + 8 + n + (n % 2)]
    BY DEF WriteFrame
  <2> QED
    BY <2>1, <2>2 DEF Files
<1>8. FrameChunks' = FrameChunks \cup {Chunk(file.len, "00dc", n, "")}
  <2>1. ASSUME NEW i \in 1..Len(made) PROVE FrameChunk(i)' = FrameChunk(i)
    BY <1>6 DEF FrameChunk
  <2>2. ASSUME NEW k, k = Len(made) + 1 PROVE FrameChunk(k)' = Chunk(file.len, "00dc", n, "")
    <3>1. made'[k] = m
      BY <1>6, <2>2
    <3>2. FrameChunk(k)' = Chunk(made'[k].off - 8, "00dc", made'[k].len, "")
      BY DEF FrameChunk
    <3>3. m.off - 8 = file.len
      BY <1>0, <1>5
    <3> QED
      BY <1>5, <3>1, <3>2, <3>3
  <2>3. FrameChunks' = {FrameChunk(i)' : i \in DOMAIN made'}
    BY DEF FrameChunks
  <2>4. \A i : i \in DOMAIN made' <=> i \in 1..Len(made) \/ i = Len(made) + 1
    BY <1>0, <1>6
  <2>5. ASSUME NEW c PROVE c \in FrameChunks' <=> c \in FrameChunks \cup {Chunk(file.len, "00dc", n, "")}
    <3>1. c \in FrameChunks' <=> (\E i \in 1..Len(made) : c = FrameChunk(i)) \/ c = Chunk(file.len, "00dc", n, "")
      BY <2>1, <2>2, <2>3, <2>4
    <3>2. c \in FrameChunks <=> \E i \in 1..Len(made) : c = FrameChunk(i)
      BY <1>0 DEF FrameChunks
    <3> QED
      BY <3>1, <3>2
  <2> QED
    BY <2>5
<1>9. file.chunks = FrameChunks
  BY <1>2 DEF Placed
<1>10. ASSUME NEW i \in DOMAIN made' PROVE made'[i].len > 0
  <2>1. CASE i \in 1..Len(made)
    <3>1. made'[i] = made[i] /\ i \in DOMAIN made
      BY <1>0, <1>6, <2>1
    <3>2. \A j \in DOMAIN made : made[j].len > 0
      BY DEF Placed
    <3> QED
      BY <3>1, <3>2
  <2>2. CASE i = Len(made) + 1
    BY <1>2, <1>5, <1>6, <2>2
  <2> QED
    BY <1>0, <1>6, <2>1, <2>2
<1>11. Len(made') <= MaxFrames
  BY <1>0, <1>2, <1>6, AviConstants
<1> QED
  BY <1>2, <1>7, <1>8, <1>9, <1>10, <1>11 DEF Placed

(* Close places the index behind the frames,                                *)
LEMMA PlacedIndex ==
  ASSUME WriterInductive, Placed, CloseIndex
  PROVE  Placed'
<1>1. rec = "open" /\ rec' = "closing" /\ UNCHANGED <<made, cut>>
  BY DEF CloseIndex
<1>2. file \in Files /\ file.len \in Nat /\ Len(made) \in Nat
  BY WriterFacts
<1>3. file.len = Ending /\ Ending \in Nat
  <2>1. file.len = HeaderBytes + Bytes(made)
    BY <1>1 DEF WriterInductive, Filled
  <2> QED
    BY <1>2, <2>1 DEF Ending
<1>4. /\ file'.chunks = file.chunks \cup {Chunk(file.len, "idx1", 16 * Len(made), "")}
      /\ file'.entries = [i \in DOMAIN made |-> Entry(i)] /\ file'.len = file.len + 8 + 16 * Len(made)
  <2> DEFINE E == [i \in DOMAIN made |-> Entry(i)]
  <2>1. file' = [file EXCEPT !.chunks = @ \cup {Chunk(file.len, "idx1", 16 * Len(made), "")}, !.entries = E,
                             !.len = @ + 8 + 16 * Len(made)]
    BY DEF CloseIndex
  <2> HIDE DEF E
  <2>2. /\ file'.chunks = file.chunks \cup {Chunk(file.len, "idx1", 16 * Len(made), "")}
        /\ file'.entries = E /\ file'.len = file.len + 8 + 16 * Len(made)
    BY <1>2, <2>1 DEF Files
  <2> QED
    BY <2>2 DEF E
<1>5. file.chunks = FrameChunks
  BY <1>1 DEF Placed
<1>6. file'.chunks = FrameChunks \cup {IdxChunk}
  BY <1>3, <1>4, <1>5 DEF IdxChunk
<1>7. file'.len = Ending + 8 + 16 * Len(made) /\ file'.len <= Ending + 8 + 16 * Len(made)
  <2> DEFINE x == 16 * Len(made)
  <2>1. x \in Nat
    BY <1>2
  <2>2. file'.len = file.len + 8 + x
    BY <1>4
  <2> HIDE DEF x
  <2>3. file'.len = Ending + 8 + x /\ file'.len <= Ending + 8 + x
    BY <1>3, <2>1, <2>2
  <2> QED
    BY <2>3 DEF x
<1>8. \A i \in DOMAIN made : made[i].len > 0
  BY DEF Placed
<1>9. Len(made) <= MaxFrames
  BY DEF Placed
<1> QED
  BY <1>1, <1>4, <1>6, <1>7, <1>8, <1>9, PlacesStay DEF Placed

(* and the header before them.                                              *)
LEMMA PlacedHeader ==
  ASSUME WriterInductive, Placed, CloseHeader
  PROVE  Placed'
<1>1. rec = "closing" /\ rec' = "done" /\ Headed(HeaderBytes) /\ UNCHANGED <<made, cut>>
  BY DEF CloseHeader
<1>2. file \in Files /\ file.len \in Nat /\ file.len >= 224
  BY <1>1, WriterFacts, AviConstants DEF WriterInductive, WriterInv
<1>3. file' = [file EXCEPT !.head = Header, !.upto = HeaderBytes]
  BY <1>1 DEF Headed
<1>4. file'.chunks = file.chunks /\ file'.len = file.len /\ file'.entries = file.entries /\ file'.upto = HeaderBytes
  <2> DEFINE h == Header
  <2>1. file' = [file EXCEPT !.head = h, !.upto = HeaderBytes]
    BY <1>3
  <2> HIDE DEF h
  <2> QED
    BY <1>2, <2>1 DEF Files
<1>5. file'.upto = Least(HeaderBytes, file'.len)
  BY <1>2, <1>4, AviConstants DEF Least
<1> QED
  BY <1>1, <1>4, <1>5, PlacesStay DEF Placed

(* What is cut off is cut off the end.                                      *)
LEMMA PlacedShorten ==
  ASSUME WriterInductive, Placed, NEW n \in Missing, Shorten(n)
  PROVE  Placed'
<1>1. rec = "done" /\ file' = Cut(file, file.len - n) /\ n < file.len /\ n \in Nat
      /\ UNCHANGED <<rec, made>> /\ cut' = TRUE
  BY AviConstants DEF Shorten
<1>2. file \in Files /\ file.len \in Nat
  BY WriterFacts
<1> DEFINE l == file.len - n
<1>3. l \in Nat /\ l <= file.len
  BY <1>1, <1>2
<1>4. /\ file'.len = l /\ file'.upto = Least(file.upto, l) /\ file'.chunks = file.chunks
      /\ file'.entries = file.entries
  <2>1. file' = [file EXCEPT !.len = l, !.upto = Least(@, l)]
    BY <1>1 DEF Cut
  <2> HIDE DEF l
  <2> QED
    BY <1>2, <2>1 DEF Files
<1>5. file'.upto = Least(HeaderBytes, file'.len)
  <2>1. file.upto = Least(HeaderBytes, file.len)
    BY <1>1 DEF Placed
  <2> HIDE DEF l
  <2> QED
    BY <1>2, <1>3, <1>4, <2>1, AviConstants DEF Least
<1>6. Ending \in Nat /\ Len(made) \in Nat
  BY WriterFacts, EndingTyped
<1>7. file'.len <= Ending + 8 + 16 * Len(made)
  <2>1. file.len <= Ending + 8 + 16 * Len(made)
    BY <1>1 DEF Placed
  <2> HIDE DEF l
  <2> QED
    BY <1>2, <1>3, <1>4, <1>6, <2>1
<1> QED
  BY <1>1, <1>4, <1>5, <1>7, PlacesStay DEF Placed

(* Every step keeps the chunks in their places.                             *)
LEMMA PlacedStep ==
  ASSUME WriterInductive, Placed, [AviNext]_aviVars
  PROVE  Placed'
<1>1. CASE WriteNothing
  <2>1. UNCHANGED <<rec, made, file, cut>>
    BY <1>1 DEF WriteNothing, Arrives
  <2> QED
    BY <2>1, PlacedUntouched
<1>2. ASSUME NEW n \in Lengths, WriteFrame(n) PROVE Placed'
  BY <1>2, PlacedWrite
<1>3. CASE Abort
  <2>1. rec' = "lost" /\ UNCHANGED made
    BY <1>3 DEF Abort
  <2> QED
    BY <2>1 DEF Placed
<1>4. CASE CloseIndex
  BY <1>4, PlacedIndex
<1>5. CASE CloseHeader
  BY <1>5, PlacedHeader
<1>6. CASE Crash
  <2>1. rec' = "crashed" /\ UNCHANGED made
    BY <1>6 DEF Crash
  <2> QED
    BY <2>1 DEF Placed
<1>7. ASSUME NEW n \in Froms, NEW s \in Speeds, Open(n, s) PROVE Placed'
  <2>1. UNCHANGED <<rec, made, file, cut>>
    BY <1>7 DEF Open
  <2> QED
    BY <2>1, PlacedUntouched
<1>8. ASSUME NEW n \in Missing, Shorten(n) PROVE Placed'
  BY <1>8, PlacedShorten
<1>9. CASE Send \/ Over \/ Gone
  <2>1. UNCHANGED <<rec, made, file, cut>>
    BY <1>9 DEF Send, Over, Gone
  <2> QED
    BY <2>1, PlacedUntouched
<1>10. CASE UNCHANGED aviVars
  <2>1. UNCHANGED <<rec, made, file, cut>>
    BY <1>10 DEF aviVars
  <2> QED
    BY <2>1, PlacedUntouched
<1> QED
  BY <1>1, <1>2, <1>3, <1>4, <1>5, <1>6, <1>7, <1>8, <1>9, <1>10 DEF AviNext

(* They always are.                                                         *)
LEMMA PlacedAlways == AviSpec => []Placed
<1>1. WriterInductive /\ Placed /\ [AviNext]_aviVars => Placed'
  BY PlacedStep
<1> QED
  BY <1>1, PlacedInit, WriterAlways, PTL DEF AviSpec

(* A finished file, cut anywhere, is a leftover.                            *)
LEMMA CutIsLeftover ==
  ASSUME WriterInductive, Placed, rec = "done", ~ cut, NEW n \in 0..file.len
  PROVE  LET g == Cut(file, n) IN Leftover(g) /\ Sound(g) /\ g.len = n
<1>1. /\ file \in Files /\ file.len \in Nat /\ file.upto \in 0..224 /\ file.upto <= file.len /\ Sound(file)
      /\ Len(made) \in Nat
  BY WriterFacts
<1>2. /\ file.head = Header /\ file.upto = Least(HeaderBytes, file.len) /\ file.chunks = FrameChunks \cup {IdxChunk}
      /\ file.entries = [i \in DOMAIN made |-> Entry(i)] /\ file.len <= Ending + 8 + 16 * Len(made)
  BY DEF WriterInductive, WriterInv, Placed
<1> DEFINE g == Cut(file, n)
           u == Least(file.upto, n)
<1>3. n \in Nat /\ n <= file.len
  BY <1>1
<1>4. u \in 0..HeaderBytes /\ u = Least(HeaderBytes, n)
  BY <1>1, <1>2, <1>3, AviConstants DEF Least
<1>5. /\ g \in Files /\ g.len = n /\ g.upto = u /\ g.head = file.head /\ g.chunks = file.chunks /\ g.entries = file.entries
  <2>1. g = [file EXCEPT !.len = n, !.upto = u]
    BY DEF Cut
  <2> HIDE DEF u, g
  <2> QED
    BY <1>1, <1>3, <1>4, <2>1 DEF Files
<1>6. Ending \in Nat
  BY WriterFacts, EndingTyped
<1> HIDE DEF g, u
<1>7. g.len <= Ending + 8 + 16 * Len(made)
  BY <1>1, <1>2, <1>3, <1>5, <1>6
<1>8. Leftover(g)
  BY <1>2, <1>4, <1>5, <1>7 DEF Leftover
<1>9. Sound(g)
  BY <1>1, <1>5 DEF Sound
<1> QED
  BY <1>5, <1>8, <1>9 DEF g

(* A finished recording is read back as it was written, and one of which the end is missing - *)
(* at whatever byte it was cut - as the first of its frames, whole and at their places; where *)
(* no entry of the index is left they are all that are whole.               *)
THEOREM CutsAreKept == AviSpec => []CutIsKept
<1>1. ASSUME WriterInductive, Placed PROVE CutIsKept
  <2> SUFFICES ASSUME rec = "done", ~ cut, file.len <= Wrap, NEW n \in 0..file.len
               PROVE  LET read == Frames(Cut(file, n))
                          whole == {i \in DOMAIN made : made[i].off + made[i].len <= n}
                      IN /\ Len(read) <= Cardinality(whole) /\ read = SubSeq(Written, 1, Len(read))
                         /\ n = file.len \/ n < file.len - 16 * (Len(made) - 1) => Len(read) = Cardinality(whole)
    BY DEF CutIsKept
  <2> DEFINE g == Cut(file, n)
             whole == {i \in DOMAIN made : made[i].off + made[i].len <= n}
  <2>1. Leftover(g) /\ Sound(g) /\ g.len = n
    BY <1>1, CutIsLeftover
  <2>2. WriterTypeOK /\ Laid /\ file.len \in Nat /\ Len(made) \in Nat
    BY <1>1, WriterFacts
  <2>3. file.len = WholeLen /\ WholeLen <= Wrap
    BY <1>1 DEF Placed, WholeLen
  <2>4. (\A i \in DOMAIN made : made[i].len > 0) /\ Len(made) <= MaxFrames
    BY <1>1 DEF Placed
  <2>5. n \in Nat
    BY <2>2
  <2> HIDE DEF g
  <2>6. PICK w \in 0..Len(made), k \in 0..Len(made) : IsRead(g, k, w)
    <3>1. CASE g.len < 224
      <4>1. IsRead(g, 0, 0)
        BY <2>1, <2>2, <3>1, ShortLeftover
      <4>2. 0 \in 0..Len(made)
        BY <2>2
      <4> QED
        BY <4>1, <4>2
    <3>2. CASE ~ (g.len < 224)
      <4>1. g.len >= 224
        BY <2>1, <2>5, <3>2
      <4> QED
        BY <2>1, <2>2, <2>3, <2>4, <4>1, LongLeftover
    <3> QED
      BY <3>1, <3>2
  <2>7. /\ WholeUpTo(w, n) /\ k <= w /\ Frames(g) = FirstFrames(k)
        /\ n = WholeLen \/ n < WholeLen - 16 * (Len(made) - 1) => k = w
    BY <2>1, <2>6 DEF IsRead
  <2>8. Cardinality(whole) = w
    BY <2>2, <2>5, <2>7, WholeAreFirst
  <2>9. Len(FirstFrames(k)) = k /\ SubSeq(Written, 1, k) = FirstFrames(k)
    BY <2>2, FirstTyped, FirstOfWritten
  <2> HIDE DEF whole
  <2> QED
    BY <2>3, <2>7, <2>8, <2>9 DEF g, whole
<1> QED
  BY <1>1, WriterAlways, PlacedAlways, PTL

(* What the reader can have found of the frames, however long the file is and *)
(* wherever in it a wrapped size has led.                                   *)
Limited(t) ==
  /\ Fields(t) /\ t.movi \in {0, 220} /\ t.moviEnd \in Int
  /\ t.movi = 220 => t.moviEnd <= Ending
  /\ t.idx = 0 \/ t.idxBytes \in 0..16 * Len(made)

(* Wrapping makes no number larger.                                         *)
LEMMA Wrapped ==
  ASSUME NEW x \in Nat
  PROVE  x % Wrap \in Nat /\ x % Wrap <= x
<1>0. x \in Int
  OBVIOUS
<1>1. PICK q \in Int, r \in 0..Wrap - 1 : x = Wrap * q + r /\ x % Wrap = r
  BY <1>0, AviConstants, Division, ZenonT(40)
<1>2. CASE x < Wrap
  BY <1>2, SmallStays
<1>3. CASE ~ (x < Wrap)
  <2> DEFINE y == x % Wrap
  <2>1. y = r /\ r \in 0..Wrap - 1 /\ Wrap \in Nat
    BY <1>1, AviConstants
  <2> HIDE DEF y
  <2>2. y \in Nat /\ y <= x
    BY <1>3, <2>1
  <2> QED
    BY <2>2 DEF y
<1> QED
  BY <1>2, <1>3

(* So the movie list ends with the frames, or before.                       *)
LEMMA MovieListEnds ==
  ASSUME WriterTypeOK, Laid
  PROVE  MovieList \in Nat /\ 220 + MovieList <= Ending
<1>1. Bytes(made) = Ending - 224 /\ Ending \in Nat /\ Ending >= 224 + 8 * Len(made) /\ Len(made) \in Nat
  BY EndingTyped
<1> DEFINE b == Bytes(made)
           y == b % Wrap
           z == 4 + y
<1>2. b \in Nat /\ b = Ending - 224
  BY <1>1
<1> HIDE DEF b
<1>3. y \in Nat /\ y <= b
  BY <1>2, Wrapped
<1> HIDE DEF y
<1>4. z \in Nat /\ z <= 4 + b
  BY <1>2, <1>3
<1> HIDE DEF z
<1>5. z % Wrap \in Nat /\ z % Wrap <= z
  BY <1>4, Wrapped
<1>6. MovieList = z % Wrap
  BY DEF MovieList, z, y, b
<1> DEFINE m == MovieList
<1>7. m \in Nat /\ m <= z
  BY <1>5, <1>6
<1> HIDE DEF m
<1>8. m \in Nat /\ 220 + m <= Ending
  BY <1>1, <1>2, <1>4, <1>7
<1> QED
  BY <1>8 DEF m

(* Only one chunk says where the frames are, and only one where the index is. *)
LEMMA OnlyHeaderLists ==
  ASSUME WriterTypeOK, Laid, NEW g, Leftover(g), Sound(g), g.len >= 224, NEW a \in Nat
  PROVE  /\ Look(g, a).size \in Nat /\ Look(g, a).at = a
         /\ Kind(g, Look(g, a)) = "movi" => a = 212 /\ Look(g, a).size = MovieList
         /\ Look(g, a).id = "idx1" => Look(g, a).size = 16 * Len(made)
<1>0. g \in Files
  BY DEF Leftover
<1>1. Look(g, a).size \in Nat /\ Look(g, a).at = a
  BY <1>0, Looks
<1>2. Kind(g, Look(g, a)) = "movi" => a = 212
  BY <1>0, MovieAt
<1>3. Look(g, 212).size = MovieList
  BY HeaderTaken
<1> DEFINE c == Look(g, a)
           there == {d \in g.chunks : d.at = a} \cup (IF g.upto < a + 8 THEN {} ELSE {d \in g.head.chunks : d.at = a})
<1>4. ASSUME c.id = "idx1" PROVE c.size = 16 * Len(made)
  <2>1. CASE there # {}
    <3>1. c \in there
      BY <2>1 DEF Look
    <3>2. c \in FrameChunks \/ c = IdxChunk \/ c \in Header.chunks
      BY <3>1 DEF Leftover
    <3> HIDE DEF c
    <3>3. c \notin FrameChunks
      <4> SUFFICES ASSUME NEW i \in DOMAIN made, c = FrameChunk(i) PROVE FALSE
        BY DEF FrameChunks
      <4> QED
        BY <1>4, ChunkOfFrame
    <3>4. c \notin Header.chunks
      <4> SUFFICES ASSUME c \in Header.chunks PROVE FALSE
        OBVIOUS
      <4>1. \/ c = Chunk(0, "RIFF", RiffSize, "AVI ") \/ c = Chunk(12, "LIST", 192, "hdrl")
            \/ c = Chunk(24, "avih", 56, "") \/ c = Chunk(88, "LIST", 116, "strl")
            \/ c = Chunk(100, "strh", 56, "vids") \/ c = Chunk(164, "strf", 40, "")
            \/ c = Chunk(212, "LIST", MovieList, "movi")
        BY HeaderIs, ZenonT(40)
      <4> HIDE DEF c
      <4>2. \A x, i, n, k : Chunk(x, i, n, k).id = i
        BY DEF Chunk
      <4>3. \A x, i, n, k : c = Chunk(x, i, n, k) => i = "idx1"
        BY <1>4, <4>2
      <4>4. "RIFF" # "idx1" /\ "LIST" # "idx1" /\ "avih" # "idx1" /\ "strh" # "idx1" /\ "strf" # "idx1"
        OBVIOUS
      <4> QED
        BY <4>1, <4>3, <4>4, ZenonT(40)
    <3>5. IdxChunk.size = 16 * Len(made)
      BY DEF IdxChunk, Chunk
    <3> QED
      BY <3>2, <3>3, <3>4, <3>5
  <2>2. CASE there = {}
    <3>1. c = Chunk(a, "", IF g.upto <= a /\ a + 8 <= HeaderBytes THEN 0 ELSE g.junk, "")
      BY <2>2 DEF Look
    <3> HIDE DEF c
    <3>2. c.id = ""
      BY <3>1 DEF Chunk
    <3> QED
      BY <1>4, <3>2
  <2> QED
    BY <2>1, <2>2
<1> HIDE DEF c
<1> QED
  BY <1>1, <1>2, <1>3, <1>4 DEF c

(* What a chunk has to say keeps within that.                               *)
LEMMA FoundLimited ==
  ASSUME WriterTypeOK, Laid, NEW g, Leftover(g), Sound(g), g.len >= 224, NEW a \in Nat, NEW b \in Int, a + 8 <= b,
         NEW t, Limited(t)
  PROVE  Limited(Found(g, Look(g, a), Taken(g, a, b), t))
<1> DEFINE c == Look(g, a)
           z == Taken(g, a, b)
           u == Found(g, c, z, t)
<1>0. Len(made) \in Nat /\ Ending \in Nat
  BY EndingTyped
<1>1. /\ c.size \in Nat /\ c.at = a /\ (Kind(g, c) = "movi" => a = 212 /\ c.size = MovieList)
      /\ (c.id = "idx1" => c.size = 16 * Len(made))
  BY OnlyHeaderLists
<1>2. z = Within(c.size, a + 8, b)
  BY DEF Taken
<1> HIDE DEF c, z
<1>3. z \in Nat /\ z <= c.size
  BY <1>1, <1>2 DEF Within
<1>4. Fields(t) /\ t.movi \in {0, 220} /\ t.moviEnd \in Int /\ (t.movi = 220 => t.moviEnd <= Ending)
      /\ (t.idx = 0 \/ t.idxBytes \in 0..16 * Len(made))
  BY DEF Limited
<1>5. ASSUME c.id = "LIST" /\ Kind(g, c) = "movi" PROVE Limited(u)
  <2>1. Fields(u) /\ u.movi = c.at + 8 /\ u.moviEnd = c.at + 8 + z /\ u.idx = t.idx /\ u.idxBytes = t.idxBytes
    BY <1>4, <1>5, FoundMovie
  <2> HIDE DEF u
  <2>2. u.movi = 220 /\ u.moviEnd \in Int /\ u.moviEnd <= Ending
    <3>1. MovieList \in Nat /\ 220 + MovieList <= Ending
      BY MovieListEnds
    <3> DEFINE m == MovieList
    <3>2. m \in Nat /\ 220 + m <= Ending /\ z <= m /\ u.movi = 220 /\ u.moviEnd = 220 + z
      BY <1>1, <1>3, <1>5, <2>1, <3>1
    <3> HIDE DEF m
    <3> QED
      BY <1>0, <1>3, <3>2
  <2> QED
    BY <1>4, <2>1, <2>2 DEF Limited
<1>6. ASSUME c.id = "idx1" PROVE Limited(u)
  <2>1. Fields(u) /\ u.movi = t.movi /\ u.moviEnd = t.moviEnd /\ u.idxBytes = z
    BY <1>4, <1>6, FoundIndex
  <2>2. z \in 0..16 * Len(made)
    BY <1>0, <1>1, <1>3, <1>6
  <2> HIDE DEF u
  <2> QED
    BY <1>4, <2>1, <2>2 DEF Limited
<1>7. ASSUME c.id # "idx1", ~ (c.id = "LIST" /\ Kind(g, c) = "movi") PROVE Limited(u)
  <2>1. Same(t, u)
    BY <1>4, <1>7, FoundElse
  <2> HIDE DEF u
  <2> QED
    BY <1>4, <2>1 DEF Limited, Same
<1> QED
  BY <1>5, <1>6, <1>7 DEF c, z, u

(* So does what a turn finds,                                               *)
LEMMA TurnLimited ==
  ASSUME WriterTypeOK, Laid, NEW g, Leftover(g), Sound(g), g.len >= 224,
         NEW e \in Int, NEW s, Inside(s, e), Limited(s.got)
  PROVE  Limited(Turn(g, s).got)
<1> DEFINE at == Head(s.lists).at
           end == Head(s.lists).end
           c == Look(g, at)
           last == Least(end, g.len)
           size == Within(c.size, at + 8, end)
           over == Len(s.lists) > 9 \/ at + 8 > last \/ (c.id = "LIST" /\ at + 12 > last)
           next == (IF Descended(g, c) THEN Level(at + 12, at + 8 + size) ELSE <<>>)
                   \o Level(at + 8 + size + (size % 2), end) \o Tail(s.lists)
<1>1. CASE Turn(g, s) = s
  BY <1>1
<1>2. CASE Turn(g, s) = [s EXCEPT !.lists = Tail(@)]
  <2>1. Turn(g, s).got = s.got
    BY <1>2 DEF Inside
  <2> QED
    BY <2>1
<1>3. CASE s.lists # <<>> /\ ~ over /\ Turn(g, s) = [lists |-> next, got |-> Found(g, c, size, s.got)]
  <2>1. Head(s.lists) \in Spans(e)
    BY <1>3, FirstAndRest DEF Inside
  <2>2. at \in Nat /\ end \in Int
    BY <2>1 DEF Spans
  <2>3. at + 8 <= end
    <3>1. g.len \in Nat /\ ~ (at + 8 > last)
      BY <1>3, FilesAre DEF Leftover
    <3> HIDE DEF at, end
    <3> QED
      BY <2>2, <3>1 DEF Least
  <2>4. Turn(g, s).got = Found(g, c, size, s.got)
    <3> HIDE DEF next, c, size
    <3> QED
      BY <1>3
  <2>5. size = Taken(g, at, end)
    BY DEF Taken
  <2> HIDE DEF at, end, size
  <2>6. Limited(Found(g, Look(g, at), Taken(g, at, end), s.got))
    BY <2>2, <2>3, FoundLimited
  <2> QED
    BY <2>4, <2>5, <2>6
<1> QED
  BY <1>1, <1>2, <1>3 DEF Turn

(* and what the walk finds.                                                 *)
LEMMA SoughtLimited ==
  ASSUME WriterTypeOK, Laid, NEW g, Leftover(g), Sound(g), g.len >= 224
  PROVE  Limited(Sought(g)) /\ SizeOf(g) \in Int
<1>0. g \in Files /\ g.len \in Nat
  BY FilesAre DEF Leftover
<1>1. SizeOf(g) \in Int
  <2>1. Look(g, 0).size \in Nat
    BY <1>0, Looks
  <2> QED
    BY <1>0, <2>1 DEF SizeOf, Least
<1> DEFINE S == {n \in Nat : Inside(Walk(g)[n], SizeOf(g)) /\ Limited(Walk(g)[n].got)}
<1>2. 0 \in S
  <2>1. Inside(Begun(g), SizeOf(g))
    <3>1. Level(12, SizeOf(g)) \in Seq(Spans(SizeOf(g)))
      BY <1>1, OneSpan
    <3> QED
      BY <3>1 DEF Begun, Inside
  <2>2. Limited(Begun(g).got)
    BY DEF Begun, Limited, Fields, NotFound
  <2> QED
    BY <2>1, <2>2, WalkGoesOn
<1>3. ASSUME NEW n \in Nat, n \in S PROVE n + 1 \in S
  <2> DEFINE s == Walk(g)[n]
  <2>1. Walk(g)[n + 1] = Turn(g, s)
    BY WalkGoesOn
  <2>2. Inside(s, SizeOf(g)) /\ Limited(s.got)
    BY <1>3
  <2> HIDE DEF s
  <2>3. Inside(Turn(g, s), SizeOf(g)) /\ Limited(Turn(g, s).got)
    BY <1>0, <1>1, <2>2, TurnsInside, TurnLimited
  <2> QED
    BY <2>1, <2>3
<1> HIDE DEF S
<1>4. 2 * (g.len \div 8) \in S
  <2>1. 2 * (g.len \div 8) \in Nat
    BY <1>0
  <2> QED
    BY <1>2, <1>3, <2>1, AllNumbers
<1> QED
  BY <1>1, <1>4 DEF S, Sought

(* No more frames are read of a recording than were written.                *)
LEMMA FramesAreFew ==
  ASSUME WriterTypeOK, Laid, \A i \in DOMAIN made : made[i].len > 0, Len(made) <= MaxFrames,
         NEW g, Leftover(g), Sound(g), g.len >= 224
  PROVE  \E k \in 0..Len(made) : Len(Frames(g)) = k /\ (k = 0 => Frames(g) = <<>>)
<1> DEFINE got == Sought(g)
           indexed == FromIndex(g, got, SizeOf(g))
           end == Least(got.moviEnd, SizeOf(g))
<1>0. Len(made) \in Nat /\ Ending \in Nat
  BY EndingTyped
<1>1. Limited(got) /\ SizeOf(g) \in Int
  BY SoughtLimited
<1> HIDE DEF got
<1>2. \/ Frames(g) = <<>> \/ Frames(g) = indexed
      \/ got.movi # 0 /\ Frames(g) = FromMovie(g, got.movi + 4, end)
  BY DEF Frames, got
<1>3. CASE Frames(g) = <<>>
  <2>1. Len(<<>>) = 0 /\ 0 \in 0..Len(made)
    BY <1>0
  <2> QED
    BY <1>3, <2>1
<1>4. CASE Frames(g) = indexed
  <2>1. indexed = <<>> \/ \E n \in 0..Len(made) : n # 0 /\ Len(indexed) = n
    BY <1>1, IndexIsShort DEF Limited
  <2>2. Len(<<>>) = 0 /\ 0 \in 0..Len(made)
    BY <1>0
  <2> QED
    BY <1>4, <2>1, <2>2
<1>5. CASE got.movi # 0 /\ Frames(g) = FromMovie(g, got.movi + 4, end)
  <2>1. got.movi + 4 = 224 /\ end \in Int /\ end <= Ending
    <3>1. got.movi = 220 /\ got.moviEnd \in Int /\ got.moviEnd <= Ending
      BY <1>1, <1>5 DEF Limited
    <3> QED
      BY <1>0, <1>1, <3>1 DEF Least
  <2> HIDE DEF end
  <2>2. PICK w \in 0..Len(made) : WholeUpTo(w, end)
    BY <2>1, SomeAreWhole
  <2> DEFINE n == g.len \div 8
             k == Least(n, w)
  <2>3. n \in Nat
    BY FilesAre DEF Leftover
  <2> HIDE DEF n
  <2>4. k \in 0..Len(made)
    BY <1>0, <2>3 DEF Least
  <2>5. MovieWalk(g, 224, end)[n] = Reached(k)
    BY <2>1, <2>2, <2>3, MovieIsWalked
  <2>6. Frames(g) = FirstFrames(k)
    BY <1>5, <2>1, <2>5 DEF FromMovie, Reached, n
  <2>7. FirstFrames(0) = <<>>
    BY DEF FirstFrames
  <2> HIDE DEF k
  <2> QED
    BY <2>4, <2>6, <2>7, FirstTyped
<1> QED
  BY <1>2, <1>3, <1>4, <1>5

(* The replay: from a frame there is, of a recording that is read, on a clock *)
(* of numbers.                                                              *)
Paced ==
  /\ (viewer = "none" \/ Believed) => now \in Nat
  /\ started \in Nat /\ speed \in Nat /\ from \in Nat /\ from >= 1 /\ IsFiniteSet(shown)
  /\ viewer = "watching" => ~ Refused(file)

(* What the replay is asked for are numbers.                                *)
LEMMA ReplayConstants == Froms \subseteq Nat /\ Speeds \subseteq Nat /\ Lates \subseteq Nat /\ Gaps \subseteq Nat
BY AviAssumption

(* A finished file, cut or not, is a leftover.                              *)
LEMMA FinishedIsLeftover ==
  ASSUME WriterInductive, Placed, rec = "done"
  PROVE  Leftover(file) /\ Sound(file)
<1>1. file \in Files /\ Sound(file)
  BY WriterFacts
<1>2. /\ file.head = Header /\ file.upto = Least(HeaderBytes, file.len) /\ file.chunks = FrameChunks \cup {IdxChunk}
      /\ file.entries = [i \in DOMAIN made |-> Entry(i)] /\ file.len <= Ending + 8 + 16 * Len(made)
  BY DEF WriterInductive, WriterInv, Placed
<1> QED
  BY <1>1, <1>2 DEF Leftover

(* Of one that is not refused as many frames are read as there are, or fewer. *)
LEMMA FramesShown ==
  ASSUME WriterInductive, Placed, rec = "done", ~ Refused(file)
  PROVE  \E k \in 1..Len(made) : Len(Frames(file)) = k
<1>1. Leftover(file) /\ Sound(file)
  BY FinishedIsLeftover
<1>2. file.len >= 224
  BY FinishedIsComplete DEF Complete
<1>3. WriterTypeOK /\ Laid /\ Len(made) \in Nat
  BY WriterFacts
<1>4. (\A i \in DOMAIN made : made[i].len > 0) /\ Len(made) <= MaxFrames
  BY DEF Placed
<1>5. PICK k \in 0..Len(made) : Len(Frames(file)) = k /\ (k = 0 => Frames(file) = <<>>)
  BY <1>1, <1>2, <1>3, <1>4, FramesAreFew
<1>6. k # 0
  BY <1>5 DEF Refused
<1> QED
  BY <1>3, <1>5, <1>6

(* Nobody watches.                                                          *)
LEMMA PacedInit == AviInit => Paced
BY FS_EmptySet DEF AviInit, Paced

(* Where the clock stands still and a viewer only leaves, nothing else changes. *)
LEMMA PacedStays ==
  ASSUME Paced, UNCHANGED <<now, from, speed, started, shown, made, file>>, viewer' = viewer \/ viewer' \in {"refused", "over", "gone"},
         viewer = "none" \/ viewer' # "none"
  PROVE  Paced'
<1>1. Believed' = Believed /\ Refused(file)' = Refused(file)
  BY DEF Believed, Span, Refused, Frames, Sought, Walk
<1> QED
  BY <1>1 DEF Paced

(* A frame's time is a quotient.                                            *)
LEMMA TimesAreNumbers ==
  ASSUME WriterInductive, rec = "done", ~ Refused(file), Believed, NEW i \in Nat
  PROVE  AtMs(file, i) \in Int
         /\ \E r \in 0..Milli - 1 : (i - 1) * UsPerFrameExact(file) = Milli * AtMs(file, i) + r
<1> DEFINE w == UsPerFrameExact(file)
<1>1. w \in Nat
  BY RateIsRead
<1> HIDE DEF w
<1>2. (i - 1) * w \in Int
  BY <1>1
<1>3. PICK q \in Int, r \in 0..Milli - 1 : (i - 1) * w = Milli * q + r /\ ((i - 1) * w) \div Milli = q
  BY <1>2, AviConstants, Division
<1> QED
  BY <1>3 DEF AtMs, w

(* A frame that is sent is sent when it is due, or later.                   *)
LEMMA SentWhenDue ==
  ASSUME WriterInductive, Paced, rec = "done", Believed, Send
  PROVE  /\ NextFrame \in Nat /\ Due \in Int /\ now' \in Nat /\ now' >= Due
<1>1. viewer = "watching" /\ ~ Refused(file)
  BY DEF Send, Paced
<1>2. now \in Nat /\ started \in Nat /\ speed \in Nat /\ from \in Nat
  BY DEF Paced
<1>3. NextFrame \in Nat
  <2>1. Cardinality(shown) \in Nat
    BY FS_CardinalityType DEF Paced
  <2> QED
    BY <1>2, <2>1 DEF NextFrame
<1>4. AtMs(file, NextFrame) \in Int /\ AtMs(file, from) \in Int
  BY <1>1, <1>2, <1>3, TimesAreNumbers
<1>5. Due \in Int
  <2> DEFINE x == (AtMs(file, NextFrame) - AtMs(file, from)) * Milli * 2
  <2>1. x \in Int
    BY <1>4, AviConstants
  <2>2. Due = IF speed = 0 THEN 0 ELSE started + x \div speed
    BY DEF Due
  <2> HIDE DEF x
  <2>3. speed # 0 => x \div speed \in Int
    BY <1>2, <2>1
  <2> QED
    BY <1>2, <2>2, <2>3
<1>6. PICK late \in Lates : now' = (IF Due > now THEN Due ELSE now) + late
  BY DEF Send
<1>7. late \in Nat
  BY ReplayConstants
<1> DEFINE d == Due
<1>8. d \in Int /\ now' = (IF d > now THEN d ELSE now) + late
  BY <1>5, <1>6
<1> HIDE DEF d
<1>9. now' \in Nat /\ now' >= d
  BY <1>2, <1>7, <1>8
<1> QED
  BY <1>3, <1>5, <1>9 DEF d

(* A viewer begins at a frame there is.                                     *)
LEMMA PacedOpen ==
  ASSUME WriterInductive, Placed, Paced, NEW n \in Froms, NEW s \in Speeds, Open(n, s)
  PROVE  Paced'
<1>1. rec = "done" /\ viewer = "none" /\ UNCHANGED <<now, file, made, shown>>
  BY DEF Open
<1>2. Believed' = Believed /\ Refused(file)' = Refused(file)
  BY <1>1 DEF Believed, Span, Refused, Frames, Sought, Walk
<1>3. now \in Nat /\ n \in Nat /\ s \in Nat
  BY <1>1, ReplayConstants DEF Paced
<1>4. CASE Refused(file)
  <2>1. viewer' = "refused" /\ UNCHANGED <<from, speed, started>>
    BY <1>4 DEF Open
  <2> QED
    BY <1>1, <2>1, <1>3 DEF Paced
<1>5. CASE ~ Refused(file)
  <2>1. viewer' = "watching" /\ from' = StartAt(n) /\ speed' = s /\ started' = now
    BY <1>5 DEF Open
  <2>2. PICK k \in 1..Len(made) : Len(Frames(file)) = k
    BY <1>1, <1>5, FramesShown
  <2>3. k \in Nat /\ k >= 1
    BY WriterNumbers
  <2>4. StartAt(n) = Least(n + 1, k)
    BY <2>2 DEF StartAt
  <2>5. from' \in Nat /\ from' >= 1
    BY <1>3, <2>1, <2>3, <2>4 DEF Least
  <2> QED
    BY <1>1, <1>2, <1>3, <1>5, <2>1, <2>5 DEF Paced
<1> QED
  BY <1>4, <1>5

(* A frame that is sent leaves the clock a number.                          *)
LEMMA PacedSend ==
  ASSUME WriterInductive, Paced, Send
  PROVE  Paced'
<1>1. viewer = "watching" /\ shown' = shown \cup {NextFrame} /\ UNCHANGED <<rec, made, file, viewer, from, speed, started>>
  BY DEF Send
<1>2. rec = "done"
  BY <1>1 DEF WriterInductive, WriterInv
<1>3. Believed' = Believed /\ Refused(file)' = Refused(file)
  BY <1>1 DEF Believed, Span, Refused, Frames, Sought, Walk
<1>4. Believed => now' \in Nat
  BY <1>2, SentWhenDue
<1>5. IsFiniteSet(shown')
  BY <1>1, FS_AddElement DEF Paced
<1> QED
  BY <1>1, <1>3, <1>4, <1>5 DEF Paced

(* Every step does.                                                         *)
LEMMA PacedStep ==
  ASSUME WriterInductive, Placed, Paced, [AviNext]_aviVars
  PROVE  Paced'
<1>0. viewer # "none" => rec = "done"
  BY DEF WriterInductive, WriterInv
<1>1. ASSUME Arrives, UNCHANGED replay PROVE Paced'
  <2>1. PICK gap \in Gaps : now' = now + gap
    BY <1>1 DEF Arrives
  <2>2. viewer = "none" /\ now \in Nat
    BY <1>0, <1>1 DEF Arrives, Paced
  <2>3. now' \in Nat
    BY <2>1, <2>2, ReplayConstants
  <2> QED
    BY <1>1, <2>2, <2>3 DEF Paced, replay
<1>2. ASSUME rec # "done" \/ viewer = "none", UNCHANGED <<now, replay>> PROVE Paced'
  <2>1. viewer = "none" /\ viewer' = "none"
    BY <1>0, <1>2 DEF replay
  <2> QED
    BY <1>2, <2>1 DEF Paced, replay
<1>3. CASE WriteNothing \/ \E n \in Lengths : WriteFrame(n)
  BY <1>1, <1>3 DEF WriteNothing, WriteFrame
<1>4. CASE Abort \/ CloseIndex \/ CloseHeader \/ Crash
  <2>1. (rec # "done" \/ viewer = "none") /\ UNCHANGED <<now, replay>>
    BY <1>4 DEF Abort, CloseIndex, CloseHeader, Crash
  <2> QED
    BY <1>2, <2>1
<1>5. CASE \E n \in Froms, s \in Speeds : Open(n, s)
  BY <1>5, PacedOpen
<1>6. CASE \E n \in Missing : Shorten(n)
  <2>1. (rec # "done" \/ viewer = "none") /\ UNCHANGED <<now, replay>>
    BY <1>6 DEF Shorten
  <2> QED
    BY <1>2, <2>1
<1>7. CASE Send
  BY <1>7, PacedSend
<1>8. CASE Over \/ Gone
  <2>1. /\ UNCHANGED <<now, from, speed, started, shown, made, file>> /\ viewer' \in {"over", "gone"}
    BY <1>8 DEF Over, Gone
  <2> QED
    BY <2>1, PacedStays
<1>9. CASE UNCHANGED aviVars
  BY <1>9, PacedStays DEF aviVars
<1> QED
  BY <1>3, <1>4, <1>5, <1>6, <1>7, <1>8, <1>9 DEF AviNext

(* The replay's invariant holds.                                            *)
LEMMA PacedAlways == AviSpec => []Paced
<1>1. WriterInductive /\ Placed /\ Paced /\ [AviNext]_aviVars => Paced'
  BY PacedStep
<1> QED
  BY <1>1, PacedInit, WriterAlways, PlacedAlways, PTL DEF AviSpec

(* From the time a frame is due to the time it would be had the frames come  *)
(* evenly.                                                                  *)
LEMMA DueInTime ==
  ASSUME NEW n \in Nat, NEW g \in Nat, g = n - 1, NEW m \in Nat, m > 0, NEW u \in Nat, NEW w \in Nat, NEW span \in Int,
         span - g * u <= g, n * (u - w) <= m + n,
         NEW i \in Nat, NEW f \in Nat, f >= 1, f <= i, i <= n,
         NEW a \in Int, NEW b \in Int, NEW r \in 0..m - 1, NEW q \in 0..m - 1,
         (i - 1) * w = m * a + r, (f - 1) * w = m * b + q,
         NEW t \in Int, t >= 2 * m * (a - b)
  PROVE  (t + 2 * (2 * m + 2 * i)) * g >= 2 * (i - f) * span
<1> DEFINE j == i - f
<1>1. j \in Nat /\ j <= n /\ j <= i
  OBVIOUS
<1>2. j * w = m * (a - b) + (r - q)
  OBVIOUS
<1>3. j * (u - w) <= m + j
  BY <1>1, Shares
<1> HIDE DEF j
<1>4. j * u <= j * w + m + j
  BY <1>1, <1>3
<1>5. t >= 2 * (j * w) - 2 * m
  <2> DEFINE x == m * (a - b)
             y == j * w
  <2>1. x \in Int /\ y \in Int /\ y = x + (r - q) /\ t >= 2 * x
    BY <1>1, <1>2
  <2> HIDE DEF x, y
  <2>2. t >= 2 * y - 2 * m
    BY <2>1
  <2> QED
    BY <2>2 DEF y
<1>6. t + 2 * (2 * m + 2 * i) >= 2 * (j * u) + 2 * j
  <2> DEFINE x == j * u
             y == j * w
  <2>1. x \in Int /\ y \in Int /\ x <= y + m + j /\ t >= 2 * y - 2 * m
    BY <1>1, <1>4, <1>5
  <2> HIDE DEF x, y
  <2>2. t + 2 * (2 * m + 2 * i) >= 2 * x + 2 * j
    BY <1>1, <2>1
  <2> QED
    BY <2>2 DEF x
<1>7. (2 * (j * u) + 2 * j) * g <= (t + 2 * (2 * m + 2 * i)) * g
  <2> DEFINE x == 2 * (j * u) + 2 * j
             y == t + 2 * (2 * m + 2 * i)
  <2>1. x \in Int /\ y \in Int /\ x <= y
    BY <1>1, <1>6
  <2> HIDE DEF x, y
  <2>2. g * x <= g * y
    BY <2>1, Products
  <2>3. g * x = x * g /\ g * y = y * g
    BY <2>1
  <2> QED
    BY <2>2, <2>3 DEF x, y
<1>8. 2 * j * span <= (2 * (j * u) + 2 * j) * g
  <2>1. j * (span - g * u) <= j * g
    <3> DEFINE d == span - g * u
    <3>1. d \in Int /\ d <= g
      OBVIOUS
    <3> HIDE DEF d
    <3>2. j * d <= j * g
      BY <1>1, <3>1, Products
    <3> QED
      BY <3>2 DEF d
  <2>2. j * (span - g * u) = j * span - (j * u) * g
    BY <1>1
  <2> DEFINE x == j * span
             y == (j * u) * g
             z == j * g
  <2>3. x \in Int /\ y \in Int /\ z \in Int /\ x - y <= z
    BY <1>1, <2>1, <2>2
  <2>4. 2 * j * span = 2 * x /\ (2 * (j * u) + 2 * j) * g = 2 * y + 2 * z
    BY <1>1
  <2> HIDE DEF x, y, z
  <2>5. 2 * x <= 2 * y + 2 * z
    BY <2>3
  <2> QED
    BY <2>4, <2>5
<1>9. 2 * j * span <= (t + 2 * (2 * m + 2 * i)) * g
  <2> DEFINE x == 2 * j * span
             y == (2 * (j * u) + 2 * j) * g
             z == (t + 2 * (2 * m + 2 * i)) * g
  <2>1. x \in Int /\ y \in Int /\ z \in Int /\ x <= y /\ y <= z
    BY <1>1, <1>7, <1>8
  <2> HIDE DEF x, y, z
  <2>2. x <= z
    BY <2>1
  <2> QED
    BY <2>2 DEF x, z
<1> QED
  BY <1>9 DEF j

(* No frame of a recording is sent before its time, at the speed asked for, counted from the *)
(* first that was sent: Due's division and AtMs' rounding lose no more than the slack. *)
THEOREM ReplaysAreNotRushed == AviSpec => NotRushed
<1>1. ASSUME WriterInductive, Placed, Paced, [AviNext]_aviVars
      PROVE  [\A i \in shown' \ shown : speed > 0 /\ Believed =>
                ((now' - started + 1) * speed + 2 * Slack(i)) * (Len(made) - 1) >= 2 * (i - from) * Span]_aviVars
  <2> SUFFICES ASSUME AviNext, NEW i \in shown' \ shown, speed > 0, Believed
               PROVE  ((now' - started + 1) * speed + 2 * Slack(i)) * (Len(made) - 1) >= 2 * (i - from) * Span
    BY <1>1
  <2>1. Send
    <3>1. shown' # shown
      OBVIOUS
    <3> QED
      BY <3>1 DEF AviNext, WriteNothing, WriteFrame, Abort, CloseIndex, CloseHeader, Crash, Open, Shorten, Over, Gone,
                  Arrives, replay
  <2>2. viewer = "watching" /\ NextFrame <= Len(Frames(file)) /\ i = NextFrame
    BY <2>1 DEF Send
  <2>3. rec = "done" /\ ~ Refused(file)
    BY <1>1, <2>2 DEF WriterInductive, WriterInv, Paced
  <2>4. i \in Nat /\ Due \in Int /\ now' \in Nat /\ now' >= Due
    BY <1>1, <2>1, <2>2, <2>3, SentWhenDue
  <2>5. started \in Nat /\ speed \in Nat /\ from \in Nat /\ from >= 1
    BY <1>1 DEF Paced
  <2>6. from <= i
    <3>1. Cardinality(shown) \in Nat
      BY <1>1, FS_CardinalityType DEF Paced
    <3> QED
      BY <2>2, <2>5, <3>1 DEF NextFrame
  <2> DEFINE n == Len(made)
             g == n - 1
             u == UsPerFrame
             w == UsPerFrameExact(file)
             a == AtMs(file, i)
             b == AtMs(file, from)
             t == (now' - started + 1) * speed
  <2>7. n \in Nat /\ n > 1 /\ i <= n
    <3>1. PICK k \in 1..Len(made) : Len(Frames(file)) = k
      BY <1>1, <2>3, FramesShown
    <3>2. n \in Nat /\ n > 1
      BY <1>1, WriterNumbers DEF Believed
    <3> QED
      BY <2>2, <2>4, <3>1, <3>2
  <2>8. u \in Nat /\ w \in Nat /\ Span - g * u <= g /\ n * (u - w) <= Milli + n
    BY <1>1, <2>3, RateIsRead
  <2>9. Span \in Int
    BY <1>1, SpanIs
  <2>10. PICK r \in 0..Milli - 1 : (i - 1) * w = Milli * a + r /\ a \in Int
    BY <1>1, <2>3, <2>4, TimesAreNumbers
  <2>11. PICK q \in 0..Milli - 1 : (from - 1) * w = Milli * b + q /\ b \in Int
    BY <1>1, <2>3, <2>5, TimesAreNumbers
  <2>12. t \in Int /\ t >= 2 * Milli * (a - b)
    <3> DEFINE x == (a - b) * Milli * 2
               y == x \div speed
    <3>1. x \in Int /\ x = 2 * Milli * (a - b)
      <4> HIDE DEF a, b
      <4> QED
        BY <2>10, <2>11, AviConstants
    <3>2. Due = started + y
      BY <2>2 DEF Due
    <3> HIDE DEF a, b, x
    <3>3. PICK v \in Int, p \in 0..speed - 1 : x = speed * v + p /\ x \div speed = v
      <4>1. speed \in Nat \ {0}
        BY <2>5
      <4> QED
        BY <3>1, <4>1, Division, ZenonT(40)
    <3>4. y = v
      BY <3>3
    <3> HIDE DEF y
    <3>5. now' - started >= v
      <4> DEFINE d == Due
                 k == now'
      <4>1. d = started + v /\ k >= d /\ k \in Nat
        BY <2>4, <3>2, <3>4
      <4> HIDE DEF d, k
      <4>2. k - started >= v
        BY <2>5, <3>3, <4>1
      <4> QED
        BY <4>2 DEF k
    <3> DEFINE s == now' - started + 1
    <3>6. s \in Int /\ v + 1 <= s
      <4> DEFINE k == now'
      <4>1. k \in Nat /\ k - started >= v
        BY <2>4, <3>5
      <4> HIDE DEF k
      <4>2. k - started + 1 \in Int /\ v + 1 <= k - started + 1
        BY <2>5, <3>3, <4>1
      <4> QED
        BY <4>2 DEF k
    <3> HIDE DEF s
    <3>7. speed * (v + 1) <= speed * s
      BY <2>5, <3>6, Products
    <3>8. speed * (v + 1) = speed * v + speed /\ speed * s = s * speed
      BY <2>5, <3>6
    <3>9. s * speed \in Int /\ s * speed >= x
      <4> DEFINE k == speed * v
                 l == s * speed
      <4>1. k \in Int /\ l \in Int /\ k + speed <= l /\ x = k + p
        BY <2>5, <3>3, <3>6, <3>7, <3>8
      <4> HIDE DEF k, l
      <4>2. l \in Int /\ l >= x
        BY <2>5, <3>1, <4>1
      <4> QED
        BY <4>2 DEF l
    <3> QED
      BY <3>1, <3>9 DEF s
  <2>13. Slack(i) = 2 * Milli + 2 * i
    BY DEF Slack
  <2>14. g \in Nat /\ g = n - 1
    BY <2>7
  <2>15. Milli \in Nat /\ Milli > 0
    BY AviConstants
  <2> HIDE DEF n, g, u, w, a, b, t
  <2>16. (t + 2 * (2 * Milli + 2 * i)) * g >= 2 * (i - from) * Span
    BY <2>4, <2>5, <2>6, <2>7, <2>8, <2>9, <2>10, <2>11, <2>12, <2>14, <2>15, DueInTime
  <2> QED
    BY <2>13, <2>16 DEF t, g, n
<1> QED
  BY <1>1, WriterAlways, PlacedAlways, PacedAlways, PTL DEF AviSpec, NotRushed
=============================================================================
