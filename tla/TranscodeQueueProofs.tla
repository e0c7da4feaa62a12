------------------------ MODULE TranscodeQueueProofs ------------------------
(***************************************************************************)
(* For any number of recordings and storing goroutines, any channel and any  *)
(* batch: a mark in waiting is exactly one offer that is on its way, the     *)
(* backfill has at most one of its own queued or running, and a recording    *)
(* that fails is tried twice at most.                                        *)
(***************************************************************************)
EXTENDS TranscodeQueue, FiniteSetTheorems, TLAPS

(* Who is on the way through Add or through a job has a recording in hand,  *)
(* and the backfill waits for its Add to return.                            *)
HandsFull ==
  /\ \A a \in Adders : addPc[a] # "idle" => hand[a] \in Recs
  /\ workPc # "recv" => job \in Recs
  /\ addPc["backfill"] # "idle" => backPc = "add"

(* running is true from the look at a recording to the end of its job.      *)
RunningSet == running <=> workPc \in {"stat", "encode", "drop", "done"}

(* Between the backfill's look and its return from Add nothing of its own   *)
(* is on the way; otherwise one recording is, and it is marked or running.  *)
Trickles ==
  /\ backPc # "look" => trickle = {}
  /\ \A r, s \in trickle : r = s
  /\ trickle \subseteq Range(work) \cup (IF workPc # "recv" THEN {job} ELSE {})

(* What is still to come of a recording: an offer, and a job that may fail. *)
Offers(r) == IF r \in waiting THEN 1 ELSE 0
Jobs(r)   == IF workPc \in {"stat", "encode", "drop"} /\ job = r THEN 1 ELSE 0

(* Nothing has failed that is not in failed; what is gets no new offer, so  *)
(* that its failures are bounded by what was under way when it failed.      *)
FailuresCounted ==
  \A r \in Recs : /\ r \notin failed => failures[r] = 0
                  /\ r \in failed => failures[r] + Offers(r) + Jobs(r) <= 2

Inductive == TypeOK /\ HandsFull /\ RunningSet /\ WaitingExact /\ Trickles /\ FailuresCounted

-----------------------------------------------------------------------------
(* A channel without duplicates that gets one it does not hold has none.    *)
LEMMA AppendExact ==
  ASSUME NEW s \in Seq(Recs), NEW r \in Recs
  PROVE  /\ Append(s, r) \in Seq(Recs) /\ Len(Append(s, r)) = Len(s) + 1
         /\ Range(Append(s, r)) = Range(s) \cup {r}
         /\ r \notin Range(s) /\ IsInjective(s) => IsInjective(Append(s, r))
  BY DEF Range, IsInjective

(* Receiving takes out the one received and nothing else.                   *)
LEMMA TailExact ==
  ASSUME NEW s \in Seq(Recs), s # <<>>
  PROVE  /\ Tail(s) \in Seq(Recs) /\ Len(Tail(s)) = Len(s) - 1 /\ Head(s) \in Recs
         /\ Range(s) = Range(Tail(s)) \cup {Head(s)}
         /\ IsInjective(s) => IsInjective(Tail(s)) /\ Head(s) \notin Range(Tail(s))
<1>1. /\ Tail(s) \in Seq(Recs) /\ Len(Tail(s)) = Len(s) - 1 /\ Head(s) = s[1]
      /\ Len(s) \in Nat \ {0} /\ DOMAIN s = 1..Len(s) /\ DOMAIN Tail(s) = 1..(Len(s) - 1)
  OBVIOUS
<1>2. \A i \in DOMAIN Tail(s) : Tail(s)[i] = s[i + 1]
  OBVIOUS
<1>3. \A i \in DOMAIN s : i = 1 \/ (i - 1 \in DOMAIN Tail(s) /\ s[i] = Tail(s)[i - 1])
  BY <1>1, <1>2
<1>4. Range(s) = Range(Tail(s)) \cup {Head(s)}
  <2>1. Range(s) \subseteq Range(Tail(s)) \cup {Head(s)}
    BY <1>1, <1>3 DEF Range
  <2>2. Range(Tail(s)) \subseteq Range(s)
    BY <1>1, <1>2 DEF Range
  <2>3. Head(s) \in Range(s)
    BY <1>1 DEF Range
  <2> QED BY <2>1, <2>2, <2>3
<1>5. ASSUME IsInjective(s) PROVE IsInjective(Tail(s)) /\ Head(s) \notin Range(Tail(s))
  <2>1. ASSUME NEW i \in DOMAIN Tail(s), NEW j \in DOMAIN Tail(s), Tail(s)[i] = Tail(s)[j] PROVE i = j
    BY <1>1, <1>2, <1>5, <2>1 DEF IsInjective
  <2>2. \A i \in DOMAIN Tail(s) : Tail(s)[i] # s[1]
    BY <1>1, <1>2, <1>5 DEF IsInjective
  <2> QED BY <1>1, <2>1, <2>2 DEF IsInjective, Range
<1>6. Head(s) \in Recs
  BY <1>1
<1> QED BY <1>1, <1>4, <1>5, <1>6

LEMMA InitInductive == Init => Inductive
<1> SUFFICES ASSUME Init PROVE Inductive
  OBVIOUS
<1> USE RecsAssumption, SizesAssumption DEF Init
<1>1. TypeOK
  <2>1. work \in Seq(Recs) /\ Len(work) <= Depth
    OBVIOUS
  <2>2. form \in [Recs -> Forms] /\ failures \in [Recs -> 0..3]
    BY DEF Forms
  <2>3. restarts \in 0..MaxRestarts /\ retired \in 0..MaxRetire
    OBVIOUS
  <2>4. running \in BOOLEAN
    OBVIOUS
  <2> QED BY <2>1, <2>2, <2>3, <2>4 DEF TypeOK
<1>2. WaitingExact
  BY DEF WaitingExact, InHand, InAdd, JustTaken, Range, IsInjective
<1>3. HandsFull
  BY StorersAssumption DEF HandsFull, Adders
<1>4. RunningSet
  BY DEF RunningSet
<1>5. Trickles /\ FailuresCounted
  BY DEF Trickles, FailuresCounted
<1> QED BY <1>1, <1>2, <1>3, <1>4, <1>5 DEF Inductive

LEMMA TypeStep == Inductive /\ [Next]_vars => TypeOK'
<1> SUFFICES ASSUME Inductive, [Next]_vars PROVE TypeOK'
  OBVIOUS
<1> USE RecsAssumption, StorersAssumption, SizesAssumption DEF Inductive, TypeOK, HandsFull, Forms
<1>1. ASSUME NEW a \in Adders, Stored(a) PROVE TypeOK'
  BY <1>1 DEF Stored, AddStep, AddTo, AddReturns, jobVars
<1>2. ASSUME NEW a \in Adders, AddMark(a) PROVE TypeOK'
  BY <1>2 DEF AddMark, AddStep, AddTo, AddReturns, jobVars
<1>3. ASSUME NEW a \in Adders, AddSend(a) PROVE TypeOK'
  <2>0. hand[a] \in Recs
    BY <1>3 DEF AddSend, AddStep
  <2>1. work' \in Seq(Recs) /\ Len(work') <= Depth
    <3>1. CASE Len(work) < Depth
      <4>1. work' = Append(work, hand[a])
        BY <1>3, <3>1 DEF AddSend
      <4>2. work' \in Seq(Recs) /\ Len(work') = Len(work) + 1 /\ Len(work) \in Nat
        BY <2>0, <4>1, AppendExact
      <4> QED BY <3>1, <4>2
    <3>2. CASE ~(Len(work) < Depth)
      BY <1>3, <3>2 DEF AddSend
    <3> QED BY <3>1, <3>2
  <2>2. trickle' \subseteq Recs
    <3>1. trickle' \in {trickle, trickle \cup {hand[a]}}
      BY <1>3 DEF AddSend
    <3> QED BY <2>0, <3>1
  <2>3. addPc' \in [Adders -> {"idle", "mark", "send", "unmark"}] /\ hand' \in [Adders -> Recs \cup {None}]
    BY <1>3 DEF AddSend, AddTo, AddReturns
  <2>4. backPc' \in {"look", "list", "next", "add"}
    BY <1>3 DEF AddSend, AddReturns
  <2> QED BY <1>3, <2>1, <2>2, <2>3, <2>4 DEF AddSend, AddStep, jobVars
<1>4. ASSUME NEW a \in Adders, AddUnmark(a) PROVE TypeOK'
  BY <1>4 DEF AddUnmark, AddStep, AddTo, AddReturns, jobVars
<1>5. CASE WorkRecv
  BY <1>5, TailExact DEF WorkRecv, JobStep, JobTo, addVars, backVars
<1>6. CASE WorkTake
  BY <1>6 DEF WorkTake, JobStep, JobTo, addVars, backVars
<1>7. CASE WorkStat
  BY <1>7 DEF WorkStat, JobStep, JobTo, addVars, backVars, SetForm, queue
<1>8. CASE WorkEncode
  <2>1. failed' \subseteq Recs /\ form' \in [Recs -> Forms]
    BY <1>8 DEF WorkEncode, JobStep, SetForm, Fails
  <2>2. failures' \in [Recs -> 0..3]
    BY <1>8 DEF WorkEncode, JobStep, SetForm, Fails
  <2>3. workPc' \in {"drop", "done"} /\ job' = job
    BY <1>8 DEF WorkEncode, JobStep, JobTo, Fails
  <2> QED BY <1>8, <2>1, <2>2, <2>3 DEF WorkEncode, JobStep, addVars, backVars
<1>9. CASE WorkDrop
  <2>1. failed' \subseteq Recs /\ form' \in [Recs -> Forms]
    BY <1>9 DEF WorkDrop, JobStep, SetForm, Fails
  <2>2. failures' \in [Recs -> 0..3]
    BY <1>9 DEF WorkDrop, JobStep, SetForm, Fails
  <2>3. workPc' \in {"drop", "done"} /\ job' = job
    BY <1>9 DEF WorkDrop, JobStep, JobTo, Fails
  <2> QED BY <1>9, <2>1, <2>2, <2>3 DEF WorkDrop, JobStep, addVars, backVars
<1>10. CASE WorkDone
  BY <1>10 DEF WorkDone, JobStep, JobTo, addVars, backVars
<1>11. CASE BackLook
  BY <1>11 DEF BackLook, BackStep, queue, jobVars, addVars, busy
<1>12. CASE BackList
  BY <1>12 DEF BackList, BackStep, queue, jobVars, addVars, Untranscoded, Avis
<1>13. CASE BackNext
  BY <1>13 DEF BackNext, BackStep, queue, jobVars, addVars, next
<1>14. CASE Retire
  BY <1>14 DEF Retire, queue, addVars, jobVars, backVars
<1>15. CASE Restart
  <2>1. work' \in Seq(Recs) /\ Len(work') <= Depth /\ restarts' \in 0..MaxRestarts
    BY <1>15 DEF Restart
  <2>2. failures' \in [Recs -> 0..3]
    BY <1>15 DEF Restart
  <2>3. running' \in BOOLEAN
    BY <1>15 DEF Restart
  <2> QED BY <1>15, <2>1, <2>2, <2>3 DEF Restart
<1>16. CASE UNCHANGED vars
  BY <1>16 DEF vars, queue, addVars, jobVars, backVars
<1> QED BY <1>1, <1>2, <1>3, <1>4, <1>5, <1>6, <1>7, <1>8, <1>9, <1>10, <1>11, <1>12, <1>13, <1>14, <1>15, <1>16 DEF Next, Add, Worker, Backfill

LEMMA HandsStep == Inductive /\ [Next]_vars => HandsFull'
<1> SUFFICES ASSUME Inductive, [Next]_vars PROVE HandsFull'
  OBVIOUS
<1> USE RecsAssumption, StorersAssumption, SizesAssumption DEF Inductive, TypeOK, HandsFull, Adders
<1>1. ASSUME NEW a \in Adders, Stored(a) PROVE HandsFull'
  BY <1>1 DEF Stored, AddStep, AddTo, AddReturns, jobVars
<1>2. ASSUME NEW a \in Adders, AddMark(a) PROVE HandsFull'
  BY <1>2 DEF AddMark, AddStep, AddTo, AddReturns, jobVars
<1>3. ASSUME NEW a \in Adders, AddSend(a) PROVE HandsFull'
  BY <1>3 DEF AddSend, AddStep, AddTo, AddReturns, jobVars
<1>4. ASSUME NEW a \in Adders, AddUnmark(a) PROVE HandsFull'
  BY <1>4 DEF AddUnmark, AddStep, AddTo, AddReturns, jobVars
<1>5. CASE WorkRecv
  BY <1>5, TailExact DEF WorkRecv, JobStep, JobTo, addVars, backVars
<1>6. CASE WorkTake
  BY <1>6 DEF WorkTake, JobStep, JobTo, addVars, backVars
<1>7. CASE WorkStat
  BY <1>7 DEF WorkStat, JobStep, JobTo, addVars, backVars, SetForm, queue
<1>8. CASE WorkEncode
  BY <1>8 DEF WorkEncode, JobStep, JobTo, addVars, backVars, SetForm, Fails
<1>9. CASE WorkDrop
  BY <1>9 DEF WorkDrop, JobStep, JobTo, addVars, backVars, SetForm, Fails
<1>10. CASE WorkDone
  BY <1>10 DEF WorkDone, JobStep, JobTo, addVars, backVars
<1>11. CASE BackLook
  BY <1>11 DEF BackLook, BackStep, queue, jobVars, addVars, busy
<1>12. CASE BackList
  BY <1>12 DEF BackList, BackStep, queue, jobVars, addVars, Untranscoded, Avis
<1>13. CASE BackNext
  BY <1>13 DEF BackNext, BackStep, queue, jobVars, addVars, next
<1>14. CASE Retire
  BY <1>14 DEF Retire, queue, addVars, jobVars, backVars
<1>15. CASE Restart
  BY <1>15 DEF Restart
<1>16. CASE UNCHANGED vars
  BY <1>16 DEF vars, queue, addVars, jobVars, backVars
<1> QED BY <1>1, <1>2, <1>3, <1>4, <1>5, <1>6, <1>7, <1>8, <1>9, <1>10, <1>11, <1>12, <1>13, <1>14, <1>15, <1>16 DEF Next, Add, Worker, Backfill

LEMMA RunningStep == Inductive /\ [Next]_vars => RunningSet'
<1> SUFFICES ASSUME Inductive, [Next]_vars PROVE RunningSet'
  OBVIOUS
<1> USE RecsAssumption, StorersAssumption, SizesAssumption DEF Inductive, TypeOK, RunningSet
<1>1. ASSUME NEW a \in Adders, Stored(a) PROVE RunningSet'
  BY <1>1 DEF Stored, AddStep, AddTo, AddReturns, jobVars
<1>2. ASSUME NEW a \in Adders, AddMark(a) PROVE RunningSet'
  BY <1>2 DEF AddMark, AddStep, AddTo, AddReturns, jobVars
<1>3. ASSUME NEW a \in Adders, AddSend(a) PROVE RunningSet'
  BY <1>3 DEF AddSend, AddStep, AddTo, AddReturns, jobVars
<1>4. ASSUME NEW a \in Adders, AddUnmark(a) PROVE RunningSet'
  BY <1>4 DEF AddUnmark, AddStep, AddTo, AddReturns, jobVars
<1>5. CASE WorkRecv
  BY <1>5 DEF WorkRecv, JobStep, JobTo, addVars, backVars
<1>6. CASE WorkTake
  BY <1>6 DEF WorkTake, JobStep, JobTo, addVars, backVars
<1>7. CASE WorkStat
  BY <1>7 DEF WorkStat, JobStep, JobTo, addVars, backVars, SetForm, queue
<1>8. CASE WorkEncode
  BY <1>8 DEF WorkEncode, JobStep, JobTo, addVars, backVars, SetForm, Fails
<1>9. CASE WorkDrop
  BY <1>9 DEF WorkDrop, JobStep, JobTo, addVars, backVars, SetForm, Fails
<1>10. CASE WorkDone
  BY <1>10 DEF WorkDone, JobStep, JobTo, addVars, backVars
<1>11. CASE BackLook
  BY <1>11 DEF BackLook, BackStep, queue, jobVars, addVars, busy
<1>12. CASE BackList
  BY <1>12 DEF BackList, BackStep, queue, jobVars, addVars, Untranscoded, Avis
<1>13. CASE BackNext
  BY <1>13 DEF BackNext, BackStep, queue, jobVars, addVars, next
<1>14. CASE Retire
  BY <1>14 DEF Retire, queue, addVars, jobVars, backVars
<1>15. CASE Restart
  BY <1>15 DEF Restart
<1>16. CASE UNCHANGED vars
  BY <1>16 DEF vars, queue, addVars, jobVars, backVars
<1> QED BY <1>1, <1>2, <1>3, <1>4, <1>5, <1>6, <1>7, <1>8, <1>9, <1>10, <1>11, <1>12, <1>13, <1>14, <1>15, <1>16 DEF Next, Add, Worker, Backfill

(* Nothing comes or goes in the channel, through Add or by being received.  *)
LEMMA MarksUnmoved ==
  ASSUME WaitingExact, UNCHANGED <<work, waiting>>, JustTaken' = JustTaken,
         \A b \in Adders : InAdd(b)' <=> InAdd(b),
         \A b \in Adders : InAdd(b) => hand'[b] = hand[b]
  PROVE  WaitingExact'
<1>1. InHand' = InHand
  BY DEF InHand
<1> QED BY <1>1 DEF WaitingExact

(* The one offer of a goroutine that leaves Add is no longer in hand.       *)
LEMMA Leaves ==
  ASSUME WaitingExact, NEW a \in Adders, InAdd(a), ~InAdd(a)',
         \A b \in Adders \ {a} : (InAdd(b)' <=> InAdd(b)) /\ hand'[b] = hand[b]
  PROVE  InHand' = InHand \ {hand[a]} /\ hand[a] \in InHand
<1>1. \A b \in Adders \ {a} : InAdd(b) => hand[b] # hand[a]
  BY DEF WaitingExact
<1> QED BY <1>1 DEF InHand

LEMMA MarksStep == Inductive /\ [Next]_vars => WaitingExact'
<1> SUFFICES ASSUME Inductive, [Next]_vars PROVE WaitingExact'
  OBVIOUS
<1> USE RecsAssumption, StorersAssumption, SizesAssumption DEF Inductive, TypeOK, HandsFull
<1>1. ASSUME NEW a \in Adders, Stored(a) PROVE WaitingExact'
  BY <1>1, MarksUnmoved DEF JustTaken, InAdd, Stored, AddStep, jobVars
<1>2. ASSUME NEW a \in Adders, AddMark(a) PROVE WaitingExact'
  <2>1. CASE hand[a] \in waiting \cup failed
    BY <1>2, <2>1, MarksUnmoved DEF AddMark, AddStep, AddReturns, jobVars, JustTaken, InAdd
  <2>2. CASE hand[a] \notin waiting \cup failed
    <3>1. /\ InAdd(a)' /\ ~InAdd(a) /\ hand' = hand
          /\ \A b \in Adders \ {a} : InAdd(b)' <=> InAdd(b)
      BY <1>2, <2>2 DEF AddMark, AddStep, AddTo, InAdd
    <3>2. InHand' = InHand \cup {hand[a]}
      BY <3>1 DEF InHand
    <3>3. waiting' = waiting \cup {hand[a]} /\ work' = work /\ JustTaken' = JustTaken
      BY <1>2, <2>2 DEF AddMark, AddStep, jobVars, JustTaken
    <3>4. hand[a] \notin Range(work) \cup InHand \cup JustTaken
      BY <2>2 DEF WaitingExact
    <3>5. \A b \in Adders \ {a} : InAdd(b) => hand[b] # hand[a]
      BY <3>4 DEF InHand
    <3> QED BY <3>1, <3>2, <3>3, <3>4, <3>5 DEF WaitingExact
  <2> QED BY <2>1, <2>2
<1>3. ASSUME NEW a \in Adders, AddSend(a) PROVE WaitingExact'
  <2>1. CASE Len(work) < Depth
    <3>1. /\ InAdd(a) /\ ~InAdd(a)' /\ hand[a] \in Recs
          /\ \A b \in Adders \ {a} : (InAdd(b)' <=> InAdd(b)) /\ hand'[b] = hand[b]
      BY <1>3, <2>1 DEF AddSend, AddStep, AddReturns, InAdd
    <3>2. InHand' = InHand \ {hand[a]} /\ hand[a] \in InHand
      BY <3>1, Leaves
    <3>3. work' = Append(work, hand[a]) /\ waiting' = waiting /\ JustTaken' = JustTaken
      BY <1>3, <2>1 DEF AddSend, AddStep, jobVars, JustTaken
    <3>4. hand[a] \notin Range(work) /\ hand[a] \notin JustTaken
      BY <3>2 DEF WaitingExact
    <3>5. Range(work') = Range(work) \cup {hand[a]} /\ IsInjective(work')
      BY <3>1, <3>3, <3>4, AppendExact DEF WaitingExact
    <3> QED BY <3>1, <3>2, <3>3, <3>4, <3>5 DEF WaitingExact
  <2>2. CASE ~(Len(work) < Depth)
    BY <1>3, <2>2, MarksUnmoved DEF AddSend, AddStep, AddTo, jobVars, JustTaken, InAdd
  <2> QED BY <2>1, <2>2
<1>4. ASSUME NEW a \in Adders, AddUnmark(a) PROVE WaitingExact'
  <2>1. /\ InAdd(a) /\ ~InAdd(a)'
        /\ \A b \in Adders \ {a} : (InAdd(b)' <=> InAdd(b)) /\ hand'[b] = hand[b]
    BY <1>4 DEF AddUnmark, AddStep, AddReturns, InAdd
  <2>2. InHand' = InHand \ {hand[a]} /\ hand[a] \in InHand
    BY <2>1, Leaves
  <2>3. waiting' = waiting \ {hand[a]} /\ work' = work /\ JustTaken' = JustTaken
    BY <1>4 DEF AddUnmark, AddStep, jobVars, JustTaken
  <2> QED BY <2>1, <2>2, <2>3 DEF WaitingExact
<1>5. CASE WorkRecv
  <2>1. /\ Range(work) = Range(work') \cup {job'} /\ IsInjective(work') /\ job' \notin Range(work')
    BY <1>5, TailExact DEF WorkRecv, WaitingExact
  <2>2. JustTaken = {} /\ JustTaken' = {job'} /\ waiting' = waiting
    BY <1>5 DEF WorkRecv, JobStep, JustTaken
  <2>3. InHand' = InHand /\ \A b \in Adders : (InAdd(b)' <=> InAdd(b)) /\ hand'[b] = hand[b]
    BY <1>5 DEF WorkRecv, JobStep, addVars, InHand, InAdd
  <2> QED BY <2>1, <2>2, <2>3 DEF WaitingExact
<1>6. CASE WorkTake
  <2>1. JustTaken = {job} /\ JustTaken' = {} /\ waiting' = waiting \ {job} /\ work' = work
    BY <1>6 DEF WorkTake, JobStep, JobTo, JustTaken
  <2>2. InHand' = InHand /\ \A b \in Adders : (InAdd(b)' <=> InAdd(b)) /\ hand'[b] = hand[b]
    BY <1>6 DEF WorkTake, JobStep, addVars, InHand, InAdd
  <2> QED BY <2>1, <2>2 DEF WaitingExact
<1>7. CASE WorkStat
  BY <1>7, MarksUnmoved DEF JustTaken, InAdd, WorkStat, JobStep, JobTo, addVars, queue
<1>8. CASE WorkEncode
  BY <1>8, MarksUnmoved DEF JustTaken, InAdd, WorkEncode, JobStep, JobTo, Fails, addVars
<1>9. CASE WorkDrop
  BY <1>9, MarksUnmoved DEF JustTaken, InAdd, WorkDrop, JobStep, JobTo, Fails, addVars
<1>10. CASE WorkDone
  BY <1>10, MarksUnmoved DEF JustTaken, InAdd, WorkDone, JobStep, addVars
<1>11. CASE BackLook
  BY <1>11, MarksUnmoved DEF JustTaken, InAdd, BackLook, BackStep, queue, jobVars, addVars
<1>12. CASE BackList
  BY <1>12, MarksUnmoved DEF JustTaken, InAdd, BackList, BackStep, queue, jobVars, addVars
<1>13. CASE BackNext
  BY <1>13, MarksUnmoved DEF JustTaken, InAdd, BackNext, BackStep, queue, jobVars, addVars
<1>14. CASE Retire
  BY <1>14, MarksUnmoved DEF JustTaken, InAdd, Retire, queue, addVars, jobVars
<1>15. CASE Restart
  BY <1>15 DEF Restart, WaitingExact, InHand, InAdd, JustTaken, Range, IsInjective
<1>16. CASE UNCHANGED vars
  BY <1>16, MarksUnmoved DEF JustTaken, InAdd, vars, queue, addVars, jobVars
<1> QED BY <1>1, <1>2, <1>3, <1>4, <1>5, <1>6, <1>7, <1>8, <1>9, <1>10, <1>11, <1>12, <1>13, <1>14, <1>15, <1>16 DEF Next, Add, Worker, Backfill

LEMMA TrickleStep == Inductive /\ [Next]_vars => Trickles'
<1> SUFFICES ASSUME Inductive, [Next]_vars PROVE Trickles'
  OBVIOUS
<1> USE RecsAssumption, StorersAssumption, SizesAssumption DEF Inductive, TypeOK, HandsFull
<1>1. ASSUME NEW a \in Adders, Stored(a) PROVE Trickles'
  BY <1>1 DEF Trickles, Stored, AddStep, jobVars
<1>2. ASSUME NEW a \in Adders, AddMark(a) PROVE Trickles'
  BY <1>2 DEF Trickles, AddMark, AddStep, AddReturns, jobVars
<1>3. ASSUME NEW a \in Adders, AddSend(a) PROVE Trickles'
  <2>1. CASE Len(work) < Depth
    <3>1. hand[a] \in Recs /\ work' = Append(work, hand[a])
      BY <1>3, <2>1 DEF AddSend, AddStep
    <3>2. Range(work') = Range(work) \cup {hand[a]}
      BY <3>1, AppendExact
    <3>3. CASE a = "backfill"
      <4>1. trickle = {}
        BY <1>3, <3>3 DEF AddSend, AddStep, Trickles
      <4>2. trickle' = {hand[a]} /\ backPc' = "look"
        BY <1>3, <2>1, <3>3, <4>1 DEF AddSend, AddReturns
      <4> QED BY <3>2, <4>2 DEF Trickles
    <3>4. CASE a # "backfill"
      <4>1. UNCHANGED <<trickle, backPc, job, workPc>>
        BY <1>3, <2>1, <3>4 DEF AddSend, AddStep, AddReturns, jobVars
      <4> QED BY <3>2, <4>1 DEF Trickles
    <3> QED BY <3>3, <3>4
  <2>2. CASE ~(Len(work) < Depth)
    BY <1>3, <2>2 DEF Trickles, AddSend, AddStep, AddTo, jobVars
  <2> QED BY <2>1, <2>2
<1>4. ASSUME NEW a \in Adders, AddUnmark(a) PROVE Trickles'
  BY <1>4 DEF Trickles, AddUnmark, AddStep, AddReturns, jobVars
<1>5. CASE WorkRecv
  <2>1. Range(work) = Range(work') \cup {job'} /\ workPc = "recv" /\ workPc' = "take"
    BY <1>5, TailExact DEF WorkRecv, JobStep
  <2>2. UNCHANGED <<trickle, backPc>>
    BY <1>5 DEF WorkRecv, JobStep, backVars
  <2> QED BY <2>1, <2>2 DEF Trickles
<1>6. CASE WorkTake
  BY <1>6 DEF Trickles, WorkTake, JobStep, JobTo, backVars
<1>7. CASE WorkStat
  BY <1>7 DEF Trickles, WorkStat, JobStep, JobTo, backVars, queue
<1>8. CASE WorkEncode
  BY <1>8 DEF Trickles, WorkEncode, JobStep, JobTo, Fails, backVars
<1>9. CASE WorkDrop
  BY <1>9 DEF Trickles, WorkDrop, JobStep, JobTo, Fails, backVars
<1>10. CASE WorkDone
  BY <1>10 DEF Trickles, WorkDone, JobStep, backVars
<1>11. CASE BackLook
  <2>1. running = FALSE /\ waiting = {}
    BY <1>11 DEF BackLook, busy
  <2>2. Range(work) = {} /\ workPc = "recv"
    BY <2>1 DEF RunningSet, WaitingExact, JustTaken
  <2>3. trickle = {}
    BY <2>2 DEF Trickles
  <2>4. UNCHANGED trickle
    BY <1>11 DEF BackLook, BackStep
  <2> QED BY <2>3, <2>4 DEF Trickles
<1>12. CASE BackList
  BY <1>12 DEF Trickles, BackList, BackStep, queue, jobVars
<1>13. CASE BackNext
  BY <1>13 DEF Trickles, BackNext, BackStep, queue, jobVars
<1>14. CASE Retire
  BY <1>14 DEF Trickles, Retire, queue, jobVars, backVars
<1>15. CASE Restart
  BY <1>15 DEF Trickles, Restart
<1>16. CASE UNCHANGED vars
  BY <1>16 DEF Trickles, vars, queue, jobVars, backVars
<1> QED BY <1>1, <1>2, <1>3, <1>4, <1>5, <1>6, <1>7, <1>8, <1>9, <1>10, <1>11, <1>12, <1>13, <1>14, <1>15, <1>16 DEF Next, Add, Worker, Backfill

LEMMA FailuresStep == Inductive /\ [Next]_vars => FailuresCounted'
<1> SUFFICES ASSUME Inductive, [Next]_vars PROVE FailuresCounted'
  OBVIOUS
<1> USE RecsAssumption, StorersAssumption, SizesAssumption DEF Inductive, TypeOK, HandsFull
<1>1. ASSUME NEW a \in Adders, Stored(a) PROVE FailuresCounted'
  BY <1>1 DEF FailuresCounted, Offers, Jobs, Stored, AddStep, jobVars
<1>2. ASSUME NEW a \in Adders, AddMark(a) PROVE FailuresCounted'
  BY <1>2 DEF FailuresCounted, Offers, Jobs, AddMark, AddStep, AddReturns, jobVars
<1>3. ASSUME NEW a \in Adders, AddSend(a) PROVE FailuresCounted'
  BY <1>3 DEF FailuresCounted, Offers, Jobs, AddSend, AddStep, jobVars
<1>4. ASSUME NEW a \in Adders, AddUnmark(a) PROVE FailuresCounted'
  BY <1>4 DEF FailuresCounted, Offers, Jobs, AddUnmark, AddStep, jobVars
<1>5. CASE WorkRecv
  BY <1>5 DEF FailuresCounted, Offers, Jobs, WorkRecv, JobStep
<1>6. CASE WorkTake
  BY <1>6 DEF FailuresCounted, Offers, Jobs, WorkTake, JobStep, JobTo, WaitingExact, JustTaken
<1>7. CASE WorkStat
  <2>1. workPc' \in {"encode", "done"} /\ workPc = "stat" /\ job' = job
    BY <1>7 DEF WorkStat, JobStep, JobTo
  <2>2. UNCHANGED <<waiting, failed, failures>>
    BY <1>7 DEF WorkStat, queue
  <2> QED BY <2>1, <2>2 DEF FailuresCounted, Offers, Jobs
<1>8. CASE WorkEncode
  BY <1>8 DEF FailuresCounted, Offers, Jobs, WorkEncode, JobStep, JobTo, Fails
<1>9. CASE WorkDrop
  BY <1>9 DEF FailuresCounted, Offers, Jobs, WorkDrop, JobStep, JobTo, Fails
<1>10. CASE WorkDone
  BY <1>10 DEF FailuresCounted, Offers, Jobs, WorkDone, JobStep
<1>11. CASE BackLook
  BY <1>11 DEF FailuresCounted, Offers, Jobs, BackLook, BackStep, queue, jobVars
<1>12. CASE BackList
  BY <1>12 DEF FailuresCounted, Offers, Jobs, BackList, BackStep, queue, jobVars
<1>13. CASE BackNext
  BY <1>13 DEF FailuresCounted, Offers, Jobs, BackNext, BackStep, queue, jobVars
<1>14. CASE Retire
  BY <1>14 DEF FailuresCounted, Offers, Jobs, Retire, queue, jobVars
<1>15. CASE Restart
  BY <1>15 DEF FailuresCounted, Offers, Jobs, Restart
<1>16. CASE UNCHANGED vars
  BY <1>16 DEF FailuresCounted, Offers, Jobs, vars, queue, jobVars
<1> QED BY <1>1, <1>2, <1>3, <1>4, <1>5, <1>6, <1>7, <1>8, <1>9, <1>10, <1>11, <1>12, <1>13, <1>14, <1>15, <1>16 DEF Next, Add, Worker, Backfill

LEMMA InductiveInvariant == Spec => []Inductive
<1>1. Inductive /\ [Next]_vars => Inductive'
  BY TypeStep, HandsStep, RunningStep, MarksStep, TrickleStep, FailuresStep DEF Inductive
<1> QED BY InitInductive, <1>1, PTL DEF Spec

-----------------------------------------------------------------------------
(* The variables keep their types, and the channel its capacity.            *)
THEOREM TypeCorrect == Spec => []TypeOK
<1>1. Inductive => TypeOK
  BY DEF Inductive
<1> QED BY InductiveInvariant, <1>1, PTL

(* A mark in waiting is exactly one offer that is on its way, whatever the  *)
(* channel drops and however Add, Run and Backfill interleave.              *)
THEOREM MarksAreExact == Spec => []WaitingExact
<1>1. Inductive => WaitingExact
  BY DEF Inductive
<1> QED BY InductiveInvariant, <1>1, PTL

(* The backfill never has two recordings of its own queued or running, with *)
(* any number of goroutines that store (Backfill).                          *)
THEOREM BackfillTrickles == Spec => []OneAtATime
<1>1. Inductive => OneAtATime
  <2> SUFFICES ASSUME Inductive PROVE Cardinality(trickle) <= 1
    BY DEF OneAtATime
  <2>1. CASE trickle = {}
    BY <2>1, FS_EmptySet
  <2>2. CASE trickle # {}
    <3>1. PICK r \in trickle : TRUE
      BY <2>2
    <3>2. trickle = {r}
      BY <3>1 DEF Inductive, Trickles
    <3> QED BY <3>2, FS_Singleton
  <2> QED BY <2>1, <2>2
<1> QED BY InductiveInvariant, <1>1, PTL

(* Until a restart no recording is tried more than twice in vain (failed).  *)
THEOREM RetriesAreFew == Spec => []FewRetries
<1>1. Inductive => FewRetries
  BY DEF Inductive, TypeOK, FewRetries, FailuresCounted, Offers, Jobs
<1> QED BY InductiveInvariant, <1>1, PTL
=============================================================================
