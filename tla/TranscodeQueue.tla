--------------------------- MODULE TranscodeQueue --------------------------
(***************************************************************************)
(* The transcode queue (backend/internal/transcode/queue.go): the bounded   *)
(* channel, the waiting and failed sets under Queue.mu, the one worker      *)
(* (Run), the backfill, and the goroutines that Add what they have stored.  *)
(*                                                                         *)
(* Each action is the code between two acquisitions of mu, channel          *)
(* operations or looks at the archive.  The archive is the form each        *)
(* recording is held in; a recording is a number, newer is greater.         *)
(***************************************************************************)
EXTENDS Integers, Sequences, FiniteSets, Functions

CONSTANTS Recs,        \* recordings that can arrive
          Bad,         \* those whose AVI cannot be indexed or encoded
          Storers,     \* goroutines that store recordings and Add them
          Depth,       \* queueDepth
          Batch,       \* backfillBatch
          MaxRestarts, \* bound: restarts of the service
          MaxRetire    \* bound: recordings retention takes

ASSUME RecsAssumption   == Recs \subseteq Nat /\ IsFiniteSet(Recs) /\ Bad \subseteq Recs
ASSUME StorersAssumption == "backfill" \notin Storers
ASSUME SizesAssumption  == /\ Depth \in Nat \ {0} /\ Batch \in Nat \ {0}
                           /\ MaxRestarts \in Nat /\ MaxRetire \in Nat

None   == -1
Adders == Storers \cup {"backfill"}

VARIABLES
  form,                \* [Recs -> Forms]: what is on the disk
  work,                \* the channel
  waiting, failed, running,
  addPc, hand,         \* each goroutine's progress through Add, and the id it has
  workPc, job,         \* the worker's
  backPc, batch,       \* the backfill's, and what Untranscoded returned
  restarts, retired,   \* bounded counters
  failures,            \* history: failed encodes of each recording, up to 3
  trickle              \* history: what the backfill put in and is not done

queue   == <<work, waiting, failed, running>>
addVars == <<addPc, hand>>
jobVars == <<workPc, job>>
backVars == <<backPc, batch>>
vars == <<form, queue, addVars, jobVars, backVars, restarts, retired, failures, trickle>>

Forms == {"absent", "avi", "both", "mp4", "gone"}

TypeOK ==
  /\ form \in [Recs -> Forms]
  /\ work \in Seq(Recs) /\ Len(work) <= Depth
  /\ waiting \subseteq Recs /\ failed \subseteq Recs /\ running \in BOOLEAN
  /\ addPc \in [Adders -> {"idle", "mark", "send", "unmark"}]
  /\ hand \in [Adders -> Recs \cup {None}]
  /\ workPc \in {"recv", "take", "stat", "encode", "drop", "done"}
  /\ job \in Recs \cup {None}
  /\ backPc \in {"look", "list", "next", "add"} /\ batch \subseteq Recs
  /\ restarts \in 0..MaxRestarts /\ retired \in 0..MaxRetire
  /\ failures \in [Recs -> 0..3] /\ trickle \subseteq Recs

Init ==
  /\ form = [r \in Recs |-> "absent"]
  /\ work = <<>> /\ waiting = {} /\ failed = {} /\ running = FALSE
  /\ addPc = [a \in Adders |-> "idle"] /\ hand = [a \in Adders |-> None]
  /\ workPc = "recv" /\ job = None
  /\ backPc = "look" /\ batch = {}
  /\ restarts = 0 /\ retired = 0
  /\ failures = [r \in Recs |-> 0] /\ trickle = {}

-----------------------------------------------------------------------------
(* Add, by a goroutine that has just stored a recording or by the backfill. *)

AddStep(a, from) == addPc[a] = from /\ UNCHANGED <<jobVars, batch, failed, running, restarts,
                                                   retired, failures>>
AddTo(a, pc) == addPc' = [addPc EXCEPT ![a] = pc] /\ UNCHANGED hand

(* The backfill goes back to its timer when its Add returns. *)
AddReturns(a) == /\ addPc' = [addPc EXCEPT ![a] = "idle"] /\ hand' = [hand EXCEPT ![a] = None]
                 /\ backPc' = IF a = "backfill" THEN "look" ELSE backPc

(* A recording is stored under its name, and then offered. *)
Stored(a) ==
  /\ a \in Storers /\ AddStep(a, "idle")
  /\ \E r \in Recs : /\ form[r] = "absent"
                     /\ form' = [form EXCEPT ![r] = "avi"]
                     /\ hand' = [hand EXCEPT ![a] = r]
  /\ addPc' = [addPc EXCEPT ![a] = "mark"]
  /\ UNCHANGED <<work, waiting, backPc, trickle>>

AddMark(a) ==
  /\ AddStep(a, "mark")
  /\ IF hand[a] \in waiting \cup failed
     THEN AddReturns(a) /\ UNCHANGED waiting
     ELSE AddTo(a, "send") /\ waiting' = waiting \cup {hand[a]} /\ UNCHANGED backPc
  /\ UNCHANGED <<form, work, trickle>>

(* The select: the channel has room, or the default. *)
AddSend(a) ==
  /\ AddStep(a, "send")
  /\ IF Len(work) < Depth
     THEN /\ work' = Append(work, hand[a]) /\ AddReturns(a)
          /\ trickle' = IF a = "backfill" THEN trickle \cup {hand[a]} ELSE trickle
     ELSE AddTo(a, "unmark") /\ UNCHANGED <<work, backPc, trickle>>
  /\ UNCHANGED <<form, waiting>>

(* Mutant: an offer that is dropped stays marked as waiting. *)
AddForgetsUnmark(a) ==
  /\ AddStep(a, "unmark") /\ AddReturns(a)
  /\ UNCHANGED <<form, work, waiting, trickle>>

AddUnmark(a) ==
  /\ AddStep(a, "unmark")
  /\ waiting' = waiting \ {hand[a]} /\ AddReturns(a)
  /\ UNCHANGED <<form, work, trickle>>

Add(a) == Stored(a) \/ AddMark(a) \/ AddSend(a) \/ AddUnmark(a)

-----------------------------------------------------------------------------
(* Run, and the archive's Transcode as far as the queue can tell.          *)

JobStep(from) == workPc = from /\ UNCHANGED <<addVars, backVars, restarts, retired>>
JobTo(pc) == workPc' = pc /\ UNCHANGED job

WorkRecv ==
  /\ JobStep("recv") /\ work # <<>>
  /\ job' = Head(work) /\ work' = Tail(work) /\ workPc' = "take"
  /\ UNCHANGED <<form, waiting, failed, running, failures, trickle>>

WorkTake ==
  /\ JobStep("take")
  /\ waiting' = waiting \ {job} /\ running' = TRUE /\ JobTo("stat")
  /\ UNCHANGED <<form, work, failed, failures, trickle>>

SetForm(f) == form' = [form EXCEPT ![job] = f]
(* Mutant: a failure is not remembered. *)
FailsUnremembered == /\ failures' = [failures EXCEPT ![job] = IF @ < 3 THEN @ + 1 ELSE 3]
                     /\ JobTo("done") /\ UNCHANGED failed

Fails == /\ failed' = failed \cup {job}
         /\ failures' = [failures EXCEPT ![job] = IF @ < 3 THEN @ + 1 ELSE 3]
         /\ JobTo("done")

(* ErrAlreadyTranscoded finishes a job that was interrupted; ErrNotFound    *)
(* is a recording retention took.                                           *)
WorkStat ==
  /\ JobStep("stat")
  /\ CASE form[job] = "avi"  -> JobTo("encode") /\ UNCHANGED form
       [] form[job] = "both" -> JobTo("done") /\ SetForm("mp4")
       [] OTHER              -> JobTo("done") /\ UNCHANGED form
  /\ UNCHANGED <<queue, failures, trickle>>

(* An AVI taken during the encode ends it with ErrNotFound, or with         *)
(* ffmpeg's error if it had not opened the file.                            *)
WorkEncode ==
  /\ JobStep("encode")
  /\ \/ /\ form[job] = "avi" /\ job \notin Bad
        /\ SetForm("both") /\ JobTo("drop")
        /\ UNCHANGED <<failed, failures>>
     \/ /\ form[job] # "avi"
        /\ JobTo("done") /\ UNCHANGED <<form, failed, failures>>
     \/ /\ job \in Bad \/ form[job] # "avi"
        /\ Fails /\ UNCHANGED form
  /\ UNCHANGED <<work, waiting, running, trickle>>

(* The AVI is removed, the last of it if retention took the MP4 first;      *)
(* the remove fails if retention took the AVI, or both.                     *)
WorkDrop ==
  /\ JobStep("drop")
  /\ \/ form[job] = "both" /\ SetForm("mp4") /\ JobTo("done") /\ UNCHANGED <<failed, failures>>
     \/ form[job] = "avi" /\ SetForm("gone") /\ JobTo("done") /\ UNCHANGED <<failed, failures>>
     \/ form[job] \in {"mp4", "gone"} /\ Fails /\ UNCHANGED form
  /\ UNCHANGED <<work, waiting, running, trickle>>

WorkDone ==
  /\ JobStep("done")
  /\ running' = FALSE /\ trickle' = trickle \ {job}
  /\ workPc' = "recv" /\ job' = None
  /\ UNCHANGED <<form, work, waiting, failed, failures>>

Worker == WorkRecv \/ WorkTake \/ WorkStat \/ WorkEncode \/ WorkDrop \/ WorkDone

-----------------------------------------------------------------------------
(* Backfill.                                                                *)

BackStep(from) == backPc = from /\ UNCHANGED <<form, queue, jobVars, restarts, retired, failures,
                                               trickle>>

(* Mutant: what is queued but not running does not count. *)
busyRunning == running

busy == running \/ waiting # {}

BackLook ==
  /\ BackStep("look") /\ ~busy
  /\ backPc' = "list"
  /\ UNCHANGED <<batch, addVars>>

(* Untranscoded: the newest Batch of the recordings a scan calls AVI, which *)
(* one held in both forms is not.                                           *)
Avis == {r \in Recs : form[r] = "avi"}
Untranscoded == {r \in Avis : Cardinality({s \in Avis : s > r}) < Batch}

BackList ==
  /\ BackStep("list")
  /\ batch' = Untranscoded /\ backPc' = "next"
  /\ UNCHANGED addVars

next == {r \in batch \ (failed \cup waiting) :
           \A s \in batch \ (failed \cup waiting) : s <= r}

BackNext ==
  /\ BackStep("next")
  /\ batch' = {}
  /\ \/ \E r \in next : /\ hand' = [hand EXCEPT !["backfill"] = r]
                        /\ addPc' = [addPc EXCEPT !["backfill"] = "mark"]
                        /\ backPc' = "add"
     \/ next = {} /\ backPc' = "look" /\ UNCHANGED addVars

Backfill == BackLook \/ BackList \/ BackNext

-----------------------------------------------------------------------------
(* Retention, as Archive's Sweep: of both forms it takes the MP4, or the   *)
(* AVI when its listing is from before the rename.                         *)
Retire ==
  /\ retired < MaxRetire /\ retired' = retired + 1
  /\ \E r \in Recs : \/ /\ form[r] \in {"avi", "mp4"}
                        /\ form' = [form EXCEPT ![r] = "gone"]
                     \/ /\ form[r] = "both"
                        /\ \E f \in {"avi", "mp4"} : form' = [form EXCEPT ![r] = f]
  /\ UNCHANGED <<queue, addVars, jobVars, backVars, restarts, failures, trickle>>

(* The process stops, even between a transcode's rename and its remove, and *)
(* starts again with the queue empty.                                       *)
Restart ==
  /\ restarts < MaxRestarts /\ restarts' = restarts + 1
  /\ work' = <<>> /\ waiting' = {} /\ failed' = {} /\ running' = FALSE
  /\ addPc' = [a \in Adders |-> "idle"] /\ hand' = [a \in Adders |-> None]
  /\ workPc' = "recv" /\ job' = None
  /\ backPc' = "look" /\ batch' = {}
  /\ failures' = [r \in Recs |-> 0] /\ trickle' = {}
  /\ UNCHANGED <<form, retired>>

Next == \/ \E a \in Adders : Add(a)
        \/ Worker \/ Backfill \/ Retire \/ Restart

Spec == Init /\ [][Next]_vars

(* The goroutines run: Run always receives what is there, Backfill's timer  *)
(* keeps firing, and an Add that has begun returns.                         *)
Fairness == /\ WF_vars(Worker) /\ WF_vars(Backfill)
            /\ \A a \in Adders : WF_vars(AddMark(a) \/ AddSend(a) \/ AddUnmark(a))

FairSpec == Spec /\ Fairness

-----------------------------------------------------------------------------
InAdd(a)  == addPc[a] \in {"send", "unmark"}
InHand    == {hand[a] : a \in {b \in Adders : InAdd(b)}}
JustTaken == IF workPc = "take" THEN {job} ELSE {}

(* A mark in waiting is exactly one offer that is still on its way: in the  *)
(* channel, in an Add, or just received.  One too few queues a recording    *)
(* twice; one too many and busy never lets the backfill run again.          *)
WaitingExact ==
  /\ waiting = Range(work) \cup InHand \cup JustTaken
  /\ IsInjective(work)
  /\ \A a, b \in Adders : InAdd(a) /\ InAdd(b) /\ hand[a] = hand[b] => a = b
  /\ Range(work) \cap InHand = {} /\ JustTaken \cap (Range(work) \cup InHand) = {}

(* The backfill hands over one recording at a time: never two of its own    *)
(* are queued or being encoded, however its checks fall between those of    *)
(* the worker and of the goroutines that store (Backfill).                  *)
OneAtATime == Cardinality(trickle) <= 1

(* A recording that cannot be transcoded is not tried again and again: once *)
(* by the goroutine that stored it and once by a backfill that had already  *)
(* picked it is the most, until a restart (Queue.failed).                   *)
FewRetries == \A r \in Recs : failures[r] <= 2

(* The backlog drains: a recording held as AVI that can be encoded is       *)
(* transcoded or taken by retention, though the channel was full, other     *)
(* recordings fail and the service restarts (Backfill).                     *)
BacklogDrains == \A r \in Recs \ Bad : form[r] = "avi" ~> form[r] # "avi"

(* "Finishing the job is removing the AVI" (Transcode): what an interrupted *)
(* transcode left in both forms ends up in one.                             *)
JobFinished == \A r \in Recs : form[r] = "both" ~> form[r] # "both"
=============================================================================
