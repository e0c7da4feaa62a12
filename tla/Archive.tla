------------------------------ MODULE Archive ------------------------------
(***************************************************************************)
(* The recordings archive (backend/internal/archive) as what is on the     *)
(* data volume, and the goroutines that change it at the same time:        *)
(*                                                                         *)
(*   pull    one camera's puller: Held, then Save for what is missing      *)
(*   stand   another camera's stand-in recorder: freeID, Create, Commit    *)
(*   trans   the transcode worker: Transcode                               *)
(*   sweep   retention: Sweep (the timer's, the pullers' and the           *)
(*           stand-ins' calls; Store.mu lets one run at a time)            *)
(*                                                                         *)
(* Each action is the code between two points where another goroutine, or  *)
(* a crash, can be seen to have changed the volume.  Only mkdirDay and     *)
(* Sweep take Store.mu; everything else races.                             *)
(*                                                                         *)
(* A recording is a number: its identity (camera, day, start time) in the  *)
(* order of sortNewestFirst.  Only whether a file is the whole recording   *)
(* matters of its content.                                                 *)
(***************************************************************************)
EXTENDS Integers, FiniteSets

CONSTANTS Card,       \* recordings the first camera has on its own card
          Stand,      \* start times the second, cardless camera can trigger at
          NDays, DayOf,                  \* the day directory of a recording
          AviSize, Mp4Size, MetaSize,    \* bytes of each kind of file
          MaxBytes,   \* the size the archive is aged down to; 0: never
          MaxFaults   \* bound: failed I/O, cut transfers and crashes in a run

Recs  == Card \cup Stand
Days  == 1..NDays
Procs == {"pull", "stand", "trans"}

ASSUME RecsAssumption  == Recs \subseteq Nat /\ IsFiniteSet(Recs) /\ Card \cap Stand = {}
ASSUME DaysAssumption  == NDays \in Nat \ {0} /\ DayOf \in [Recs -> Days]
ASSUME SizesAssumption == /\ AviSize \in Nat /\ Mp4Size \in Nat /\ MetaSize \in Nat
                          /\ MaxBytes \in Int
ASSUME FaultsAssumption == MaxFaults \in Nat

None == -1   \* no recording

VARIABLES
  avi, mp4,    \* [Recs -> {"none", "cut", "whole"}]: the finished files
  meta,        \* recordings with a sidecar
  aged,        \* recordings noted in their day's .aged file
  dirs,        \* day directories that exist
  temp,        \* the .part- file each goroutine writes
  left,        \* the .part- files nobody writes: <<by whom, in which day, a number>>
  pullPc, pullDay, pullHeld, pullTodo, pullRec,
  standPc, standRec, clock,
  transPc, transRec,
  sweepPc, listed, victim, usage,
  service, faults,
  arrived,     \* history: recordings that were held at some time
  taken,       \* history: recordings retention removed a file of
  stuck        \* history: .part- files that could not be removed

parts     == <<temp, left, stuck>>
disk      == <<avi, mp4, meta, aged, dirs, parts>>
pullVars  == <<pullPc, pullDay, pullHeld, pullTodo, pullRec>>
standVars == <<standPc, standRec, clock>>
transVars == <<transPc, transRec>>
sweepVars == <<sweepPc, listed, victim, usage>>
history   == <<arrived, taken>>
vars == <<disk, pullVars, standVars, transVars, sweepVars, service, faults, history>>

Contents == {"none", "cut", "whole"}
Forms    == {"avi", "mp4"}

OnDisk(r) == {f \in Forms : (IF f = "mp4" THEN mp4[r] ELSE avi[r]) # "none"}
Held      == {r \in Recs : avi[r] # "none" \/ mp4[r] # "none"}

(* Usage: every file counts, unfinished ones and sidecars too. *)
Bytes == AviSize * (Cardinality({r \in Recs : avi[r] # "none"})
                      + Cardinality({p \in {"pull", "stand"} : temp[p] # "none"}))
       + Mp4Size * (Cardinality({r \in Recs : mp4[r] # "none"})
                      + Cardinality({p \in {"trans"} : temp[p] # "none"}))
       + AviSize * Cardinality({l \in left : l[1] # "trans"})
       + Mp4Size * Cardinality({l \in left : l[1] = "trans"})
       + MetaSize * Cardinality(meta)

TypeOK ==
  /\ avi \in [Recs -> Contents] /\ mp4 \in [Recs -> Contents]
  /\ meta \subseteq Recs /\ aged \subseteq Recs /\ dirs \subseteq Days
  /\ temp \in [Procs -> Contents]
  /\ left \subseteq Procs \X Days \X (1..MaxFaults) /\ stuck \subseteq left
  /\ pullPc \in {"names", "aged", "pick", "mkdir", "create", "body", "meta", "rename"}
  /\ pullDay \in Days /\ pullHeld \subseteq Recs /\ pullTodo \subseteq Recs
  /\ pullRec \in (IF pullPc \in {"names", "aged", "pick"} THEN {None} ELSE Recs)
  /\ standPc \in {"idle", "statMp4", "statAvi", "mkdir", "create", "record", "meta", "rename"}
  /\ standRec \in (IF standPc = "idle" THEN {None} ELSE Recs)
  /\ clock \in Recs \cup {None}
  /\ transPc \in {"idle", "statDst", "dropDup", "open", "encode", "verify", "rename", "drop"}
  /\ transRec \in (IF transPc = "idle" THEN {None} ELSE Recs)
  /\ sweepPc \in {"idle", "readdir", "info", "loop", "note", "sidecar"}
  /\ victim \in (IF sweepPc \in {"note", "sidecar"} THEN Recs ELSE {None})
  /\ listed \in [Recs -> SUBSET Forms] /\ usage \in Int
  /\ service \in {"up", "down"} /\ faults \in 0..MaxFaults
  /\ arrived \subseteq Recs /\ taken \subseteq Recs

Init ==
  /\ avi = [r \in Recs |-> "none"] /\ mp4 = [r \in Recs |-> "none"]
  /\ meta = {} /\ aged = {} /\ dirs = {}
  /\ temp = [p \in Procs |-> "none"] /\ left = {} /\ stuck = {}
  /\ pullPc = "names" /\ pullDay = 1 /\ pullHeld = {} /\ pullTodo = {} /\ pullRec = None
  /\ standPc = "idle" /\ standRec = None /\ clock = None
  /\ transPc = "idle" /\ transRec = None
  /\ sweepPc = "idle" /\ listed = [r \in Recs |-> {}] /\ victim = None /\ usage = 0
  /\ service = "up" /\ faults = 0
  /\ arrived = {} /\ taken = {}

(* Something the environment does wrong; each one uses up the bound. *)
Faults(n) == faults + n <= MaxFaults /\ faults' = faults + n
Fault     == Faults(1)
NoFault   == UNCHANGED faults

(* What each goroutine has in hand. *)
InHand(p) == CASE p = "pull" -> pullRec [] p = "stand" -> standRec [] OTHER -> transRec

(* Store.mu is held from the start of Sweep to its return. *)
MuFree == sweepPc = "idle"

-----------------------------------------------------------------------------
(* What Save and Commit share.                                              *)

MkdirDay(r) == MuFree /\ dirs' = dirs \cup {DayOf[r]}

(* os.CreateTemp in the day directory, which the sweep may have pruned      *)
(* since mkdirDay let go of the lock.                                       *)
CanCreate(r) == DayOf[r] \in dirs
SetTemp(p, c) == temp' = [temp EXCEPT ![p] = c] /\ UNCHANGED <<left, stuck>>

(* One more .part- file that p leaves, in the day of its recording: it      *)
(* takes the lowest number that is free.                                    *)
LeftBy(p, r) == {l \in Procs \X Days \X (1..MaxFaults) :
                   /\ l[1] = p /\ l[2] = DayOf[r]
                   /\ \A m \in 1..l[3] : <<p, l[2], m>> \in left <=> m < l[3]}

(* The .part- file is given up, after n faults: os.Remove of it, whose      *)
(* error is ignored.  Nobody goes on with a file that stays.                *)
Discard(p, r, n) ==
  /\ temp' = [temp EXCEPT ![p] = "none"]
  /\ \/ Faults(n) /\ UNCHANGED <<left, stuck>>
     \/ /\ temp[p] # "none" /\ Faults(n + 1)
        /\ left' = left \cup LeftBy(p, r) /\ stuck' = stuck \cup LeftBy(p, r)

(* os.Rename of the .part- file to <at>.avi: it is held from here on. *)
Land(p, r) == /\ avi' = [avi EXCEPT ![r] = temp[p]]
              /\ SetTemp(p, "none")
              /\ arrived' = arrived \cup {r}

-----------------------------------------------------------------------------
(* The puller: pullOnce walks the days, pullDay one day's recordings.       *)

PullStep(from) == service = "up" /\ pullPc = from /\ UNCHANGED <<standVars, transVars, sweepVars, service, taken>>

(* Mutant: the pass does not start over from the oldest day. *)
NextDayNeverBack == pullDay' = IF pullDay = NDays THEN NDays ELSE pullDay + 1

NextDay == pullDay' = IF pullDay = NDays THEN 1 ELSE pullDay + 1

(* Mutant: a recording held as MP4 alone is not recognised. *)
PullReadAviNames ==
  /\ PullStep("names") /\ NoFault
  /\ pullHeld' = {r \in Recs : avi[r] # "none" /\ DayOf[r] = pullDay} /\ pullPc' = "aged"
  /\ UNCHANGED <<disk, pullDay, pullTodo, pullRec, arrived>>

(* Held: the directory read ... *)
PullReadNames ==
  /\ PullStep("names") /\ NoFault
  /\ pullHeld' = {r \in Held : DayOf[r] = pullDay}
  /\ pullPc' = "aged"
  /\ UNCHANGED <<disk, pullDay, pullTodo, pullRec, arrived>>

(* ... and then agedOut, and the camera's listing less what is settled. *)
PullReadAged ==
  /\ PullStep("aged") /\ NoFault
  /\ pullTodo' = {r \in Card : DayOf[r] = pullDay} \ (pullHeld \cup aged)
  /\ pullHeld' = {}
  /\ pullPc' = "pick"
  /\ UNCHANGED <<disk, pullDay, pullRec, arrived>>

PullPick ==
  /\ PullStep("pick") /\ NoFault
  /\ \E r \in pullTodo : /\ pullRec' = r
                         /\ pullTodo' = pullTodo \ {r}
  /\ pullPc' = "mkdir"
  /\ UNCHANGED <<disk, pullDay, pullHeld, arrived>>

PullDayDone ==
  /\ PullStep("pick") /\ NoFault
  /\ pullTodo = {}
  /\ NextDay /\ pullPc' = "names"
  /\ UNCHANGED <<disk, pullHeld, pullTodo, pullRec, arrived>>

(* A listing that fails, or a camera that stops answering: the pass ends    *)
(* and the next one starts over from the oldest day.                        *)
PullGiveUp ==
  /\ PullStep("pick") /\ Fault
  /\ pullDay' = 1 /\ pullTodo' = {} /\ pullPc' = "names"
  /\ UNCHANGED <<disk, pullHeld, pullRec, arrived>>

PullMkdir ==
  /\ PullStep("mkdir") /\ NoFault
  /\ MkdirDay(pullRec)
  /\ pullPc' = "create"
  /\ UNCHANGED <<avi, mp4, meta, aged, parts, pullDay, pullHeld, pullTodo, pullRec, arrived>>

(* The deferred os.Remove of the .part- file; the recording is skipped and  *)
(* the next pass tries it again.                                            *)
PullTo(pc) == pullPc' = pc /\ UNCHANGED <<pullDay, pullHeld, pullTodo, pullRec>>
PullOver   == pullPc' = "pick" /\ pullRec' = None /\ UNCHANGED <<pullDay, pullHeld, pullTodo>>
PullSkip(n) == /\ Discard("pull", pullRec, n) /\ PullOver
               /\ UNCHANGED <<avi, mp4, meta, aged, dirs, arrived>>

PullCreate ==
  /\ PullStep("create")
  /\ \/ /\ CanCreate(pullRec) /\ NoFault
        /\ SetTemp("pull", "cut") /\ PullTo("body")
        /\ UNCHANGED <<avi, mp4, meta, aged, dirs, arrived>>
     \/ ~CanCreate(pullRec) /\ PullSkip(0)

(* Mutant: the length is not checked. *)
PullBodyUnchecked ==
  /\ PullStep("body") /\ NoFault /\ PullTo("meta")
  /\ \E c \in {"cut", "whole"} : SetTemp("pull", c)
  /\ UNCHANGED <<avi, mp4, meta, aged, dirs, arrived>>

(* io.Copy of the camera's answer, which may end early without an error;   *)
(* the RIFF header is held against the bytes that arrived.                 *)
PullBody ==
  /\ PullStep("body")
  /\ \/ /\ NoFault
        /\ SetTemp("pull", "whole") /\ PullTo("meta")
        /\ UNCHANGED <<avi, mp4, meta, aged, dirs, arrived>>
     \/ PullSkip(1)

(* Mutant: a sidecar that cannot be written is passed over. *)
PullMetaOrNot ==
  /\ PullStep("meta") /\ PullTo("rename")
  /\ (NoFault /\ meta' = meta \cup {pullRec}) \/ (Fault /\ UNCHANGED meta)
  /\ UNCHANGED <<avi, mp4, aged, dirs, parts, arrived>>

PullMeta ==
  /\ PullStep("meta")
  /\ \/ /\ NoFault
        /\ meta' = meta \cup {pullRec} /\ PullTo("rename")
        /\ UNCHANGED <<avi, mp4, aged, dirs, parts, arrived>>
     \/ PullSkip(1)

PullRename ==
  /\ PullStep("rename")
  /\ \/ /\ NoFault
        /\ Land("pull", pullRec) /\ PullOver
        /\ UNCHANGED <<mp4, meta, aged, dirs>>
     \/ PullSkip(1)

Pull == \/ PullReadNames \/ PullReadAged \/ PullPick \/ PullDayDone \/ PullGiveUp
        \/ PullMkdir \/ PullCreate \/ PullBody \/ PullMeta \/ PullRename

-----------------------------------------------------------------------------
(* The stand-in recorder: standInOnce and finish.                           *)

StandStep(from) == service = "up" /\ standPc = from /\ UNCHANGED <<pullVars, transVars, sweepVars, service, taken>>

StandTo(pc) == standPc' = pc /\ UNCHANGED <<standRec, clock>>
StandOver   == standPc' = "idle" /\ standRec' = None /\ UNCHANGED clock

(* A trigger at second r, which may be the second of the last one. *)
StandTrigger ==
  /\ StandStep("idle") /\ NoFault
  /\ \E r \in Stand : /\ r >= clock
                      /\ standRec' = r /\ clock' = r
  /\ standPc' = "statMp4"
  /\ UNCHANGED <<disk, arrived>>

(* freeID steps past a name that is held, a second at a time. *)
StandNextSecond ==
  \/ /\ \E r \in Stand : /\ r > standRec
                         /\ \A s \in Stand : s > standRec => r <= s
                         /\ standRec' = r
     /\ standPc' = "statMp4" /\ UNCHANGED clock
  \/ /\ \A s \in Stand : s <= standRec
     /\ StandOver

(* Has looks for the MP4 and then for the AVI. *)
StandStatMp4 ==
  /\ StandStep("statMp4") /\ NoFault
  /\ IF mp4[standRec] = "none" THEN StandTo("statAvi") ELSE StandNextSecond
  /\ UNCHANGED <<disk, arrived>>

StandStatAvi ==
  /\ StandStep("statAvi") /\ NoFault
  /\ IF avi[standRec] = "none" THEN StandTo("mkdir") ELSE StandNextSecond
  /\ UNCHANGED <<disk, arrived>>

StandMkdir ==
  /\ StandStep("mkdir") /\ NoFault
  /\ MkdirDay(standRec) /\ StandTo("create")
  /\ UNCHANGED <<avi, mp4, meta, aged, parts, arrived>>

StandDrop(n) == /\ Discard("stand", standRec, n) /\ StandOver
                /\ UNCHANGED <<avi, mp4, meta, aged, dirs, arrived>>

StandCreate ==
  /\ StandStep("create")
  /\ \/ /\ CanCreate(standRec) /\ NoFault
        /\ SetTemp("stand", "cut") /\ StandTo("record")
        /\ UNCHANGED <<avi, mp4, meta, aged, dirs, arrived>>
     \/ ~CanCreate(standRec) /\ StandDrop(0)

(* The recording ends: Commit's avi.Close makes the file whole; or there    *)
(* were too few frames, or a write failed, and Abort removes it.            *)
StandFinish ==
  /\ StandStep("record")
  /\ \/ /\ NoFault /\ SetTemp("stand", "whole") /\ StandTo("meta")
        /\ UNCHANGED <<avi, mp4, meta, aged, dirs, arrived>>
     \/ StandDrop(0)

StandMeta ==
  /\ StandStep("meta")
  /\ \/ /\ NoFault
        /\ meta' = meta \cup {standRec} /\ StandTo("rename")
        /\ UNCHANGED <<avi, mp4, aged, dirs, parts, arrived>>
     \/ StandDrop(1)

StandRename ==
  /\ StandStep("rename")
  /\ \/ /\ NoFault
        /\ Land("stand", standRec) /\ StandOver
        /\ UNCHANGED <<mp4, meta, aged, dirs>>
     \/ StandDrop(1)

StandIn == \/ StandTrigger \/ StandStatMp4 \/ StandStatAvi \/ StandMkdir \/ StandCreate
           \/ StandFinish \/ StandMeta \/ StandRename

-----------------------------------------------------------------------------
(* Transcode, of a recording that was offered when it was stored or found   *)
(* by the backfill.                                                         *)

TransStep(from) == service = "up" /\ transPc = from /\ UNCHANGED <<pullVars, standVars, sweepVars, service, history>>

TransTo(pc) == transPc' = pc /\ UNCHANGED transRec
TransOver   == transPc' = "idle" /\ transRec' = None

TransDrop(n) == /\ Discard("trans", transRec, n) /\ TransOver
                /\ UNCHANGED <<avi, mp4, meta, aged, dirs>>

(* Without an AVI there is nothing to do, whatever dst says: that is a step *)
(* that leaves everything as it was.                                        *)
TransStart ==
  /\ TransStep("idle") /\ NoFault
  /\ transRec' \in arrived /\ avi[transRec'] # "none"
  /\ transPc' = "statDst"
  /\ UNCHANGED disk

(* Mutant: the test for both forms is inverted. *)
TransStatDstInverted ==
  /\ TransStep("statDst") /\ NoFault
  /\ TransTo(IF mp4[transRec] = "none" THEN "dropDup" ELSE "open") /\ UNCHANGED disk

(* Both forms: finish the transcode that was interrupted. *)
TransStatDst ==
  /\ TransStep("statDst") /\ NoFault
  /\ TransTo(IF mp4[transRec] # "none" THEN "dropDup" ELSE "open")
  /\ UNCHANGED disk

RemoveAvi == avi' = [avi EXCEPT ![transRec] = "none"]

TransDropDup ==
  /\ TransStep("dropDup") /\ TransOver
  /\ \/ NoFault /\ RemoveAvi
     \/ Fault /\ UNCHANGED avi
  /\ UNCHANGED <<mp4, meta, aged, dirs, parts>>

(* aviFrames, and the .part- file for ffmpeg to write. *)
TransOpen ==
  /\ TransStep("open")
  /\ IF avi[transRec] # "none" /\ CanCreate(transRec)
     THEN /\ NoFault /\ SetTemp("trans", "cut") /\ TransTo("encode")
          /\ UNCHANGED <<avi, mp4, meta, aged, dirs>>
     ELSE TransDrop(0)

(* An encode ends whole or short of frames, or fails: it does when the AVI  *)
(* was removed before ffmpeg opened it.                                     *)
TransEncode ==
  /\ TransStep("encode")
  /\ \/ /\ avi[transRec] # "none" /\ NoFault
        /\ \E c \in {"cut", "whole"} : SetTemp("trans", c)
        /\ TransTo("verify") /\ UNCHANGED <<avi, mp4, meta, aged, dirs>>
     \/ TransDrop(0)

(* As many frames as the AVI, not empty, smaller than the AVI, and retention *)
(* has not aged the AVI out meanwhile.                                     *)
TransVerify ==
  /\ TransStep("verify")
  /\ \/ /\ temp["trans"] = "whole" /\ avi[transRec] # "none" /\ NoFault
        /\ TransTo("rename") /\ UNCHANGED disk
     \/ TransDrop(0)

(* Mutant: the AVI is removed before the MP4 has its name. *)
TransRemoveFirst ==
  /\ TransStep("rename") /\ RemoveAvi /\ SetTemp("trans", "none") /\ TransOver
  /\ (NoFault /\ mp4' = [mp4 EXCEPT ![transRec] = "whole"]) \/ (Fault /\ UNCHANGED mp4)
  /\ UNCHANGED <<meta, aged, dirs>>

TransRename ==
  /\ TransStep("rename")
  /\ \/ /\ NoFault
        /\ mp4' = [mp4 EXCEPT ![transRec] = temp["trans"]]
        /\ SetTemp("trans", "none") /\ TransTo("drop")
        /\ UNCHANGED <<avi, meta, aged, dirs>>
     \/ TransDrop(1)

TransRemoveAvi ==
  /\ TransStep("drop") /\ TransOver
  /\ \/ NoFault /\ RemoveAvi
     \/ Fault /\ UNCHANGED avi
  /\ UNCHANGED <<mp4, meta, aged, dirs, parts>>

Transcode == \/ TransStart \/ TransStatDst \/ TransDropDup \/ TransOpen
             \/ TransEncode \/ TransVerify \/ TransRename \/ TransRemoveAvi

-----------------------------------------------------------------------------
(* Sweep.                                                                   *)

SweepStep(from) == service = "up" /\ sweepPc = from /\ UNCHANGED <<pullVars, standVars, transVars, service, arrived>>

(* Usage; a sweep with nothing to do returns without a trace. *)
SweepBegin ==
  /\ SweepStep("idle") /\ NoFault
  /\ MaxBytes > 0 /\ Bytes > MaxBytes
  /\ usage' = Bytes /\ sweepPc' = "readdir"
  /\ UNCHANGED <<disk, listed, victim, taken>>

(* scan: the names a directory read returns ... *)
SweepReadDir ==
  /\ SweepStep("readdir") /\ NoFault
  /\ listed' = [r \in Recs |-> OnDisk(r)]
  /\ sweepPc' = "info"
  /\ UNCHANGED <<disk, victim, usage, taken>>

(* Mutant: the newest two are no candidates. *)
CandidatesLess(real) == {r \in Recs : /\ real[r] # {}
                                      /\ \E s, t \in Recs : real[s] # {} /\ real[t] # {} /\ r < s /\ s < t}

(* ... less the files that are gone by the time they are stat'ed.  All but  *)
(* the newest recording are candidates.                                     *)
Candidates(real) == {r \in Recs : real[r] # {} /\ \E s \in Recs : real[s] # {} /\ s > r}

SweepInfo ==
  /\ SweepStep("info") /\ NoFault
  /\ LET real == [r \in Recs |-> listed[r] \cap OnDisk(r)]
     IN  listed' = [r \in Recs |-> IF r \in Candidates(real) THEN real[r] ELSE {}]
  /\ sweepPc' = "loop"
  /\ UNCHANGED <<disk, victim, usage, taken>>

Left == {r \in Recs : listed[r] # {}}
MoreToAge == usage > MaxBytes /\ Left # {}

(* A recording in both forms was listed as its MP4. *)
FormOf(r) == IF "mp4" \in listed[r] THEN "mp4" ELSE "avi"
SizeOf(f) == IF f = "mp4" THEN Mp4Size ELSE AviSize

(* os.Remove of the oldest one left; one that fails is passed over. *)
SweepRemove ==
  /\ SweepStep("loop") /\ MoreToAge
  /\ \E r \in Left :
       /\ \A s \in Left : r <= s
       /\ listed' = [listed EXCEPT ![r] = {}]
       /\ \/ /\ NoFault /\ FormOf(r) \in OnDisk(r)
             /\ IF FormOf(r) = "mp4" THEN mp4' = [mp4 EXCEPT ![r] = "none"] /\ UNCHANGED avi
                                    ELSE avi' = [avi EXCEPT ![r] = "none"] /\ UNCHANGED mp4
             /\ usage' = usage - SizeOf(FormOf(r))
             /\ victim' = r /\ taken' = taken \cup {r}
             /\ sweepPc' = "note"
          \/ /\ (Fault \/ (NoFault /\ FormOf(r) \notin OnDisk(r)))
             /\ UNCHANGED <<avi, mp4, usage, victim, taken, sweepPc>>
  /\ UNCHANGED <<meta, aged, dirs, parts>>

(* noteAged gives up silently when it cannot write. *)
SweepNote ==
  /\ SweepStep("note")
  /\ \/ NoFault /\ aged' = aged \cup {victim}
     \/ Fault /\ UNCHANGED aged
  /\ sweepPc' = "sidecar"
  /\ UNCHANGED <<avi, mp4, meta, dirs, parts, listed, victim, usage, taken>>

SweepSidecar ==
  /\ SweepStep("sidecar")
  /\ \/ /\ NoFault /\ victim \in meta
        /\ meta' = meta \ {victim} /\ usage' = usage - MetaSize
     \/ /\ (Fault \/ (NoFault /\ victim \notin meta))
        /\ UNCHANGED <<meta, usage>>
  /\ victim' = None /\ sweepPc' = "loop"
  /\ UNCHANGED <<avi, mp4, aged, dirs, parts, listed, taken>>

(* pruneEmptyDays: os.Remove fails on a day that still holds anything.  *)
InUse(d) == \/ \E r \in Held \cup meta \cup aged : DayOf[r] = d
            \/ \E p \in Procs : temp[p] # "none" /\ DayOf[InHand(p)] = d
            \/ \E l \in left : l[2] = d

SweepPrune ==
  /\ SweepStep("loop") /\ ~MoreToAge /\ NoFault
  /\ dirs' = {d \in dirs : InUse(d)}
  /\ listed' = [r \in Recs |-> {}] /\ usage' = 0 /\ sweepPc' = "idle"
  /\ UNCHANGED <<avi, mp4, meta, aged, parts, victim, taken>>

Sweep == \/ SweepBegin \/ SweepReadDir \/ SweepInfo \/ SweepRemove
         \/ SweepNote \/ SweepSidecar \/ SweepPrune

-----------------------------------------------------------------------------
(* The process dies with its locals; the .part- files are still there.     *)
Crash ==
  /\ service = "up" /\ Fault /\ service' = "down"
  /\ left' = left \cup UNION {LeftBy(p, InHand(p)) : p \in {q \in Procs : temp[q] # "none"}}
  /\ temp' = [p \in Procs |-> "none"] /\ UNCHANGED stuck
  /\ pullPc' = "names" /\ pullDay' = 1 /\ pullHeld' = {} /\ pullTodo' = {} /\ pullRec' = None
  /\ standPc' = "idle" /\ standRec' = None
  /\ transPc' = "idle" /\ transRec' = None
  /\ sweepPc' = "idle" /\ listed' = [r \in Recs |-> {}] /\ victim' = None /\ usage' = 0
  /\ UNCHANGED <<avi, mp4, meta, aged, dirs, clock, history>>

(* Mutant: Open does not sweep the .part- files. *)
OpenWithTemps ==
  /\ service = "down" /\ service' = "up"
  /\ UNCHANGED <<disk, pullVars, standVars, transVars, sweepVars, faults, history>>

(* Open: sweepTemps runs before anything else is started.  It passes over   *)
(* a directory it cannot read and a file it cannot remove.                  *)
Open ==
  /\ service = "down" /\ service' = "up"
  /\ \E kept \in SUBSET left : /\ left' = kept /\ stuck' = kept
                               /\ IF kept = {} THEN NoFault ELSE Fault
  /\ UNCHANGED <<avi, mp4, meta, aged, dirs, temp, pullVars, standVars, transVars, sweepVars,
                 history>>

Next == Pull \/ StandIn \/ Transcode \/ Sweep \/ Crash \/ Open

Spec == Init /\ [][Next]_vars

(* Each goroutine goes on running; retention's ticker keeps firing, the    *)
(* puller's passes keep coming, and a service that died is started again.  *)
(* Store.mu is a sync.Mutex, which does not let a waiter starve.           *)
Fairness == WF_vars(Pull) /\ SF_vars(PullMkdir) /\ WF_vars(Sweep) /\ WF_vars(Open)

FairSpec == Spec /\ Fairness

-----------------------------------------------------------------------------
(* Nothing short of a whole recording ever has a finished name: not a cut   *)
(* download, not a short encode, not what a crash leaves (Save, Transcode). *)
WholeFiles == \A r \in Recs : avi[r] # "cut" /\ mp4[r] # "cut"

(* A recording that was ever held is still held in some form unless         *)
(* retention took it: no failure, crash or order of a transcode loses it.   *)
FootageKept == arrived \subseteq Held \cup taken

(* The newest recording is never removed, whatever lands or is transcoded   *)
(* while Sweep works from its listing: there is always one as new.          *)
NewestStays == [][\A r \in Held : \E s \in Held' : s >= r]_vars

(* A listing never sees a recording whose details are missing (writeMeta),  *)
(* until retention has had a hand in it.                                    *)
SidecarFirst == Held \ taken \subseteq meta

(* The puller never fetches a recording that is held: it is not held when   *)
(* the download lands, however long ago Held was read (pullDay), as long    *)
(* as retention has had no hand in it.                                      *)
NeverFetchedTwice == pullPc = "rename" => pullRec \notin Held \ taken

(* A .part- file belongs to a write in progress or could not be removed: no *)
(* path gives a write up and leaves its file behind, and none outlives the  *)
(* next start, unless the disk would not have it removed (Save, Pending,    *)
(* Transcode, sweepTemps).                                                  *)
NoLeakedTemp ==
  service = "up" =>
        /\ left \subseteq stuck
        /\ temp["pull"] # "none" => pullPc \in {"body", "meta", "rename"}
        /\ temp["stand"] # "none" => standPc \in {"record", "meta", "rename"}
        /\ temp["trans"] # "none" => transPc \in {"encode", "verify", "rename"}

(* Why these hold, as one inductive invariant: what is about to be given    *)
(* its name is whole; an AVI about to be removed has its MP4 beside it, or  *)
(* retention took that; what Sweep has left to age has a newer recording    *)
(* beside it; and what the puller has in hand was not held.                 *)
WholeInHand ==
  /\ pullPc \in {"meta", "rename"} => temp["pull"] = "whole"
  /\ standPc \in {"meta", "rename"} => temp["stand"] = "whole"
  /\ transPc = "rename" => temp["trans"] = "whole"
  /\ service = "down" => /\ pullPc = "names" /\ standPc = "idle" /\ transPc = "idle"
                         /\ \A p \in Procs : temp[p] = "none"

Superseded(r) == \E s \in Held : s > r

DropSafe == transPc \in {"dropDup", "drop"} =>
              \/ mp4[transRec] # "none"
              \/ transRec \in taken /\ Superseded(transRec)

SweepSafe == sweepPc \in {"loop", "note", "sidecar"} => \A r \in Left : Superseded(r)

FetchSafe ==
  /\ pullPc = "aged" => {r \in Card \cap Held : DayOf[r] = pullDay} \ taken \subseteq pullHeld
  /\ pullTodo \subseteq Card \ (Held \ taken)
  /\ pullRec \in {None} \cup (Card \ (Held \ taken)) /\ pullRec \notin pullTodo
  /\ standRec \in {None} \cup Stand /\ transRec \in {None} \cup arrived

(* Who is about to give a recording its name has written its sidecar, and   *)
(* only what retention took loses one.                                      *)
SidecarInHand ==
  /\ pullPc = "rename" => pullRec \in meta \cup taken
  /\ standPc = "rename" => standRec \in meta \cup taken
  /\ sweepPc \in {"note", "sidecar"} => victim \in taken

Inductive == TypeOK /\ WholeFiles /\ FootageKept /\ WholeInHand
               /\ DropSafe /\ SweepSafe /\ FetchSafe

(* Retention keeps winning: again and again the archive is within its       *)
(* limit, or there is only the newest recording left to keep (Sweep).       *)
WithinLimit   == Bytes <= MaxBytes \/ Cardinality(Held) <= 1
LimitRegained == []<>WithinLimit

(* The puller catches up: again and again, each recording on the card is    *)
(* held or was let go, through failed downloads, crashes and lost notes.    *)
CardSettled == \A r \in Card : []<>(r \in Held \cup aged)

(* The archive implements its promise.                                      *)
Promise == INSTANCE ArchivePromise WITH held <- Held
KeepsPromise == Promise!Spec

-----------------------------------------------------------------------------
(* Statements of the comments that the code does not keep.                  *)

(* "Renaming the MP4 in now would bring back footage the archive has        *)
(* already decided to let go" (Transcode).                                  *)
NoResurrection == [][\A r \in aged : mp4[r] = "none" => mp4'[r] = "none"]_vars

(* Held lets a puller not "fetch back one that was deliberately let go".    *)
NotFetchedBack == [][\A r \in aged : avi[r] = "none" => avi'[r] = "none"]_vars

(* Both forms on the disk "is one recording" (scan): what retention took    *)
(* and noted is gone, with nothing running that will still remove it.       *)
AgedOutWhole ==
  service = "up" /\ sweepPc = "idle" /\ transPc = "idle" => \A r \in aged : avi[r] = "none"

SweepReturns == service' = "up" /\ sweepPc # "idle" /\ sweepPc' = "idle"

(* "A sidecar left without its recording is swept by the next retention     *)
(* pass" (writeMeta).                                                       *)
SidecarSwept == [][SweepReturns => meta' \subseteq Held \cup {pullRec, standRec}]_vars

(* "A year of aged-out days does not stay as a year of empty folders"       *)
(* (pruneEmptyDays): a day is left to a recording, a sidecar or a write.    *)
AgedOutDayPruned ==
  [][SweepReturns => \A d \in dirs' : \/ \E r \in Held \cup meta : DayOf[r] = d
                                      \/ \E p \in Procs : temp[p] # "none"]_vars

(* "mu serialises directory creation and the retention sweep against each   *)
(* other" (Store): the day made for a recording is there to create it in.   *)
DayIsThere == standPc = "create" => CanCreate(standRec)

(* "Overwriting a recording that already exists is the one outcome worth    *)
(* ruling out" (freeID).                                                    *)
StandInNeverOverwrites == standPc = "rename" => standRec \notin Held
=============================================================================
