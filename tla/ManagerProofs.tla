---------------------------- MODULE ManagerProofs ----------------------------
(***************************************************************************)
(* The two sides of the manager's devices, backend/internal/manager.         *)
(*                                                                         *)
(* Fleet: for any number of cameras, handlers, devices, failed saves and     *)
(* restarts, what the store lists is what it has saved, every device that    *)
(* runs is in the manager's map or about to be stopped by somebody, and at   *)
(* rest the devices are those of the list.                                   *)
(*                                                                         *)
(* Card, the puller of one of them, which shares no variable with Fleet: for any *)
(* card, pages of any size, failures and restarts, nothing that is held is   *)
(* asked for again, and a pass leaves out nothing.                           *)
(***************************************************************************)
EXTENDS Fleet, Card, TLAPS, FiniteSetTheorems, WellFoundedInduction

(* Who edits holds the lock, and rolls back to what is saved.               *)
EditorHolds == \A c \in Callers : pc[c] = "save" => storeMu = c /\ old[c] = file

(* Who starts devices holds the manager's lock, and Close has not come yet; *)
(* who has devices to stop is about to.                                     *)
SyncerHolds == \A c \in Callers :
  /\ pc[c] = "start" => mgrMu = c /\ closed = "no"
  /\ stopping[c] # {} => pc[c] \in {"start", "stop"}

Inductive == TypeOK /\ EditorHolds /\ ListedIsSaved /\ SyncerHolds /\ NoOrphans

(* A lock is held by somebody who is on the way to let it go.               *)
LocksAreHeld ==
  /\ storeMu # Nobody => pc[storeMu] = "save"
  /\ mgrMu # Nobody => pc[mgrMu] = "start"

(* What the manager's map has runs, and is nobody's to stop.                *)
KnownRun == \A n \in devices :
  /\ run[n] = "running" /\ cam[n] \in Ids \X Addrs
  /\ \A c \in Callers : n \notin stopping[c]

(* Somebody changed the list, or is reading it, and will hand it to Sync.   *)
ToSync(c) == \/ pc[c] \in {"list", "sync"}
             \/ c = Watcher /\ pc[c] \in {"look", "save"} /\ changed = "yes"
SyncToCome == \E c \in Callers : ToSync(c)

Matches(n) == file[Id(n)] = cam[n][2]

(* With no Sync to come, and the last one not stale, every device is of the *)
(* saved list, and every camera of it has one but for those of the Sync     *)
(* that is under way.                                                       *)
Settled == closed = "no" /\ stale = "no" /\ ~SyncToCome =>
  /\ \A n \in devices : Matches(n)
  /\ \A c \in Callers : pc[c] = "start" => listed[c] = file
  /\ (\A c \in Callers : pc[c] # "start") => Present(file) \subseteq {Id(n) : n \in devices}

Following == Inductive /\ LocksAreHeld /\ KnownRun /\ Settled

LEMMA CallersAreNamed == /\ Watcher \in Callers /\ Main \in Callers /\ Handlers \subseteq Callers
                         /\ Nobody \notin Callers
BY NamesAssumption DEF Callers

LEMMA EmptyIsAList == Empty \in Lists
BY DEF Empty, Lists

LEMMA InitInductive == Init => Inductive
BY BoundsAssumption, NamesAssumption, CallersAreNamed, EmptyIsAList
   DEF Init, Inductive, TypeOK, EditorHolds, ListedIsSaved, SyncerHolds, NoOrphans

(* The three edits of the store have a shape in common.                     *)
LEMMA EditKeeps ==
  ASSUME Inductive, NEW c \in Callers, NEW i \in Ids, NEW a \in Addrs \cup {Gone}, Edit(c, i, a),
         pc[c] \in {"idle", "look"}, todo' \subseteq Ids, changed' \in {"yes", "no"}
  PROVE  Inductive'
<1> USE DEF Edit, CallTo, Inductive
<1>1. TypeOK'
  BY BoundsAssumption DEF TypeOK, Lists, mgrVars
<1>2. EditorHolds' /\ ListedIsSaved'
  BY CallersAreNamed DEF EditorHolds, ListedIsSaved, TypeOK
<1>3. SyncerHolds' /\ NoOrphans'
  BY DEF SyncerHolds, NoOrphans, TypeOK, mgrVars
<1> QED BY <1>1, <1>2, <1>3

LEMMA SaveKeeps ==
  ASSUME Inductive, NEW c \in Callers, SaveStep(c)
  PROVE  Inductive'
<1> USE DEF Inductive
<1>1. CASE Saved(c)
  <2> USE <1>1 DEF Saved, AfterSave, CallTo, Forget
  <2>1. TypeOK'
    BY EmptyIsAList DEF TypeOK, Lists, mgrVars, bounds
  <2>2. EditorHolds' /\ ListedIsSaved'
    BY CallersAreNamed DEF EditorHolds, ListedIsSaved, TypeOK
  <2>3. SyncerHolds' /\ NoOrphans'
    BY DEF SyncerHolds, NoOrphans, TypeOK, mgrVars
  <2> QED BY <2>1, <2>2, <2>3
<1>2. CASE NotSaved(c)
  <2> USE <1>2 DEF NotSaved, CallTo, Forget
  <2>1. TypeOK'
    BY EmptyIsAList, BoundsAssumption DEF TypeOK, Lists, mgrVars, watchVars
  <2>2. EditorHolds' /\ ListedIsSaved'
    BY CallersAreNamed DEF EditorHolds, ListedIsSaved, TypeOK
  <2>3. SyncerHolds' /\ NoOrphans'
    BY DEF SyncerHolds, NoOrphans, TypeOK, mgrVars
  <2> QED BY <2>1, <2>2, <2>3
<1> QED BY <1>1, <1>2 DEF SaveStep

(* What the watcher does between edits, and the reads of the list.          *)
LEMMA ReadKeeps ==
  ASSUME Inductive,
         Look \/ Looked \/ (\E i \in Ids : Leave(i)) \/ (\E c \in Callers : List(c) \/ SyncClosed(c))
  PROVE  Inductive'
<1> USE CallersAreNamed DEF Inductive, CallTo
<1>1. TypeOK'
  <2> USE DEF TypeOK, Present, storeVars, mgrVars, watchVars, callVars, bounds
  <2>1. CASE Look \/ Looked
    BY <2>1 DEF Look, Looked
  <2>2. ASSUME NEW i \in Ids, Leave(i) PROVE TypeOK'
    BY <2>2 DEF Leave
  <2>3. ASSUME NEW c \in Callers, List(c) PROVE TypeOK'
    BY <2>3 DEF List
  <2>4. ASSUME NEW c \in Callers, SyncClosed(c) PROVE TypeOK'
    BY <2>4 DEF SyncClosed
  <2> QED BY <2>1, <2>2, <2>3, <2>4
<1>2. EditorHolds' /\ ListedIsSaved'
  BY DEF Look, Looked, Leave, List, SyncClosed, EditorHolds, ListedIsSaved, TypeOK, storeVars, callVars
<1>3. SyncerHolds' /\ NoOrphans'
  BY DEF Look, Looked, Leave, List, SyncClosed, SyncerHolds, NoOrphans, TypeOK, mgrVars, callVars
<1> QED BY <1>1, <1>2, <1>3

LEMMA SyncKeeps ==
  ASSUME Inductive, NEW c \in Callers, SyncDrop(c) \/ SyncStart(c) \/ SyncUnlock(c)
  PROVE  Inductive'
<1> USE CallersAreNamed DEF Inductive, CallTo
<1>1. CASE SyncDrop(c)
  <2> USE <1>1 DEF SyncDrop
  <2>1. TypeOK'
    BY DEF TypeOK, Unwanted, storeVars, watchVars, bounds
  <2>2. EditorHolds' /\ ListedIsSaved'
    BY DEF EditorHolds, ListedIsSaved, TypeOK, storeVars
  <2>3. SyncerHolds'
    BY DEF SyncerHolds, TypeOK
  <2>4. NoOrphans'
    <3>1. stopping[c] = {} /\ Unwanted(c) \subseteq devices
      BY DEF SyncerHolds, Unwanted
    <3> QED BY <3>1 DEF NoOrphans, TypeOK
  <2> QED BY <2>1, <2>2, <2>3, <2>4
<1>2. CASE SyncStart(c)
  <2>1. PICK i \in Missing(c), n \in Slots :
          /\ cam' = [cam EXCEPT ![n] = <<i, listed[c][i]>>]
          /\ run' = [run EXCEPT ![n] = "running"] /\ devices' = devices \cup {n}
    BY <1>2 DEF SyncStart
  <2>2. i \in Ids /\ listed[c][i] \in Addrs
    BY DEF Missing, Present, TypeOK, Lists
  <2> USE <1>2, <2>1, <2>2 DEF SyncStart
  <2>3. TypeOK'
    BY DEF TypeOK, storeVars, watchVars, callVars, bounds
  <2>4. EditorHolds' /\ ListedIsSaved'
    BY DEF EditorHolds, ListedIsSaved, TypeOK, storeVars, callVars
  <2>5. SyncerHolds' /\ NoOrphans'
    BY DEF SyncerHolds, NoOrphans, TypeOK, callVars
  <2> QED BY <2>3, <2>4, <2>5
<1>3. CASE SyncUnlock(c)
  <2> USE <1>3 DEF SyncUnlock
  <2>1. TypeOK'
    BY EmptyIsAList DEF TypeOK, storeVars, watchVars, bounds
  <2>2. EditorHolds' /\ ListedIsSaved'
    BY DEF EditorHolds, ListedIsSaved, TypeOK, storeVars
  <2>3. SyncerHolds' /\ NoOrphans'
    BY DEF SyncerHolds, NoOrphans, TypeOK
  <2> QED BY <2>1, <2>2, <2>3
<1> QED BY <1>1, <1>2, <1>3

LEMMA StopKeeps ==
  ASSUME Inductive, NEW c \in Callers, Stop(c) \/ Stopped(c) \/ AllStopped(c)
  PROVE  Inductive'
<1> USE CallersAreNamed DEF Inductive, CallTo
<1>1. CASE Stop(c)
  <2>1. PICK n \in stopping[c] : run' = [run EXCEPT ![n] = "cancelled"]
    BY <1>1 DEF Stop
  <2>2. n \in Slots
    BY DEF TypeOK
  <2> USE <1>1, <2>1, <2>2 DEF Stop
  <2>3. TypeOK'
    BY DEF TypeOK, storeVars, mgrVars, watchVars, callVars, bounds
  <2>4. EditorHolds' /\ ListedIsSaved' /\ SyncerHolds'
    BY DEF EditorHolds, ListedIsSaved, SyncerHolds, storeVars, mgrVars, callVars
  <2>5. NoOrphans'
    BY DEF NoOrphans, TypeOK, mgrVars, callVars
  <2> QED BY <2>3, <2>4, <2>5
<1>2. CASE Stopped(c)
  <2>1. PICK n \in stopping[c] : run[n] = "ended" /\ stopping' = [stopping EXCEPT ![c] = @ \ {n}]
    BY <1>2 DEF Stopped
  <2> USE <1>2, <2>1 DEF Stopped
  <2>2. TypeOK'
    BY DEF TypeOK, storeVars, mgrVars, watchVars, bounds
  <2>3. EditorHolds' /\ ListedIsSaved' /\ SyncerHolds'
    BY DEF EditorHolds, ListedIsSaved, SyncerHolds, TypeOK, storeVars, mgrVars
  <2>4. NoOrphans'
    BY DEF NoOrphans, TypeOK, mgrVars
  <2> QED BY <2>2, <2>3, <2>4
<1>3. CASE AllStopped(c)
  <2> USE <1>3 DEF AllStopped
  <2>1. TypeOK'
    BY DEF TypeOK, storeVars, mgrVars, watchVars, bounds
  <2>2. EditorHolds' /\ ListedIsSaved' /\ SyncerHolds' /\ NoOrphans'
    BY DEF EditorHolds, ListedIsSaved, SyncerHolds, NoOrphans, TypeOK, storeVars, mgrVars
  <2> QED BY <2>1, <2>2
<1> QED BY <1>1, <1>2, <1>3

(* The devices of the map are main's to stop from Close on, and nobody is   *)
(* starting any then, because main has the lock.                            *)
LEMMA CloseKeeps == ASSUME Inductive, Close PROVE Inductive'
<1> USE CallersAreNamed DEF Inductive, CallTo, Close
<1>1. TypeOK'
  BY DEF TypeOK, storeVars, watchVars, bounds
<1>2. EditorHolds' /\ ListedIsSaved'
  BY DEF EditorHolds, ListedIsSaved, TypeOK, storeVars
<1>3. SyncerHolds'
  BY DEF SyncerHolds, TypeOK
<1>4. NoOrphans'
  <2>1. stopping[Main] = {}
    BY DEF SyncerHolds
  <2> QED BY <2>1 DEF NoOrphans, TypeOK
<1> QED BY <1>1, <1>2, <1>3, <1>4

LEMMA RestartKeeps == ASSUME Inductive, Restart PROVE Inductive'
<1> USE CallersAreNamed, EmptyIsAList DEF Inductive, Restart, Started
<1>1. TypeOK'
  BY BoundsAssumption DEF TypeOK
<1>2. EditorHolds' /\ ListedIsSaved' /\ SyncerHolds' /\ NoOrphans'
  BY DEF EditorHolds, ListedIsSaved, SyncerHolds, NoOrphans, TypeOK
<1> QED BY <1>1, <1>2

LEMMA InductiveStep == Inductive /\ [Next]_vars => Inductive'
<1> SUFFICES ASSUME Inductive, [Next]_vars PROVE Inductive'
  OBVIOUS
<1>1. ASSUME NEW h \in Handlers, Add(h) \/ Delete(h) PROVE Inductive'
  <2>1. PICK i \in Ids, a \in Addrs \cup {Gone} : Edit(h, i, a) /\ pc[h] = "idle" /\ UNCHANGED watchVars
    BY <1>1 DEF Add, Delete, Present
  <2> QED BY <2>1, EditKeeps, CallersAreNamed DEF watchVars, Inductive, TypeOK
<1>2. ASSUME NEW i \in Ids, SetAddress(i) PROVE Inductive'
  <2>1. PICK a \in Addrs : Edit(Watcher, i, a) /\ pc[Watcher] = "look"
    BY <1>2 DEF SetAddress
  <2>2. todo' \subseteq Ids /\ changed' \in {"yes", "no"}
    BY <1>2 DEF SetAddress, Inductive, TypeOK
  <2> QED BY <2>1, <2>2, EditKeeps, CallersAreNamed
<1>3. ASSUME Look \/ Looked \/ (\E i \in Ids : Leave(i)) PROVE Inductive'
  BY <1>3, ReadKeeps
<1>4. ASSUME NEW c \in Callers, SaveStep(c) PROVE Inductive'
  BY <1>4, SaveKeeps
<1>5. ASSUME NEW c \in Callers, SyncStep(c) PROVE Inductive'
  BY <1>5, ReadKeeps, SyncKeeps, StopKeeps DEF SyncStep
<1>6. ASSUME NEW n \in Slots, DeviceEnds(n) PROVE Inductive'
  <2> USE <1>6 DEF DeviceEnds, Inductive
  <2>1. TypeOK'
    BY DEF TypeOK, storeVars, watchVars, callVars, bounds
  <2>2. EditorHolds' /\ ListedIsSaved' /\ SyncerHolds' /\ NoOrphans'
    BY DEF EditorHolds, ListedIsSaved, SyncerHolds, NoOrphans, TypeOK, storeVars, callVars
  <2> QED BY <2>1, <2>2
<1>7. CASE Close
  BY <1>7, CloseKeeps
<1>8. CASE Restart
  BY <1>8, RestartKeeps
<1>9. CASE UNCHANGED vars
  BY <1>9 DEF vars, storeVars, mgrVars, watchVars, callVars, bounds, Inductive, TypeOK, EditorHolds,
              ListedIsSaved, SyncerHolds, NoOrphans
<1> QED BY <1>1, <1>2, <1>3, <1>4, <1>5, <1>6, <1>7, <1>8, <1>9 DEF Next

LEMMA InductiveInvariant == Spec => []Inductive
BY InitInductive, InductiveStep, PTL DEF Spec

-----------------------------------------------------------------------------
(* The devices follow the list.                                             *)

LEMMA CallersStep ==
  ASSUME [Next]_vars
  PROVE  \/ \E c \in Callers, i \in Ids, a \in Addrs \cup {Gone} :
              /\ Edit(c, i, a) /\ pc[c] \in {"idle", "look"} /\ UNCHANGED changed
         \/ \E c \in Callers : SaveStep(c) \/ SyncStep(c)
         \/ Look \/ (\E i \in Ids : Leave(i)) \/ Looked
         \/ \E n \in Slots : DeviceEnds(n)
         \/ Close \/ Restart \/ UNCHANGED vars
<1>1. ASSUME NEW h \in Handlers, Add(h) \/ Delete(h)
      PROVE  \E c \in Callers, i \in Ids, a \in Addrs \cup {Gone} :
               /\ Edit(c, i, a) /\ pc[c] \in {"idle", "look"} /\ UNCHANGED changed
  BY <1>1, CallersAreNamed DEF Add, Delete, Present, watchVars
<1>2. ASSUME NEW i \in Ids, SetAddress(i)
      PROVE  \E c \in Callers, j \in Ids, a \in Addrs \cup {Gone} :
               /\ Edit(c, j, a) /\ pc[c] \in {"idle", "look"} /\ UNCHANGED changed
  BY <1>2, CallersAreNamed DEF SetAddress
<1>3. QED
  BY <1>1, <1>2 DEF Next

LEMMA LocksStep == ASSUME Following, [Next]_vars PROVE LocksAreHeld'
<1> USE CallersAreNamed DEF Following, Inductive, TypeOK, EditorHolds, SyncerHolds, LocksAreHeld, CallTo
<1>1. ASSUME NEW c \in Callers, NEW i \in Ids, NEW a \in Addrs \cup {Gone}, Edit(c, i, a),
             pc[c] \in {"idle", "look"}
      PROVE  LocksAreHeld'
  BY <1>1 DEF Edit, mgrVars
<1>2. ASSUME NEW c \in Callers, SaveStep(c) PROVE LocksAreHeld'
  BY <1>2 DEF SaveStep, Saved, NotSaved, AfterSave, mgrVars
<1>3. ASSUME NEW c \in Callers, SyncStep(c) PROVE LocksAreHeld'
  BY <1>3 DEF SyncStep, List, SyncDrop, SyncClosed, SyncStart, SyncUnlock, Stop, Stopped, AllStopped,
              storeVars, mgrVars, callVars
<1>4. CASE Look \/ (\E i \in Ids : Leave(i)) \/ Looked
  BY <1>4 DEF Look, Leave, Looked, storeVars, mgrVars, callVars
<1>5. CASE (\E n \in Slots : DeviceEnds(n)) \/ Close \/ Restart \/ UNCHANGED vars
  BY <1>5 DEF DeviceEnds, Close, Restart, Started, vars, storeVars, mgrVars, callVars
<1>6. QED
  BY <1>1, <1>2, <1>3, <1>4, <1>5, CallersStep

LEMMA KnownStep == ASSUME Following, [Next]_vars PROVE KnownRun'
<1> USE CallersAreNamed DEF Following, Inductive, TypeOK, SyncerHolds, KnownRun, CallTo
<1>1. ASSUME UNCHANGED <<mgrVars, run, stopping>> PROVE KnownRun'
  BY <1>1 DEF mgrVars
<1>2. ASSUME NEW c \in Callers, SyncDrop(c) PROVE KnownRun'
  BY <1>2 DEF SyncDrop, Unwanted
<1>3. ASSUME NEW c \in Callers, SyncStart(c) PROVE KnownRun'
  <2>1. PICK i \in Missing(c), n \in Slots :
          /\ Free(n) /\ cam' = [cam EXCEPT ![n] = <<i, listed[c][i]>>]
          /\ run' = [run EXCEPT ![n] = "running"] /\ devices' = devices \cup {n}
    BY <1>3 DEF SyncStart
  <2>2. <<i, listed[c][i]>> \in Ids \X Addrs
    BY DEF Missing, Present, Lists
  <2>3. stopping' = stopping /\ \A d \in Callers : n \notin stopping[d]
    BY <1>3, <2>1 DEF SyncStart, Free, callVars
  <2>4. QED
    BY <2>1, <2>2, <2>3
<1>4. ASSUME NEW c \in Callers, Stop(c) PROVE KnownRun'
  BY <1>4 DEF Stop, mgrVars, callVars
<1>5. ASSUME NEW c \in Callers, Stopped(c) PROVE KnownRun'
  BY <1>5 DEF Stopped, mgrVars
<1>6. ASSUME NEW n \in Slots, DeviceEnds(n) PROVE KnownRun'
  BY <1>6 DEF DeviceEnds, callVars
<1>7. CASE Close \/ Restart
  BY <1>7 DEF Close, Restart, Started
<1>8. ASSUME NEW c \in Callers, SyncStep(c) PROVE KnownRun'
  <2>1. CASE List(c) \/ SyncClosed(c) \/ AllStopped(c)
    BY <1>1, <2>1 DEF List, SyncClosed, AllStopped
  <2>2. CASE SyncUnlock(c)
    BY <2>2 DEF SyncUnlock
  <2>3. QED
    BY <1>2, <1>3, <1>4, <1>5, <1>8, <2>1, <2>2 DEF SyncStep
<1>9. QED
  BY <1>1, <1>6, <1>7, <1>8, CallersStep
     DEF Edit, SaveStep, Saved, NotSaved, Look, Leave, Looked, vars, callVars

(* Every change that is saved leaves somebody who will call Sync, and only  *)
(* a Sync that has begun, or a manager that is closed, takes that back.     *)
LEMMA ToSyncStays ==
  ASSUME Following, [Next]_vars, SyncToCome, ~SyncToCome', closed' = "no"
  PROVE  \E c \in Callers : SyncDrop(c)
<1> USE CallersAreNamed DEF Following, Inductive, TypeOK, ToSync, CallTo
<1>1. PICK w \in Callers : ToSync(w)
  BY DEF SyncToCome
<1>2. ASSUME ToSync(w)' PROVE FALSE
  BY <1>2 DEF SyncToCome
<1>3. ASSUME NEW c \in Callers, NEW i \in Ids, NEW a \in Addrs \cup {Gone}, Edit(c, i, a),
             pc[c] \in {"idle", "look"}, UNCHANGED changed
      PROVE  FALSE
  BY <1>1, <1>2, <1>3 DEF Edit
<1>4. ASSUME NEW c \in Callers, SaveStep(c) PROVE FALSE
  BY <1>1, <1>2, <1>4 DEF SaveStep, Saved, NotSaved, AfterSave, watchVars
<1>5. ASSUME NEW c \in Callers, SyncStep(c), ~SyncDrop(c) PROVE FALSE
  BY <1>1, <1>2, <1>5 DEF SyncStep, List, SyncClosed, SyncStart, SyncUnlock, Stop, Stopped, AllStopped,
                          watchVars, callVars, mgrVars
<1>6. CASE Look \/ (\E i \in Ids : Leave(i)) \/ Looked
  BY <1>1, <1>2, <1>6 DEF Look, Leave, Looked, callVars
<1>7. CASE Restart
  BY <1>7 DEF Restart, Started, SyncToCome
<1>8. CASE (\E n \in Slots : DeviceEnds(n)) \/ Close \/ UNCHANGED vars
  BY <1>1, <1>2, <1>8 DEF DeviceEnds, Close, vars, watchVars, callVars
<1>9. QED
  BY <1>3, <1>4, <1>5, <1>6, <1>7, <1>8, CallersStep

LEMMA SavesAreSynced ==
  ASSUME Following, [Next]_vars, ~SyncToCome'
  PROVE  file' = file
<1> USE CallersAreNamed DEF Following, Inductive, TypeOK, CallTo
<1>1. ASSUME NEW c \in Callers, Saved(c) PROVE FALSE
  <2>1. ToSync(c)'
    BY <1>1 DEF Saved, AfterSave, ToSync
  <2>2. QED
    BY <2>1 DEF SyncToCome
<1>2. QED
  BY <1>1, CallersStep DEF Edit, SaveStep, NotSaved, SyncStep, List, SyncDrop, SyncClosed, SyncStart,
     SyncUnlock, Stop, Stopped, AllStopped, Look, Leave, Looked, DeviceEnds, Close, Restart, vars, storeVars

(* What a step may do to the devices and the Syncs under way when it is     *)
(* neither one of Sync's own nor one that somebody has to follow.           *)
LEMMA SettledStays ==
  ASSUME Following, UNCHANGED <<file, devices, listed>>, \A n \in devices : cam'[n] = cam[n],
         \A c \in Callers : (pc[c] = "start") <=> (pc'[c] = "start"),
         closed = "no" /\ stale = "no" /\ ~SyncToCome
  PROVE  Settled'
BY DEF Following, Settled, Matches, Id, Present

LEMMA SettledStep == ASSUME Following, [Next]_vars PROVE Settled'
<1> SUFFICES ASSUME closed' = "no", stale' = "no", ~SyncToCome'
             PROVE  Settled'
  BY DEF Settled
<1> USE CallersAreNamed DEF Following, Inductive, TypeOK, SyncerHolds, CallTo
<1>1. file' = file
  BY SavesAreSynced
<1>2. ASSUME NEW c \in Callers, SyncDrop(c) PROVE Settled'
  <2>1. listed' = listed /\ listed[c] = file
    BY <1>2 DEF SyncDrop
  <2>2. \A n \in devices' : Matches(n)'
    BY <1>1, <1>2, <2>1 DEF SyncDrop, Unwanted, Matches, Id
  <2>3. pc'[c] = "start" /\ \A d \in Callers : pc'[d] = "start" => d = c
    BY <1>2 DEF SyncDrop
  <2>4. QED
    BY <1>1, <2>1, <2>2, <2>3 DEF Settled
<1>3. ~Restart
  <2>1. ASSUME Restart PROVE ToSync(Main)'
    BY <2>1 DEF Restart, Started, ToSync
  <2>2. QED
    BY <2>1 DEF SyncToCome
<1>4. CASE ~\E c \in Callers : SyncDrop(c)
  <2>1. closed = "no" /\ stale = "no"
    BY <1>3, <1>4, CallersStep
       DEF Edit, SaveStep, Saved, NotSaved, SyncStep, List, SyncClosed, SyncStart, SyncUnlock, Stop, Stopped,
           AllStopped, Look, Leave, Looked, DeviceEnds, Close, vars, mgrVars
  <2>2. ~SyncToCome
    BY <1>4, ToSyncStays
  <2>3. /\ \A n \in devices : Matches(n)
        /\ \A c \in Callers : pc[c] = "start" => listed[c] = file
        /\ (\A c \in Callers : pc[c] # "start") => Present(file) \subseteq {Id(n) : n \in devices}
    BY <2>1, <2>2 DEF Settled
  <2>4. ASSUME NEW c \in Callers, NEW i \in Ids, NEW a \in Addrs \cup {Gone}, Edit(c, i, a),
               pc[c] \in {"idle", "look"}
        PROVE  Settled'
    BY <1>1, <2>1, <2>2, <2>4, SettledStays DEF Edit, mgrVars
  <2>5. ASSUME NEW c \in Callers, SaveStep(c) PROVE Settled'
    BY <1>1, <2>1, <2>2, <2>5, SettledStays DEF SaveStep, Saved, NotSaved, AfterSave, mgrVars
  <2>6. ASSUME NEW c \in Callers, List(c) PROVE Settled'
    BY <2>2, <2>6 DEF List, SyncToCome, ToSync
  <2>7. ASSUME NEW c \in Callers, SyncClosed(c) PROVE Settled'
    BY <2>1, <2>7 DEF SyncClosed
  <2>8. ASSUME NEW c \in Callers, SyncStart(c) PROVE Settled'
    <3>1. PICK i \in Missing(c), n \in Slots :
            /\ Free(n) /\ cam' = [cam EXCEPT ![n] = <<i, listed[c][i]>>]
            /\ devices' = devices \cup {n}
      BY <2>8 DEF SyncStart
    <3>2. pc[c] = "start" /\ pc' = pc /\ listed' = listed /\ listed[c] = file
      BY <2>3, <2>8 DEF SyncStart, callVars
    <3>3. cam'[n] = <<i, file[i]>> /\ \A m \in Slots \ {n} : cam'[m] = cam[m]
      BY <3>1, <3>2
    <3>4. \A m \in devices' : Matches(m)'
      BY <1>1, <2>3, <3>1, <3>3 DEF Matches, Id
    <3>5. QED
      BY <1>1, <2>3, <3>2, <3>4 DEF Settled
  <2>9. ASSUME NEW c \in Callers, SyncUnlock(c) PROVE Settled'
    <3>1. listed[c] = file /\ Missing(c) = {} /\ devices' = devices /\ cam' = cam
      BY <2>3, <2>9 DEF SyncUnlock
    <3>2. Present(file) \subseteq {Id(n) : n \in devices}
      BY <3>1 DEF Missing
    <3>3. \A d \in Callers : pc'[d] # "start"
      BY <2>9 DEF SyncUnlock
    <3>4. QED
      BY <1>1, <2>3, <3>1, <3>2, <3>3 DEF Settled, Matches, Id, Present
  <2>10. ASSUME NEW c \in Callers, Stop(c) \/ Stopped(c) \/ AllStopped(c) PROVE Settled'
    BY <1>1, <2>1, <2>2, <2>10, SettledStays DEF Stop, Stopped, AllStopped, mgrVars, callVars
  <2>11. CASE Look \/ (\E i \in Ids : Leave(i)) \/ Looked
    BY <1>1, <2>1, <2>2, <2>11, SettledStays DEF Look, Leave, Looked, mgrVars, callVars
  <2>12. ASSUME NEW n \in Slots, DeviceEnds(n) PROVE Settled'
    <3>1. \A m \in devices : cam'[m] = cam[m]
      BY <2>12 DEF DeviceEnds, KnownRun
    <3>2. QED
      BY <1>1, <2>1, <2>2, <2>12, <3>1, SettledStays DEF DeviceEnds, callVars
  <2>13. CASE Close
    BY <2>13 DEF Close
  <2>14. CASE UNCHANGED vars
    BY <1>1, <2>1, <2>2, <2>14, SettledStays DEF vars, mgrVars, callVars
  <2>15. QED
    BY <1>3, <2>4, <2>5, <2>6, <2>7, <2>8, <2>9, <2>10, <2>11, <2>12, <2>13, <2>14, <1>4, CallersStep
       DEF SyncStep
<1>5. QED
  BY <1>2, <1>4

LEMMA FollowingInvariant == Spec => []Following
<1>1. Init => Following
  <2>1. Init => ToSync(Main)
    BY CallersAreNamed DEF Init, ToSync
  <2>2. QED
    BY <2>1, InitInductive, CallersAreNamed
       DEF Init, Following, LocksAreHeld, KnownRun, Settled, SyncToCome
<1>2. Following /\ [Next]_vars => Following'
  BY InductiveStep, LocksStep, KnownStep, SettledStep DEF Following
<1>3. QED
  BY <1>1, <1>2, PTL DEF Spec

(* The store, the manager and every caller keep their types.                *)
THEOREM TypeCorrect == Spec => []TypeOK
BY InductiveInvariant, PTL DEF Inductive

(* Nobody ever reads a camera list that a restart would not bring back,     *)
(* whichever saves fail (Store.List under mu).                              *)
THEOREM ListIsDurable == Spec => []ListedIsSaved
BY InductiveInvariant, PTL DEF Inductive

(* No device is left running that neither the manager knows nor anybody is  *)
(* about to stop, through Syncs and Close in any order.                     *)
THEOREM DevicesAreAccountedFor == Spec => []NoOrphans
BY InductiveInvariant, PTL DEF Inductive

(* When no call is under way, what anyone reads is what is saved, and the   *)
(* devices are exactly the cameras of that list at the addresses it gives,  *)
(* unless a Sync came late with a list that was out of date: whatever       *)
(* order the edits, the saves that fail, the Syncs and the stops come in.   *)
THEOREM DevicesFollowTheList == Spec => []FollowsUnlessStale
<1>1. ASSUME Following, AtRest PROVE cams = file /\ (stale = "no" => InStep)
  <2>1. storeMu = Nobody
    BY <1>1, CallersAreNamed DEF Following, Inductive, TypeOK, LocksAreHeld, AtRest
  <2>2. cams = file
    BY <1>1, <2>1 DEF Following, Inductive, ListedIsSaved
  <2>3. ~SyncToCome
    BY <1>1 DEF AtRest, SyncToCome, ToSync
  <2>4. ASSUME stale = "no" PROVE InStep
    <3>1. /\ \A n \in devices : Matches(n)
          /\ Present(file) \subseteq {Id(n) : n \in devices}
      BY <1>1, <2>3, <2>4 DEF Following, Settled, AtRest
    <3>2. \A n \in devices : /\ cam[n] = <<Id(n), cams[Id(n)]>>
                             /\ Id(n) \in Present(cams)
      BY <1>1, <2>2, <3>1, NamesAssumption
         DEF Following, Inductive, TypeOK, KnownRun, Matches, Id, Present
    <3>3. ASSUME NEW i \in Present(cams) PROVE \E n \in devices : cam[n] = <<i, cams[i]>>
      <4>1. PICK n \in devices : Id(n) = i
        BY <2>2, <3>1
      <4>2. QED
        BY <3>2, <4>1
    <3>4. QED
      BY <3>2, <3>3 DEF InStep
  <2>5. QED
    BY <2>2, <2>4
<1>2. Following => FollowsUnlessStale
  BY <1>1 DEF FollowsUnlessStale
<1>3. QED
  BY <1>2, FollowingInvariant, PTL

-----------------------------------------------------------------------------
(***************************************************************************)
(* The puller over a camera's card, for any card and page size.             *)
(***************************************************************************)
(* What is in use of CardAssumption.                                        *)
LEMMA Ranked == /\ Total \in Nat /\ AtFirst \in 0..Total
                /\ {DirsPerPage, RecsPerPage, MaxDayPages} \subseteq Nat \ {0}
                /\ ListedAt \in [Recs -> Nat] /\ DirListedAt \in [Dirs -> Nat]
                /\ DirOf \in [Recs -> Dirs] /\ Dirs \subseteq Nat /\ Undated \subseteq Dirs
BY CardAssumption DEF Dirs

LEMMA CardIsOfRecs == ASSUME made \in 0..Total, card \subseteq 1..made PROVE card \subseteq Recs
BY Ranked DEF Recs

(* A nonempty set of numbers has a least.                                   *)
LEMMA LeastNumber ==
  ASSUME NEW S \in SUBSET Nat, S # {}
  PROVE  \E x \in S : \A y \in S : x <= y
<1>1. PICK x \in S : \A y \in S : <<y, x>> \notin OpToRel(<, Nat)
  BY WFMin, NatLessThanWellFounded
<1>2. ASSUME NEW y \in S PROVE x <= y
  <2>1. <<y, x>> \notin OpToRel(<, Nat)
    BY <1>1
  <2> QED
    BY <2>1 DEF OpToRel
<1> QED
  BY <1>2

LEMMA FirstIsListed ==
  ASSUME recs # {}, recs \subseteq Recs
  PROVE  First \in recs
<1>1. PICK n \in {ListedAt[r] : r \in recs} : \A m \in {ListedAt[r] : r \in recs} : n <= m
  <2>1. {ListedAt[r] : r \in recs} \in SUBSET Nat /\ {ListedAt[r] : r \in recs} # {}
    BY Ranked
  <2> QED
    BY <2>1, LeastNumber
<1>2. \E r \in recs : \A q \in recs : ListedAt[r] <= ListedAt[q]
  BY <1>1
<1> QED
  BY <1>2 DEF First

(* What gives a place in a list: a number for each, and no two the same.    *)
Ranks(at, S) == \A x, y \in S : at[x] \in Nat /\ (at[x] = at[y] => x = y)

(* Places grow with the set that is listed.                                 *)
LEMMA PlaceIsANumber ==
  ASSUME NEW S, IsFiniteSet(S), NEW at, NEW x
  PROVE  IsFiniteSet(UpTo(x, S, at)) /\ Place(x, S, at) \in Nat
<1>1. UpTo(x, S, at) \in SUBSET S
  BY DEF UpTo
<1> QED
  BY <1>1, FS_Subset, FS_CardinalityType DEF Place

(* The first place is 1.                                                    *)
LEMMA PlacesBegin ==
  ASSUME NEW S, NEW at, Ranks(at, S), IsFiniteSet(S), NEW x \in S
  PROVE  Place(x, S, at) \in Nat /\ Place(x, S, at) >= 1 /\ Place(x, S, at) <= Cardinality(S)
<1>1. {x} \in SUBSET UpTo(x, S, at) /\ UpTo(x, S, at) \in SUBSET S
  BY DEF UpTo, Ranks
<1>2. IsFiniteSet(UpTo(x, S, at)) /\ Place(x, S, at) \in Nat
  BY PlaceIsANumber
<1>3. /\ Cardinality({x}) = 1 /\ Cardinality({x}) <= Cardinality(UpTo(x, S, at))
      /\ Cardinality(UpTo(x, S, at)) <= Cardinality(S)
  BY <1>1, <1>2, FS_Subset, FS_Singleton
<1> QED
  BY <1>2, <1>3 DEF Place

LEMMA PlacesGrow ==
  ASSUME NEW S, NEW T, NEW at, NEW x, NEW y, IsFiniteSet(T), UpTo(x, S, at) \subseteq UpTo(y, T, at)
  PROVE  /\ Place(x, S, at) \in Nat /\ Place(y, T, at) \in Nat
         /\ Place(x, S, at) <= Place(y, T, at)
<1>1. IsFiniteSet(UpTo(y, T, at))
  BY PlaceIsANumber
<1> QED
  BY <1>1, FS_Subset, FS_CardinalityType DEF Place

(* What comes later has a later place, and no two have the same.            *)
LEMMA PlacesAreOrdered ==
  ASSUME NEW S, NEW at, Ranks(at, S), IsFiniteSet(S), NEW x \in S, NEW y \in S,
         Place(x, S, at) <= Place(y, S, at)
  PROVE  at[x] <= at[y] /\ (Place(x, S, at) = Place(y, S, at) => x = y)
<1>1. at[x] \in Nat /\ at[y] \in Nat
  BY DEF Ranks
<1>2. ASSUME NEW a \in S, NEW b \in S, at[a] < at[b] PROVE Place(a, S, at) < Place(b, S, at)
  <2>1. UpTo(a, S, at) \subseteq UpTo(b, S, at) \ {b}
    BY <1>2 DEF UpTo, Ranks
  <2>2. b \in UpTo(b, S, at) /\ IsFiniteSet(UpTo(b, S, at))
    BY PlaceIsANumber DEF UpTo, Ranks
  <2>3. /\ Cardinality(UpTo(b, S, at) \ {b}) = Place(b, S, at) - 1
        /\ IsFiniteSet(UpTo(b, S, at) \ {b})
    BY <2>2, FS_RemoveElement DEF Place
  <2>4. Place(a, S, at) <= Place(b, S, at) - 1
    BY <2>1, <2>3, FS_Subset DEF Place
  <2> QED
    BY <2>4, PlaceIsANumber
<1>3. at[x] <= at[y]
  BY <1>1, <1>2, PlaceIsANumber
<1>4. ASSUME Place(x, S, at) = Place(y, S, at) PROVE x = y
  <2>1. ~ (at[x] < at[y])
    BY <1>2, <1>4, PlaceIsANumber
  <2> QED
    BY <1>1, <1>3, <2>1 DEF Ranks
<1> QED
  BY <1>3, <1>4

(* Between two places are no more than there are places.                    *)
LEMMA FewBetween ==
  ASSUME NEW S, NEW at, Ranks(at, S), IsFiniteSet(S), NEW low \in Nat, NEW n \in Nat,
         NEW L \in SUBSET S, \A x \in L : Place(x, S, at) \in low + 1..low + n
  PROVE  IsFiniteSet(L) /\ Cardinality(L) \in Nat /\ Cardinality(L) <= n
<1> DEFINE f == [x \in L |-> Place(x, S, at)]
<1>1. f \in [L -> low + 1..low + n]
  OBVIOUS
<1>2. \A x, y \in L : f[x] = f[y] => x = y
  <2> SUFFICES ASSUME NEW x \in L, NEW y \in L, f[x] = f[y] PROVE x = y
    OBVIOUS
  <2>1. Place(x, S, at) = Place(y, S, at) /\ Place(x, S, at) <= Place(y, S, at)
    BY PlaceIsANumber
  <2> QED
    BY <2>1, PlacesAreOrdered
<1>3. f \in Injection(L, low + 1..low + n)
  BY <1>1, <1>2 DEF Injection, IsInjective
<1>4. IsFiniteSet(low + 1..low + n) /\ Cardinality(low + 1..low + n) = n
  <2>1. IsFiniteSet(low + 1..low + n) /\ Cardinality(low + 1..low + n) = IF low + 1 > low + n THEN 0 ELSE (low + n) - (low + 1) + 1
    BY FS_Interval
  <2> QED
    BY <2>1
<1> HIDE DEF f
<1>5. IsFiniteSet(L) /\ Cardinality(L) <= n
  BY <1>3, <1>4, FS_Injection
<1> QED
  BY <1>5, FS_CardinalityType

(* What is not among the first from, and comes no later than something that is  *)
(* listed, counts for the page that begins there.                            *)
LEMMA PageBegins ==
  ASSUME NEW S, NEW at, Ranks(at, S), IsFiniteSet(S), NEW from \in Nat, NEW n \in Nat,
         NEW L \in SUBSET S, \A x \in L : Place(x, S, at) <= from + n
  PROVE  Cardinality(L) \in Nat /\ Cardinality(L) <= from + Cardinality(OnPage(S, at, from, n))
<1> DEFINE page0 == OnPage(S, at, from, n)
           low   == {x \in L : Place(x, S, at) <= from}
<1>1. \A x \in S : Place(x, S, at) \in Nat /\ Place(x, S, at) >= 1
  BY PlacesBegin
<1>2. L \subseteq low \cup page0
  BY <1>1 DEF OnPage
<1>3. IsFiniteSet(low) /\ Cardinality(low) \in Nat /\ Cardinality(low) <= from
  <2>1. \A x \in low : Place(x, S, at) \in 0 + 1..0 + from
    BY <1>1
  <2> QED
    BY <2>1, FewBetween
<1>4. IsFiniteSet(page0) /\ Cardinality(page0) \in Nat
  <2>1. page0 \in SUBSET S
    BY DEF OnPage
  <2> QED
    BY <2>1, FS_Subset, FS_CardinalityType
<1> HIDE DEF low, page0
<1>5. /\ IsFiniteSet(low \cup page0)
      /\ Cardinality(low \cup page0) <= Cardinality(low) + Cardinality(page0)
  <2>1. IsFiniteSet(low \cap page0) /\ Cardinality(low \cap page0) \in Nat
    BY <1>3, FS_Intersection, FS_CardinalityType
  <2>2. /\ IsFiniteSet(low \cup page0)
        /\ Cardinality(low \cup page0)
             = Cardinality(low) + Cardinality(page0) - Cardinality(low \cap page0)
    BY <1>3, <1>4, FS_Union
  <2> QED
    BY <1>3, <1>4, <2>1, <2>2
<1>6. IsFiniteSet(L) /\ Cardinality(L) <= Cardinality(low \cup page0) /\ Cardinality(L) \in Nat
  BY <1>2, <1>5, FS_Subset, FS_CardinalityType
<1>7. Cardinality(low \cup page0) \in Nat
  BY <1>5, FS_CardinalityType
<1> QED
  BY <1>3, <1>4, <1>5, <1>6, <1>7 DEF page0

(* What is on a page of n after the first from is one of the first from     *)
(* and however many the page has.                                           *)
LEMMA PageIsFull ==
  ASSUME NEW S, NEW at, Ranks(at, S), IsFiniteSet(S), NEW from \in Nat, NEW n \in Nat,
         NEW q \in OnPage(S, at, from, n)
  PROVE  Place(q, S, at) <= from + Cardinality(OnPage(S, at, from, n))
<1>1. UpTo(q, S, at) \in SUBSET S /\ Place(q, S, at) <= from + n
  BY DEF UpTo, OnPage
<1>2. ASSUME NEW x \in UpTo(q, S, at) PROVE Place(x, S, at) <= from + n
  <2>1. UpTo(x, S, at) \subseteq UpTo(q, S, at)
    BY DEF UpTo, OnPage, Ranks
  <2>2. Place(x, S, at) <= Place(q, S, at) /\ {Place(x, S, at), Place(q, S, at)} \subseteq Nat
    BY <2>1, PlacesGrow
  <2> QED
    BY <1>1, <2>2
<1> QED
  BY <1>1, <1>2, PageBegins DEF Place

(* A page that something comes after has all it can have.                   *)
LEMMA PageIsWhole ==
  ASSUME NEW S, NEW at, Ranks(at, S), IsFiniteSet(S), NEW from \in Nat, NEW n \in Nat,
         NEW q \in S, Place(q, S, at) > from + n
  PROVE  /\ Cardinality(OnPage(S, at, from, n)) >= n
         /\ \A x \in OnPage(S, at, from, n) : at[x] < at[q]
<1> DEFINE first == {x \in S : Place(x, S, at) <= from + n}
           after == {x \in S : ~ (Place(x, S, at) <= from + n)}
<1>1. \A x \in S : Place(x, S, at) \in Nat
  BY PlaceIsANumber
<1>2. PICK b \in after : \A x \in after : at[b] <= at[x]
  <2>1. {at[x] : x \in after} \in SUBSET Nat /\ {at[x] : x \in after} # {}
    BY <1>1 DEF Ranks
  <2>2. PICK k \in {at[x] : x \in after} : \A m \in {at[x] : x \in after} : k <= m
    BY <2>1, LeastNumber
  <2> QED
    BY <2>2
<1>3. UpTo(b, S, at) \ {b} \subseteq first
  BY <1>2 DEF UpTo, Ranks
<1>4. b \in UpTo(b, S, at) /\ IsFiniteSet(UpTo(b, S, at))
  <2>1. b \in S /\ at[b] \in Nat
    BY DEF Ranks
  <2>2. b \in UpTo(b, S, at)
    BY <2>1 DEF UpTo
  <2> QED
    BY <2>2, PlaceIsANumber
<1>5. Cardinality(UpTo(b, S, at) \ {b}) = Place(b, S, at) - 1
  BY <1>4, FS_RemoveElement DEF Place
<1>6. IsFiniteSet(first)
  BY FS_Subset
<1>7. Place(b, S, at) - 1 <= Cardinality(first)
  BY <1>3, <1>5, <1>6, FS_Subset
<1>8. Cardinality(first) \in Nat /\ Cardinality(first) <= from + Cardinality(OnPage(S, at, from, n))
  BY PageBegins
<1>9. Cardinality(OnPage(S, at, from, n)) \in Nat
  <2>1. OnPage(S, at, from, n) \in SUBSET S
    BY DEF OnPage
  <2> QED
    BY <2>1, FS_Subset, FS_CardinalityType
<1>10. Cardinality(OnPage(S, at, from, n)) >= n
  BY <1>1, <1>2, <1>7, <1>8, <1>9
<1>11. ASSUME NEW x \in OnPage(S, at, from, n) PROVE at[x] < at[q]
  <2>1. x \in S /\ Place(x, S, at) <= from + n
    BY DEF OnPage
  <2>2. Place(x, S, at) <= Place(q, S, at) /\ Place(x, S, at) # Place(q, S, at)
    BY <1>1, <2>1
  <2>3. at[x] <= at[q] /\ x # q
    BY <2>1, <2>2, PlacesAreOrdered
  <2> QED
    BY <2>1, <2>3 DEF Ranks
<1> QED
  BY <1>10, <1>11

-----------------------------------------------------------------------------
(* The directory in hand, and the places reached in it.                     *)

LEMMA CardIsFinite ==
  ASSUME made \in 0..Total, card \subseteq 1..made, NEW d
  PROVE  /\ DayListing(d) \in SUBSET Recs /\ IsFiniteSet(DayListing(d))
         /\ Ranks(ListedAt, DayListing(d))
<1>1. 1..made \subseteq Recs /\ IsFiniteSet(1..made)
  <2>1. made \in Nat /\ made <= Total /\ Total \in Nat
    BY Ranked
  <2> QED
    BY <2>1, FS_Interval DEF Recs
<1>2. DayListing(d) \in SUBSET (1..made)
  BY DEF DayListing
<1>3. DayListing(d) \in SUBSET Recs /\ IsFiniteSet(DayListing(d))
  BY <1>1, <1>2, FS_Subset
<1> QED
  BY <1>3, CardAssumption DEF Ranks, IsInjective

LEMMA DayStays ==
  ASSUME UNCHANGED days
  PROVE  Day' = Day /\ DaysToGo' = DaysToGo
BY DEF Day, DaysToGo

(* What the camera records comes after everything, what it deletes lets the *)
(* rest move up: no place that was reached is lost.                         *)
LEMMA ReachedStays ==
  ASSUME OldestFirst, OnTheCard, OnTheCard',
         card' \subseteq card \cup {made + 1}, days' = days, Reached' = Reached,
         NEW r \in 1..made, DirOf[r] = Day, Before(r), Reached \in Nat
  PROVE  Before(r)'
<1> DEFINE all == DayListing(Day)
<1>1. UpTo(r, all', ListedAt) \subseteq UpTo(r, all, ListedAt)
  <2> SUFFICES ASSUME NEW c \in UpTo(r, all', ListedAt) PROVE c \in card
    BY DayStays DEF UpTo, DayListing
  <2>1. c \in card' /\ DirOf[c] = Day /\ ListedAt[c] <= ListedAt[r]
    BY DayStays DEF UpTo, DayListing
  <2>2. c \in Recs /\ r \in Recs
    BY <2>1, Ranked DEF OnTheCard, Recs
  <2>3. ListedAt[c] \in Nat /\ ListedAt[r] \in Nat
    BY <2>2, Ranked
  <2>4. ~(r < c)
    BY <2>1, <2>2, <2>3 DEF OldestFirst
  <2> QED
    BY <2>1, <2>4 DEF OnTheCard
<1>2. IsFiniteSet(all)
  BY CardIsFinite DEF OnTheCard
<1>3. /\ Place(r, all', ListedAt) <= Place(r, all, ListedAt)
      /\ {Place(r, all', ListedAt), Place(r, all, ListedAt)} \subseteq Nat
  BY <1>1, <1>2, PlacesGrow
<1>4. Place(r, all', ListedAt) = Place(r, all, ListedAt)'
  BY DEF Place, UpTo
<1> QED
  BY <1>3, <1>4 DEF Before

(* A step within a day: the page in hand shrinks, and what is newly held is *)
(* off it, held before, or an old device's.                                 *)
LEMMA WithinTheDay ==
  ASSUME OldestFirst, PullInductive, OnTheCard', made <= made',
         card' \subseteq card \cup {made + 1}, recs' \subseteq recs,
         UNCHANGED <<pullPc, days, start, size, held>>,
         \A r \in archive' \ (held' \cup late') : r \in archive \ (held \cup late) \/ r \in recs \ recs'
  PROVE  PullInductive'
<1>1. CASE pullPc \notin {"list", "get"}
  BY <1>1 DEF PullInductive, OnTheCard, InTheDay, PageInHand, FetchedBehind
<1>2. CASE pullPc \in {"list", "get"}
  <2>1. Reached \in Nat /\ Reached' = Reached
    BY <1>2 DEF PullInductive, InTheDay, Reached
  <2>2. ASSUME NEW r \in 1..made, DirOf[r] = Day, Before(r) PROVE Before(r)'
    BY <2>1, <2>2, ReachedStays DEF PullInductive
  <2>3. InTheDay'
    BY DEF PullInductive, InTheDay
  <2>4. \A r \in recs : r \in 1..made /\ DirOf[r] = Day /\ Before(r)
    BY DEF PullInductive, PageInHand
  <2>5. PageInHand'
    BY <2>2, <2>4, DayStays DEF PullInductive, PageInHand, OnTheCard
  <2>6. ASSUME NEW r \in archive' \ (held' \cup late'), DirOf[r] = Day
        PROVE  r \notin recs' /\ r \in 1..made /\ Before(r)
    <3>1. CASE r \in archive \ (held \cup late)
      BY <1>2, <2>6, <3>1 DEF PullInductive, FetchedBehind, OnTheCard
    <3>2. CASE r \in recs \ recs'
      BY <2>4, <3>2
    <3> QED
      BY <2>6, <3>1, <3>2
  <2>7. FetchedBehind'
    BY <1>2, <2>2, <2>6, DayStays DEF FetchedBehind
  <2> QED
    BY <2>3, <2>5, <2>7 DEF PullInductive
<1> QED
  BY <1>1, <1>2

(* Between days nothing is in hand.                                         *)
LEMMA OutOfTheDay ==
  ASSUME OnTheCard', pullPc' \notin {"list", "get"}, recs' = {}, size' \in Nat
  PROVE  PullInductive'
BY DEF PullInductive, InTheDay, PageInHand, FetchedBehind

LEMMA PullsStart == ASSUME PullInit PROVE PullInductive
BY Ranked DEF PullInit, PullInductive, OnTheCard, InTheDay, PageInHand,
       FetchedBehind

(* The camera, and the device that is being replaced.                       *)
LEMMA WorldStep ==
  ASSUME OldestFirst, PullInductive,
         \/ Records \/ Deletes \/ Updated \/ Polled
         \/ OldStores \/ OldStops \/ UNCHANGED pullVars
  PROVE  PullInductive'
<1> USE DEF PullInductive, OnTheCard, pass, older
<1>1. CASE Records
  <2>1. OnTheCard'
    BY <1>1, Ranked DEF Records
  <2> QED
    BY <1>1, <2>1, WithinTheDay DEF Records
<1>2. CASE Deletes
  <2>1. OnTheCard' /\ card' \subseteq card
    BY <1>2 DEF Deletes
  <2> QED
    BY <1>2, <2>1, WithinTheDay DEF Deletes
<1>3. CASE OldStores
  <2>1. OnTheCard'
    BY <1>3 DEF OldStores, world
  <2> QED
    BY <1>3, <2>1, WithinTheDay DEF OldStores, world
<1>4. CASE Updated \/ Polled \/ OldStops \/ UNCHANGED pullVars
  <2>1. UNCHANGED <<made, card, archive, recs, pullPc, days, start, size, held, late>>
    BY <1>4 DEF Updated, Polled, OldStops, pullVars, world
  <2> QED
    BY <2>1, WithinTheDay
<1> QED
  BY <1>1, <1>2, <1>3, <1>4

(* What leaves the day, or is not in one.                                   *)
LEMMA BetweenDaysStep ==
  ASSUME PullInductive,
         \/ Begin \/ DaysPage \/ DaysDone \/ PassFails \/ NoListing
         \/ Restarted \/ Replace
  PROVE  PullInductive'
<1>1. UNCHANGED <<made, card, archive, size>> /\ pullPc' \notin {"list", "get"} /\ recs' = {}
  <2> USE DEF PassOver, world
  <2>1. CASE Begin \/ DaysPage
    BY <2>1 DEF Begin, DaysPage, Exchange, PullInductive, PageInHand
  <2>2. CASE DaysDone \/ PassFails \/ NoListing
    BY <2>2 DEF DaysDone, PassFails, NoListing
  <2>3. CASE Restarted \/ Replace
    BY <2>3 DEF Restarted, Replace, NewDevice
  <2> QED
    BY <2>1, <2>2, <2>3
<1>2. OnTheCard' /\ size' \in Nat
  BY <1>1 DEF PullInductive, OnTheCard, InTheDay
<1> QED
  BY <1>1, <1>2, OutOfTheDay

(* The names are read: what is held from here on is no surprise.            *)
LEMMA DayBeginsStep ==
  ASSUME PullInductive, DayBegins
  PROVE  PullInductive'
<1>1. UNCHANGED <<made, card, archive, days, size>> /\ pullPc' = "list" /\ recs' = {} /\ start' = 0
  BY DEF DayBegins, world, PullInductive, PageInHand
<1>2. \A r \in archive' \ (held' \cup late') : DirOf[r] # Day'
  BY <1>1, DayStays DEF DayBegins, HeldOf
<1> QED
  BY <1>1, <1>2 DEF PullInductive, OnTheCard, InTheDay, PageInHand, FetchedBehind

(* A page has what lies beyond every place that was reached.                *)
LEMMA DayPageStep ==
  ASSUME PullInductive, DayPage
  PROVE  PullInductive'
<1> DEFINE all == DayListing(Day)
           got == OnPage(all, ListedAt, start, RecsPerPage)
<1>1. /\ UNCHANGED <<made, card, archive, start, held, late>> /\ pullPc = "list" /\ recs = {}
      /\ start \in Nat /\ size \in Nat
  BY DEF DayPage, Exchange, world, older, PullInductive, InTheDay, PageInHand
<1>2. OnTheCard'
  BY <1>1 DEF PullInductive, OnTheCard
<1>3. all \in SUBSET Recs /\ IsFiniteSet(all) /\ Ranks(ListedAt, all)
  BY CardIsFinite DEF PullInductive, OnTheCard
<1>4. CASE got # {}
  <2>1. pullPc' = "get" /\ recs' = got /\ size' = Cardinality(got) /\ days' = days
    BY <1>4 DEF DayPage
  <2>2. got \in SUBSET all /\ Cardinality(got) \in Nat
    <3>1. got \in SUBSET all
      BY DEF OnPage
    <3> QED
      BY <1>3, <3>1, FS_Subset, FS_CardinalityType
  <2>3. \A r : Before(r)' <=> Place(r, all, ListedAt) <= start + Cardinality(got)
    BY <1>1, <2>1, DayStays DEF Before, Reached, Place, UpTo, DayListing
  <2>4. \A r \in got : r \in 1..made /\ DirOf[r] = Day /\ Before(r)'
    <3>1. \A r \in got : Place(r, all, ListedAt) <= start + Cardinality(got)
      BY <1>1, <1>3, PageIsFull, Ranked
    <3> QED
      BY <2>2, <2>3, <3>1 DEF DayListing, PullInductive, OnTheCard
  <2>5. ASSUME NEW r \in archive \ (held \cup late), DirOf[r] = Day
        PROVE  r \notin got /\ Before(r)'
    <3>1. Place(r, all, ListedAt) <= start
      BY <1>1, <2>5 DEF PullInductive, FetchedBehind, Before, Reached
    <3>2. Place(r, all, ListedAt) \in Nat
      BY <1>3, PlaceIsANumber
    <3> QED
      BY <1>1, <2>2, <2>3, <3>1, <3>2 DEF OnPage
  <2> QED
    BY <1>1, <1>2, <2>1, <2>2, <2>4, <2>5, DayStays
    DEF PullInductive, InTheDay, PageInHand, FetchedBehind
<1>5. CASE got = {}
  <2>1. pullPc' = "day" /\ UNCHANGED <<recs, size>>
    BY <1>5 DEF DayPage
  <2> QED
    BY <1>1, <1>2, <2>1, OutOfTheDay
<1> QED
  BY <1>4, <1>5

(* One recording of the page: what is fetched was on it.                    *)
LEMMA RecordingStep ==
  ASSUME OldestFirst, PullInductive,
         Passed \/ Downloaded \/ NotDownloaded
  PROVE  PullInductive'
<1>1. /\ UNCHANGED <<made, card, pullPc, days, start, size, held, late>>
      /\ recs # {} /\ recs' = recs \ {First}
      /\ archive' = archive \/ archive' = archive \cup {First}
  BY DEF Passed, Downloaded, NotDownloaded, LookedAt, world, older
<1>2. First \in recs /\ First \in 1..made
  <2>1. recs \subseteq 1..made /\ recs \subseteq Recs
    BY Ranked DEF PullInductive, PageInHand, OnTheCard, Recs
  <2> QED
    BY <1>1, <2>1, FirstIsListed
<1>3. OnTheCard'
  <2>1. archive' \subseteq 1..made
    BY <1>1, <1>2 DEF PullInductive, OnTheCard
  <2> QED
    BY <1>1, <2>1 DEF PullInductive, OnTheCard
<1>4. made <= made'
  BY <1>1, Ranked DEF PullInductive, OnTheCard
<1> QED
  BY <1>1, <1>2, <1>3, <1>4, WithinTheDay

(* The next page begins where this one ended.                               *)
LEMMA PageDoneStep ==
  ASSUME PullInductive, PageDone
  PROVE  PullInductive'
<1>1. /\ UNCHANGED <<made, card, archive, held, size, late, recs>>
      /\ pullPc = "get" /\ recs = {} /\ start \in Nat /\ size \in Nat
  BY DEF PageDone, world, older, PullInductive, InTheDay
<1>2. OnTheCard'
  BY <1>1 DEF PullInductive, OnTheCard
<1>3. CASE pullPc' = "list" /\ start' = start + size /\ days' = days
  <2>1. Reached' = Reached
    BY <1>1, <1>3 DEF Reached
  <2>2. \A r : Before(r)' <=> Before(r)
    BY <1>1, <1>3, <2>1, DayStays DEF Before, Place, UpTo, DayListing
  <2> QED
    BY <1>1, <1>2, <1>3, <2>2, DayStays DEF PullInductive, InTheDay, PageInHand, FetchedBehind
<1>4. CASE pullPc' = "day"
  BY <1>1, <1>2, <1>4, OutOfTheDay
<1> QED
  BY <1>3, <1>4 DEF PageDone, NextOffset

LEMMA PullsStep ==
  ASSUME OldestFirst, PullInductive, [PullNext]_pullVars
  PROVE  PullInductive'
BY WorldStep, BetweenDaysStep, DayBeginsStep, DayPageStep, RecordingStep, PageDoneStep
   DEF PullNext, PullOnce

(* README.md:25: a recording that is held is not asked for again, unless a  *)
(* device that was being stopped stored it after the archive was asked -    *)
(* whatever the camera records and deletes between two pages and whatever   *)
(* fails or restarts, if the camera lists a directory oldest first.         *)
THEOREM FetchedOnlyOnce ==
  ASSUME OldestFirst
  PROVE  PullSpec => []FetchedOnce
<1>1. PullInit => PullInductive
  BY PullsStart
<1>2. PullInductive /\ [PullNext]_pullVars => PullInductive'
  BY PullsStep
<1>3. PullInductive => FetchedOnce
  <2> SUFFICES ASSUME PullInductive, pullPc = "get", recs # {}, Wanted(First)
               PROVE  First \notin archive \ late
    BY DEF FetchedOnce
  <2>1. First \in recs /\ DirOf[First] = Day
    BY FirstIsListed, Ranked DEF PullInductive, PageInHand, OnTheCard, Recs
  <2> QED
    BY <2>1 DEF PullInductive, FetchedBehind, Wanted
<1> QED
  BY <1>1, <1>2, <1>3, PTL DEF PullSpec

-----------------------------------------------------------------------------
(* The days a pass goes through.                                            *)

LEMMA DirsAreFinite ==
  /\ IsFiniteSet(Dirs) /\ Cardinality(Dirs) \in Nat
  /\ \A D \in SUBSET Dirs : IsFiniteSet(D) /\ Cardinality(D) \in Nat /\ Cardinality(D) <= Cardinality(Dirs)
<1> DEFINE f == [r \in Recs |-> DirOf[r]]
<1>1. f \in Surjection(Recs, Dirs)
  BY DEF Surjection, Dirs
<1>2. IsFiniteSet(Recs)
  BY Ranked, FS_Interval DEF Recs
<1> HIDE DEF f
<1>3. IsFiniteSet(Dirs)
  BY <1>1, <1>2, FS_Surjection
<1> QED
  BY <1>3, FS_Subset, FS_CardinalityType

LEMMA DaysAreRanked ==
  ASSUME made \in 0..Total, card \subseteq 1..made
  PROVE  /\ DaysListing \in SUBSET Dirs /\ IsFiniteSet(DaysListing)
         /\ Cardinality(DaysListing) \in Nat /\ Cardinality(DaysListing) <= Cardinality(Dirs)
         /\ Ranks(DirListedAt, DaysListing)
<1>1. card \subseteq Recs
  BY Ranked DEF Recs
<1>2. DaysListing \in SUBSET Dirs
  BY <1>1 DEF DaysListing, Dirs
<1> QED
  BY <1>2, DirsAreFinite, CardAssumption DEF Ranks, IsInjective

LEMMA DayIsLeast ==
  ASSUME DaysToGo # {}
  PROVE  Day \in DaysToGo /\ Day \in Dirs /\ \A d \in DaysToGo : Day <= d
<1>1. DaysToGo \in SUBSET Nat /\ DaysToGo \subseteq Dirs
  BY Ranked DEF DaysToGo
<1>2. \E d \in DaysToGo : \A e \in DaysToGo : d <= e
  BY <1>1, LeastNumber
<1> QED
  BY <1>1, <1>2 DEF Day, Min

LEMMA DayIsOver ==
  ASSUME days \in [Dirs -> Nat], DaysToGo # {}, DayOver
  PROVE  /\ days' \in [Dirs -> Nat] /\ DaysToGo' \subseteq DaysToGo
         /\ \A d \in Dirs : d # Day => days'[d] = days[d]
<1>1. Day \in Dirs /\ days[Day] > 0
  BY DayIsLeast DEF DaysToGo
<1> QED
  BY <1>1 DEF DayOver, DaysToGo

LEMMA DaysAreAdded ==
  ASSUME days \in [Dirs -> Nat], NEW D, With(D)
  PROVE  /\ days' \in [Dirs -> Nat]
         /\ \A d \in Dirs : days'[d] > 0 <=> days[d] > 0 \/ d \in D
BY DEF With

-----------------------------------------------------------------------------
(* The types of the pass.                                                   *)

LEMMA Bounds == {AtFirst, MaxPullFaults, MaxDeleted} \subseteq Nat
BY CardAssumption

LEMMA NoneToGo ==
  /\ NoDays \in [Dirs -> Nat] /\ \A d \in Dirs : NoDays[d] = 0
  /\ Cardinality({}) = 0
BY FS_EmptySet DEF NoDays

LEMMA TypedStart == ASSUME PullInit PROVE PullTypeOK /\ HandsOn
<1>1. DaysToGo = {}
  BY NoneToGo DEF PullInit, DaysToGo
<1>2. /\ made \in 0..Total /\ deleted \in 0..MaxDeleted /\ pullFaults \in 0..MaxPullFaults
      /\ page \in 0..MaxDayPages /\ size \in 0..RecsPerPage /\ Cardinality(recs) <= size
  BY Ranked, Bounds, NoneToGo DEF PullInit
<1>3. /\ card \subseteq 1..made /\ days \in [Dirs -> Nat] /\ recs = {}
      /\ held = {} /\ archive = {} /\ owed = {} /\ late = {} /\ start \in Nat
  BY NoneToGo DEF PullInit
<1> QED
  BY <1>1, <1>2, <1>3 DEF PullInit, PullTypeOK, HandsOn

(* A step that leaves the pass where it is.                                 *)
LEMMA TypedAside ==
  ASSUME PullTypeOK, HandsOn,
         \/ Records \/ Deletes \/ Updated \/ Polled
         \/ OldStores \/ OldStops \/ UNCHANGED pullVars
  PROVE  PullTypeOK' /\ HandsOn'
<1>1. UNCHANGED <<pullPc, page, start, days, held, recs, size, more, pullError>>
  BY DEF Records, Deletes, Updated, Polled, OldStores, OldStops, pullVars, pass, world
<1>2. Day' = Day /\ DaysToGo' = DaysToGo
  BY <1>1, DayStays
<1>3. HandsOn'
  BY <1>1, <1>2 DEF HandsOn
<1>4. /\ made' \in 0..Total /\ made <= made' /\ card' \subseteq 1..made' /\ deleted' \in 0..MaxDeleted
      /\ listing' \in BOOLEAN /\ online' \in BOOLEAN /\ pullFaults' \in 0..MaxPullFaults
      /\ archive \subseteq archive' /\ archive' \subseteq Storable /\ owed' \subseteq 1..made'
      /\ overlap' \in BOOLEAN /\ late' \subseteq archive'
  <2> USE DEF PullTypeOK
  <2>1. CASE Records
    <3>1. /\ made < Total /\ made' = made + 1 /\ card' = card \cup {made'}
          /\ UNCHANGED <<deleted, listing, online, pullFaults, archive, owed, overlap, late>>
      BY <2>1 DEF Records, older
    <3>2. made' \in 0..Total /\ made <= made' /\ 1..made \subseteq 1..made' /\ made' \in 1..made'
      BY <3>1, Ranked
    <3> QED
      BY <3>1, <3>2
  <2>2. CASE Deletes
    <3>1. /\ UNCHANGED <<made, listing, online, pullFaults, archive, overlap, late>>
          /\ card' \subseteq card /\ owed' = {} /\ deleted < MaxDeleted /\ deleted' = deleted + 1
      BY <2>2 DEF Deletes, older
    <3>2. deleted' \in 0..MaxDeleted /\ made <= made'
      BY <3>1, Bounds
    <3> QED
      BY <3>1, <3>2
  <2>3. CASE Updated \/ Polled
    <3>1. /\ UNCHANGED <<made, card, deleted, archive, owed, overlap, late>>
          /\ listing' = listing \/ listing' = TRUE
          /\ online' = online \/ online' = ~online
          /\ pullFaults' = pullFaults \/ (pullFaults' = pullFaults + 1 /\ pullFaults' <= MaxPullFaults)
      BY <2>3 DEF Updated, Polled, older
    <3>2. pullFaults' \in 0..MaxPullFaults /\ made <= made'
      BY <3>1, Bounds
    <3>3. listing' \in BOOLEAN /\ online' \in BOOLEAN
      BY <3>1
    <3> QED
      BY <3>1, <3>2, <3>3
  <2>4. CASE OldStores \/ OldStops
    <3>1. /\ UNCHANGED <<made, card, deleted, listing, online, owed>> /\ overlap' \in BOOLEAN
          /\ pullFaults' = pullFaults \/ (pullFaults < MaxPullFaults /\ pullFaults' = pullFaults + 1)
          /\ \/ archive' = archive /\ late' = late
             \/ \E r \in Storable : archive' = archive \cup {r} /\ late' = late \cup {r}
      <4>1. CASE OldStores
        BY <4>1 DEF OldStores, world
      <4>2. CASE OldStops
        BY <4>2 DEF OldStops, world
      <4> QED
        BY <2>4, <4>1, <4>2
    <3>2. pullFaults' \in 0..MaxPullFaults /\ made <= made'
      BY <3>1, Bounds
    <3>3. archive \subseteq archive' /\ archive' \subseteq Storable /\ late' \subseteq archive'
      BY <3>1
    <3> QED
      BY <3>1, <3>2, <3>3
  <2>5. CASE UNCHANGED pullVars
    BY <2>5 DEF pullVars, world, older
  <2> QED
    BY <2>1, <2>2, <2>3, <2>4, <2>5
<1>5. recs' \subseteq 1..made' /\ Cardinality(recs') <= size'
  BY <1>1, <1>4 DEF PullTypeOK
<1> QED
  BY <1>1, <1>2, <1>3, <1>4, <1>5 DEF PullTypeOK

(* A pass that begins or ends.                                              *)
LEMMA TypedEnds ==
  ASSUME PullTypeOK, HandsOn,
         Begin \/ DaysDone \/ PassFails \/ NoListing \/ Restarted \/ Replace
  PROVE  PullTypeOK' /\ HandsOn'
<1>1. /\ pullPc' \in {"idle", "days"} /\ days' = NoDays /\ recs' = {} /\ UNCHANGED <<made, card, deleted, listing, held, size, more, archive, late>>
      /\ online' \in BOOLEAN /\ page' \in 0..MaxDayPages /\ start' \in Nat /\ owed' \subseteq 1..made'
      /\ pullFaults' \in 0..MaxPullFaults /\ overlap' \in BOOLEAN
      /\ pullError' \in {"none", "failed", "noListing"}
  <2> USE Bounds, Ranked DEF PullTypeOK, HandsOn, world, pass, older, PassOver
  <2>1. CASE Begin
    <3>1. owed' \subseteq card /\ UNCHANGED made
      BY <2>1 DEF Begin
    <3>2. page' \in 0..MaxDayPages /\ start' \in Nat
      BY <2>1 DEF Begin
    <3>3. pullPc' = "days" /\ days' = NoDays /\ recs' = {} /\ UNCHANGED <<world, held, size, more, archive, pullFaults, pullError, overlap, late>>
      BY <2>1 DEF Begin
    <3> QED
      BY <3>1, <3>2, <3>3
  <2>2. CASE DaysDone \/ NoListing
    BY <2>2 DEF DaysDone, NoListing
  <2>3. CASE PassFails
    BY <2>3 DEF PassFails
  <2>4. CASE Restarted \/ Replace
    <3>1. /\ pullFaults < MaxPullFaults /\ pullFaults' = pullFaults + 1 /\ online' = FALSE
          /\ PassOver("none") /\ overlap' \in BOOLEAN
          /\ UNCHANGED <<made, card, deleted, listing, page, start, held, size, more, archive, late>>
      BY <2>4 DEF Restarted, Replace, NewDevice
    <3>2. pullFaults' \in 0..MaxPullFaults
      BY <3>1, Bounds
    <3> QED
      BY <3>1, <3>2
  <2> QED
    BY <2>1, <2>2, <2>3, <2>4
<1>2. DaysToGo' = {}
  BY <1>1, NoneToGo DEF DaysToGo
<1> QED
  BY <1>1, <1>2, NoneToGo DEF PullTypeOK, HandsOn

LEMMA TypedDays ==
  ASSUME PullTypeOK, HandsOn, DaysPage \/ DayBegins
  PROVE  PullTypeOK' /\ HandsOn'
<1>1. CASE DaysPage
  <2> DEFINE got == Valid(OnPage(DaysListing, DirListedAt, start, DirsPerPage))
  <2>1. /\ UNCHANGED <<world, pullFaults, held, recs, size, more, archive, pullError, owed, overlap, late>>
        /\ recs = {} /\ pullPc' \in {"days", "day"} /\ With(got)
    BY <1>1 DEF DaysPage, Exchange, older, HandsOn
  <2>2. got \subseteq Dirs \ Undated /\ Cardinality(got) \in Nat
    <3>1. got \in SUBSET DaysListing /\ \A d \in got : Dated(d)
      BY DEF Valid, OnPage
    <3>2. DaysListing \in SUBSET Dirs
      BY DaysAreRanked DEF PullTypeOK
    <3> QED
      BY <3>1, <3>2, DirsAreFinite DEF Dated
  <2> HIDE DEF got
  <2>3. page' \in 0..MaxDayPages /\ start' \in Nat
    BY <1>1, <2>2, Ranked DEF DaysPage, NextStart, PullTypeOK, got
  <2>4. days' \in [Dirs -> Nat] /\ DaysToGo' \cap Undated = {}
    <3>1. days' \in [Dirs -> Nat] /\ \A d \in Dirs : days'[d] > 0 <=> days[d] > 0 \/ d \in got
      BY <2>1, DaysAreAdded DEF PullTypeOK
    <3> QED
      BY <2>2, <3>1 DEF DaysToGo, PullTypeOK
  <2> QED
    BY <2>1, <2>3, <2>4 DEF PullTypeOK, HandsOn, world
<1>2. CASE DayBegins
  <2>1. /\ UNCHANGED <<world, pullFaults, page, days, recs, size, more, archive, pullError, owed, overlap>>
        /\ held' \subseteq archive /\ late' = {} /\ start' = 0 /\ pullPc' = "list" /\ DaysToGo # {} /\ recs = {}
    BY <1>2 DEF DayBegins, HeldOf, HandsOn
  <2> QED
    BY <2>1, DayStays DEF PullTypeOK, HandsOn, world
<1> QED
  BY <1>1, <1>2

(* The page is listed, gone through and left.                               *)
LEMMA TypedDay ==
  ASSUME PullTypeOK, HandsOn, DayPage \/ PageDone
  PROVE  PullTypeOK' /\ HandsOn'
<1> DEFINE got == OnPage(DayListing(Day), ListedAt, start, RecsPerPage)
<1>1. /\ UNCHANGED <<world, pullFaults, page, held, archive, pullError, owed, overlap, late>>
      /\ DaysToGo # {} /\ recs = {}
  BY DEF DayPage, PageDone, Exchange, older, HandsOn
<1>2. CASE DayPage /\ got # {}
  <2>1. pullPc' = "get" /\ recs' = got /\ size' = Cardinality(got) /\ UNCHANGED <<start, days>>
    BY <1>2 DEF DayPage
  <2>5. more' \in BOOLEAN
    <3>1. more' = Rest(DayListing(Day), start, RecsPerPage)
      BY <1>2 DEF DayPage
    <3> QED
      BY <3>1 DEF Rest
  <2>2. got \in SUBSET DayListing(Day) /\ \A r \in got : Place(r, DayListing(Day), ListedAt) \in start + 1..start + RecsPerPage
    BY DEF OnPage
  <2>3. Cardinality(got) \in Nat /\ Cardinality(got) <= RecsPerPage
    BY <2>2, CardIsFinite, FewBetween, Ranked DEF PullTypeOK
  <2>4. got \subseteq 1..made /\ \A r \in got : DirOf[r] = Day
    BY <2>2 DEF DayListing, PullTypeOK
  <2> HIDE DEF got
  <2> QED
    BY <1>1, <2>1, <2>3, <2>4, <2>5, Ranked, DayStays DEF PullTypeOK, HandsOn, world
<1>3. CASE ~ (DayPage /\ got # {})
  <2>1. /\ UNCHANGED <<recs, size, more>> /\ start' \in Nat
        /\ (pullPc' = "list" /\ UNCHANGED days) \/ (pullPc' = "day" /\ DayOver)
    <3>1. CASE DayPage
      BY <1>1, <1>3, <3>1 DEF DayPage, PullTypeOK
    <3>2. CASE PageDone
      <4>1. start + size \in Nat /\ start \in Nat
        BY DEF PullTypeOK
      <4> QED
        BY <3>2, <4>1, Zenon DEF PageDone, NextOffset
    <3> QED
      BY <3>1, <3>2
  <2>2. days' \in [Dirs -> Nat] /\ DaysToGo' \subseteq DaysToGo /\ (pullPc' = "list" => DaysToGo' # {})
    BY <1>1, <2>1, DayIsOver, DayStays DEF PullTypeOK
  <2> QED
    BY <1>1, <2>1, <2>2 DEF PullTypeOK, HandsOn, world
<1> QED
  BY <1>2, <1>3

LEMMA TypedRecording ==
  ASSUME PullTypeOK, HandsOn, Passed \/ Downloaded \/ NotDownloaded
  PROVE  PullTypeOK' /\ HandsOn'
<1>1. /\ UNCHANGED <<world, pullPc, page, start, days, held, size, more, pullError, overlap, late>>
      /\ pullPc = "get" /\ recs # {} /\ recs' = recs \ {First} /\ owed' = owed \ {First}
      /\ pullFaults' \in 0..MaxPullFaults
      /\ archive' = archive \/ (archive' = archive \cup {First} /\ First \notin OddAt)
  <2>1. pullFaults' = pullFaults \/ (pullFaults < MaxPullFaults /\ pullFaults' = pullFaults + 1)
    <3>1. CASE Passed \/ Downloaded
      BY <3>1 DEF Passed, Downloaded
    <3>2. CASE NotDownloaded
      BY <3>2 DEF NotDownloaded
    <3> QED
      BY <3>1, <3>2
  <2>2. pullFaults' \in 0..MaxPullFaults
    BY <2>1, Bounds DEF PullTypeOK
  <2>3. CASE Passed
    BY <2>2, <2>3 DEF Passed, LookedAt, older
  <2>4. CASE Downloaded
    BY <2>2, <2>4 DEF Downloaded, LookedAt, Wanted, older
  <2>5. CASE NotDownloaded
    BY <2>2, <2>5 DEF NotDownloaded, LookedAt, older
  <2> QED
    BY <2>3, <2>4, <2>5
<1>2. recs \subseteq 1..made /\ 1..made \subseteq Recs /\ IsFiniteSet(recs)
  <2>1. recs \subseteq 1..made /\ 1..made \subseteq Recs /\ made \in Int
    BY Ranked DEF PullTypeOK, Recs
  <2> QED
    <3>1. IsFiniteSet(1..made)
      BY <2>1, FS_Interval
    <3> QED
      BY <2>1, <3>1, FS_Subset
<1>3. First \in recs /\ DirOf[First] = Day /\ Day \notin Undated
  BY <1>1, <1>2, FirstIsListed, DayIsLeast DEF PullTypeOK, HandsOn
<1>4. First \in Storable \/ archive' = archive
  BY <1>1, <1>2, <1>3 DEF Storable
<1>5. archive \subseteq archive' /\ archive' \subseteq Storable
  BY <1>1, <1>4 DEF PullTypeOK
<1>6. Cardinality(recs') <= size'
  <2>1. Cardinality(recs') <= Cardinality(recs) /\ {Cardinality(recs), Cardinality(recs')} \subseteq Nat
    BY <1>1, <1>2, FS_Subset, FS_CardinalityType
  <2> QED
    BY <1>1, <2>1 DEF PullTypeOK
<1> QED
  BY <1>1, <1>2, <1>5, <1>6, DayStays DEF PullTypeOK, HandsOn, world

LEMMA TypedStep ==
  ASSUME PullTypeOK, HandsOn, [PullNext]_pullVars
  PROVE  PullTypeOK' /\ HandsOn'
BY TypedAside, TypedEnds, TypedDays, TypedDay, TypedRecording DEF PullNext, PullOnce

(* Every state of the card and of the puller has its type.                  *)
THEOREM PullsAreTyped == PullSpec => []PullTypeOK
<1>1. PullInit => PullTypeOK /\ HandsOn
  BY TypedStart
<1>2. PullTypeOK /\ HandsOn /\ [PullNext]_pullVars => (PullTypeOK /\ HandsOn)'
  BY TypedStep
<1> QED
  BY <1>1, <1>2, PTL DEF PullSpec

-----------------------------------------------------------------------------
(* What a pass has still to look at.                                        *)

(* What the camera records takes no place from what it has.                 *)
LEMMA PlacesStay ==
  ASSUME card \subseteq card', made' \in 0..Total, card' \subseteq 1..made', UNCHANGED days, NEW x
  PROVE  /\ Place(x, DayListing(Day), ListedAt) \in Nat
         /\ Place(x, DayListing(Day), ListedAt)' \in Nat
         /\ Place(x, DayListing(Day), ListedAt) <= Place(x, DayListing(Day), ListedAt)'
         /\ Place(x, DaysListing, DirListedAt) \in Nat
         /\ Place(x, DaysListing, DirListedAt)' \in Nat
         /\ Place(x, DaysListing, DirListedAt) <= Place(x, DaysListing, DirListedAt)'
<1>1. card' \subseteq Recs /\ IsFiniteSet(card')
  <2>1. 1..made' \subseteq Recs /\ made' \in Int
    BY Ranked DEF Recs
  <2>2. IsFiniteSet(1..made')
    BY <2>1, FS_Interval
  <2> QED
    BY <2>1, <2>2, FS_Subset
<1> DEFINE all  == {r \in card' : DirOf[r] = Day}
           dirs == {DirOf[r] : r \in card'}
<1>2. DayListing(Day)' = all /\ DaysListing' = dirs
  BY DayStays DEF DayListing, DaysListing
<1>3. IsFiniteSet(all) /\ IsFiniteSet(dirs)
  <2>1. all \in SUBSET card' /\ dirs \in SUBSET Dirs
    BY <1>1 DEF Dirs
  <2> QED
    BY <1>1, <2>1, FS_Subset, DirsAreFinite
<1>4. DayListing(Day) \subseteq all /\ DaysListing \subseteq dirs
  BY DEF DayListing, DaysListing
<1> HIDE DEF all, dirs
<1>5. /\ UpTo(x, DayListing(Day), ListedAt) \subseteq UpTo(x, all, ListedAt)
      /\ UpTo(x, DaysListing, DirListedAt) \subseteq UpTo(x, dirs, DirListedAt)
  BY <1>4 DEF UpTo
<1>6. /\ Place(x, DayListing(Day), ListedAt)' = Place(x, all, ListedAt)
      /\ Place(x, DaysListing, DirListedAt)' = Place(x, dirs, DirListedAt)
  BY <1>2 DEF Place, UpTo
<1> QED
  BY <1>3, <1>5, <1>6, PlacesGrow

(* A step that leaves the pass where it is.                                 *)
LEMMA OwedAside ==
  ASSUME PullTypeOK, OwedIsToCome, made' \in 0..Total, card' \subseteq 1..made',
         UNCHANGED <<pullPc, page, start, days, recs, size, more>>,
         owed' = {} \/ (owed' \subseteq owed /\ card \subseteq card')
  PROVE  OwedIsToCome'
<1> SUFFICES ASSUME NEW o \in owed', o \in owed, card \subseteq card'
             PROVE  /\ o \in card' /\ Dated(DirOf[o])
                    /\ pullPc' = "days" => days'[DirOf[o]] > 0 \/ Unlisted(DirOf[o])'
                    /\ pullPc' \in {"day", "list", "get"} => days'[DirOf[o]] > 0
                    /\ pullPc' = "list" /\ DirOf[o] = Day' => Ahead(o, start)'
                    /\ pullPc' = "get" /\ DirOf[o] = Day' => o \in recs' \/ (more' /\ Ahead(o, start + size)')
  BY DEF OwedIsToCome
<1>1. Day' = Day
  BY DayStays
<1>2. Ahead(o, start) => Ahead(o, start)'
  BY PlacesStay DEF Ahead, PullTypeOK
<1>3. Ahead(o, start + size) => Ahead(o, start + size)'
  BY PlacesStay DEF Ahead, PullTypeOK
<1>4. Unlisted(DirOf[o]) => Unlisted(DirOf[o])'
  BY PlacesStay DEF Unlisted, PullTypeOK
<1> QED
  BY <1>1, <1>2, <1>3, <1>4 DEF OwedIsToCome

(* The days that are listed: a day that is owed is on the page, or after it; and  *)
(* a page that leaves one out is full, of dates but for what comes before it.  *)
LEMMA OwedDays ==
  ASSUME DaysFit, PullTypeOK, OwedIsToCome, DaysPage
  PROVE  OwedIsToCome'
<1> DEFINE page0 == OnPage(DaysListing, DirListedAt, start, DirsPerPage)
           got   == Valid(page0)
<1>1. /\ UNCHANGED <<card, owed>> /\ With(got) /\ pullPc = "days"
      /\ pullPc' \in {"days", "day"}
  BY DEF DaysPage, Exchange, world
<1>2. /\ start \in Nat /\ page \in Nat /\ page <= MaxDayPages /\ days \in [Dirs -> Nat]
      /\ made \in 0..Total /\ card \subseteq 1..made
  BY DEF PullTypeOK
<1>3. /\ DaysListing \in SUBSET Dirs /\ IsFiniteSet(DaysListing)
      /\ Cardinality(DaysListing) \in Nat /\ Cardinality(DaysListing) <= Cardinality(Dirs)
      /\ Ranks(DirListedAt, DaysListing)
  BY <1>2, DaysAreRanked
<1>4. page0 \in SUBSET DaysListing /\ got = {d \in page0 : d \notin Undated}
  BY DEF OnPage, Valid, Dated
<1>5. /\ IsFiniteSet(page0) /\ Cardinality(page0) \in Nat /\ Cardinality(page0) <= DirsPerPage
      /\ Cardinality(got) \in Nat /\ Cardinality(got) <= Cardinality(page0)
  <2>1. \A x \in page0 : Place(x, DaysListing, DirListedAt) \in start + 1..start + DirsPerPage
    BY DEF OnPage
  <2>2. IsFiniteSet(page0) /\ Cardinality(page0) \in Nat /\ Cardinality(page0) <= DirsPerPage
    BY <1>2, <1>3, <1>4, <2>1, FewBetween, Ranked
  <2>3. got \in SUBSET page0
    BY <1>4
  <2> QED
    BY <2>2, <2>3, FS_Subset, FS_CardinalityType
<1> HIDE DEF page0, got
<1>6. /\ days' \in [Dirs -> Nat]
      /\ \A d \in Dirs : days'[d] > 0 <=> days[d] > 0 \/ d \in got
  BY <1>1, <1>2, DaysAreAdded
<1>7. ASSUME NEW o \in owed, ~ (days'[DirOf[o]] > 0)
      PROVE  pullPc' = "days" /\ Unlisted(DirOf[o])'
  <2> DEFINE d == DirOf[o]
             place == Place(d, DaysListing, DirListedAt)
             misc  == {u \in page0 : u \in Undated}
  <2>1. o \in card /\ o \in Recs /\ d \in Dirs /\ d \notin Undated /\ d \in DaysListing
    <3>1. o \in card /\ d \notin Undated
      BY DEF OwedIsToCome, Dated
    <3>2. o \in Recs
      BY <1>2, <3>1, Ranked DEF Recs
    <3> QED
      BY <3>1, <3>2, Ranked DEF DaysListing
  <2>2. ~ (days[d] > 0) /\ d \notin got
    BY <1>6, <1>7, <2>1
  <2>3. place > start /\ page * DatesPerPage(d) <= start
    BY <1>1, <2>2 DEF OwedIsToCome, Unlisted
  <2>4. place \in Nat /\ place <= Cardinality(DaysListing)
    BY <1>3, <2>1, PlacesBegin
  <2>5. d \notin page0
    BY <1>4, <2>1, <2>2
  <2>6. place > start + DirsPerPage
    <3>1. ~ (place \in start + 1..start + DirsPerPage)
      BY <2>1, <2>5 DEF OnPage, page0
    <3> QED
      BY <1>2, <2>3, <2>4, <3>1, Ranked
  <2> HIDE DEF d, place
  <2>7. Cardinality(page0) >= DirsPerPage /\ \A u \in page0 : DirListedAt[u] < DirListedAt[d]
    BY <1>2, <1>3, <2>1, <2>6, PageIsWhole, Ranked DEF page0, place
  <2>8. misc \in SUBSET UndatedBefore(d)
    BY <2>7 DEF UndatedBefore
  <2>9. /\ Cardinality(misc) \in Nat /\ Cardinality(UndatedBefore(d)) \in Nat
        /\ Cardinality(misc) <= Cardinality(UndatedBefore(d))
    <3>1. UndatedBefore(d) \in SUBSET Dirs
      BY Ranked DEF UndatedBefore
    <3>2. IsFiniteSet(UndatedBefore(d))
      BY <3>1, DirsAreFinite
    <3> QED
      BY <2>8, <3>2, FS_Subset, FS_CardinalityType
  <2>10. Cardinality(got) = Cardinality(page0) - Cardinality(misc)
    <3>1. got = page0 \ Undated /\ misc = page0 \cap Undated
      BY <1>4
    <3>2. Cardinality(page0 \ Undated) = Cardinality(page0) - Cardinality(page0 \cap Undated)
      BY <1>5, FS_Difference
    <3> QED
      BY <3>1, <3>2
  <2>11. Cardinality(got) >= DatesPerPage(d) /\ DatesPerPage(d) \in Nat /\ DatesPerPage(d) > 0
    BY <1>5, <2>1, <2>7, <2>9, <2>10, Ranked DEF DatesPerPage, DaysFit
  <2>12. Cardinality(Dirs) <= MaxDayPages * DatesPerPage(d)
    BY <2>1 DEF DaysFit
  <2>13. got # {}
    BY <2>11, FS_EmptySet
  <2>14. Rest(DaysListing, start, DirsPerPage)
    BY <1>2, <1>3, <2>4, <2>6, Ranked DEF Rest
  <2>15. DirsPerPage >= DatesPerPage(d) /\ DirsPerPage \in Nat /\ MaxDayPages \in Nat
    BY <2>9, Ranked DEF DatesPerPage
  <2> DEFINE k == DatesPerPage(d)
  <2>16. (page + 1) * k <= start + Cardinality(got) /\ page * k \in Nat /\ (page + 1) * k = page * k + k
        /\ (page + 1) * k \in Nat /\ start + DirsPerPage \in Nat
    BY <1>2, <1>5, <2>3, <2>11, <2>15
  <2>17. page + 1 < MaxDayPages
    <3> SUFFICES ASSUME MaxDayPages = page + 1 \/ MaxDayPages = page PROVE FALSE
      BY <1>2, <2>15
    <3>1. start + DirsPerPage < MaxDayPages * k
      BY <1>2, <1>3, <2>4, <2>6, <2>12, <2>15, <2>11, DirsAreFinite
    <3>2. (page + 1) * k <= start + DirsPerPage /\ page * k <= (page + 1) * k
      BY <1>2, <2>3, <2>15, <2>16, <2>11
    <3> HIDE DEF k
    <3>3. CASE MaxDayPages = page + 1
      <4>1. start + DirsPerPage < (page + 1) * k
        BY <3>1, <3>3
      <4> QED
        BY <2>16, <3>2, <4>1
    <3>4. CASE MaxDayPages = page
      <4>1. start + DirsPerPage < page * k
        BY <3>1, <3>4
      <4> QED
        BY <2>16, <3>2, <4>1
    <3> QED
      BY <3>3, <3>4
  <2>18. pullPc' = "days" /\ page' = page + 1 /\ start' = start + Cardinality(got)
    BY <1>1, <2>13, <2>14, <2>17 DEF DaysPage, NextStart, got, page0
  <2>19. Place(d, DaysListing, DirListedAt)' = place
    BY <1>1 DEF Place, UpTo, DaysListing, place, d
  <2>20. place > start + Cardinality(got)
    BY <1>2, <1>5, <2>4, <2>6, <2>15
  <2> QED
    BY <2>16, <2>18, <2>19, <2>20 DEF Unlisted, d
<1> SUFFICES ASSUME NEW o \in owed
             PROVE  /\ o \in card' /\ Dated(DirOf[o])
                    /\ pullPc' = "days" => days'[DirOf[o]] > 0 \/ Unlisted(DirOf[o])'
                    /\ pullPc' = "day" => days'[DirOf[o]] > 0
  BY <1>1 DEF OwedIsToCome
<1> QED
  BY <1>1, <1>7 DEF OwedIsToCome

(* The recordings of a day: one that is owed is on the page, or after it.   *)
LEMMA OwedDay ==
  ASSUME PullTypeOK, HandsOn, OwedIsToCome, DayPage
  PROVE  OwedIsToCome'
<1> DEFINE all == DayListing(Day)
           got == OnPage(all, ListedAt, start, RecsPerPage)
<1>1. UNCHANGED <<card, start, owed>> /\ pullPc = "list" /\ DaysToGo # {}
  BY DEF DayPage, Exchange, world, HandsOn
<1>2. start \in Nat /\ days \in [Dirs -> Nat] /\ made \in 0..Total /\ card \subseteq 1..made
  BY DEF PullTypeOK
<1>3. IsFiniteSet(all) /\ Ranks(ListedAt, all) /\ Cardinality(all) \in Nat
  BY <1>2, CardIsFinite, FS_CardinalityType
<1>4. ASSUME NEW o \in owed, DirOf[o] = Day
      PROVE  /\ o \in all /\ Place(o, all, ListedAt) \in Nat /\ Place(o, all, ListedAt) > start
             /\ o \in got \/ (/\ Place(o, all, ListedAt) > start + RecsPerPage
                              /\ Rest(all, start, RecsPerPage) /\ got # {})
  <2>1. o \in all
    BY <1>4 DEF OwedIsToCome, DayListing
  <2>2. Place(o, all, ListedAt) > start
    BY <1>1, <1>4 DEF OwedIsToCome, Ahead
  <2>3. Place(o, all, ListedAt) \in Nat /\ Place(o, all, ListedAt) <= Cardinality(all)
    BY <1>3, <2>1, PlacesBegin
  <2>4. CASE o \notin got
    <3>1. Place(o, all, ListedAt) > start + RecsPerPage
      <4>1. ~ (Place(o, all, ListedAt) \in start + 1..start + RecsPerPage)
        BY <2>1, <2>4 DEF OnPage
      <4> QED
        BY <1>2, <2>2, <2>3, <4>1, Ranked
    <3>2. Rest(all, start, RecsPerPage)
      BY <1>2, <1>3, <2>3, <3>1, Ranked DEF Rest
    <3>3. Cardinality(got) >= RecsPerPage
      BY <1>2, <1>3, <2>1, <3>1, PageIsWhole, Ranked
    <3>4. got # {}
      BY <3>3, FS_EmptySet, Ranked
    <3> QED
      BY <2>1, <2>2, <2>3, <3>1, <3>2, <3>4
  <2> QED
    BY <2>1, <2>2, <2>3, <2>4
<1>5. CASE got # {}
  <2>1. pullPc' = "get" /\ recs' = got /\ size' = Cardinality(got) /\ UNCHANGED days
    BY <1>5 DEF DayPage
  <2>2. more' = Rest(all, start, RecsPerPage)
    BY <1>5 DEF DayPage
  <2>3. Cardinality(got) \in Nat /\ Cardinality(got) <= RecsPerPage
    <3>1. got \in SUBSET all /\ \A x \in got : Place(x, all, ListedAt) \in start + 1..start + RecsPerPage
      BY DEF OnPage
    <3> QED
      BY <1>2, <1>3, <3>1, FewBetween, Ranked
  <2>4. ASSUME NEW o \in owed, DirOf[o] = Day, o \notin got
        PROVE  more' /\ Ahead(o, start + size)'
    <3>1. Place(o, all, ListedAt) > start + Cardinality(got)
      BY <1>2, <1>4, <2>3, <2>4, Ranked
    <3>2. Place(o, DayListing(Day), ListedAt)' = Place(o, all, ListedAt)
      BY <1>1, <2>1, DayStays DEF Place, UpTo, DayListing
    <3>3. Ahead(o, start + size)'
      BY <1>1, <2>1, <3>1, <3>2 DEF Ahead
    <3>4. Rest(all, start, RecsPerPage)
      BY <1>4, <2>4
    <3> QED
      BY <2>2, <3>3, <3>4
  <2> HIDE DEF got
  <2>5. Day' = Day
    BY <2>1, DayStays
  <2> QED
    BY <1>1, <2>1, <2>4, <2>5 DEF OwedIsToCome
<1>6. CASE got = {}
  <2>1. pullPc' = "day" /\ DayOver
    BY <1>6 DEF DayPage
  <2>2. \A d \in Dirs : d # Day => days'[d] = days[d]
    BY <1>1, <1>2, <2>1, DayIsOver
  <2>3. ASSUME NEW o \in owed PROVE days'[DirOf[o]] > 0
    <3>1. DirOf[o] # Day
      BY <1>4, <1>6
    <3>2. DirOf[o] \in Dirs
      <4>1. o \in Recs
        BY <1>2, CardIsOfRecs DEF OwedIsToCome
      <4> QED
        BY <4>1, Ranked
    <3>3. days[DirOf[o]] > 0
      BY <1>1 DEF OwedIsToCome
    <3> QED
      BY <2>2, <3>1, <3>2, <3>3
  <2> QED
    BY <1>1, <2>1, <2>3 DEF OwedIsToCome
<1> QED
  BY <1>5, <1>6

(* The page that was gone through is left for the next, or the day for the next. *)
LEMMA OwedPageDone ==
  ASSUME PullTypeOK, HandsOn, OwedIsToCome, PageDone
  PROVE  OwedIsToCome'
<1>1. UNCHANGED <<card, owed>> /\ pullPc = "get" /\ recs = {} /\ DaysToGo # {}
  BY DEF PageDone, world, HandsOn
<1>2. days \in [Dirs -> Nat] /\ made \in 0..Total /\ card \subseteq 1..made
  BY DEF PullTypeOK
<1>3. \A o \in owed : /\ o \in card /\ Dated(DirOf[o]) /\ days[DirOf[o]] > 0
                      /\ DirOf[o] = Day => more /\ Ahead(o, start + size)
  BY <1>1 DEF OwedIsToCome
<1>4. CASE more
  <2>1. pullPc' = "list" /\ start' = start + size /\ UNCHANGED days
    BY <1>4 DEF PageDone, NextOffset
  <2>2. Day' = Day
    BY <2>1, DayStays
  <2>3. \A o : Ahead(o, start + size) <=> Ahead(o, start)'
    BY <1>1, <2>1, <2>2 DEF Ahead, Place, UpTo, DayListing
  <2> QED
    BY <1>1, <1>3, <2>1, <2>2, <2>3 DEF OwedIsToCome
<1>5. CASE ~ more
  <2>1. pullPc' = "day" /\ DayOver
    BY <1>5 DEF PageDone
  <2>2. \A d \in Dirs : d # Day => days'[d] = days[d]
    BY <1>1, <1>2, <2>1, DayIsOver
  <2>3. ASSUME NEW o \in owed PROVE days'[DirOf[o]] > 0
    <3>1. DirOf[o] # Day
      BY <1>3, <1>5
    <3>2. DirOf[o] \in Dirs
      <4>1. o \in Recs
        BY <1>2, <1>3, CardIsOfRecs
      <4> QED
        BY <4>1, Ranked
    <3> QED
      BY <1>3, <2>2, <3>1, <3>2
  <2> QED
    BY <1>1, <1>3, <2>1, <2>3 DEF OwedIsToCome
<1> QED
  BY <1>4, <1>5

(* A recording is looked at, and owed no longer.                            *)
LEMMA OwedRecording ==
  ASSUME PullTypeOK, OwedIsToCome, Passed \/ Downloaded \/ NotDownloaded
  PROVE  OwedIsToCome'
<1>1. /\ UNCHANGED <<card, pullPc, start, days, size, more>>
      /\ pullPc = "get" /\ recs' = recs \ {First} /\ owed' = owed \ {First}
  BY DEF Passed, Downloaded, NotDownloaded, LookedAt, world
<1>2. Day' = Day
  BY <1>1, DayStays
<1>3. \A o : Ahead(o, start + size) <=> Ahead(o, start + size)'
  BY <1>1, <1>2 DEF Ahead, Place, UpTo, DayListing
<1> QED
  BY <1>1, <1>2, <1>3 DEF OwedIsToCome

(* All that is on the card is owed, and in no day that was listed.          *)
LEMMA OwedBegin ==
  ASSUME PullTypeOK, Begin
  PROVE  OwedIsToCome'
<1>1. /\ UNCHANGED card /\ pullPc' = "days" /\ page' = 0 /\ start' = 0
      /\ owed' = {r \in card : Dated(DirOf[r])}
  BY DEF Begin, world
<1>2. ASSUME NEW o \in owed' PROVE Unlisted(DirOf[o])'
  <2> DEFINE d == DirOf[o]
  <2>1. d \in DaysListing
    BY <1>1 DEF DaysListing
  <2>2. Place(d, DaysListing, DirListedAt) >= 1 /\ Place(d, DaysListing, DirListedAt) \in Nat
    BY <2>1, DaysAreRanked, PlacesBegin DEF PullTypeOK
  <2>3. DatesPerPage(d) \in Int
    <3>1. UndatedBefore(d) \in SUBSET Dirs
      BY Ranked DEF UndatedBefore
    <3> QED
      BY <3>1, DirsAreFinite, Ranked DEF DatesPerPage
  <2>4. Place(d, DaysListing, DirListedAt)' = Place(d, DaysListing, DirListedAt)
    BY <1>1 DEF Place, UpTo, DaysListing
  <2> HIDE DEF d
  <2>5. Unlisted(d)'
    BY <1>1, <2>2, <2>3, <2>4 DEF Unlisted
  <2> QED
    BY <2>5 DEF d
<1> QED
  BY <1>1, <1>2 DEF OwedIsToCome

LEMMA OwedDayBegins ==
  ASSUME PullTypeOK, OwedIsToCome, DayBegins
  PROVE  OwedIsToCome'
<1>1. UNCHANGED <<card, days, owed>> /\ pullPc = "day" /\ pullPc' = "list" /\ start' = 0
  BY DEF DayBegins, world
<1>2. Day' = Day
  BY <1>1, DayStays
<1>3. ASSUME NEW o \in owed, DirOf[o] = Day PROVE Ahead(o, start)'
  <2>1. o \in DayListing(Day)
    BY <1>3 DEF OwedIsToCome, DayListing
  <2>2. Place(o, DayListing(Day), ListedAt) >= 1 /\ Place(o, DayListing(Day), ListedAt) \in Nat
    BY <2>1, CardIsFinite, PlacesBegin DEF PullTypeOK
  <2>3. Place(o, DayListing(Day), ListedAt)' = Place(o, DayListing(Day), ListedAt)
    BY <1>1, <1>2 DEF Place, UpTo, DayListing
  <2> QED
    BY <1>1, <2>2, <2>3 DEF Ahead
<1> QED
  BY <1>1, <1>2, <1>3 DEF OwedIsToCome

LEMMA OwedStep ==
  ASSUME DaysFit, PullTypeOK, HandsOn, OwedIsToCome, [PullNext]_pullVars
  PROVE  OwedIsToCome'
<1>1. PullTypeOK'
  BY TypedStep
<1>2. made' \in 0..Total /\ card' \subseteq 1..made'
  BY <1>1 DEF PullTypeOK
<1>3. CASE Records \/ Deletes \/ Updated \/ Polled \/ OldStores \/ OldStops \/ UNCHANGED pullVars
  <2>1. /\ UNCHANGED <<pullPc, page, start, days, recs, size, more>>
        /\ owed' = {} \/ (owed' = owed /\ card \subseteq card')
    BY <1>3 DEF Records, Deletes, Updated, Polled, OldStores, OldStops, pullVars, world, pass
  <2> QED
    BY <1>2, <2>1, OwedAside
<1>4. CASE DaysDone \/ PassFails \/ NoListing \/ Restarted \/ Replace
  <2>1. owed' = {}
    BY <1>4 DEF DaysDone, PassFails, NoListing, Restarted, Replace, NewDevice, PassOver
  <2> QED
    BY <2>1 DEF OwedIsToCome
<1> QED
  BY <1>3, <1>4, OwedDays, OwedDay, OwedPageDone, OwedRecording, OwedBegin, OwedDayBegins
  DEF PullNext, PullOnce

LEMMA PassInductiveAlways == ASSUME DaysFit PROVE PullSpec => []PassInductive
<1>1. PullInit => PassInductive
  <2>1. PullInit => OwedIsToCome
    BY DEF PullInit, OwedIsToCome
  <2> QED
    BY <2>1, TypedStart DEF PassInductive
<1>2. PassInductive /\ [PullNext]_pullVars => PassInductive'
  BY TypedStep, OwedStep DEF PassInductive
<1> QED
  BY <1>1, <1>2, PTL DEF PullSpec

(* recordings.go:38-39, pull.go:101-104: a pass that ends well looked at everything *)
(* that was on the card, under a date, when it began, unless the camera deleted *)
(* something meanwhile; and what it stores is of the oldest day it owes - for   *)
(* any card, listing order and page sizes, whatever the camera records between  *)
(* two pages, if no page of the days is without a date and the pages are enough. *)
THEOREM PassesAreWhole ==
  ASSUME DaysFit
  PROVE  PullSpec => WholePass
<1>1. ASSUME PassInductive, [PullNext]_pullVars
      PROVE  [/\ pullPc = "day" /\ pullPc' = "idle" /\ pullError' = "none" /\ pullFaults' = pullFaults => owed = {}
              /\ recs' # recs => \A r \in archive' \ archive, o \in owed : DirOf[o] >= DirOf[r]]_pullVars
  <2> SUFFICES ASSUME PullNext
               PROVE  /\ pullPc = "day" /\ pullPc' = "idle" /\ pullError' = "none" /\ pullFaults' = pullFaults => owed = {}
                      /\ recs' # recs => \A r \in archive' \ archive, o \in owed : DirOf[o] >= DirOf[r]
    BY <1>1
  <2>1. /\ owed \subseteq Recs /\ recs \subseteq Recs
        /\ pullFaults \in Nat /\ \A r \in Recs : DirOf[r] \in Dirs /\ DirOf[r] \in Nat
    <3>1. made \in 0..Total /\ owed \subseteq 1..made /\ recs \subseteq 1..made /\ pullFaults \in 0..MaxPullFaults
      BY <1>1 DEF PassInductive, PullTypeOK
    <3>2. 1..made \subseteq Recs /\ pullFaults \in Nat
      BY <3>1, Ranked DEF Recs
    <3> QED
      BY <3>1, <3>2, Ranked
  <2>2. ASSUME pullPc = "day", pullPc' = "idle", pullFaults' = pullFaults, pullError' = "none"
        PROVE  owed = {}
    <3>1. DaysDone
      <4>1. CASE Records \/ Deletes \/ Updated \/ Polled \/ OldStores \/ OldStops
        BY <2>2, <4>1 DEF Records, Deletes, Updated, Polled, OldStores, OldStops, pass
      <4>2. CASE Restarted \/ Replace \/ PassFails
        BY <2>1, <2>2, <4>2 DEF Restarted, Replace, NewDevice, PassFails
      <4>3. CASE Begin \/ DaysPage \/ DayBegins \/ DayPage \/ Passed \/ Downloaded \/ NotDownloaded \/ PageDone \/ NoListing
        BY <2>2, <4>3 DEF Begin, DaysPage, DayBegins, DayPage, Passed, Downloaded, NotDownloaded, PageDone, NoListing
      <4> QED
        BY <4>1, <4>2, <4>3 DEF PullNext, PullOnce
    <3>2. DaysToGo = {}
      BY <3>1 DEF DaysDone
    <3> QED
      BY <1>1, <2>1, <2>2, <3>2 DEF PassInductive, OwedIsToCome, DaysToGo
  <2>3. ASSUME recs' # recs, NEW r \in archive' \ archive, NEW o \in owed
        PROVE  DirOf[o] >= DirOf[r]
    <3>1. Downloaded
      <4>1. CASE Records \/ Deletes \/ Updated \/ Polled \/ OldStores \/ OldStops
        BY <2>3, <4>1 DEF Records, Deletes, Updated, Polled, OldStores, OldStops, pass
      <4>2. CASE Restarted \/ Replace \/ PassFails \/ DaysDone \/ NoListing
        BY <2>3, <4>2 DEF Restarted, Replace, NewDevice, PassFails, DaysDone, NoListing
      <4>3. CASE Begin \/ DaysPage \/ DayBegins \/ DayPage \/ Passed \/ NotDownloaded \/ PageDone
        BY <2>3, <4>3 DEF Begin, DaysPage, DayBegins, DayPage, Passed, NotDownloaded, PageDone
      <4> QED
        BY <4>1, <4>2, <4>3 DEF PullNext, PullOnce
    <3>2. r = First /\ pullPc = "get" /\ recs # {}
      BY <2>3, <3>1 DEF Downloaded
    <3>3. DirOf[r] = Day
      BY <1>1, <2>1, <3>2, FirstIsListed DEF PassInductive, PullTypeOK
    <3>4. DirOf[o] \in DaysToGo
      BY <1>1, <2>1, <3>2 DEF PassInductive, OwedIsToCome, DaysToGo
    <3>5. Day <= DirOf[o] /\ Day \in Dirs
      BY <3>4, DayIsLeast
    <3> QED
      BY <2>1, <3>3, <3>5, Ranked
  <2> QED
    BY <2>2, <2>3
<1>2. PullSpec => []PassInductive
  BY PassInductiveAlways
<1> QED
  BY <1>1, <1>2, PTL DEF PullSpec, WholePass
=============================================================================
