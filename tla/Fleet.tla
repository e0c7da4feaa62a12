-------------------------------- MODULE Fleet --------------------------------
(***************************************************************************)
(* The camera list and the devices that follow it: the store                *)
(* (backend/internal/store/store.go), Sync, stop and Close of the manager    *)
(* (manager/manager.go), WatchAddresses (manager/addresses.go), and the      *)
(* handlers that add and delete a camera (httpapi/api.go).                   *)
(*                                                                         *)
(* A device is a slot, taken again once it has ended and nobody waits for    *)
(* it; its three goroutines end together.  Each action is the code between   *)
(* two lock operations, a save, or a wait.                                  *)
(***************************************************************************)
EXTENDS Integers, FiniteSets

CONSTANTS Ids,          \* identifiers newID may give
          Addrs,        \* addresses cameras are reached at
          Gone,         \* in place of an address: no such camera
          Handlers,     \* requests that add and delete
          Watcher,      \* the goroutine of WatchAddresses
          Main,         \* main: the first Sync, and Close
          Nobody,       \* who holds a lock that is free
          Slots,        \* bound: devices there may be at once, 1..n
          MaxEdits,     \* bound: changes of the store that are begun
          MaxFaults,    \* bound: saves that fail
          MaxRestarts   \* bound: stops and crashes with a new start

Callers == Handlers \cup {Watcher, Main}

ASSUME NamesAssumption == /\ Gone \notin Addrs /\ Nobody \notin Callers
                          /\ Watcher \notin Handlers /\ Main \notin Handlers /\ Watcher # Main
ASSUME SlotsAssumption == Slots \subseteq Nat
ASSUME BoundsAssumption == MaxEdits \in Nat /\ MaxFaults \in Nat /\ MaxRestarts \in Nat

VARIABLES
  cams, file, storeMu,   \* Store.cams, the file it is saved in, and who edits
  devices, mgrMu, closed,   \* the slots in Manager.devices, who syncs, and "yes" or "no"
  cam, run,              \* each device's id and address, and how far it is
  pc, old, listed,       \* each caller's progress, what it rolls back to, and what it read
  todo, changed,         \* the watcher: cameras to look at, and "yes" if one moved
  stopping,              \* [Callers -> SUBSET Slots]: the devices each is to stop
  stale,                 \* "yes" when the last Sync was given a list the store no longer had
  edits, faults, restarts

storeVars  == <<cams, file, storeMu>>
mgrVars    == <<devices, mgrMu, closed, cam>>
watchVars  == <<todo, changed>>
callVars   == <<pc, old, listed, stopping>>
bounds     == <<edits, faults, restarts>>
vars == <<storeVars, mgrVars, run, watchVars, callVars, stale, bounds>>

Lists == [Ids -> Addrs \cup {Gone}]

TypeOK ==
  /\ cams \in Lists /\ file \in Lists /\ storeMu \in Callers \cup {Nobody}
  /\ devices \subseteq Slots /\ mgrMu \in Callers \cup {Nobody} /\ closed \in {"yes", "no"}
  /\ cam \in [Slots -> (Ids \X Addrs) \cup {Gone}]
  /\ run \in [Slots -> {"running", "cancelled", "ended"}]
  /\ pc \in [Callers -> {"idle", "save", "look", "list", "sync", "start", "stop", "exit"}]
  /\ old \in [Callers -> Lists] /\ listed \in [Callers -> Lists]
  /\ todo \subseteq Ids /\ changed \in {"yes", "no"}
  /\ stopping \in [Callers -> SUBSET Slots] /\ stale \in {"yes", "no"}
  /\ edits \in 0..MaxEdits /\ faults \in 0..MaxFaults /\ restarts \in 0..MaxRestarts

Present(l) == {i \in Ids : l[i] # Gone}
Empty == [i \in Ids |-> Gone]

(* Open has read the file; main is about to hand the list to Sync. *)
Started ==
  /\ storeMu' = Nobody /\ devices' = {} /\ mgrMu' = Nobody /\ closed' = "no"
  /\ run' = [n \in Slots |-> "ended"] /\ cam' = [n \in Slots |-> Gone]
  /\ old' = [c \in Callers |-> Empty] /\ listed' = [c \in Callers |-> Empty]
  /\ pc' = [c \in Callers |-> IF c = Main THEN "list" ELSE "idle"]
  /\ stopping' = [c \in Callers |-> {}] /\ todo' = {} /\ changed' = "no" /\ stale' = "no"

(* Open reads the list as it was left. *)
Init ==
  /\ cams \in Lists /\ file = cams /\ storeMu = Nobody
  /\ devices = {} /\ mgrMu = Nobody /\ closed = "no"
  /\ cam = [n \in Slots |-> Gone]
  /\ run = [n \in Slots |-> "ended"]
  /\ pc = [c \in Callers |-> IF c = Main THEN "list" ELSE "idle"]
  /\ old = [c \in Callers |-> Empty] /\ listed = [c \in Callers |-> Empty]
  /\ todo = {} /\ changed = "no" /\ stopping = [c \in Callers |-> {}] /\ stale = "no"
  /\ edits = 0 /\ faults = 0 /\ restarts = 0

-----------------------------------------------------------------------------
(* The store: an edit in memory under the lock, then the save.              *)

CallTo(c, to) == pc' = [pc EXCEPT ![c] = to]

(* The service answers once main has synced for the first time. *)
Serving == pc[Main] # "exit" /\ (pc[Main] = "idle" \/ closed = "yes")

Edit(c, i, a) ==
  /\ storeMu = Nobody /\ storeMu' = c
  /\ edits < MaxEdits /\ edits' = edits + 1
  /\ old' = [old EXCEPT ![c] = cams] /\ cams' = [cams EXCEPT ![i] = a]
  /\ CallTo(c, "save")
  /\ UNCHANGED <<file, mgrVars, run, listed, stopping, stale, faults, restarts>>

Add(h) ==
  /\ pc[h] = "idle" /\ Serving /\ UNCHANGED watchVars
  /\ \E i \in Ids \ Present(cams), a \in Addrs : Edit(h, i, a)

Delete(h) ==
  /\ pc[h] = "idle" /\ Serving /\ UNCHANGED watchVars
  /\ \E i \in Present(cams) : Edit(h, i, Gone)

(* What follows a change that is saved: the watcher goes on with its round. *)
AfterSave(c) == IF c = Watcher THEN CallTo(c, "look") /\ changed' = "yes"
                               ELSE CallTo(c, "list") /\ UNCHANGED changed

(* What it rolled back to is of no more use. *)
Forget(c) == old' = [old EXCEPT ![c] = Empty]

(* saveLocked renames the new file in. *)
Saved(c) ==
  /\ pc[c] = "save" /\ storeMu' = Nobody /\ Forget(c)
  /\ file' = cams /\ AfterSave(c)
  /\ UNCHANGED <<cams, mgrVars, run, todo, listed, stopping, stale, bounds>>

(* It does not: the list is the one it was. *)
NotSaved(c) ==
  /\ pc[c] = "save" /\ storeMu' = Nobody /\ Forget(c) /\ faults < MaxFaults /\ faults' = faults + 1
  /\ cams' = old[c] /\ CallTo(c, IF c = Watcher THEN "look" ELSE "idle")
  /\ UNCHANGED <<file, mgrVars, run, watchVars, listed, stopping, stale, edits, restarts>>

-----------------------------------------------------------------------------
(* WatchAddresses.                                                          *)

Look ==
  /\ pc[Watcher] = "idle" /\ Serving /\ storeMu = Nobody
  /\ todo' = Present(cams) /\ changed' = "no" /\ CallTo(Watcher, "look")
  /\ UNCHANGED <<storeVars, mgrVars, run, old, listed, stopping, stale, bounds>>

(* SetAddress, when discovery has another address and the camera is there. *)
SetAddress(i) ==
  /\ pc[Watcher] = "look" /\ i \in todo /\ todo' = todo \ {i} /\ UNCHANGED changed
  /\ cams[i] # Gone /\ \E a \in Addrs \ {cams[i]} : Edit(Watcher, i, a)

(* Nothing better is known, it is that address already, or it was deleted. *)
Leave(i) ==
  /\ pc[Watcher] = "look" /\ i \in todo /\ todo' = todo \ {i} /\ storeMu = Nobody
  /\ UNCHANGED <<storeVars, mgrVars, run, changed, callVars, stale, bounds>>

Looked ==
  /\ pc[Watcher] = "look" /\ todo = {}
  /\ CallTo(Watcher, IF changed = "yes" THEN "list" ELSE "idle")
  /\ UNCHANGED <<storeVars, mgrVars, run, watchVars, old, listed, stopping, stale, bounds>>

-----------------------------------------------------------------------------
(* Sync(st.List()).                                                         *)

List(c) ==
  /\ pc[c] = "list" /\ storeMu = Nobody
  /\ listed' = [listed EXCEPT ![c] = cams] /\ CallTo(c, "sync")
  /\ UNCHANGED <<storeVars, mgrVars, run, watchVars, old, stopping, stale, bounds>>

Id(n) == cam[n][1]

(* Mutant: only who is no longer wanted goes, whatever its address. *)
Unwanted0(c) == {n \in devices : listed[c][Id(n)] = Gone}

(* A camera that is gone, or has another address. *)
Unwanted(c) == {n \in devices : listed[c][Id(n)] # cam[n][2]}

(* Mutant: a manager that was closed goes on. *)
SyncDropClosed(c) ==
  /\ pc[c] = "sync" /\ mgrMu = Nobody /\ mgrMu' = c
  /\ devices' = devices \ Unwanted(c) /\ stopping' = [stopping EXCEPT ![c] = Unwanted(c)]
  /\ stale' = IF listed[c] = file THEN "no" ELSE "yes"
  /\ CallTo(c, "start")
  /\ UNCHANGED <<storeVars, closed, cam, run, watchVars, old, listed, bounds>>

SyncDrop(c) ==
  /\ pc[c] = "sync" /\ mgrMu = Nobody /\ closed = "no" /\ mgrMu' = c
  /\ devices' = devices \ Unwanted(c) /\ stopping' = [stopping EXCEPT ![c] = Unwanted(c)]
  /\ stale' = IF listed[c] = file THEN "no" ELSE "yes"
  /\ CallTo(c, "start")
  /\ UNCHANGED <<storeVars, closed, cam, run, watchVars, old, listed, bounds>>

SyncClosed(c) ==
  /\ pc[c] = "sync" /\ mgrMu = Nobody /\ closed = "yes" /\ CallTo(c, "idle")
  /\ UNCHANGED <<storeVars, mgrVars, run, watchVars, old, listed, stopping, stale, bounds>>

Missing(c) == Present(listed[c]) \ {Id(n) : n \in devices}
Free(n)    == run[n] = "ended" /\ \A c \in Callers : n \notin stopping[c]

(* startLocked: the device's goroutines run from here on. *)
SyncStart(c) ==
  /\ pc[c] = "start"
  /\ \E i \in Missing(c), n \in Slots :
       /\ Free(n) /\ \A m \in Slots : m < n => ~Free(m)
       /\ cam' = [cam EXCEPT ![n] = <<i, listed[c][i]>>]
       /\ run' = [run EXCEPT ![n] = "running"] /\ devices' = devices \cup {n}
  /\ UNCHANGED <<storeVars, mgrMu, closed, watchVars, callVars, stale, bounds>>

SyncUnlock(c) ==
  /\ pc[c] = "start" /\ Missing(c) = {} /\ mgrMu' = Nobody /\ listed' = [listed EXCEPT ![c] = Empty]
  /\ CallTo(c, "stop")
  /\ UNCHANGED <<storeVars, devices, closed, cam, run, watchVars, old, stopping, stale, bounds>>

-----------------------------------------------------------------------------
(* stop, one device after another, by Sync or Close.                        *)

(* Mutant: the hub is closed and the context left alone. *)
StopHub(c) ==
  /\ pc[c] = "stop" /\ stopping[c] # {} /\ \A n \in stopping[c] : run[n] = "running"
  /\ UNCHANGED vars

Stop(c) ==
  /\ pc[c] = "stop" /\ \A n \in stopping[c] : run[n] = "running"
  /\ \E n \in stopping[c] : run' = [run EXCEPT ![n] = "cancelled"]
  /\ UNCHANGED <<storeVars, mgrVars, watchVars, callVars, stale, bounds>>

(* The poll, the puller and the stand-in recorder have returned. *)
DeviceEnds(n) ==
  /\ run[n] = "cancelled" /\ run' = [run EXCEPT ![n] = "ended"]
  /\ cam' = [cam EXCEPT ![n] = Gone]
  /\ UNCHANGED <<storeVars, devices, mgrMu, closed, watchVars, callVars, stale, bounds>>

Stopped(c) ==
  /\ pc[c] = "stop"
  /\ \E n \in stopping[c] : run[n] = "ended" /\ stopping' = [stopping EXCEPT ![c] = @ \ {n}]
  /\ UNCHANGED <<storeVars, mgrVars, run, watchVars, pc, old, listed, stale, bounds>>

AllStopped(c) ==
  /\ pc[c] = "stop" /\ stopping[c] = {}
  /\ CallTo(c, IF c = Main /\ closed = "yes" THEN "exit" ELSE "idle")
  /\ UNCHANGED <<storeVars, mgrVars, run, watchVars, old, listed, stopping, stale, bounds>>

Close ==
  /\ pc[Main] = "idle" /\ mgrMu = Nobody
  /\ closed' = "yes" /\ devices' = {}
  /\ stopping' = [stopping EXCEPT ![Main] = devices] /\ CallTo(Main, "stop")
  /\ UNCHANGED <<storeVars, mgrMu, cam, run, watchVars, old, listed, stale, bounds>>

(* The process stops, of itself or not, and starts again from the file. *)
Restart ==
  /\ restarts < MaxRestarts /\ restarts' = restarts + 1
  /\ cams' = file /\ Started
  /\ UNCHANGED <<file, edits, faults>>

-----------------------------------------------------------------------------
SyncStep(c) == \/ List(c) \/ SyncDrop(c) \/ SyncClosed(c) \/ SyncStart(c) \/ SyncUnlock(c)
               \/ Stop(c) \/ Stopped(c) \/ AllStopped(c)
SaveStep(c) == Saved(c) \/ NotSaved(c)

Next == \/ \E h \in Handlers : Add(h) \/ Delete(h)
        \/ Look \/ (\E i \in Ids : SetAddress(i) \/ Leave(i)) \/ Looked
        \/ \E c \in Callers : SaveStep(c) \/ SyncStep(c)
        \/ \E n \in Slots : DeviceEnds(n)
        \/ Close \/ Restart

Spec == Init /\ [][Next]_vars

(* main goes on to its end, and a device's goroutines return when their     *)
(* context is cancelled.                                                    *)
Fairness == WF_vars(SyncStep(Main)) /\ \A n \in Slots : WF_vars(DeviceEnds(n))

FairSpec == Spec /\ Fairness

-----------------------------------------------------------------------------
(* Through saves that fail and restarts at any moment, the list anyone can  *)
(* read is the one a restart would read (Add, SetAddress, Delete).          *)
ListedIsSaved == storeMu = Nobody => cams = file

(* Every device that runs is one Sync can still find, or one that somebody  *)
(* is about to stop, and none is left for nobody after Close.               *)
NoOrphans ==
  \A n \in Slots : run[n] = "running" =>
    \/ n \in devices /\ closed = "no"
    \/ \E c \in Callers : n \in stopping[c]

AtRest == closed = "no" /\ \A c \in Callers : pc[c] = "idle"
InStep == {cam[n] : n \in devices} = {<<i, cams[i]>> : i \in Present(cams)}

(* When no call is under way the list is the saved one, whatever save failed   *)
(* on the way, and the devices are those of the list, unless a Sync came late  *)
(* with a list that was out of date by then.                                *)
FollowsUnlessStale == AtRest => cams = file /\ (stale = "no" => InStep)

(* Close gets to the end, whatever devices others start and stop meanwhile: *)
(* nothing is waited for that nobody has cancelled (stop).                  *)
ShutdownEnds == closed = "yes" ~> (pc[Main] = "exit" \/ closed = "no")

(* "The only place devices are created, so the poller and the store cannot  *)
(* drift" (Sync).                                                           *)
NoDrift == AtRest => InStep
=============================================================================
