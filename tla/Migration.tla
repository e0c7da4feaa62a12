----------------------------- MODULE Migration -----------------------------
(***************************************************************************)
(* One camera's recordings while its archive moves from the identifier the  *)
(* service gave the camera to the MAC it says it has: archiveKey,           *)
(* pollFirmware and migrateArchive (backend/internal/manager/manager.go)    *)
(* with MoveCamera (archive/archive.go), and who writes there meanwhile:    *)
(*                                                                         *)
(*   pull    the puller: Held, then download and Save                      *)
(*   stand   the stand-in recorder, for a card that is full or broken: its  *)
(*           recording is open for minutes                                 *)
(*   trans   the transcode worker                                          *)
(*                                                                         *)
(* Each of them works under the key it read when it began.  Store.mu keeps   *)
(* mkdirDay and Sweep out of a move, and nothing else.  One day directory;   *)
(* sidecars, which move like any file, are left out, and a file is whole     *)
(* (Archive shows that).  A Sweep, whose steps are in Archive, is one here.  *)
(***************************************************************************)
EXTENDS Integers, FiniteSets

CONSTANTS Card,         \* recordings the camera lists
          Stand,        \* start times it may trigger at with no usable card
          Id, Mac,      \* the two keys
          FirstKey,     \* the one of them that sorts first
          Nowhere,      \* no key
          MaxRetire, MaxFaults   \* bounds: passes of retention; I/O errors
                                 \* and starts of the service together

Recs    == Card \cup Stand
Keys    == {Id, Mac}
Forms   == {"avi", "mp4"}
Writers == {"pull", "stand"}
Procs   == Writers \cup {"trans"}
None    == -1

ASSUME RecsAssumption   == Recs \subseteq Nat \ {0} /\ IsFiniteSet(Recs) /\ Card \cap Stand = {}
ASSUME KeysAssumption   == Id # Mac /\ Nowhere \notin Keys /\ FirstKey \in Keys
ASSUME BoundsAssumption == MaxRetire \in Nat /\ MaxFaults \in Nat

VARIABLES
  names, aged, dirs,   \* per key: the files, the note .aged; the keys with a directory
  part,                \* the directory each goroutine's .part- file is in
  known,               \* device.mac: "yes" when the camera has said it
  pollPc, todo, entry, \* the poller in MoveCamera: what ReadDir returned, and the name in hand
  pc, key, rec,        \* each writer and the worker: progress, the key it works under, the recording
  pullTodo, clock,     \* the puller's day; when the last trigger was
  retired, faults,
  taken,               \* history: recordings retention removed a file of
  late                 \* history: files that came under Id since the move read it

disk     == <<names, aged, dirs, part>>
pollVars == <<known, pollPc, todo, entry>>
procVars == <<pc, key, rec, pullTodo, clock>>
retention == <<retired, taken>>
vars == <<disk, pollVars, procVars, retention, faults, late>>

(* An entry of a directory: a recording's file, a .part- file or the note;  *)
(* those that begin with a dot sort first, as number 0.                     *)
Note    == <<0, "aged">>
Entries == (Recs \X Forms) \cup ({0} \X Procs) \cup {Note}
Dir(k)  == names[k] \cup {<<0, p>> : p \in {q \in Procs : part[q] = k}}
             \cup (IF aged[k] = {} THEN {} ELSE {Note})

HeldAt(k)  == {e[1] : e \in names[k]}
Held       == HeldAt(Id) \cup HeldAt(Mac)
Settled(k) == HeldAt(k) \cup aged[k]

(* Where nothing is in hand. *)
Resting == {"idle", "held", "pick"}

TypeOK ==
  /\ names \in [Keys -> SUBSET (Recs \X Forms)] /\ aged \in [Keys -> SUBSET Recs]
  /\ dirs \subseteq Keys /\ part \in [Procs -> Keys \cup {Nowhere}]
  /\ known \in {"yes", "no"} /\ pollPc \in {"poll", "move", "entries", "remove", "rename"}
  /\ todo \subseteq Entries
  /\ entry \in (IF pollPc \in {"remove", "rename"} THEN Entries ELSE {Note})
  /\ pc \in [Procs -> Resting \cup {"key", "mkdir", "create", "body", "rename", "drop"}]
  /\ key \in [Procs -> Keys] /\ rec \in [Procs -> Recs \cup {None}]
  /\ \A p \in Procs : rec[p] = None <=> pc[p] \in Resting
  /\ pullTodo \subseteq Card /\ clock \in Stand \cup {0}
  /\ retired \in 0..MaxRetire /\ faults \in 0..MaxFaults
  /\ taken \subseteq Recs /\ late \subseteq Recs \X Forms

(* An earlier service left recordings under either key, in either form. *)
Init ==
  /\ \E f, g \in [Card -> Forms \cup {"none"}] :
       names = [k \in Keys |-> {e \in Card \X Forms : e[2] = (IF k = Id THEN f ELSE g)[e[1]]}]
  /\ aged = [k \in Keys |-> {}] /\ dirs = {k \in Keys : names[k] # {}}
  /\ part = [p \in Procs |-> Nowhere]
  /\ known = "no" /\ pollPc = "poll" /\ todo = {} /\ entry = Note
  /\ pc = [p \in Procs |-> "idle"] /\ key = [p \in Procs |-> Id] /\ rec = [p \in Procs |-> None]
  /\ pullTodo = {} /\ clock = 0
  /\ retired = 0 /\ faults = 0 /\ taken = {} /\ late = {}

Fault   == faults < MaxFaults /\ faults' = faults + 1 /\ UNCHANGED retention
NoFault == UNCHANGED <<retention, faults>>

(* archiveKey *)
ArchiveKey == IF known = "yes" THEN Mac ELSE Id

MuFree == pollPc \in {"poll", "move"}

-----------------------------------------------------------------------------
(* The poller.                                                              *)

PollStep(from) == pollPc = from /\ UNCHANGED procVars

(* pollFirmware: the camera's first answer with a MAC; migrateArchive runs  *)
(* once for a device.  pollOnce looked whether a download was under way     *)
(* before it asked, and one may have begun since.                           *)
Learn ==
  /\ PollStep("poll") /\ known = "no" /\ NoFault
  /\ known' = "yes" /\ pollPc' = "move"
  /\ UNCHANGED <<disk, todo, entry, late>>

(* MoveCamera returns with an error, and is not tried again. *)
MoveFails == /\ pollPc' = "poll" /\ todo' = {} /\ entry' = Note /\ late' = {}
             /\ UNCHANGED <<disk, known>>

MoveBegin ==
  /\ PollStep("move")
  /\ \/ /\ Id \in dirs /\ NoFault
        /\ dirs' = dirs \cup {Mac} /\ todo' = Dir(Id) /\ pollPc' = "entries"
        /\ UNCHANGED <<names, aged, part, known, entry, late>>
     \/ (Fault \/ (Id \notin dirs /\ NoFault)) /\ MoveFails

(* Mutants: every entry counts as a duplicate; an MP4 is passed over. *)
MoveStatDuplicate ==
  /\ PollStep("entries") /\ NoFault
  /\ \E e \in todo : /\ todo' = todo \ {e} /\ entry' = e /\ pollPc' = "remove"
  /\ UNCHANGED <<disk, known, late>>
MoveStatAvi ==
  /\ PollStep("entries") /\ NoFault
  /\ \E e \in todo : /\ todo' = todo \ {e} /\ entry' = (IF e[2] = "mp4" THEN Note ELSE e)
                     /\ pollPc' = (IF e[2] = "mp4" THEN "entries" ELSE IF e \in Dir(Mac) THEN "remove" ELSE "rename")
  /\ UNCHANGED <<disk, known, late>>

(* os.Stat of the destination. *)
MoveStat ==
  /\ PollStep("entries")
  /\ \E e \in todo :
       /\ \A x \in todo : e[1] <= x[1]
       /\ \/ /\ NoFault /\ todo' = todo \ {e} /\ entry' = e
             /\ pollPc' = (IF e \in Dir(Mac) THEN "remove" ELSE "rename")
             /\ UNCHANGED <<disk, known, late>>
          \/ Fault /\ MoveFails

(* entry leaves the old directory. *)
Unlink ==
  /\ names' = [names EXCEPT ![Id] = @ \ {entry}]
  /\ aged' = IF entry = Note THEN [aged EXCEPT ![Id] = {}] ELSE aged
  /\ part' = [p \in Procs |-> IF entry = <<0, p>> THEN Nowhere ELSE part[p]]

(* A duplicate: the source is removed, the note of what was aged out too.   *)
MoveRemove ==
  /\ PollStep("remove")
  /\ \/ /\ entry \in Dir(Id) /\ NoFault /\ Unlink
        /\ pollPc' = "entries" /\ entry' = Note /\ UNCHANGED <<dirs, known, todo, late>>
     \/ (Fault \/ (entry \notin Dir(Id) /\ NoFault)) /\ MoveFails

Relink ==
  /\ names' = IF entry \in names[Id] THEN [names EXCEPT ![Id] = @ \ {entry}, ![Mac] = @ \cup {entry}] ELSE names
  /\ aged' = IF entry = Note THEN [aged EXCEPT ![Id] = {}, ![Mac] = aged[Id]] ELSE aged
  /\ part' = [p \in Procs |-> IF entry = <<0, p>> THEN Mac ELSE part[p]]

MoveRename ==
  /\ PollStep("rename")
  /\ \/ /\ entry \in Dir(Id) /\ NoFault /\ Relink
        /\ pollPc' = "entries" /\ entry' = Note /\ UNCHANGED <<dirs, known, todo, late>>
     \/ (Fault \/ (entry \notin Dir(Id) /\ NoFault)) /\ MoveFails

(* os.Remove of what is empty now. *)
MoveDone ==
  /\ PollStep("entries") /\ NoFault /\ todo = {}
  /\ dirs' = IF Dir(Id) = {} THEN dirs \ {Id} ELSE dirs
  /\ pollPc' = "poll" /\ late' = {} /\ UNCHANGED <<names, aged, part, known, todo, entry>>

Poll == Learn \/ MoveBegin \/ MoveStat \/ MoveRemove \/ MoveRename \/ MoveDone

-----------------------------------------------------------------------------
(* The writers.                                                             *)

ProcStep(p, from) == pc[p] = from /\ UNCHANGED pollVars
Goto(p, to) == pc' = [pc EXCEPT ![p] = to]

(* Mutant: the key is read once and kept. *)
PullKeyKept ==
  /\ ProcStep("pull", "idle") /\ NoFault /\ Goto("pull", "held")
  /\ UNCHANGED <<disk, key, rec, pullTodo, clock, late>>

(* pullDay reads the key, and then the directory. *)
PullKey ==
  /\ ProcStep("pull", "idle") /\ NoFault /\ Goto("pull", "held")
  /\ key' = [key EXCEPT !["pull"] = ArchiveKey]
  /\ UNCHANGED <<disk, rec, pullTodo, clock, late>>

PullHeld ==
  /\ ProcStep("pull", "held") /\ NoFault /\ Goto("pull", "pick")
  /\ pullTodo' = Card \ Settled(key["pull"])
  /\ UNCHANGED <<disk, key, rec, clock, late>>

PullPick ==
  /\ ProcStep("pull", "pick") /\ NoFault
  /\ \/ \E r \in pullTodo : /\ pullTodo' = pullTodo \ {r} /\ Goto("pull", "key")
                            /\ rec' = [rec EXCEPT !["pull"] = r]
     \/ pullTodo = {} /\ Goto("pull", "idle") /\ UNCHANGED <<rec, pullTodo>>
  /\ UNCHANGED <<disk, key, clock, late>>

(* download: the camera has answered, and the key is read again. *)
PullOpen ==
  /\ ProcStep("pull", "key") /\ NoFault /\ Goto("pull", "mkdir")
  /\ key' = [key EXCEPT !["pull"] = ArchiveKey]
  /\ UNCHANGED <<disk, rec, pullTodo, clock, late>>

(* freeID, at a moment after the last trigger. *)
StandTrigger ==
  /\ ProcStep("stand", "idle") /\ NoFault /\ Goto("stand", "mkdir")
  /\ \E r \in Stand : /\ clock < r /\ r \notin HeldAt(ArchiveKey) /\ clock' = r
                      /\ rec' = [rec EXCEPT !["stand"] = r]
  /\ key' = [key EXCEPT !["stand"] = ArchiveKey]
  /\ UNCHANGED <<disk, pullTodo, late>>

WriteStep(w, from) == ProcStep(w, from) /\ UNCHANGED <<key, pullTodo, clock>>

(* Given up: the .part- file is removed by the name it was made under; one  *)
(* that was moved away, or that the disk keeps, is litter until the next    *)
(* start, which is nobody's (Archive has it).                               *)
Over(w) == /\ Goto(w, IF w = "pull" THEN "pick" ELSE "idle")
           /\ rec' = [rec EXCEPT ![w] = None] /\ part' = [part EXCEPT ![w] = Nowhere]

GiveUp(w) == Over(w) /\ UNCHANGED <<names, aged, dirs, late>>

Mkdir(w) ==
  /\ WriteStep(w, "mkdir") /\ MuFree
  /\ \/ /\ NoFault /\ dirs' = dirs \cup {key[w]} /\ Goto(w, "create")
        /\ UNCHANGED <<names, aged, part, rec, late>>
     \/ Fault /\ GiveUp(w)

Create(w) ==
  /\ WriteStep(w, "create")
  /\ \/ /\ key[w] \in dirs /\ NoFault /\ part' = [part EXCEPT ![w] = key[w]] /\ Goto(w, "body")
        /\ UNCHANGED <<names, aged, dirs, rec, late>>
     \/ (Fault \/ (key[w] \notin dirs /\ NoFault)) /\ GiveUp(w)

(* The body arrives, or the frames until the recording ends; or not, or the *)
(* frames are too few to keep.                                              *)
Body(w) ==
  /\ WriteStep(w, "body")
  /\ \/ NoFault /\ Goto(w, "rename") /\ UNCHANGED <<disk, rec, late>>
     \/ (Fault \/ (w = "stand" /\ NoFault)) /\ GiveUp(w)

(* A name that is given under a key; late is what the move does not know of. *)
Land(k, e) == /\ names' = [names EXCEPT ![k] = @ \cup {e}]
              /\ late' = IF k = Id /\ ~MuFree THEN late \cup {e} ELSE late

(* The sidecar and the rename: without the directory neither can be. *)
Rename(w) ==
  /\ WriteStep(w, "rename")
  /\ \/ /\ part[w] = key[w] /\ NoFault
        /\ Land(key[w], <<rec[w], "avi">>) /\ Over(w) /\ UNCHANGED <<aged, dirs>>
     \/ (Fault \/ (part[w] # key[w] /\ NoFault)) /\ GiveUp(w)

Write(w) == Mkdir(w) \/ Create(w) \/ Body(w) \/ Rename(w)

Pull  == PullKey \/ PullHeld \/ PullPick \/ PullOpen \/ Write("pull")
StandIn == StandTrigger \/ Write("stand")

-----------------------------------------------------------------------------
(* The transcode worker, on a recording that was offered or found.          *)

TransStep(from) == ProcStep("trans", from) /\ UNCHANGED <<pullTodo, clock>>
TransOver == /\ Goto("trans", "idle") /\ rec' = [rec EXCEPT !["trans"] = None]
             /\ part' = [part EXCEPT !["trans"] = Nowhere] /\ UNCHANGED key

(* Both forms: the AVI is to be removed.  The AVI alone: encode. *)
TransStart ==
  /\ TransStep("idle") /\ NoFault
  /\ \E k \in Keys, r \in Recs :
       /\ <<r, "avi">> \in names[k]
       /\ IF <<r, "mp4">> \in names[k]
          THEN Goto("trans", "drop") /\ UNCHANGED part
          ELSE Goto("trans", "body") /\ part' = [part EXCEPT !["trans"] = k]
       /\ key' = [key EXCEPT !["trans"] = k] /\ rec' = [rec EXCEPT !["trans"] = r]
  /\ UNCHANGED <<names, aged, dirs, late>>

TransAvi == <<rec["trans"], "avi">>

(* The encode is there, as long as the AVI, which is there too; or not. *)
TransVerify ==
  /\ TransStep("body") /\ NoFault
  /\ \/ /\ part["trans"] = key["trans"] /\ TransAvi \in names[key["trans"]]
        /\ Goto("trans", "rename") /\ UNCHANGED <<disk, key, rec, late>>
     \/ TransOver /\ UNCHANGED <<names, aged, dirs, late>>

TransRename ==
  /\ TransStep("rename")
  /\ \/ /\ part["trans"] = key["trans"] /\ NoFault
        /\ Land(key["trans"], <<rec["trans"], "mp4">>) /\ Goto("trans", "drop")
        /\ part' = [part EXCEPT !["trans"] = Nowhere] /\ UNCHANGED <<aged, dirs, key, rec>>
     \/ /\ Fault \/ (part["trans"] # key["trans"] /\ NoFault)
        /\ TransOver /\ UNCHANGED <<names, aged, dirs, late>>

(* os.Remove of the AVI; it stays beside the MP4 when that fails. *)
TransDrop ==
  /\ TransStep("drop") /\ TransOver
  /\ \/ NoFault /\ names' = [names EXCEPT ![key["trans"]] = @ \ {TransAvi}]
     \/ Fault /\ UNCHANGED names
  /\ UNCHANGED <<aged, dirs, late>>

Transcode == TransStart \/ TransVerify \/ TransRename \/ TransDrop

-----------------------------------------------------------------------------
(* What scan returns has the recordings of each key, so one that is under   *)
(* both is there twice.  Newest first, and the keys in their order.         *)
Listed == {l \in Keys \X Recs : l[2] \in HeldAt(l[1])}
Before(l, m) == l[2] > m[2] \/ (l[2] = m[2] /\ l[1] = FirstKey /\ m[1] # FirstKey)
Last == {l \in Listed : \A m \in Listed : ~Before(l, m)}

(* A pass of Sweep that takes nothing, or the last of the list, or a file   *)
(* of it, and never the only one; then the directories that are empty.      *)
Sweep ==
  /\ MuFree /\ retired < MaxRetire /\ retired' = retired + 1
  /\ \/ \E l \in Last :
          /\ Listed # {l}
          /\ names' = [names EXCEPT ![l[1]] =
                         @ \ {<<l[2], IF <<l[2], "mp4">> \in @ THEN "mp4" ELSE "avi">>}]
          /\ aged' = [aged EXCEPT ![l[1]] = @ \cup {l[2]}]
          /\ taken' = taken \cup {l[2]}
     \/ UNCHANGED <<names, aged, taken>>
  /\ part' = part /\ dirs' = {k \in dirs : Dir(k)' # {}}
  /\ UNCHANGED <<pollVars, procVars, faults, late>>

(* The service stops at any point and starts again: Open removes the .part- *)
(* files, and the new device has yet to hear from the camera.               *)
Restart ==
  /\ Fault
  /\ part' = [p \in Procs |-> Nowhere]
  /\ known' = "no" /\ pollPc' = "poll" /\ todo' = {} /\ entry' = Note
  /\ pc' = [p \in Procs |-> "idle"] /\ key' = [p \in Procs |-> Id]
  /\ rec' = [p \in Procs |-> None] /\ pullTodo' = {} /\ late' = {}
  /\ UNCHANGED <<names, aged, dirs, clock>>

Next == Poll \/ Pull \/ StandIn \/ Transcode \/ Sweep \/ Restart

Spec == Init /\ [][Next]_vars

(* The poller goes on with a move it has begun, and the puller with its     *)
(* rounds; Store.mu does not let a waiter starve.                           *)
Moving == MoveBegin \/ MoveStat \/ MoveRemove \/ MoveRename \/ MoveDone
Fairness == WF_vars(Moving) /\ WF_vars(Pull)
FairSpec == Spec /\ Fairness

-----------------------------------------------------------------------------
(* No order of a move, a write, a transcode and a crash loses a recording   *)
(* that was held under either key: only one that retention had taken a file *)
(* of goes (MoveCamera: "the copy the rest of the service can find is the   *)
(* one that should survive").                                               *)
FootageKept == [][Held \ Held' \subseteq taken']_vars

(* A move that returns without an error leaves no recording under the old   *)
(* key but what came there after it had read the directory.                 *)
Moved == [][MoveDone => names[Id] \subseteq late]_vars

(* Once the camera has said its MAC for good, each recording on its card    *)
(* comes to stay settled under it, whichever key a round began with.        *)
CardFiled == <>[](known = "yes") => \A r \in Card : <>[](r \in Settled(Mac))

-----------------------------------------------------------------------------
(* Statements of the comments that the code does not keep.                  *)

(* "The newest recording is never removed" (Sweep), of a recording under    *)
(* either key: where both have it, they are two in the list, and Sweep may  *)
(* take the one that the move and the worker then rely on.                  *)
Promise == INSTANCE ArchivePromise WITH held <- Held
KeepsPromise == [][Promise!Next]_Held

(* "What arrived is still footage" (standInOnce): a recording that ended    *)
(* as it should, with no error of the disk, is held.                        *)
StandInLands ==
  [][pc["stand"] = "rename" /\ pc'["stand"] = "idle" /\ NoFault
       => rec["stand"] \in HeldAt(key["stand"])']_vars

(* The move brings over "anything filed under the old key" (archiveKey).    *)
AllFiled ==
  known = "yes" /\ pollPc = "poll" /\ (\A p \in Procs : pc[p] # "idle" => key[p] = Mac)
    => names[Id] = {}

(* "A recording already present at the destination is not overwritten"      *)
(* (MoveCamera).                                                            *)
NotOverwritten == [][MoveRename => entry \notin names[Mac]]_vars

(* Held "neither fetches a recording twice nor fetches back one that was    *)
(* deliberately let go": what retention took stays noted under some key.    *)
Noted == aged[Id] \cup aged[Mac]
NotesKept == [][Noted \subseteq Noted']_vars
=============================================================================
