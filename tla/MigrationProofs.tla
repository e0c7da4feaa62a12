-------------------------- MODULE MigrationProofs --------------------------
(***************************************************************************)
(* For any recordings, any number of triggers and any bounds: nothing is     *)
(* lost that retention has not taken from while recordings change their key, *)
(* and a move that ends without an error leaves behind only what came after  *)
(* it had looked.                                                            *)
(***************************************************************************)
EXTENDS Migration, TLAPS

USE DEF Keys, Forms, Writers, Procs, None, Note

(* The AVI the worker is about to remove has its MP4 beside it, or the move *)
(* took that along, or retention took it.                                   *)
DropSafe ==
  pc["trans"] = "drop" => \/ <<rec["trans"], "mp4">> \in names[key["trans"]] \cup names[Mac]
                          \/ rec["trans"] \in taken

(* A duplicate the move is about to remove is held under the new key, an    *)
(* MP4 as such and an AVI in one form or the other, or retention has taken  *)
(* from it (the copy that Sweep left may be the one the move removes).      *)
RemoveSafe ==
  pollPc = "remove" /\ entry \in Recs \X Forms =>
    /\ entry[1] \in HeldAt(Mac) \cup taken
    /\ entry[2] = "mp4" => entry \in names[Mac]

(* While a move is under way, all that is under the old key is in its list, *)
(* in its hand, or came later.                                              *)
MoveSees == ~MuFree => names[Id] \subseteq late \cup todo \cup {entry}

Inductive == TypeOK /\ DropSafe /\ RemoveSafe /\ MoveSees

-----------------------------------------------------------------------------
(* What a change of names does to what is held.                             *)

LEMMA AddEffect ==
  ASSUME TypeOK, NEW k \in Keys, NEW r \in Recs, NEW f \in Forms, Land(k, <<r, f>>)
  PROVE  /\ Held' = Held \cup {r}
         /\ \A x \in Keys : names[x] \subseteq names'[x]
         /\ <<r, f>> \in names'[k]
         /\ k = Mac \/ MuFree => late' = late
         /\ names' \in [Keys -> SUBSET (Recs \X Forms)]
         /\ late' \subseteq Recs \X Forms
<1>1. names' = [names EXCEPT ![k] = @ \cup {<<r, f>>}]
  BY DEF Land
<1>2. \A x \in Keys : names'[x] = IF x = k THEN names[x] \cup {<<r, f>>} ELSE names[x]
  BY <1>1 DEF TypeOK
<1>3. Held' = Held \cup {r}
  BY <1>2 DEF Held, HeldAt
<1> QED BY <1>1, <1>2, <1>3, KeysAssumption DEF TypeOK, Land

LEMMA RemoveEffect ==
  ASSUME TypeOK, NEW k \in Keys, NEW e \in Recs \X Forms, names' = [names EXCEPT ![k] = @ \ {e}]
  PROVE  /\ Held' = Held \/ Held' = Held \ {e[1]}
         /\ \A x \in Keys : names'[x] = IF x = k THEN names[x] \ {e} ELSE names[x]
         /\ names' \in [Keys -> SUBSET (Recs \X Forms)]
<1>1. \A x \in Keys : names'[x] = IF x = k THEN names[x] \ {e} ELSE names[x]
  BY DEF TypeOK
<1>2. \A r \in Held' : r \in Held
  BY <1>1 DEF Held, HeldAt
<1>3. \A r \in Held : r # e[1] => r \in Held'
  BY <1>1 DEF Held, HeldAt
<1>4. Held' = Held \/ Held' = Held \ {e[1]}
  BY <1>2, <1>3
<1>5. names' \in [Keys -> SUBSET (Recs \X Forms)]
  BY DEF TypeOK
<1> QED BY <1>1, <1>4, <1>5

LEMMA RelinkEffect ==
  ASSUME TypeOK, Relink
  PROVE  /\ Held' = Held
         /\ names'[Mac] = IF entry \in names[Id] THEN names[Mac] \cup {entry} ELSE names[Mac]
         /\ names'[Id] = names[Id] \ {entry}
         /\ names' \in [Keys -> SUBSET (Recs \X Forms)]
<1>1. /\ names'[Mac] = IF entry \in names[Id] THEN names[Mac] \cup {entry} ELSE names[Mac]
      /\ names'[Id] = names[Id] \ {entry}
      /\ names' \in [Keys -> SUBSET (Recs \X Forms)]
  BY KeysAssumption DEF TypeOK, Relink
<1>2. Held' = Held
  BY <1>1 DEF Held, HeldAt
<1> QED BY <1>1, <1>2

(* What a step may do to the recordings held. *)
HeldStep == \/ Held' = Held
            \/ \E r \in Recs : Held' = Held \cup {r}
            \/ \E r \in taken' : Held' = Held \ {r}

LEMMA HeldType == ASSUME TypeOK PROVE Held \subseteq Recs /\ Held \subseteq Nat
<1>1. \A k \in Keys : HeldAt(k) \subseteq Recs
  BY DEF TypeOK, HeldAt
<1> QED BY <1>1, RecsAssumption DEF Held

-----------------------------------------------------------------------------
(* Type correctness.                                                        *)

LEMMA FaultType ==
  ASSUME TypeOK, Fault \/ NoFault
  PROVE  retired' \in 0..MaxRetire /\ faults' \in 0..MaxFaults /\ taken' = taken
BY BoundsAssumption DEF TypeOK, Fault, NoFault, retention

LEMMA PollType == ASSUME TypeOK, Poll PROVE TypeOK'
<1> USE FaultType DEF TypeOK, PollStep, procVars, disk
<1>1. CASE Learn
  BY <1>1 DEF Learn
<1>2. CASE MoveBegin
  <2>1. \A k \in Keys : Dir(k) \subseteq Entries
    BY DEF Dir, Entries
  <2> QED BY <1>2, <2>1 DEF MoveBegin, MoveFails
<1>3. CASE MoveStat
  BY <1>3 DEF MoveStat, MoveFails
<1>4. CASE MoveRemove
  <2>1. CASE MoveFails
    BY <1>4, <2>1 DEF MoveRemove, MoveFails
  <2>2. CASE Unlink /\ pollPc' = "entries"
    BY <1>4, <2>2 DEF MoveRemove, Unlink, MoveFails
  <2> QED BY <1>4, <2>1, <2>2 DEF MoveRemove
<1>5. CASE MoveRename
  <2>1. CASE MoveFails
    BY <1>5, <2>1 DEF MoveRename, MoveFails
  <2>2. CASE Relink /\ pollPc' = "entries"
    <3>1. names' \in [Keys -> SUBSET (Recs \X Forms)]
      BY <2>2, RelinkEffect
    <3>2. aged' \in [Keys -> SUBSET Recs] /\ part' \in [Procs -> Keys \cup {Nowhere}]
      BY <2>2 DEF Relink
    <3> QED BY <1>5, <2>2, <3>1, <3>2 DEF MoveRename, MoveFails
  <2> QED BY <1>5, <2>1, <2>2 DEF MoveRename
<1>6. CASE MoveDone
  BY <1>6 DEF MoveDone
<1> QED BY <1>1, <1>2, <1>3, <1>4, <1>5, <1>6 DEF Poll

LEMMA KeyType == ArchiveKey \in Keys
BY DEF ArchiveKey

LEMMA WriteType == ASSUME TypeOK, NEW w \in Writers, Write(w) PROVE TypeOK'
<1> USE FaultType DEF TypeOK, WriteStep, ProcStep, Goto, Resting, pollVars, disk
<1>1. CASE Mkdir(w)
  BY <1>1 DEF Mkdir, GiveUp, Over
<1>2. CASE Create(w)
  BY <1>2 DEF Create, GiveUp, Over
<1>3. CASE Body(w)
  BY <1>3 DEF Body, GiveUp, Over
<1>4. CASE Rename(w)
  <2>1. CASE GiveUp(w)
    BY <1>4, <2>1 DEF Rename, GiveUp, Over
  <2>2. CASE Land(key[w], <<rec[w], "avi">>) /\ Over(w) /\ UNCHANGED <<aged, dirs>>
    <3>1. rec[w] \in Recs /\ key[w] \in Keys
      BY <1>4 DEF Rename
    <3>2. names' \in [Keys -> SUBSET (Recs \X Forms)] /\ late' \subseteq Recs \X Forms
      BY <2>2, <3>1, AddEffect
    <3> QED BY <1>4, <2>2, <3>2 DEF Rename, Over
  <2> QED BY <1>4, <2>1, <2>2 DEF Rename
<1> QED BY <1>1, <1>2, <1>3, <1>4 DEF Write

LEMMA PullType == ASSUME TypeOK, Pull \/ StandIn PROVE TypeOK'
<1> USE FaultType, KeyType DEF TypeOK, ProcStep, Goto, Resting, pollVars, disk
<1>1. CASE PullKey
  BY <1>1 DEF PullKey
<1>2. CASE PullHeld
  BY <1>2 DEF PullHeld
<1>3. CASE PullPick
  BY <1>3, RecsAssumption DEF PullPick, Recs
<1>4. CASE PullOpen
  BY <1>4 DEF PullOpen
<1>5. CASE StandTrigger
  BY <1>5, RecsAssumption DEF StandTrigger, Recs
<1>6. CASE \E w \in Writers : Write(w)
  BY <1>6, WriteType
<1> QED BY <1>1, <1>2, <1>3, <1>4, <1>5, <1>6 DEF Pull, StandIn

LEMMA TransType == ASSUME TypeOK, Transcode PROVE TypeOK'
<1> USE FaultType DEF TypeOK, TransStep, TransOver, TransAvi, ProcStep, Goto, Resting, pollVars, disk
<1>1. CASE TransStart
  <2>1. PICK k \in Keys, r \in Recs :
          /\ \/ Goto("trans", "drop") /\ UNCHANGED part
             \/ Goto("trans", "body") /\ part' = [part EXCEPT !["trans"] = k]
          /\ key' = [key EXCEPT !["trans"] = k] /\ rec' = [rec EXCEPT !["trans"] = r]
    BY <1>1 DEF TransStart
  <2>2. /\ part' \in [Procs -> Keys \cup {Nowhere}] /\ key' \in [Procs -> Keys]
        /\ pc' \in [Procs -> Resting \cup {"key", "mkdir", "create", "body", "rename", "drop"}]
        /\ rec' \in [Procs -> Recs \cup {None}]
    BY <2>1
  <2>3. \A p \in Procs : rec'[p] = None <=> pc'[p] \in Resting
    BY <2>1, RecsAssumption
  <2> QED BY <1>1, <2>2, <2>3 DEF TransStart
<1>2. CASE TransVerify
  BY <1>2 DEF TransVerify
<1>3. CASE TransRename
  <2>1. CASE TransOver
    BY <1>3, <2>1 DEF TransRename
  <2>2. CASE Land(key["trans"], <<rec["trans"], "mp4">>)
    <3>1. rec["trans"] \in Recs /\ key["trans"] \in Keys
      BY <1>3 DEF TransRename
    <3>2. names' \in [Keys -> SUBSET (Recs \X Forms)] /\ late' \subseteq Recs \X Forms
      BY <2>2, <3>1, AddEffect
    <3> QED BY <1>3, <2>2, <3>2 DEF TransRename
  <2> QED BY <1>3, <2>1, <2>2 DEF TransRename
<1>4. CASE TransDrop
  BY <1>4 DEF TransDrop
<1> QED BY <1>1, <1>2, <1>3, <1>4 DEF Transcode

LEMMA TypeStep == TypeOK /\ [Next]_vars => TypeOK'
<1> SUFFICES ASSUME TypeOK, [Next]_vars PROVE TypeOK'
  OBVIOUS
<1>1. CASE Sweep
  <2>1. CASE UNCHANGED <<names, aged, taken>>
    BY <1>1, <2>1, BoundsAssumption DEF Sweep, TypeOK, pollVars, procVars
  <2>2. CASE \E l \in Last :
               /\ names' = [names EXCEPT ![l[1]] =
                              @ \ {<<l[2], IF <<l[2], "mp4">> \in @ THEN "mp4" ELSE "avi">>}]
               /\ aged' = [aged EXCEPT ![l[1]] = @ \cup {l[2]}]
               /\ taken' = taken \cup {l[2]}
    <3>1. PICK l \in Last : /\ names' = [names EXCEPT ![l[1]] =
                              @ \ {<<l[2], IF <<l[2], "mp4">> \in @ THEN "mp4" ELSE "avi">>}]
                            /\ aged' = [aged EXCEPT ![l[1]] = @ \cup {l[2]}]
                            /\ taken' = taken \cup {l[2]}
      BY <2>2
    <3>2. l[1] \in Keys /\ l[2] \in Recs
      BY DEF Last, Listed
    <3>3. names' \in [Keys -> SUBSET (Recs \X Forms)]
      BY <3>1, <3>2 DEF TypeOK
    <3>4. aged' \in [Keys -> SUBSET Recs] /\ taken' \subseteq Recs
      BY <3>1, <3>2 DEF TypeOK
    <3> QED BY <1>1, <3>3, <3>4, BoundsAssumption DEF Sweep, TypeOK, pollVars, procVars
  <2> QED BY <1>1, <2>1, <2>2 DEF Sweep
<1>2. CASE Restart
  BY <1>2, FaultType DEF Restart, TypeOK, Resting
<1>3. CASE UNCHANGED vars
  BY <1>3 DEF vars, disk, pollVars, procVars, retention, TypeOK
<1> QED BY <1>1, <1>2, <1>3, PollType, PullType, TransType DEF Next

-----------------------------------------------------------------------------
(* Most steps leave alone what the rest of the invariant is about: the      *)
(* files, the move, and the worker's removal of an AVI.                     *)
Quiet ==
  /\ names' = names /\ UNCHANGED pollVars /\ UNCHANGED late /\ taken \subseteq taken'
  /\ pc'["trans"] = "drop" => /\ pc["trans"] = "drop" /\ rec'["trans"] = rec["trans"]
                              /\ key'["trans"] = key["trans"]

LEMMA QuietInductive ==
  ASSUME Inductive, Quiet, TypeOK'
  PROVE  Inductive' /\ Held' = Held
<1>1. Held' = Held /\ \A k \in Keys : HeldAt(k)' = HeldAt(k)
  BY DEF Quiet, Held, HeldAt
<1>2. DropSafe'
  BY DEF Inductive, Quiet, DropSafe
<1>3. RemoveSafe'
  BY <1>1 DEF Inductive, Quiet, RemoveSafe, pollVars
<1>4. MoveSees'
  BY DEF Inductive, Quiet, MoveSees, MuFree, pollVars
<1> QED BY <1>1, <1>2, <1>3, <1>4 DEF Inductive

(* A recording lands, or its MP4 beside its AVI.                            *)
LEMMA LandInductive ==
  ASSUME Inductive, TypeOK', UNCHANGED pollVars, taken \subseteq taken',
         NEW k \in Keys, NEW r \in Recs, NEW f \in Forms, Land(k, <<r, f>>),
         pc'["trans"] = "drop" => /\ rec'["trans"] = rec["trans"] /\ key'["trans"] = key["trans"]
                                  /\ \/ pc["trans"] = "drop"
                                     \/ rec["trans"] = r /\ key["trans"] = k /\ f = "mp4"
  PROVE  Inductive' /\ Held' = Held \cup {r}
<1>1. /\ Held' = Held \cup {r}
      /\ \A x \in Keys : names[x] \subseteq names'[x]
      /\ <<r, f>> \in names'[k]
  BY AddEffect DEF Inductive
<1>2. DropSafe'
  BY <1>1 DEF Inductive, DropSafe, TypeOK
<1>3. HeldAt(Mac) \subseteq HeldAt(Mac)'
  BY <1>1 DEF HeldAt
<1>4. RemoveSafe'
  BY <1>1, <1>3 DEF Inductive, RemoveSafe, pollVars
<1>5. MoveSees'
  BY <1>1, KeysAssumption DEF Inductive, MoveSees, MuFree, pollVars, Land, TypeOK
<1> QED BY <1>1, <1>2, <1>4, <1>5 DEF Inductive

(* A file goes that its recording is still held without, or that retention  *)
(* has taken from.                                                          *)
LEMMA RemoveStep ==
  ASSUME TypeOK, NEW k \in Keys, NEW e \in Recs \X Forms,
         names' = [names EXCEPT ![k] = @ \ {e}],
         e[1] \in Held' \cup taken'
  PROVE  HeldStep
<1>1. Held' = Held \/ Held' = Held \ {e[1]}
  BY RemoveEffect
<1>2. CASE e[1] \in Held'
  BY <1>1, <1>2 DEF HeldStep
<1>3. CASE e[1] \in taken'
  BY <1>1, <1>3 DEF HeldStep
<1> QED BY <1>2, <1>3

LEMMA TransStartStep ==
  ASSUME Inductive, TransStart, TypeOK', taken \subseteq taken'
  PROVE  Inductive' /\ HeldStep
<1>1. PICK k \in Keys, r \in Recs :
        /\ IF <<r, "mp4">> \in names[k] THEN Goto("trans", "drop") ELSE Goto("trans", "body")
        /\ key' = [key EXCEPT !["trans"] = k] /\ rec' = [rec EXCEPT !["trans"] = r]
  BY DEF TransStart
<1>2. /\ names' = names /\ UNCHANGED pollVars /\ UNCHANGED late
      /\ key'["trans"] = k /\ rec'["trans"] = r
      /\ pc'["trans"] = "drop" => <<r, "mp4">> \in names[k]
  BY <1>1 DEF TransStart, TransStep, ProcStep, Goto, Inductive, TypeOK
<1>3. Held' = Held /\ \A x \in Keys : HeldAt(x)' = HeldAt(x)
  BY <1>2 DEF Held, HeldAt
<1>5. DropSafe' /\ RemoveSafe' /\ MoveSees'
  BY <1>2, <1>3 DEF Inductive, DropSafe, RemoveSafe, MoveSees, MuFree, pollVars
<1> QED BY <1>3, <1>5 DEF Inductive, HeldStep

LEMMA TransDropStep ==
  ASSUME Inductive, TransDrop, TypeOK', taken \subseteq taken', ~UNCHANGED names
  PROVE  Inductive' /\ HeldStep
<1> DEFINE r == rec["trans"]
           k == key["trans"]
<1>1. /\ pc["trans"] = "drop" /\ pc'["trans"] = "idle" /\ UNCHANGED late /\ UNCHANGED pollVars
      /\ r \in Recs /\ k \in Keys
      /\ names' = [names EXCEPT ![k] = @ \ {<<r, "avi">>}]
  BY DEF TransDrop, TransStep, TransOver, ProcStep, Goto, Inductive, TypeOK, TransAvi, Resting
<1> DEFINE e == <<r, "avi">>
<1>a. e \in Recs \X Forms /\ e[1] = r /\ names' = [names EXCEPT ![k] = @ \ {e}]
  BY <1>1
<1>2. \A x \in Keys : names'[x] = IF x = k THEN names[x] \ {<<r, "avi">>} ELSE names[x]
  <2> HIDE DEF e
  <2>1. \A x \in Keys : names'[x] = IF x = k THEN names[x] \ {e} ELSE names[x]
    BY <1>1, <1>a, RemoveEffect DEF Inductive
  <2> QED BY <2>1 DEF e
<1>3. (<<r, "mp4">> \in names[k] /\ <<r, "mp4">> \in names'[k])
      \/ (<<r, "mp4">> \in names[Mac] /\ <<r, "mp4">> \in names'[Mac]) \/ r \in taken
  BY <1>1, <1>2 DEF Inductive, DropSafe
<1>4. r \in Held' \cup taken'
  BY <1>1, <1>3 DEF HeldAt, Held
<1>5. HeldStep
  <2> HIDE DEF e
  <2> QED BY <1>1, <1>a, <1>4, RemoveStep DEF Inductive
<1>6. DropSafe'
  BY <1>1 DEF DropSafe
<1>7. \A x \in HeldAt(Mac) : x \in HeldAt(Mac)' \cup taken'
  <2> SUFFICES ASSUME NEW g \in names[Mac] PROVE g[1] \in HeldAt(Mac)' \cup taken'
    BY DEF HeldAt
  <2>1. CASE g = <<r, "avi">> /\ k = Mac
    <3>1. CASE r \in taken
      BY <2>1, <3>1
    <3>2. CASE <<r, "mp4">> \in names'[Mac]
      BY <2>1, <3>2 DEF HeldAt
    <3> QED BY <1>3, <2>1, <3>1, <3>2
  <2>2. CASE g # <<r, "avi">> \/ k # Mac
    BY <1>2, <2>2 DEF HeldAt
  <2> QED BY <2>1, <2>2
<1>8. RemoveSafe'
  <2>1. \A g \in names[Mac] : g[2] = "mp4" => g \in names'[Mac]
    BY <1>2
  <2> QED BY <1>1, <1>7, <2>1 DEF Inductive, RemoveSafe, pollVars
<1>9. MoveSees'
  BY <1>1, <1>2 DEF Inductive, MoveSees, MuFree, pollVars
<1> QED BY <1>5, <1>6, <1>8, <1>9 DEF Inductive

-----------------------------------------------------------------------------
(* The move.                                                                *)

LEMMA PollFrame == ASSUME Poll PROVE UNCHANGED <<pc, key, rec>>
BY DEF Poll, Learn, MoveBegin, MoveStat, MoveRemove, MoveRename, MoveDone, PollStep, procVars

(* A recording's file is in a directory as a name, not as a .part- file.    *)
LEMMA DirNames ==
  ASSUME NEW k \in Keys, NEW e \in Recs \X Forms
  PROVE  e \in Dir(k) <=> e \in names[k]
<1>1. e[1] # 0
  BY RecsAssumption
<1> QED BY <1>1 DEF Dir

LEMMA MoveStands ==
  ASSUME Inductive, TypeOK', taken \subseteq taken', Poll, names' = names
  PROVE  Inductive' /\ HeldStep
<1>1. Held' = Held /\ \A k \in Keys : HeldAt(k)' = HeldAt(k)
  BY DEF Held, HeldAt
<1>3. DropSafe'
  BY PollFrame DEF Inductive, DropSafe
<1>4. RemoveSafe' /\ MoveSees'
  <2>1. CASE MuFree'
    BY <2>1 DEF RemoveSafe, MoveSees, MuFree
  <2>2. CASE MoveBegin /\ ~MuFree'
    <3>1. pollPc' = "entries" /\ todo' = Dir(Id)
      BY <2>2 DEF MoveBegin, MoveFails, MuFree
    <3> QED BY <3>1 DEF RemoveSafe, MoveSees, Dir
  <2>3. CASE MoveStat /\ ~MuFree'
    <3>1. PICK e \in todo : /\ todo' = todo \ {e} /\ entry' = e /\ UNCHANGED late
                            /\ pollPc' = IF e \in Dir(Mac) THEN "remove" ELSE "rename"
      BY <2>3 DEF MoveStat, MoveFails, MuFree
    <3>2. RemoveSafe'
      BY <1>1, <3>1, DirNames DEF RemoveSafe, HeldAt
    <3>3. entry = Note /\ Note \notin names[Id]
      BY <2>3, RecsAssumption DEF MoveStat, PollStep, Inductive, TypeOK
    <3>4. ~MuFree
      BY <2>3 DEF MoveStat, PollStep, MuFree
    <3> QED BY <3>1, <3>2, <3>3, <3>4 DEF MoveSees, Inductive
  <2>4. CASE (MoveRemove \/ MoveRename) /\ ~MuFree'
    <3>1. /\ UNCHANGED <<todo, late>> /\ pollPc' = "entries" /\ ~MuFree
          /\ Unlink \/ Relink
      BY <2>4 DEF MoveRemove, MoveRename, MoveFails, PollStep, MuFree
    <3>2. entry \notin names[Id]
      BY <3>1, KeysAssumption DEF Unlink, Relink, Inductive, TypeOK
    <3> QED BY <3>1, <3>2 DEF RemoveSafe, MoveSees, Inductive
  <2> QED BY <2>1, <2>2, <2>3, <2>4 DEF Poll, Learn, MoveDone, MuFree
<1> QED BY <1>1, <1>3, <1>4 DEF Inductive, HeldStep

LEMMA MoveRemoveStep ==
  ASSUME Inductive, TypeOK', taken \subseteq taken', MoveRemove, names' # names
  PROVE  Inductive' /\ HeldStep
<1>1. /\ pollPc = "remove" /\ pollPc' = "entries" /\ UNCHANGED <<todo, late, pc, key, rec>>
      /\ names' = [names EXCEPT ![Id] = @ \ {entry}]
  BY DEF MoveRemove, MoveFails, Unlink, PollStep, procVars, disk
<1>2. entry \in names[Id] /\ entry \in Recs \X Forms
  BY <1>1 DEF Inductive, TypeOK
<1>3. \A x \in Keys : names'[x] = IF x = Id THEN names[x] \ {entry} ELSE names[x]
  BY <1>1, <1>2, RemoveEffect DEF Inductive
<1>4. HeldAt(Mac)' = HeldAt(Mac) /\ HeldAt(Mac) \subseteq Held'
  BY <1>3, KeysAssumption DEF HeldAt, Held
<1>5. HeldStep
  BY <1>1, <1>2, <1>4, RemoveStep DEF Inductive, RemoveSafe
<1>6. DropSafe'
  <2> SUFFICES ASSUME pc["trans"] = "drop"
               PROVE  \/ <<rec["trans"], "mp4">> \in names'[key["trans"]] \cup names'[Mac]
                      \/ rec["trans"] \in taken'
    BY <1>1 DEF DropSafe
  <2>1. key["trans"] \in Keys /\ rec["trans"] \in Recs
    BY DEF Inductive, TypeOK, Resting
  <2>2. CASE rec["trans"] \in taken
    BY <2>2
  <2>3. CASE <<rec["trans"], "mp4">> \in names[Mac]
    BY <1>3, <2>3, KeysAssumption
  <2>4. CASE <<rec["trans"], "mp4">> \in names[key["trans"]] /\ entry # <<rec["trans"], "mp4">>
    BY <1>3, <2>1, <2>4
  <2>5. CASE entry = <<rec["trans"], "mp4">>
    <3>1. entry \in names[Mac]
      BY <1>1, <1>2, <2>5 DEF Inductive, RemoveSafe
    <3> QED BY <1>3, <2>5, <3>1, KeysAssumption
  <2> QED BY <2>2, <2>3, <2>4, <2>5 DEF Inductive, DropSafe
<1>7. RemoveSafe' /\ MoveSees'
  BY <1>1, <1>3 DEF RemoveSafe, MoveSees, Inductive, MuFree
<1> QED BY <1>5, <1>6, <1>7 DEF Inductive

LEMMA MoveRenameStep ==
  ASSUME Inductive, TypeOK', taken \subseteq taken', MoveRename, names' # names
  PROVE  Inductive' /\ HeldStep
<1>1. /\ pollPc = "rename" /\ pollPc' = "entries" /\ UNCHANGED <<todo, late, pc, key, rec>>
      /\ Relink
  BY DEF MoveRename, MoveFails, PollStep, procVars, disk
<1>2. /\ Held' = Held /\ names[Mac] \subseteq names'[Mac]
      /\ names'[Id] = names[Id] \ {entry} /\ (entry \in names[Id] => entry \in names'[Mac])
  BY <1>1, RelinkEffect DEF Inductive
<1>4. DropSafe'
  <2>1. key["trans"] \in Keys
    BY DEF Inductive, TypeOK
  <2> QED BY <1>1, <1>2, <2>1 DEF Inductive, DropSafe
<1>5. RemoveSafe' /\ MoveSees'
  BY <1>1, <1>2 DEF RemoveSafe, MoveSees, Inductive, MuFree
<1> QED BY <1>2, <1>4, <1>5 DEF Inductive, HeldStep

-----------------------------------------------------------------------------
(* Retention, a start of the service, and the rest.                         *)

LEMMA SweepTakes ==
  ASSUME Inductive, TypeOK', taken \subseteq taken', Sweep, ~UNCHANGED names
  PROVE  Inductive' /\ HeldStep
<1>1. PICK k \in Keys, r \in Recs :
        /\ names' = [names EXCEPT ![k] = @ \ {<<r, IF <<r, "mp4">> \in @ THEN "mp4" ELSE "avi">>}]
        /\ taken' = taken \cup {r}
  BY DEF Sweep, Last, Listed
<1>2. MuFree /\ UNCHANGED <<pollPc, pc, key, rec>> /\ r \in taken'
  BY <1>1 DEF Sweep, pollVars, procVars
<1> DEFINE e == <<r, IF <<r, "mp4">> \in names[k] THEN "mp4" ELSE "avi">>
<1>3. e \in Recs \X Forms /\ e[1] = r /\ names' = [names EXCEPT ![k] = @ \ {e}]
  BY <1>1 DEF Inductive, TypeOK
<1>4. HeldStep
  <2> HIDE DEF e
  <2> QED BY <1>2, <1>3, RemoveStep DEF Inductive
<1>5. DropSafe'
  <2> SUFFICES ASSUME pc["trans"] = "drop"
               PROVE  \/ <<rec["trans"], "mp4">> \in names'[key["trans"]] \cup names'[Mac]
                      \/ rec["trans"] \in taken'
    BY <1>2 DEF DropSafe
  <2>1. key["trans"] \in Keys /\ rec["trans"] \in Recs
    BY DEF Inductive, TypeOK, Resting
  <2>2. CASE rec["trans"] \in taken'
    BY <2>2
  <2>3. CASE rec["trans"] # r
    <3>1. \A x \in Keys : names'[x] = IF x = k THEN names[x] \ {e} ELSE names[x]
      <4> HIDE DEF e
      <4> QED BY <1>3, RemoveEffect DEF Inductive
    <3>2. e # <<rec["trans"], "mp4">>
      BY <2>3
    <3> HIDE DEF e
    <3>3. \A x \in Keys : <<rec["trans"], "mp4">> \in names[x] => <<rec["trans"], "mp4">> \in names'[x]
      BY <3>1, <3>2
    <3> QED BY <2>1, <2>2, <3>3 DEF Inductive, DropSafe
  <2> QED BY <1>2, <2>2, <2>3
<1>6. RemoveSafe' /\ MoveSees'
  BY <1>2 DEF RemoveSafe, MoveSees, MuFree
<1> QED BY <1>4, <1>5, <1>6 DEF Inductive

LEMMA SweepStep ==
  ASSUME Inductive, TypeOK', taken \subseteq taken', Sweep
  PROVE  Inductive' /\ HeldStep
<1>1. CASE UNCHANGED names
  <2>1. Quiet
    BY <1>1 DEF Sweep, pollVars, procVars, Quiet
  <2> QED BY <2>1, QuietInductive DEF HeldStep
<1> QED BY <1>1, SweepTakes

LEMMA RestartStep ==
  ASSUME Inductive, TypeOK', taken \subseteq taken', Restart
  PROVE  Inductive' /\ HeldStep
<1>1. Held' = Held
  BY DEF Restart, Held, HeldAt
<1>2. DropSafe' /\ RemoveSafe' /\ MoveSees'
  BY DEF Restart, DropSafe, RemoveSafe, MoveSees, MuFree
<1> QED BY <1>1, <1>2 DEF Inductive, HeldStep

LEMMA WriteStepKeeps ==
  ASSUME Inductive, TypeOK', taken \subseteq taken', NEW w \in Writers, Write(w)
  PROVE  Inductive' /\ HeldStep
<1>0. UNCHANGED pollVars /\ key' = key /\ w # "trans"
  BY DEF Write, Mkdir, Create, Body, Rename, WriteStep, ProcStep
<1>1. pc'["trans"] = pc["trans"] /\ rec'["trans"] = rec["trans"]
  BY <1>0 DEF Write, Mkdir, Create, Body, Rename, GiveUp, Over, Goto, Inductive, TypeOK
<1>2. CASE names' = names /\ late' = late
  <2>1. Quiet
    BY <1>0, <1>1, <1>2 DEF Quiet
  <2> QED BY <2>1, QuietInductive DEF HeldStep
<1>3. CASE Rename(w) /\ Land(key[w], <<rec[w], "avi">>)
  <2>1. key[w] \in Keys /\ rec[w] \in Recs
    BY <1>3 DEF Rename, WriteStep, ProcStep, Resting, Inductive, TypeOK
  <2>2. pc'["trans"] = "drop" => /\ rec'["trans"] = rec["trans"] /\ key'["trans"] = key["trans"]
                                 /\ pc["trans"] = "drop"
    BY <1>0, <1>1
  <2> QED BY <1>0, <1>3, <2>1, <2>2, LandInductive DEF HeldStep
<1>4. (names' = names /\ late' = late) \/ (Rename(w) /\ Land(key[w], <<rec[w], "avi">>))
  BY DEF Write, Mkdir, Create, Body, Rename, GiveUp, Over, disk
<1> QED BY <1>2, <1>3, <1>4

LEMMA RoundStep ==
  ASSUME Inductive, TypeOK', taken \subseteq taken', Pull \/ StandIn
  PROVE  Inductive' /\ HeldStep
<1>1. CASE PullKey \/ PullHeld \/ PullPick \/ PullOpen \/ StandTrigger
  <2>1. Quiet
    BY <1>1 DEF PullKey, PullHeld, PullPick, PullOpen, StandTrigger, ProcStep, Goto,
                disk, Quiet, Inductive, TypeOK
  <2> QED BY <2>1, QuietInductive DEF HeldStep
<1>2. CASE \E w \in Writers : Write(w)
  BY <1>2, WriteStepKeeps
<1> QED BY <1>1, <1>2 DEF Pull, StandIn

LEMMA TranscodeStep ==
  ASSUME Inductive, TypeOK', taken \subseteq taken', Transcode
  PROVE  Inductive' /\ HeldStep
<1>1. CASE TransVerify
  <2>1. Quiet
    BY <1>1 DEF TransVerify, TransStep, TransOver, ProcStep, Goto, disk, Quiet, Inductive, TypeOK
  <2> QED BY <2>1, QuietInductive DEF HeldStep
<1>2. CASE TransRename /\ names' = names /\ late' = late /\ pc'["trans"] = "idle"
  <2>1. Quiet
    BY <1>2 DEF TransRename, TransStep, ProcStep, Quiet
  <2> QED BY <2>1, QuietInductive DEF HeldStep
<1>3. CASE TransRename /\ Land(key["trans"], <<rec["trans"], "mp4">>) /\ UNCHANGED <<key, rec>>
  <2>1. UNCHANGED pollVars /\ key["trans"] \in Keys /\ rec["trans"] \in Recs
    BY <1>3 DEF TransRename, TransStep, ProcStep, Resting, Inductive, TypeOK
  <2> QED BY <1>3, <2>1, LandInductive DEF HeldStep
<1>4. CASE TransRename
  <2>1. \/ names' = names /\ late' = late /\ pc'["trans"] = "idle"
        \/ Land(key["trans"], <<rec["trans"], "mp4">>) /\ UNCHANGED <<key, rec>>
    BY <1>4 DEF TransRename, TransOver, Goto, Inductive, TypeOK
  <2> QED BY <1>2, <1>3, <1>4, <2>1
<1>5. CASE TransDrop /\ UNCHANGED names
  <2>1. Quiet
    BY <1>5 DEF TransDrop, TransStep, TransOver, ProcStep, Goto, Quiet, Inductive, TypeOK
  <2> QED BY <2>1, QuietInductive DEF HeldStep
<1> QED BY <1>1, <1>4, <1>5, TransStartStep, TransDropStep DEF Transcode

LEMMA PollStepKeeps ==
  ASSUME Inductive, TypeOK', taken \subseteq taken', Poll
  PROVE  Inductive' /\ HeldStep
<1>1. names' # names => MoveRemove \/ MoveRename
  BY DEF Poll, Learn, MoveBegin, MoveStat, MoveDone, MoveFails, disk
<1> QED BY <1>1, MoveStands, MoveRemoveStep, MoveRenameStep

LEMMA TakenStays == ASSUME [Next]_vars PROVE taken \subseteq taken'
<1>1. CASE Poll
  BY <1>1 DEF Poll, Learn, MoveBegin, MoveStat, MoveRemove, MoveRename, MoveDone, Fault, NoFault,
              retention
<1>2. CASE Pull \/ StandIn
  BY <1>2 DEF Pull, StandIn, PullKey, PullHeld, PullPick, PullOpen, StandTrigger, Write, Mkdir,
              Create, Body, Rename, Fault, NoFault, retention
<1>3. CASE Transcode
  BY <1>3 DEF Transcode, TransStart, TransVerify, TransRename, TransDrop, Fault, NoFault, retention
<1>4. CASE Sweep \/ Restart \/ UNCHANGED vars
  BY <1>4 DEF Sweep, Restart, Fault, retention, vars
<1> QED BY <1>1, <1>2, <1>3, <1>4 DEF Next

LEMMA InductiveStep == Inductive /\ [Next]_vars => Inductive' /\ HeldStep
<1> SUFFICES ASSUME Inductive, [Next]_vars PROVE Inductive' /\ HeldStep
  OBVIOUS
<1>1. TypeOK'
  BY TypeStep DEF Inductive
<1>2. CASE UNCHANGED vars
  <2>1. Quiet
    BY <1>2 DEF vars, disk, pollVars, procVars, retention, Quiet
  <2> QED BY <1>1, <2>1, QuietInductive DEF HeldStep
<1>3. taken \subseteq taken'
  BY TakenStays
<1> QED BY <1>1, <1>2, <1>3, PollStepKeeps, RoundStep, TranscodeStep, SweepStep, RestartStep DEF Next

LEMMA InitInductive == Init => Inductive
<1> SUFFICES ASSUME Init PROVE Inductive
  OBVIOUS
<1>1. names \in [Keys -> SUBSET (Recs \X Forms)]
  BY DEF Init, Recs
<1>2. TypeOK
  BY <1>1, BoundsAssumption DEF Init, TypeOK, Resting
<1>3. DropSafe /\ RemoveSafe /\ MoveSees
  BY DEF Init, DropSafe, RemoveSafe, MoveSees, MuFree
<1> QED BY <1>2, <1>3 DEF Inductive

LEMMA InductiveAlways == Spec => []Inductive
BY InitInductive, InductiveStep, PTL DEF Spec

-----------------------------------------------------------------------------
(* The variables stay in their types in every reachable state.              *)
THEOREM TypeCorrect == Spec => []TypeOK
<1>1. Inductive => TypeOK
  BY DEF Inductive
<1> QED BY <1>1, InductiveAlways, PTL

(* While MoveCamera, the writers, the worker, retention and starts of the   *)
(* service interleave, a recording that is held under either key stays held *)
(* under one, unless retention took a file of it.                           *)
THEOREM FootageIsKept == Spec => FootageKept
<1>1. HeldStep => Held \ Held' \subseteq taken'
  BY DEF HeldStep
<1>2. Inductive /\ [Next]_vars => [Held \ Held' \subseteq taken']_vars
  BY <1>1, InductiveStep
<1> QED BY <1>2, InductiveAlways, PTL DEF Spec, FootageKept

(* When MoveCamera returns without an error, nothing is left under the old  *)
(* key that was there when it read the directory.                           *)
THEOREM MoveIsComplete == Spec => Moved
<1>1. Inductive /\ [Next]_vars => [MoveDone => names[Id] \subseteq late]_vars
  <2> SUFFICES ASSUME Inductive, MoveDone PROVE names[Id] \subseteq late
    OBVIOUS
  <2>1. todo = {} /\ entry = Note /\ ~MuFree
    BY DEF MoveDone, PollStep, MuFree, Inductive, TypeOK
  <2>2. Note \notin names[Id]
    BY RecsAssumption DEF Inductive, TypeOK
  <2> QED BY <2>1, <2>2 DEF Inductive, MoveSees
<1> QED BY <1>1, InductiveAlways, PTL DEF Spec, Moved
=============================================================================
