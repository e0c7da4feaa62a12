--------------------------- MODULE ArchiveProofs ---------------------------
(* What holds of Archive for every set of recordings, every size, every     *)
(* limit and every number of faults.                                        *)
EXTENDS Archive, FiniteSetTheorems, FunctionTheorems, TLAPS

USE DEF Procs, Contents, Forms, None

(* There are only so many .part- files left: each has a number of its own.  *)
LEMMA LeftFinite ==
  ASSUME TypeOK
  PROVE  IsFiniteSet(left)
<1>1. IsFiniteSet(Procs)
  <2>1. IsFiniteSet({"pull"} \cup {"stand"}) /\ IsFiniteSet({"trans"})
    BY FS_Singleton, FS_Union
  <2>2. IsFiniteSet(({"pull"} \cup {"stand"}) \cup {"trans"})
    BY <2>1, FS_Union
  <2>3. Procs = ({"pull"} \cup {"stand"}) \cup {"trans"}
    OBVIOUS
  <2>4. QED
    BY <2>2, <2>3
<1>2. IsFiniteSet(Days) /\ IsFiniteSet(1..MaxFaults)
  BY FS_Interval, DaysAssumption, FaultsAssumption DEF Days
<1>3. IsFiniteSet(Days \X (1..MaxFaults))
  BY <1>2, FS_Product
<1>4. IsFiniteSet(Procs \X (Days \X (1..MaxFaults)))
  BY <1>1, <1>3, FS_Product
<1> DEFINE nested == Procs \X (Days \X (1..MaxFaults))
           flat   == Procs \X Days \X (1..MaxFaults)
           f      == [x \in nested |-> <<x[1], x[2][1], x[2][2]>>]
<1>5. f \in Surjection(nested, flat)
  <2>1. f \in [nested -> flat]
    OBVIOUS
  <2>2. ASSUME NEW p \in Procs, NEW d \in Days, NEW n \in 1..MaxFaults
        PROVE  f[<<p, <<d, n>>>>] = <<p, d, n>>
    OBVIOUS
  <2>3. \A y \in flat : \E x \in nested : f[x] = y
    <3>1. SUFFICES ASSUME NEW y \in flat PROVE \E x \in nested : f[x] = y
      OBVIOUS
    <3>2. PICK p \in Procs, d \in Days, n \in 1..MaxFaults : y = <<p, d, n>>
      OBVIOUS
    <3>3. <<p, <<d, n>>>> \in nested
      OBVIOUS
    <3>4. f[<<p, <<d, n>>>>] = y
      BY <2>2, <3>2
    <3>5. QED
      BY <3>3, <3>4
  <2>4. QED
    BY <2>1, <2>3, Fun_IsSurj
<1>6. IsFiniteSet(flat)
  BY <1>4, <1>5, FS_Surjection
<1>7. QED
  BY <1>6, FS_Subset DEF TypeOK

(* Bytes is a number: every set it counts is a subset of Recs or of Procs.  *)
LEMMA BytesType ==
  ASSUME TypeOK
  PROVE  Bytes \in Int
<1>1. IsFiniteSet(Recs)
  BY RecsAssumption
<1>2. IsFiniteSet({"pull"} \cup {"stand"}) /\ IsFiniteSet({"trans"})
  BY FS_Singleton, FS_Union
<1>3. /\ Cardinality({r \in Recs : avi[r] # "none"}) \in Nat
      /\ Cardinality({r \in Recs : mp4[r] # "none"}) \in Nat
      /\ Cardinality(meta) \in Nat
  BY <1>1, FS_Subset, FS_CardinalityType DEF TypeOK
<1>4. /\ Cardinality({p \in {"pull", "stand"} : temp[p] # "none"}) \in Nat
      /\ Cardinality({p \in {"trans"} : temp[p] # "none"}) \in Nat
  <2>1. {"pull", "stand"} = {"pull"} \cup {"stand"}
    OBVIOUS
  <2>2. QED
    BY <1>2, <2>1, FS_Subset, FS_CardinalityType
<1>5. /\ Cardinality({l \in left : l[1] # "trans"}) \in Nat
      /\ Cardinality({l \in left : l[1] = "trans"}) \in Nat
  <2>1. IsFiniteSet(left)
    BY LeftFinite
  <2>2. QED
    BY <2>1, FS_Subset, FS_CardinalityType
<1>6. QED
  BY <1>3, <1>4, <1>5, SizesAssumption DEF Bytes

-----------------------------------------------------------------------------
(* Type correctness, one goroutine at a time.                               *)

PartsType == /\ temp \in [Procs -> Contents]
             /\ left \subseteq Procs \X Days \X (1..MaxFaults) /\ stuck \subseteq left

LEMMA TempType ==
  ASSUME TypeOK, NEW p \in Procs, NEW c \in Contents, SetTemp(p, c)
  PROVE  PartsType'
BY DEF TypeOK, SetTemp, PartsType

LEMMA LeftType ==
  ASSUME NEW p, NEW r
  PROVE  LeftBy(p, r) \subseteq Procs \X Days \X (1..MaxFaults)
BY DEF LeftBy

LEMMA DiscardType ==
  ASSUME TypeOK, NEW p \in Procs, NEW r, NEW n \in {0, 1}, Discard(p, r, n)
  PROVE  PartsType' /\ faults' \in 0..MaxFaults
<1>1. LeftBy(p, r) \subseteq Procs \X Days \X (1..MaxFaults)
  BY LeftType
<1>2. \/ UNCHANGED <<left, stuck>>
      \/ left' = left \cup LeftBy(p, r) /\ stuck' = stuck \cup LeftBy(p, r)
  BY DEF Discard
<1>3. temp' \in [Procs -> Contents] /\ left \subseteq Procs \X Days \X (1..MaxFaults) /\ stuck \subseteq left
  BY DEF Discard, TypeOK
<1>4. PartsType'
  <2> DEFINE all == Procs \X Days \X (1..MaxFaults)
  <2> HIDE DEF all
  <2>1. LeftBy(p, r) \subseteq all /\ left \subseteq all
    BY <1>1, <1>3 DEF all
  <2>2. left' \subseteq all /\ stuck' \subseteq left'
    BY <1>2, <1>3, <2>1
  <2>3. QED
    BY <1>3, <2>2 DEF PartsType, all
<1>5. faults' \in 0..MaxFaults
  BY FaultsAssumption DEF Discard, Faults, TypeOK
<1>6. QED
  BY <1>4, <1>5

LEMMA LandType ==
  ASSUME TypeOK, NEW p \in Procs, NEW r \in Recs, Land(p, r)
  PROVE  /\ PartsType'
         /\ avi' \in [Recs -> Contents]
         /\ arrived' \subseteq Recs
BY DEF TypeOK, SetTemp, Land, PartsType

LEMMA MkdirType ==
  ASSUME TypeOK, NEW r \in Recs, MkdirDay(r)
  PROVE  dirs' \subseteq Days
BY DaysAssumption DEF TypeOK, MkdirDay

LEMMA FaultType ==
  /\ TypeOK /\ Fault => faults' \in 0..MaxFaults
  /\ TypeOK /\ NoFault => faults' \in 0..MaxFaults
BY FaultsAssumption DEF TypeOK, Fault, Faults, NoFault

LEMMA PullType ==
  ASSUME TypeOK, Pull
  PROVE  TypeOK'
<1> USE FaultType
    DEF TypeOK, PullStep, PullTo, PullOver, PullSkip, disk, parts, standVars, transVars, sweepVars
<1>1. CASE PullReadNames
  BY <1>1 DEF PullReadNames, Held
<1>2. CASE PullReadAged
  BY <1>2 DEF PullReadAged, Recs
<1>3. CASE PullPick
  BY <1>3 DEF PullPick
<1>4. CASE PullDayDone
  BY <1>4, DaysAssumption DEF PullDayDone, NextDay, Days
<1>5. CASE PullGiveUp
  BY <1>5, DaysAssumption DEF PullGiveUp, Days
<1>6. CASE PullMkdir
  BY <1>6, MkdirType DEF PullMkdir
<1>7. CASE PullCreate
  BY <1>7, TempType, DiscardType DEF PullCreate, PartsType
<1>8. CASE PullBody
  BY <1>8, TempType, DiscardType DEF PullBody, PartsType
<1>9. CASE PullMeta
  BY <1>9, TempType, DiscardType DEF PullMeta, PartsType
<1>10. CASE PullRename
  BY <1>10, TempType, DiscardType, LandType DEF PullRename, PartsType
<1>11. QED
  BY <1>1, <1>2, <1>3, <1>4, <1>5, <1>6, <1>7, <1>8, <1>9, <1>10 DEF Pull

LEMMA StandType ==
  ASSUME TypeOK, StandIn
  PROVE  TypeOK'
<1> USE FaultType
    DEF TypeOK, StandStep, StandTo, StandOver, StandDrop, StandNextSecond,
        disk, parts, pullVars, transVars, sweepVars
<1>1. CASE StandTrigger
  BY <1>1 DEF StandTrigger, Recs
<1>2. CASE StandStatMp4
  BY <1>2 DEF StandStatMp4, Recs
<1>3. CASE StandStatAvi
  BY <1>3 DEF StandStatAvi, Recs
<1>4. CASE StandMkdir
  BY <1>4, MkdirType DEF StandMkdir
<1>5. CASE StandCreate
  BY <1>5, TempType, DiscardType DEF StandCreate, PartsType
<1>6. CASE StandFinish
  BY <1>6, TempType, DiscardType DEF StandFinish, PartsType
<1>7. CASE StandMeta
  BY <1>7, TempType, DiscardType DEF StandMeta, PartsType
<1>8. CASE StandRename
  BY <1>8, TempType, DiscardType, LandType DEF StandRename, PartsType
<1>9. QED
  BY <1>1, <1>2, <1>3, <1>4, <1>5, <1>6, <1>7, <1>8 DEF StandIn

LEMMA TransType ==
  ASSUME TypeOK, Transcode
  PROVE  TypeOK'
<1> USE FaultType
    DEF TypeOK, TransStep, TransTo, TransOver, TransDrop, RemoveAvi,
        disk, parts, pullVars, standVars, sweepVars, history
<1>1. CASE TransStart
  BY <1>1 DEF TransStart
<1>2. CASE TransStatDst
  BY <1>2 DEF TransStatDst
<1>3. CASE TransDropDup
  BY <1>3 DEF TransDropDup
<1>4. CASE TransOpen
  BY <1>4, TempType, DiscardType DEF TransOpen, PartsType
<1>5. CASE TransEncode
  BY <1>5, TempType, DiscardType DEF TransEncode, PartsType
<1>6. CASE TransVerify
  BY <1>6, TempType, DiscardType DEF TransVerify, PartsType
<1>7. CASE TransRename
  BY <1>7, TempType, DiscardType DEF TransRename, PartsType
<1>8. CASE TransRemoveAvi
  BY <1>8 DEF TransRemoveAvi
<1>9. QED
  BY <1>1, <1>2, <1>3, <1>4, <1>5, <1>6, <1>7, <1>8 DEF Transcode

LEMMA SweepType ==
  ASSUME TypeOK, Sweep
  PROVE  TypeOK'
<1> USE FaultType
    DEF TypeOK, SweepStep, disk, parts, pullVars, standVars, transVars
<1>1. CASE SweepBegin
  BY <1>1, BytesType DEF SweepBegin
<1>2. CASE SweepReadDir
  BY <1>2 DEF SweepReadDir, OnDisk
<1>3. CASE SweepInfo
  BY <1>3 DEF SweepInfo
<1>4. CASE SweepRemove
  BY <1>4, SizesAssumption DEF SweepRemove, Left, SizeOf, FormOf
<1>5. CASE SweepNote
  BY <1>5 DEF SweepNote
<1>6. CASE SweepSidecar
  BY <1>6, SizesAssumption DEF SweepSidecar
<1>7. CASE SweepPrune
  BY <1>7 DEF SweepPrune
<1>8. QED
  BY <1>1, <1>2, <1>3, <1>4, <1>5, <1>6, <1>7 DEF Sweep

LEMMA TypeInductive ==
  ASSUME TypeOK, [Next]_vars
  PROVE  TypeOK'
<1>1. CASE Crash
  <2>1. /\ pullDay' \in Days /\ faults' \in 0..MaxFaults
    BY <1>1, FaultType, DaysAssumption DEF Crash, Days
  <2>2. PartsType'
    <3> DEFINE all == Procs \X Days \X (1..MaxFaults)
    <3> HIDE DEF all
    <3>1. \A p \in Procs : LeftBy(p, InHand(p)) \subseteq all
      BY LeftType DEF all
    <3>2. UNION {LeftBy(p, InHand(p)) : p \in {q \in Procs : temp[q] # "none"}} \subseteq all
      BY <3>1
    <3>3. left \subseteq all /\ stuck \subseteq left
      BY DEF TypeOK, all
    <3>4. left' \subseteq all /\ stuck' \subseteq left'
      BY <1>1, <3>2, <3>3 DEF Crash
    <3>5. temp' \in [Procs -> Contents]
      BY <1>1 DEF Crash
    <3>6. QED
      BY <3>4, <3>5 DEF PartsType, all
  <2>3. QED
    BY <1>1, <2>1, <2>2 DEF Crash, TypeOK, PartsType, history
<1>2. CASE Open
  BY <1>2, FaultType DEF Open, TypeOK, pullVars, standVars, transVars, sweepVars, history
<1>3. CASE UNCHANGED vars
  BY <1>3 DEF TypeOK, vars, disk, parts, pullVars, standVars, transVars, sweepVars, history
<1>4. QED
  BY <1>1, <1>2, <1>3, PullType, StandType, TransType, SweepType DEF Next

(* Every variable keeps its type, so a goroutine past its first step always *)
(* has a recording in hand.                                                 *)
THEOREM TypeCorrect == Spec => []TypeOK
<1>1. Init => TypeOK
  BY DaysAssumption, FaultsAssumption DEF Init, TypeOK, Days
<1>2. TypeOK /\ [Next]_vars => TypeOK'
  BY TypeInductive
<1>3. QED
  BY <1>1, <1>2, PTL DEF Spec

-----------------------------------------------------------------------------
(* What a step does to the recordings held.                                 *)

HeldGrows(r) == r \in Recs /\ Held' = Held \cup {r}
HeldLoses(r) == r \in Held /\ Superseded(r) /\ r \in taken' /\ Held' = Held \ {r}
HeldStep == Held' = Held \/ \E r \in Recs : HeldGrows(r) \/ HeldLoses(r)

LEMMA SameFiles ==
  ASSUME UNCHANGED <<avi, mp4>>
  PROVE  Held' = Held
BY DEF Held

LEMMA LandHeld ==
  ASSUME TypeOK, NEW p \in Procs, NEW r \in Recs, Land(p, r), temp[p] = "whole", UNCHANGED mp4
  PROVE  Held' = Held \cup {r}
BY DEF TypeOK, Land, SetTemp, Held

LEMMA PullHeldStep ==
  ASSUME Inductive, Pull
  PROVE  HeldStep
<1>1. CASE PullRename
  <2>1. pullRec \in Recs /\ temp["pull"] = "whole"
    BY <1>1 DEF Inductive, TypeOK, WholeInHand, PullRename, PullStep
  <2>2. CASE Land("pull", pullRec) /\ UNCHANGED mp4
    BY <2>1, <2>2, LandHeld DEF Inductive, HeldStep, HeldGrows
  <2>3. CASE PullSkip(1)
    BY <2>3, SameFiles DEF PullSkip, Discard, HeldStep
  <2>4. QED
    BY <1>1, <2>2, <2>3 DEF PullRename
<1>2. CASE ~PullRename
  <2>1. UNCHANGED <<avi, mp4>>
    BY <1>2 DEF Pull, PullReadNames, PullReadAged, PullPick, PullDayDone, PullGiveUp, PullMkdir,
                PullCreate, PullBody, PullMeta, PullSkip, Discard, disk
  <2>2. QED
    BY <2>1, SameFiles DEF HeldStep
<1>3. QED
  BY <1>1, <1>2

LEMMA StandHeldStep ==
  ASSUME Inductive, StandIn
  PROVE  HeldStep
<1>1. CASE StandRename
  <2>1. standRec \in Recs /\ temp["stand"] = "whole"
    BY <1>1 DEF Inductive, TypeOK, WholeInHand, StandRename, StandStep
  <2>2. CASE Land("stand", standRec) /\ UNCHANGED mp4
    BY <2>1, <2>2, LandHeld DEF Inductive, HeldStep, HeldGrows
  <2>3. CASE StandDrop(1)
    BY <2>3, SameFiles DEF StandDrop, Discard, HeldStep
  <2>4. QED
    BY <1>1, <2>2, <2>3 DEF StandRename
<1>2. CASE ~StandRename
  <2>1. UNCHANGED <<avi, mp4>>
    BY <1>2 DEF StandIn, StandTrigger, StandStatMp4, StandStatAvi, StandMkdir, StandCreate,
                StandFinish, StandMeta, StandDrop, Discard, disk
  <2>2. QED
    BY <2>1, SameFiles DEF HeldStep
<1>3. QED
  BY <1>1, <1>2

(* Removing an AVI takes the recording with it only when retention has      *)
(* already taken the MP4, and then a newer one stays.                       *)
LEMMA RemoveAviHeld ==
  ASSUME Inductive, transPc \in {"dropDup", "drop"}, RemoveAvi, UNCHANGED <<mp4, taken>>
  PROVE  HeldStep
<1>1. transRec \in Recs
  BY DEF Inductive, TypeOK
<1>2. CASE mp4[transRec] # "none"
  <2>1. Held' = Held
    BY <1>1, <1>2 DEF Inductive, TypeOK, RemoveAvi, Held
  <2>2. QED
    BY <2>1 DEF HeldStep
<1>3. CASE mp4[transRec] = "none" /\ transRec \in Held
  <2>1. Held' = Held \ {transRec}
    BY <1>1, <1>3 DEF Inductive, TypeOK, RemoveAvi, Held
  <2>2. transRec \in taken /\ Superseded(transRec)
    BY <1>3 DEF Inductive, DropSafe
  <2>3. QED
    BY <1>1, <1>3, <2>1, <2>2 DEF HeldStep, HeldLoses
<1>4. CASE transRec \notin Held
  <2>1. Held' = Held
    BY <1>1, <1>4 DEF Inductive, TypeOK, RemoveAvi, Held
  <2>2. QED
    BY <2>1 DEF HeldStep
<1>5. QED
  BY <1>2, <1>3, <1>4

LEMMA TransHeldStep ==
  ASSUME Inductive, Transcode
  PROVE  HeldStep
<1>1. CASE TransDropDup
  BY <1>1, RemoveAviHeld, SameFiles DEF TransDropDup, TransStep, history, HeldStep
<1>2. CASE TransRemoveAvi
  BY <1>2, RemoveAviHeld, SameFiles DEF TransRemoveAvi, TransStep, history, HeldStep
<1>3. CASE TransRename
  <2>1. transRec \in Recs /\ temp["trans"] = "whole"
    BY <1>3 DEF Inductive, TypeOK, WholeInHand, TransRename, TransStep
  <2>2. CASE mp4' = [mp4 EXCEPT ![transRec] = temp["trans"]] /\ UNCHANGED avi
    <3>1. Held' = Held \cup {transRec}
      BY <2>1, <2>2 DEF Inductive, TypeOK, Held
    <3>2. QED
      BY <2>1, <3>1 DEF HeldStep, HeldGrows
  <2>3. CASE TransDrop(1)
    BY <2>3, SameFiles DEF TransDrop, Discard, HeldStep
  <2>4. QED
    BY <1>3, <2>2, <2>3 DEF TransRename
<1>4. CASE ~TransDropDup /\ ~TransRemoveAvi /\ ~TransRename
  <2>1. UNCHANGED <<avi, mp4>>
    BY <1>4 DEF Transcode, TransStart, TransStatDst, TransOpen, TransEncode, TransVerify,
                TransDrop, Discard, disk
  <2>2. QED
    BY <2>1, SameFiles DEF HeldStep
<1>5. QED
  BY <1>1, <1>2, <1>3, <1>4

LEMMA SweepHeldStep ==
  ASSUME Inductive, Sweep
  PROVE  HeldStep
<1>1. CASE SweepRemove
  <2>1. PICK r \in Left : /\ UNCHANGED <<avi, mp4>> 
                          \/ /\ r \in taken'
                             /\ \/ mp4' = [mp4 EXCEPT ![r] = "none"] /\ UNCHANGED avi
                                \/ avi' = [avi EXCEPT ![r] = "none"] /\ UNCHANGED mp4
    BY <1>1 DEF SweepRemove
  <2>2. r \in Recs /\ Superseded(r)
    BY <1>1 DEF Inductive, SweepSafe, SweepRemove, SweepStep, Left
  <2>3. Held' = Held \/ (r \in Held /\ Held' = Held \ {r} /\ r \in taken')
    BY <2>1, <2>2 DEF Inductive, TypeOK, Held
  <2>4. QED
    BY <2>2, <2>3 DEF HeldStep, HeldLoses
<1>2. CASE ~SweepRemove
  <2>1. UNCHANGED <<avi, mp4>>
    BY <1>2 DEF Sweep, SweepBegin, SweepReadDir, SweepInfo, SweepNote, SweepSidecar, SweepPrune, disk
  <2>2. QED
    BY <2>1, SameFiles DEF HeldStep
<1>3. QED
  BY <1>1, <1>2

LEMMA EveryHeldStep ==
  ASSUME Inductive, [Next]_vars
  PROVE  HeldStep
<1>1. CASE Crash \/ Open \/ UNCHANGED vars
  <2>1. UNCHANGED <<avi, mp4>>
    BY <1>1 DEF Crash, Open, vars, disk
  <2>2. QED
    BY <2>1, SameFiles DEF HeldStep
<1>2. QED
  BY <1>1, PullHeldStep, StandHeldStep, TransHeldStep, SweepHeldStep DEF Next

(* So there is always a recording as new as any that was held.              *)
LEMMA NewerStays ==
  ASSUME Inductive, HeldStep
  PROVE  /\ \A r \in Held : \E s \in Held' : s >= r
         /\ \A r \in Recs : Superseded(r) => Superseded(r)'
<1>1. Held \subseteq Nat /\ Recs \subseteq Nat
  BY RecsAssumption DEF Held
<1>2. CASE Held' = Held \/ \E r \in Recs : HeldGrows(r)
  BY <1>1, <1>2 DEF HeldGrows, Superseded
<1>3. ASSUME NEW v \in Recs, HeldLoses(v)
      PROVE  /\ \A r \in Held : \E s \in Held' : s >= r
             /\ \A r \in Recs : Superseded(r) => Superseded(r)'
  <2>1. PICK s \in Held : s > v
    BY <1>3 DEF HeldLoses, Superseded
  <2>2. s \in Held'
    BY <1>1, <1>3, <2>1 DEF HeldLoses
  <2>3. ASSUME NEW r \in Held
        PROVE  \E t \in Held' : t >= r
    BY <1>1, <1>3, <2>1, <2>2, <2>3 DEF HeldLoses
  <2>4. ASSUME NEW r \in Recs, Superseded(r)
        PROVE  Superseded(r)'
    <3>1. PICK t \in Held : t > r
      BY <2>4 DEF Superseded
    <3>2. PICK u \in Held' : u >= t
      BY <2>3
    <3>3. u > r
      <4>1. Held' \subseteq Held
        BY <1>3 DEF HeldLoses
      <4>2. QED
        BY <1>1, <3>1, <3>2, <4>1
    <3>4. QED
      BY <3>2, <3>3 DEF Superseded
  <2>5. QED
    BY <2>3, <2>4
<1>4. QED
  BY <1>2, <1>3 DEF HeldStep

-----------------------------------------------------------------------------
(* Each part of the inductive invariant is preserved.                       *)

(* A .part- file in hand and a finished file: whole before, whole after.    *)
LEMMA WholeInductive ==
  ASSUME Inductive, [Next]_vars
  PROVE  WholeFiles' /\ WholeInHand'
<1> USE DEF Inductive, TypeOK, WholeFiles, WholeInHand, SetTemp, parts, disk,
            pullVars, standVars, transVars, sweepVars, history
<1>1. CASE Pull
  BY <1>1 DEF Pull, PullReadNames, PullReadAged, PullPick, PullDayDone, PullGiveUp, PullMkdir,
              PullCreate, PullBody, PullMeta, PullRename, PullStep, PullSkip, Discard, PullTo, PullOver, Land
<1>2. CASE StandIn
  BY <1>2 DEF StandIn, StandTrigger, StandStatMp4, StandStatAvi, StandMkdir, StandCreate,
              StandFinish, StandMeta, StandRename, StandStep, StandDrop, Discard, StandTo, StandOver,
              StandNextSecond, Land
<1>3. CASE Transcode
  BY <1>3 DEF Transcode, TransStart, TransStatDst, TransDropDup, TransOpen, TransEncode,
              TransVerify, TransRename, TransRemoveAvi, TransStep, TransDrop, Discard, TransTo, TransOver,
              RemoveAvi
<1>4. CASE Sweep
  BY <1>4 DEF Sweep, SweepBegin, SweepReadDir, SweepInfo, SweepRemove, SweepNote, SweepSidecar,
              SweepPrune, SweepStep
<1>5. CASE Crash \/ Open \/ UNCHANGED vars
  BY <1>5 DEF Crash, Open, vars
<1>6. QED
  BY <1>1, <1>2, <1>3, <1>4, <1>5 DEF Next

(* History only grows, and what arrives is held.                            *)
LEMMA HistoryStep ==
  ASSUME Inductive, [Next]_vars
  PROVE  /\ taken \subseteq taken'
         /\ arrived \subseteq arrived' /\ arrived' \subseteq arrived \cup Held'
<1>1. CASE PullRename
  BY <1>1 DEF PullRename, PullSkip, Discard, PullStep, Land, SetTemp, Inductive, TypeOK, WholeInHand, Held
<1>2. CASE StandRename
  BY <1>2 DEF StandRename, StandDrop, Discard, StandStep, Land, SetTemp, Inductive, TypeOK, WholeInHand, Held
<1>3. CASE Pull /\ ~PullRename
  BY <1>3 DEF Pull, PullReadNames, PullReadAged, PullPick, PullDayDone, PullGiveUp, PullMkdir,
              PullCreate, PullBody, PullMeta, PullStep, PullSkip, Discard
<1>4. CASE StandIn /\ ~StandRename
  BY <1>4 DEF StandIn, StandTrigger, StandStatMp4, StandStatAvi, StandMkdir, StandCreate,
              StandFinish, StandMeta, StandStep, StandDrop, Discard
<1>5. CASE Transcode
  BY <1>5 DEF Transcode, TransStart, TransStatDst, TransDropDup, TransOpen, TransEncode,
              TransVerify, TransRename, TransRemoveAvi, TransStep, history
<1>6. CASE Sweep
  BY <1>6 DEF Sweep, SweepBegin, SweepReadDir, SweepInfo, SweepRemove, SweepNote, SweepSidecar,
              SweepPrune, SweepStep
<1>7. CASE Crash \/ Open \/ UNCHANGED vars
  BY <1>7 DEF Crash, Open, vars, history
<1>8. QED
  BY <1>1, <1>2, <1>3, <1>4, <1>5, <1>6, <1>7 DEF Next

LEMMA KeptInductive ==
  ASSUME Inductive, [Next]_vars
  PROVE  FootageKept'
<1>1. Held \subseteq Held' \cup taken'
  BY EveryHeldStep DEF HeldStep, HeldGrows, HeldLoses
<1>2. QED
  BY <1>1, HistoryStep DEF Inductive, FootageKept

(* Only Sweep removes an MP4, and then the note of it is in the history and *)
(* a newer recording stays.                                                 *)
LEMMA DropInductive ==
  ASSUME Inductive, [Next]_vars
  PROVE  DropSafe'
<1>1. transPc' \in {"dropDup", "drop"} => \/ transPc = transPc' /\ transRec' = transRec
                                         \/ mp4'[transRec'] # "none"
  <2> USE DEF Inductive, TypeOK, transVars
  <2>1. CASE Pull
    BY <2>1 DEF Pull, PullReadNames, PullReadAged, PullPick, PullDayDone, PullGiveUp, PullMkdir,
                PullCreate, PullBody, PullMeta, PullRename, PullStep
  <2>2. CASE StandIn
    BY <2>2 DEF StandIn, StandTrigger, StandStatMp4, StandStatAvi, StandMkdir, StandCreate,
                StandFinish, StandMeta, StandRename, StandStep
  <2>3. CASE TransRename
    BY <2>3 DEF TransRename, TransStep, TransDrop, Discard, TransTo, TransOver, WholeInHand
  <2>4. CASE TransStatDst
    BY <2>4 DEF TransStatDst, TransStep, TransTo, disk
  <2>5. CASE Transcode /\ ~TransRename /\ ~TransStatDst
    BY <2>5 DEF Transcode, TransStart, TransDropDup, TransOpen, TransEncode, TransVerify,
                TransRemoveAvi, TransStep, TransDrop, Discard, TransTo, TransOver
  <2>6. CASE Sweep
    BY <2>6 DEF Sweep, SweepBegin, SweepReadDir, SweepInfo, SweepRemove, SweepNote, SweepSidecar,
                SweepPrune, SweepStep
  <2>7. CASE Crash \/ Open \/ UNCHANGED vars
    BY <2>7 DEF Crash, Open, vars
  <2>8. QED
    BY <2>1, <2>2, <2>3, <2>4, <2>5, <2>6, <2>7 DEF Next
<1>2. \A r \in Recs : mp4[r] # "none" => mp4'[r] # "none" \/ (r \in taken' /\ Superseded(r))
  <2> USE DEF Inductive, TypeOK, disk
  <2>1. CASE SweepRemove
    <3>1. PICK v \in Left : \A r \in Recs : mp4'[r] = mp4[r] \/ (r = v /\ v \in taken')
                                               \/ UNCHANGED mp4
      BY <2>1 DEF SweepRemove
    <3>2. Superseded(v)
      BY <2>1 DEF SweepSafe, SweepRemove, SweepStep
    <3>3. QED
      BY <3>1, <3>2
  <2>2. CASE Pull
    BY <2>2 DEF Pull, PullReadNames, PullReadAged, PullPick, PullDayDone, PullGiveUp, PullMkdir,
                PullCreate, PullBody, PullMeta, PullRename, PullStep, PullSkip, Discard
  <2>3. CASE StandIn
    BY <2>3 DEF StandIn, StandTrigger, StandStatMp4, StandStatAvi, StandMkdir, StandCreate,
                StandFinish, StandMeta, StandRename, StandStep, StandDrop, Discard
  <2>4. CASE Transcode
    <3>1. CASE TransRename
      BY <3>1 DEF TransRename, TransStep, TransDrop, Discard, WholeInHand
    <3>2. CASE ~TransRename
      BY <2>4, <3>2 DEF Transcode, TransStart, TransStatDst, TransDropDup, TransOpen, TransEncode,
                        TransVerify, TransRemoveAvi, TransDrop, Discard
    <3>3. QED
      BY <3>1, <3>2
  <2>5. CASE Sweep /\ ~SweepRemove
    BY <2>5 DEF Sweep, SweepBegin, SweepReadDir, SweepInfo, SweepNote, SweepSidecar,
                SweepPrune, SweepStep
  <2>6. CASE Crash \/ Open \/ UNCHANGED vars
    BY <2>6 DEF Crash, Open, vars
  <2>7. QED
    BY <2>1, <2>2, <2>3, <2>4, <2>5, <2>6 DEF Next
<1>3. \A r \in Recs : Superseded(r) => Superseded(r)'
  BY EveryHeldStep, NewerStays
<1>4. CASE transPc' = transPc /\ transRec' = transRec /\ transPc \in {"dropDup", "drop"}
  <2>1. transRec \in Recs
    BY <1>4 DEF Inductive, TypeOK
  <2>2. mp4'[transRec] # "none" \/ (transRec \in taken' /\ Superseded(transRec))
    BY <1>2, <1>4, <2>1, HistoryStep DEF Inductive, DropSafe
  <2>3. QED
    BY <1>3, <1>4, <2>1, <2>2 DEF DropSafe, Superseded
<1>5. QED
  BY <1>1, <1>4 DEF DropSafe

(* What Sweep has listed to age was listed with a newer one on the disk.    *)
LEMMA SweepInductive ==
  ASSUME Inductive, [Next]_vars
  PROVE  SweepSafe'
<1>1. \A r \in Recs : Superseded(r) => Superseded(r)'
  BY EveryHeldStep, NewerStays
<1>2. CASE SweepInfo
  <2>1. UNCHANGED <<avi, mp4>>
    BY <1>2 DEF SweepInfo, disk
  <2>2. \A r \in Left' : \E s \in Recs : s > r /\ OnDisk(s) # {}
    BY <1>2 DEF SweepInfo, Left, Candidates, Inductive, TypeOK
  <2>3. \A r \in Left' : Superseded(r)
    BY <2>2 DEF OnDisk, Superseded, Held, Left
  <2>4. QED
    BY <1>1, <2>3 DEF SweepSafe, Left
<1>3. ASSUME Left' \subseteq Left, sweepPc' \in {"loop", "note", "sidecar"}
             => sweepPc \in {"loop", "note", "sidecar"}
      PROVE  SweepSafe'
  BY <1>1, <1>3 DEF Inductive, SweepSafe, Left
<1>4. CASE SweepRemove
  BY <1>3, <1>4 DEF SweepRemove, SweepStep, Left, Inductive, TypeOK
<1>5. CASE SweepBegin \/ SweepNote \/ SweepSidecar
  BY <1>3, <1>5 DEF SweepBegin, SweepNote, SweepSidecar, SweepStep, Left
<1>6. CASE SweepReadDir \/ SweepPrune
  BY <1>6 DEF SweepReadDir, SweepPrune, SweepSafe
<1>7. CASE Crash
  BY <1>7 DEF Crash, SweepSafe
<1>8. CASE UNCHANGED sweepVars
  BY <1>3, <1>8 DEF sweepVars, Left
<1>9. CASE Pull \/ StandIn \/ Transcode \/ Open \/ UNCHANGED vars
  <2>1. UNCHANGED sweepVars
    <3>1. CASE Pull
      BY <3>1 DEF Pull, PullReadNames, PullReadAged, PullPick, PullDayDone, PullGiveUp, PullMkdir,
                  PullCreate, PullBody, PullMeta, PullRename, PullStep
    <3>2. CASE StandIn
      BY <3>2 DEF StandIn, StandTrigger, StandStatMp4, StandStatAvi, StandMkdir, StandCreate,
                  StandFinish, StandMeta, StandRename, StandStep
    <3>3. CASE Transcode
      BY <3>3 DEF Transcode, TransStart, TransStatDst, TransDropDup, TransOpen, TransEncode,
                  TransVerify, TransRename, TransRemoveAvi, TransStep
    <3>4. QED
      BY <1>9, <3>1, <3>2, <3>3 DEF Open, vars
  <2>2. QED
    BY <1>8, <2>1
<1>10. QED
  BY <1>2, <1>4, <1>5, <1>6, <1>7, <1>9 DEF Next, Sweep

(* No step but a rename puts a recording on the disk.                       *)
LEMMA OnlyRenamesAdd ==
  ASSUME Inductive, [Next]_vars, ~PullRename, ~StandRename, ~TransRename
  PROVE  Held' \subseteq Held
<1>1. \A r \in Recs : /\ avi[r] = "none" => avi'[r] = "none"
                      /\ mp4[r] = "none" => mp4'[r] = "none"
  <2> USE DEF Inductive, TypeOK, disk
  <2>1. CASE Pull
    BY <2>1 DEF Pull, PullReadNames, PullReadAged, PullPick, PullDayDone, PullGiveUp, PullMkdir,
                PullCreate, PullBody, PullMeta, PullSkip, Discard
  <2>2. CASE StandIn
    BY <2>2 DEF StandIn, StandTrigger, StandStatMp4, StandStatAvi, StandMkdir, StandCreate,
                StandFinish, StandMeta, StandDrop, Discard
  <2>3. CASE Transcode
    BY <2>3 DEF Transcode, TransStart, TransStatDst, TransDropDup, TransOpen, TransEncode,
                TransVerify, TransRemoveAvi, TransDrop, Discard, RemoveAvi
  <2>4. CASE Sweep
    BY <2>4 DEF Sweep, SweepBegin, SweepReadDir, SweepInfo, SweepRemove, SweepNote,
                SweepSidecar, SweepPrune
  <2>5. CASE Crash \/ Open \/ UNCHANGED vars
    BY <2>5 DEF Crash, Open, vars
  <2>6. QED
    BY <2>1, <2>2, <2>3, <2>4, <2>5 DEF Next
<1>2. QED
  BY <1>1 DEF Held

(* Once the puller has read a day, only it adds what the card holds: a      *)
(* transcode that brings a recording back brings one retention had taken.   *)
NothingFetched == Card \cap (Held' \ taken') \subseteq Held \ taken

LEMMA NothingFetchedStep ==
  ASSUME Inductive, [Next]_vars, ~PullRename
  PROVE  NothingFetched
<1>1. taken \subseteq taken'
  BY HistoryStep
<1>2. CASE Held' \subseteq Held
  BY <1>1, <1>2 DEF NothingFetched
<1>3. CASE StandRename
  <2>1. standRec \in Stand
    BY <1>3, RecsAssumption DEF StandRename, StandStep, Inductive, FetchSafe, TypeOK
  <2>2. Held' \subseteq Held \cup {standRec}
    <3>1. CASE Land("stand", standRec) /\ UNCHANGED mp4
      BY <1>3, <2>1, <3>1, LandHeld DEF Inductive, WholeInHand, StandRename, StandStep, Recs
    <3>2. CASE StandDrop(1)
      BY <3>2, SameFiles DEF StandDrop, Discard
    <3>3. QED
      BY <1>3, <3>1, <3>2 DEF StandRename
  <2>3. QED
    BY <1>1, <2>1, <2>2, RecsAssumption DEF NothingFetched
<1>4. CASE TransRename
  <2>1. Held' \subseteq Held \cup {transRec}
    BY <1>4 DEF TransRename, TransStep, TransDrop, Discard, Inductive, TypeOK, Held
  <2>2. transRec \in Held \cup taken
    BY <1>4, RecsAssumption DEF TransRename, TransStep, Inductive, FetchSafe, FootageKept, TypeOK
  <2>3. QED
    BY <1>1, <2>1, <2>2 DEF NothingFetched
<1>5. CASE ~StandRename /\ ~TransRename
  BY <1>2, <1>5, OnlyRenamesAdd
<1>6. QED
  BY <1>3, <1>4, <1>5

(* The puller's own variables change only in its own steps and in a crash.  *)
LEMMA PullVarsKept ==
  ASSUME [Next]_vars, ~Pull, ~Crash
  PROVE  UNCHANGED pullVars
<1>1. CASE StandIn
  BY <1>1 DEF StandIn, StandTrigger, StandStatMp4, StandStatAvi, StandMkdir, StandCreate,
              StandFinish, StandMeta, StandRename, StandStep
<1>2. CASE Transcode
  BY <1>2 DEF Transcode, TransStart, TransStatDst, TransDropDup, TransOpen, TransEncode,
              TransVerify, TransRename, TransRemoveAvi, TransStep
<1>3. CASE Sweep
  BY <1>3 DEF Sweep, SweepBegin, SweepReadDir, SweepInfo, SweepRemove, SweepNote,
              SweepSidecar, SweepPrune, SweepStep
<1>4. QED
  BY <1>1, <1>2, <1>3 DEF Next, Open, vars

(* What the puller has in hand, by what it reads and picks.                 *)
FetchClear ==
  /\ pullPc = "aged" => {r \in Card \cap Held : DayOf[r] = pullDay} \ taken \subseteq pullHeld
  /\ pullTodo \subseteq Card \ (Held \ taken)
  /\ pullRec \in {None} \cup (Card \ (Held \ taken)) /\ pullRec \notin pullTodo

LEMMA ClearInductive ==
  ASSUME Inductive, [Next]_vars
  PROVE  FetchClear'
<1> USE RecsAssumption DEF Inductive, TypeOK, FetchClear, FetchSafe
<1>1. CASE PullRename
  <2>1. Held' \subseteq Held \cup {pullRec} /\ pullRec \in Card /\ UNCHANGED taken
    <3>1. CASE Land("pull", pullRec) /\ UNCHANGED mp4
      BY <1>1, <3>1, LandHeld DEF WholeInHand, PullRename, PullStep
    <3>2. CASE PullSkip(1)
      BY <1>1, <3>2, SameFiles DEF PullSkip, Discard, PullRename, PullStep
    <3>3. QED
      BY <1>1, <3>1, <3>2 DEF PullRename
  <2>2. pullPc' = "pick" /\ pullRec' = None /\ pullTodo' = pullTodo
    BY <1>1 DEF PullRename, PullSkip, Discard, PullOver
  <2>3. QED
    BY <2>1, <2>2
<1>2. CASE Pull /\ ~PullRename
  <2>1. NothingFetched
    BY <1>2, NothingFetchedStep
  <2>2. CASE PullReadNames
    <3>1. pullPc = "names" /\ Held' = Held /\ taken' = taken
      BY <2>2, SameFiles DEF PullReadNames, PullStep, disk
    <3>2. QED
      BY <2>2, <3>1 DEF PullReadNames
  <2>3. CASE PullReadAged
    <3>1. pullPc = "aged" /\ Held' = Held /\ taken' = taken
      BY <2>3, SameFiles DEF PullReadAged, PullStep, disk
    <3>2. pullTodo' \subseteq Card \ (Held \ taken) /\ pullRec' = None /\ pullPc' = "pick"
      BY <2>3, <3>1 DEF PullReadAged, Held
    <3>3. pullTodo' \subseteq Recs
      BY <2>3 DEF PullReadAged, Recs
    <3>4. QED
      BY <3>1, <3>2, <3>3
  <2>4. CASE PullPick
    BY <2>1, <2>4 DEF PullPick, NothingFetched
  <2>5. CASE PullDayDone \/ PullGiveUp
    BY <2>1, <2>5 DEF PullDayDone, PullGiveUp, NothingFetched
  <2>6. CASE PullMkdir \/ PullCreate \/ PullBody \/ PullMeta
    <3>1. pullPc' # "aged" /\ pullTodo' = pullTodo /\ pullRec' \in {None, pullRec}
      BY <2>6 DEF PullMkdir, PullCreate, PullBody, PullMeta, PullSkip, Discard, PullTo, PullOver
    <3>2. None \notin pullTodo
      OBVIOUS
    <3>3. QED
      BY <2>1, <3>1, <3>2 DEF NothingFetched
  <2>7. QED
    BY <1>2, <2>2, <2>3, <2>4, <2>5, <2>6 DEF Pull
<1>3. CASE Crash
  BY <1>3 DEF Crash
<1>4. CASE ~Pull /\ ~Crash
  <2>1. NothingFetched
    BY <1>4, NothingFetchedStep DEF Pull
  <2>2. UNCHANGED pullVars
    BY <1>4, PullVarsKept
  <2>3. QED
    BY <2>1, <2>2 DEF NothingFetched, pullVars
<1>5. QED
  BY <1>2, <1>1, <1>3, <1>4

LEMMA RecsInHand ==
  ASSUME Inductive, [Next]_vars
  PROVE  (standRec \in {None} \cup Stand)' /\ (transRec \in {None} \cup arrived)'
<1> USE DEF Inductive, FetchSafe, standVars, transVars
<1>1. CASE Pull
  BY <1>1, HistoryStep DEF Pull, PullReadNames, PullReadAged, PullPick, PullDayDone, PullGiveUp,
       PullMkdir, PullCreate, PullBody, PullMeta, PullRename, PullStep
<1>2. CASE StandIn
  BY <1>2, HistoryStep DEF StandIn, StandTrigger, StandStatMp4, StandStatAvi, StandMkdir,
       StandCreate, StandFinish, StandMeta, StandRename, StandStep, StandDrop, Discard, StandTo, StandOver,
       StandNextSecond
<1>3. CASE Transcode
  BY <1>3, HistoryStep DEF Transcode, TransStart, TransStatDst, TransDropDup, TransOpen,
       TransEncode, TransVerify, TransRename, TransRemoveAvi, TransStep, TransDrop, Discard, TransTo,
       TransOver, history
<1>4. CASE Sweep
  BY <1>4, HistoryStep DEF Sweep, SweepBegin, SweepReadDir, SweepInfo, SweepRemove, SweepNote,
       SweepSidecar, SweepPrune, SweepStep
<1>5. CASE Crash \/ Open \/ UNCHANGED vars
  BY <1>5, HistoryStep DEF Crash, Open, vars
<1>6. QED
  BY <1>1, <1>2, <1>3, <1>4, <1>5 DEF Next

-----------------------------------------------------------------------------
(* Sidecars and temporaries.                                                *)

(* Only a sweep removes a sidecar, that of the recording it has in hand.    *)
LEMMA SidecarsStay ==
  ASSUME Inductive, SidecarInHand, [Next]_vars
  PROVE  meta \subseteq meta' \cup taken'
<1>1. CASE SweepSidecar
  BY <1>1 DEF SidecarInHand, SweepSidecar, SweepStep
<1>2. CASE Pull
  BY <1>2 DEF Pull, PullReadNames, PullReadAged, PullPick, PullDayDone, PullGiveUp, PullMkdir,
              PullCreate, PullBody, PullMeta, PullRename, PullSkip, Discard, disk
<1>3. CASE StandIn
  BY <1>3 DEF StandIn, StandTrigger, StandStatMp4, StandStatAvi, StandMkdir, StandCreate,
              StandFinish, StandMeta, StandRename, StandDrop, Discard, disk
<1>4. CASE Transcode
  BY <1>4 DEF Transcode, TransStart, TransStatDst, TransDropDup, TransOpen, TransEncode,
              TransVerify, TransRename, TransRemoveAvi, TransDrop, Discard, disk
<1>5. CASE Sweep /\ ~SweepSidecar
  BY <1>5 DEF Sweep, SweepBegin, SweepReadDir, SweepInfo, SweepRemove, SweepNote, SweepPrune, disk
<1>6. CASE Crash \/ Open \/ UNCHANGED vars
  BY <1>6 DEF Crash, Open, vars, disk
<1>7. QED
  BY <1>1, <1>2, <1>3, <1>4, <1>5, <1>6 DEF Next

(* What is held anew came by a rename: a recording whose sidecar was        *)
(* written, or one that is transcoded, which had arrived before.            *)
Landing == {r \in Recs : \/ pullPc = "rename" /\ r = pullRec
                         \/ standPc = "rename" /\ r = standRec}

LEMMA NewlyHeld ==
  ASSUME Inductive, [Next]_vars
  PROVE  Held' \subseteq Held \cup taken \cup Landing
<1>1. CASE PullRename
  <2>1. pullRec \in Recs /\ pullRec \in Landing /\ temp["pull"] = "whole"
    BY <1>1 DEF Inductive, TypeOK, WholeInHand, PullRename, PullStep, Landing
  <2>2. Held' = Held \/ Held' = Held \cup {pullRec}
    <3>1. CASE Land("pull", pullRec) /\ UNCHANGED mp4
      BY <2>1, <3>1, LandHeld DEF Inductive
    <3>2. CASE PullSkip(1)
      BY <3>2, SameFiles DEF PullSkip, Discard
    <3>3. QED
      BY <1>1, <3>1, <3>2 DEF PullRename
  <2>3. QED
    BY <2>1, <2>2
<1>2. CASE StandRename
  <2>1. standRec \in Recs /\ standRec \in Landing /\ temp["stand"] = "whole"
    BY <1>2 DEF Inductive, TypeOK, WholeInHand, StandRename, StandStep, Landing
  <2>2. Held' = Held \/ Held' = Held \cup {standRec}
    <3>1. CASE Land("stand", standRec) /\ UNCHANGED mp4
      BY <2>1, <3>1, LandHeld DEF Inductive
    <3>2. CASE StandDrop(1)
      BY <3>2, SameFiles DEF StandDrop, Discard
    <3>3. QED
      BY <1>2, <3>1, <3>2 DEF StandRename
  <2>3. QED
    BY <2>1, <2>2
<1>3. CASE TransRename
  <2>1. Held' \subseteq Held \cup {transRec}
    BY <1>3 DEF TransRename, TransStep, TransDrop, Discard, Inductive, TypeOK, Held
  <2>2. transRec \in Held \cup taken
    BY <1>3, RecsAssumption DEF TransRename, TransStep, Inductive, FetchSafe, FootageKept, TypeOK
  <2>3. QED
    BY <2>1, <2>2
<1>4. CASE ~PullRename /\ ~StandRename /\ ~TransRename
  BY <1>4, OnlyRenamesAdd
<1>5. QED
  BY <1>1, <1>2, <1>3, <1>4

(* The sidecar is written before the rename, and what it says is still      *)
(* there when the rename comes.                                             *)
LEMMA InHandStep ==
  ASSUME Inductive, SidecarInHand, [Next]_vars
  PROVE  SidecarInHand'
<1>1. meta \subseteq meta' \cup taken' /\ taken \subseteq taken'
  BY SidecarsStay, HistoryStep
<1> USE DEF SidecarInHand
<1>2. CASE Pull
  BY <1>1, <1>2 DEF Pull, PullReadNames, PullReadAged, PullPick, PullDayDone, PullGiveUp,
       PullMkdir, PullCreate, PullBody, PullMeta, PullRename, PullStep, PullSkip, Discard, PullTo, PullOver,
       standVars, sweepVars
<1>3. CASE StandIn
  BY <1>1, <1>3 DEF StandIn, StandTrigger, StandStatMp4, StandStatAvi, StandMkdir, StandCreate,
       StandFinish, StandMeta, StandRename, StandStep, StandDrop, Discard, StandTo, StandOver,
       StandNextSecond, pullVars, sweepVars
<1>4. CASE Transcode
  <2>1. UNCHANGED <<pullVars, standVars, sweepVars>>
    BY <1>4 DEF Transcode, TransStart, TransStatDst, TransDropDup, TransOpen, TransEncode,
                TransVerify, TransRename, TransRemoveAvi, TransStep
  <2>2. QED
    BY <1>1, <2>1 DEF pullVars, standVars, sweepVars
<1>5. CASE Sweep
  <2>1. UNCHANGED <<pullVars, standVars>>
    BY <1>5 DEF Sweep, SweepBegin, SweepReadDir, SweepInfo, SweepRemove, SweepNote, SweepSidecar,
                SweepPrune, SweepStep
  <2>2. sweepPc' \in {"note", "sidecar"} => victim' \in taken'
    BY <1>5 DEF Sweep, SweepBegin, SweepReadDir, SweepInfo, SweepRemove, SweepNote, SweepSidecar,
                SweepPrune, SweepStep
  <2>3. QED
    BY <1>1, <2>1, <2>2 DEF pullVars, standVars
<1>6. CASE Crash \/ Open \/ UNCHANGED vars
  BY <1>1, <1>6 DEF Crash, Open, vars, pullVars, standVars, sweepVars
<1>7. QED
  BY <1>2, <1>3, <1>4, <1>5, <1>6 DEF Next

LEMMA SidecarStep ==
  ASSUME Inductive, SidecarInHand, SidecarFirst, [Next]_vars
  PROVE  SidecarFirst'
<1>1. meta \subseteq meta' \cup taken' /\ taken \subseteq taken'
  BY SidecarsStay, HistoryStep
<1>2. Held \subseteq meta \cup taken
  BY DEF SidecarFirst
<1>3. Held' \subseteq meta \cup taken
  BY <1>2, NewlyHeld DEF SidecarInHand, Landing
<1>4. QED
  BY <1>1, <1>3 DEF SidecarFirst

(* A goroutine takes its temporary along to the rename, or removes it on    *)
(* the way out; what a crash leaves goes before anything else is started.   *)
LEMMA TempStep ==
  ASSUME Inductive, NoLeakedTemp, [Next]_vars
  PROVE  NoLeakedTemp'
<1> USE DEF Inductive, TypeOK, NoLeakedTemp, SetTemp, parts, disk, parts, pullVars, standVars, transVars, sweepVars
<1>1. CASE Pull
  BY <1>1 DEF Pull, PullReadNames, PullReadAged, PullPick, PullDayDone, PullGiveUp, PullMkdir,
              PullCreate, PullBody, PullMeta, PullRename, PullStep, PullSkip, Discard, PullTo, PullOver, Land
<1>2. CASE StandIn
  BY <1>2 DEF StandIn, StandTrigger, StandStatMp4, StandStatAvi, StandMkdir, StandCreate,
              StandFinish, StandMeta, StandRename, StandStep, StandDrop, Discard, StandTo, StandOver,
              StandNextSecond, Land
<1>3. CASE Transcode
  BY <1>3 DEF Transcode, TransStart, TransStatDst, TransDropDup, TransOpen, TransEncode,
              TransVerify, TransRename, TransRemoveAvi, TransStep, TransDrop, Discard, TransTo, TransOver
<1>4. CASE Sweep
  BY <1>4 DEF Sweep, SweepBegin, SweepReadDir, SweepInfo, SweepRemove, SweepNote, SweepSidecar,
              SweepPrune, SweepStep
<1>5. CASE Crash \/ UNCHANGED vars
  BY <1>5 DEF Crash, vars
<1>6. CASE Open
  <2>1. left' = stuck' /\ UNCHANGED temp /\ \A p \in Procs : temp[p] = "none"
    BY <1>6 DEF Open, WholeInHand
  <2>2. QED
    BY <2>1
<1>7. QED
  BY <1>1, <1>2, <1>3, <1>4, <1>5, <1>6 DEF Next

-----------------------------------------------------------------------------
(* The theorems.                                                            *)

LEMMA InductiveInvariant == Spec => []Inductive
<1>1. Init => Inductive
  <2>1. Init => TypeOK
    BY DaysAssumption, FaultsAssumption DEF Init, TypeOK, Days
  <2>2. QED
    BY <2>1 DEF Init, Inductive, WholeFiles, FootageKept, WholeInHand, DropSafe, SweepSafe, FetchSafe
<1>2. Inductive /\ [Next]_vars => Inductive'
  <2>1. SUFFICES ASSUME Inductive, [Next]_vars
                 PROVE  Inductive'
    OBVIOUS
  <2>2. TypeOK'
    BY <2>1, TypeInductive DEF Inductive
  <2>3. FetchSafe'
    BY <2>1, ClearInductive, RecsInHand DEF FetchSafe, FetchClear
  <2>4. QED
    BY <2>1, <2>2, <2>3, WholeInductive, KeptInductive, DropInductive, SweepInductive DEF Inductive
<1>3. QED
  BY <1>1, <1>2, PTL DEF Spec

(* A finished name promises a whole recording, always (Save, Commit,        *)
(* Transcode): the check comes before the rename on every path.             *)
THEOREM FilesAreWhole == Spec => []WholeFiles
BY InductiveInvariant, PTL DEF Inductive

(* A recording that was ever held is held still, unless retention took it.  *)
THEOREM FootageIsKept == Spec => []FootageKept
BY InductiveInvariant, PTL DEF Inductive

(* The puller never brings over a recording that is held and that           *)
(* retention has not touched.                                               *)
THEOREM NotFetchedTwice == Spec => []NeverFetchedTwice
<1>1. Inductive => NeverFetchedTwice
  BY RecsAssumption DEF Inductive, FetchSafe, NeverFetchedTwice, TypeOK
<1>2. QED
  BY <1>1, InductiveInvariant, PTL

(* Retention never removes the newest recording: there is always one held   *)
(* that is as new as any that was held a step ago.                          *)
THEOREM NewestIsKept == Spec => NewestStays
<1>1. Inductive /\ [Next]_vars => [\A r \in Held : \E s \in Held' : s >= r]_vars
  BY EveryHeldStep, NewerStays
<1>2. QED
  BY <1>1, InductiveInvariant, PTL DEF Spec, NewestStays

(* Archive implements ArchivePromise: every step of every goroutine and     *)
(* every crash is an arrival, an ageing-out under a newer recording, or     *)
(* nothing.                                                                 *)
THEOREM PromiseKept == Spec => KeepsPromise
<1>1. Init => Promise!Init
  BY DEF Init, Promise!Init, Held
<1>2. Inductive /\ [Next]_vars => [Promise!Next]_Held
  BY EveryHeldStep DEF HeldStep, HeldGrows, HeldLoses, Superseded, Promise!Next, Promise!Arrive,
                       Promise!AgeOut
<1>3. QED
  BY <1>1, <1>2, InductiveInvariant, PTL DEF Spec, KeepsPromise, Promise!Spec
(* A listing shows a recording's details with it, from the moment it has    *)
(* its name until retention takes it: Save and Commit write the sidecar     *)
(* before they rename, through failures and crashes in between.             *)
THEOREM DetailsComeFirst == Spec => []SidecarFirst
<1>1. Init => SidecarInHand /\ SidecarFirst
  BY DEF Init, SidecarInHand, SidecarFirst, Held
<1>2. Inductive /\ SidecarInHand /\ SidecarFirst /\ [Next]_vars => SidecarInHand' /\ SidecarFirst'
  BY InHandStep, SidecarStep
<1>3. QED
  BY <1>1, <1>2, InductiveInvariant, PTL DEF Spec

(* While the service runs, a temporary is one that a write will finish or   *)
(* remove, so that what Usage counts as pending is (Save, Commit, Abort,    *)
(* Transcode, sweepTemps).                                                  *)
THEOREM TempsAreInUse == Spec => []NoLeakedTemp
<1>1. Init => NoLeakedTemp
  BY DEF Init, NoLeakedTemp
<1>2. Inductive /\ NoLeakedTemp /\ [Next]_vars => NoLeakedTemp'
  BY TempStep
<1>3. QED
  BY <1>1, <1>2, InductiveInvariant, PTL DEF Spec
=============================================================================
