------------------------------ MODULE BulkProofs ------------------------------
(***************************************************************************)
(* Proofs about Bulk: its type, whose failure is whose, what a form does to   *)
(* the settings it was not asked to change, and what is known of a fleet      *)
(* after a Flash.                                                           *)
(***************************************************************************)
EXTENDS Bulk, FiniteSetTheorems, TLAPS

USE FieldsAssumption, RequestsAssumption, BulkBoundsAssumption

(* What a call may touch is a camera the manager has had, and the form that it *)
(* is to post is one it was asked for.                                      *)
Placed ==
  \A k \in Calls :
    /\ call[k] # "over" => Names(k) /\ result[k] = "none"
    /\ call[k] \in {"read", "image", "recording"} => Settings(k[1]) /\ Target(k) \in Cameras
    /\ call[k] = "image" => DOMAIN request[k[1]].image # {}
    /\ call[k] = "recording" => DOMAIN request[k[1]].recording # {}
    /\ call[k] = "upload" => Flashing(k[1]) /\ Target(k) \in Cameras
    /\ result[k] # "none" => Names(k)

LEMMA RequestShape ==
  ASSUME request \in Requests, NEW o \in Ops
  PROVE  /\ request[o].ids \in Seq(Ids) /\ request[o].kind \in {"settings", "flash"}
         /\ \E S \in SUBSET ImageForm : request[o].image \in [S -> Values]
         /\ \E S \in SUBSET RecordingForm : request[o].recording \in [S -> Values]
  <1>1. \A asks \in Requests : \A p \in Ops :
          /\ asks[p].ids \in Seq(Ids) /\ asks[p].kind \in {"settings", "flash"}
          /\ asks[p].image \in Patch(ImageForm) /\ asks[p].recording \in Patch(RecordingForm)
    BY RequestsAssumption
  <1>2. \A form : \A g \in Patch(form) : \E S \in SUBSET form : g \in [S -> Values]
    BY DEF Patch
  <1> QED
    BY <1>1, <1>2

(* What a form asks is of the form's own fields. *)
LEMMA PatchShape ==
  ASSUME TypeOK, NEW k \in Calls
  PROVE  \E S \in SUBSET FormOf(k) : PatchOf(k) \in [S -> Values]
  <1>1. k[1] \in Ops
    BY DEF Calls
  <1> QED
    BY <1>1, RequestShape DEF TypeOK, PatchOf, FormOf

(* A form that is built leaves each setting of the other form, and gives each *)
(* of its own a value, unless the camera keeps the one it has.              *)
LEMMA PostedShape ==
  ASSUME TypeOK, NEW k \in Calls, ~ IsBad(k), NEW old \in [Fields -> Values], NEW kept
  PROVE  /\ Posted(k, old, kept) \in [Fields -> Values]
         /\ \A f \in Fields : f \notin FormOf(k) \/ f \in kept => Posted(k, old, kept)[f] = old[f]
         /\ \A f \in DOMAIN PatchOf(k) \ kept : Posted(k, old, kept)[f] = PatchOf(k)[f]
         /\ \A f \in (FormOf(k) \cap Known) \ (DOMAIN PatchOf(k) \cup kept) :
              Posted(k, old, kept)[f] = read[k][f]
  <1> DEFINE patch == PatchOf(k)
             named == (FormOf(k) \cap Known) \cup DOMAIN patch
             form == {f \in named : f \in Checkboxes => Merged(k)[f] = 1}
             new == Posted(k, old, kept)
  <1>1. PICK S \in SUBSET FormOf(k) : patch \in [S -> Values]
    BY PatchShape
  <1>2. FormOf(k) \subseteq Fields
    BY DEF FormOf, Fields
  <1>3. /\ DOMAIN Merged(k) = named
        /\ \A f \in DOMAIN patch : Merged(k)[f] = patch[f]
        /\ \A f \in named \ DOMAIN patch : Merged(k)[f] = read[k][f]
    BY DEF Merged
  <1>4. \A f \in named : f \in FormOf(k) /\ Merged(k)[f] \in {0, 1}
    <2>1. \A f \in named : f \in FormOf(k)
      BY <1>1
    <2>2. read[k] \in [Fields -> Values]
      BY DEF TypeOK
    <2>3. \A f \in DOMAIN patch : patch[f] \in Values
      BY <1>1
    <2>4. \A f \in named : Merged(k)[f] \in Values
      BY <1>2, <1>3, <2>1, <2>2, <2>3
    <2> QED
      BY <1>3, <2>1, <2>4 DEF IsBad, Values
  <1>5. DOMAIN Build(k) = form /\ \A f \in form : Build(k)[f] = Merged(k)[f]
    BY <1>3 DEF Build
  <1>6. \A f \in Fields : f \notin FormOf(k) \/ f \in kept => new[f] = old[f]
    BY DEF Posted
  <1>7. ASSUME NEW f \in named \ kept PROVE new[f] = Merged(k)[f]
    <2>1. f \in Fields /\ f \in FormOf(k) /\ f \notin kept
      BY <1>2, <1>4
    <2>2. CASE f \in form
      BY <1>5, <2>1, <2>2 DEF Posted
    <2>3. CASE f \notin form
      <3>1. f \in Checkboxes /\ Merged(k)[f] = 0
        BY <1>4, <2>3
      <3> QED
        BY <1>5, <2>1, <2>3, <3>1 DEF Posted
    <2> QED
      BY <2>2, <2>3
  <1>8. ASSUME NEW f \in Fields PROVE new[f] \in Values
    <2>1. old[f] \in Values
      OBVIOUS
    <2>2. CASE f \in named \ kept
      BY <1>4, <1>7, <2>2 DEF Values
    <2>3. CASE f \in kept
      BY <1>6, <2>1, <2>3
    <2>4. CASE f \notin named
      BY <1>5, <2>1, <2>4 DEF Posted, Values
    <2> QED
      BY <2>2, <2>3, <2>4
  <1>9. new \in [Fields -> Values]
    BY <1>8 DEF Posted
  <1> QED
    BY <1>3, <1>6, <1>7, <1>9

(* Another's change is noted at every call about the camera. *)
LEMMA ChangesShape ==
  ASSUME TypeOK, NEW c \in Cameras, NEW new \in [Fields -> Values], NEW own, Changes(c, new, own)
  PROVE  /\ config' \in [Cameras -> [Fields -> Values]] /\ changed' \in [Calls -> SUBSET Fields]
         /\ config'[c] = new /\ \A d \in Cameras \ {c} : config'[d] = config[d]
         /\ \A k \in Calls : changed[k] \subseteq changed'[k]
         /\ \A k \in Calls \ own : Names(k) /\ Target(k) = c =>
              \A f \in Fields : new[f] # config[c][f] => f \in changed'[k]
  BY DEF TypeOK, Changes
-----------------------------------------------------------------------------
(* Type correctness.                                                        *)

LEMMA InitType == Init => TypeOK /\ Placed
  <1> SUFFICES ASSUME Init PROVE TypeOK /\ Placed
    OBVIOUS
  <1>1. TypeOK
    BY DEF Init, TypeOK, Values
  <1>2. \A k \in Calls : /\ call[k] \in {"waiting", "over"} /\ result[k] = "none"
                         /\ call[k] # "over" => Names(k)
    BY DEF Init
  <1> QED
    BY <1>1, <1>2 DEF Placed

(* A call ends, or goes on, by itself. *)
LEMMA EndsShape ==
  ASSUME TypeOK, NEW k \in Calls, NEW r \in {"ok", "error", "no such camera", "not attempted"}, Ends(k, r)
  PROVE  /\ call' \in [Calls -> {"waiting", "read", "image", "recording", "upload", "over"}]
         /\ result' \in [Calls -> {"none", "ok", "error", "no such camera", "not attempted"}]
         /\ call'[k] = "over" /\ result'[k] = r
         /\ \A m \in Calls \ {k} : call'[m] = call[m] /\ result'[m] = result[m]
  BY DEF TypeOK, Ends

LEMMA GoesShape ==
  ASSUME TypeOK, NEW k \in Calls, NEW step \in {"read", "image", "recording", "upload"}, Goes(k, step)
  PROVE  /\ call' \in [Calls -> {"waiting", "read", "image", "recording", "upload", "over"}]
         /\ result' \in [Calls -> {"none", "ok", "error", "no such camera", "not attempted"}]
         /\ call'[k] = step /\ result' = result
         /\ \A m \in Calls \ {k} : call'[m] = call[m]
  BY DEF TypeOK, Goes

(* After a read or a post comes the next form that was asked for. *)
LEMMA ThenShape ==
  ASSUME TypeOK, NEW k \in Calls, NEW step \in {"read", "image", "recording"}, Then(k, step)
  PROVE  \/ /\ step = "read" /\ DOMAIN request[k[1]].image # {}
            /\ call'[k] = "image" /\ result' = result
         \/ /\ step # "recording" /\ DOMAIN request[k[1]].recording # {}
            /\ step = "read" => DOMAIN request[k[1]].image = {}
            /\ call'[k] = "recording" /\ result' = result
         \/ /\ step = "recording" \/ DOMAIN request[k[1]].recording = {}
            /\ step = "read" => DOMAIN request[k[1]].image = {}
            /\ call'[k] = "over" /\ result'[k] = "ok"
  <1>1. Goes(k, "image") => call'[k] = "image" /\ result' = result
    BY GoesShape
  <1>2. Goes(k, "recording") => call'[k] = "recording" /\ result' = result
    BY GoesShape
  <1>3. Ends(k, "ok") => call'[k] = "over" /\ result'[k] = "ok"
    BY EndsShape
  <1> QED
    BY <1>1, <1>2, <1>3 DEF Then

(* A step of a call is that call's alone. *)
LEMMA StepShape ==
  ASSUME TypeOK, Placed, NEW k \in Calls, Step(k)
  PROVE  /\ UNCHANGED <<request, present, cancelled, edits>>
         /\ call[k] # "over" /\ hurt' \in {hurt, hurt \cup {k}}
         /\ call' \in [Calls -> {"waiting", "read", "image", "recording", "upload", "over"}]
         /\ result' \in [Calls -> {"none", "ok", "error", "no such camera", "not attempted"}]
         /\ \A m \in Calls \ {k} : call'[m] = call[m] /\ result'[m] = result[m]
         /\ call'[k] # "over" => result'[k] = "none"
         /\ call'[k] # "waiting"
         /\ call'[k] \in {"read", "image", "recording"} => Settings(k[1]) /\ Target(k) \in Cameras
         /\ call'[k] = "image" => DOMAIN request[k[1]].image # {}
         /\ call'[k] = "recording" => DOMAIN request[k[1]].recording # {}
         /\ call'[k] = "upload" => Flashing(k[1]) /\ Target(k) \in Cameras
  <1>1. CASE NotAttempted(k) \/ NoSuchCamera(k) \/ StartSettings(k) \/ StartFlash(k)
    <2>1. call[k] = "waiting" /\ result[k] = "none"
          /\ UNCHANGED <<request, present, cancelled, hurt, edits>>
      BY <1>1 DEF Placed, NotAttempted, NoSuchCamera, StartSettings, StartFlash, Turn
    <2>2. CASE NotAttempted(k) \/ NoSuchCamera(k)
      <3>1. Ends(k, "not attempted") \/ Ends(k, "no such camera")
        BY <2>2 DEF NotAttempted, NoSuchCamera
      <3> QED
        BY <2>1, <3>1, EndsShape
    <2>3. CASE StartSettings(k)
      <3>1. Settings(k[1]) /\ Target(k) \in Cameras
        BY <2>3 DEF TypeOK, StartSettings
      <3>2. Ends(k, "ok") \/ Goes(k, "read")
        BY <2>3 DEF StartSettings
      <3> QED
        BY <2>1, <3>1, <3>2, EndsShape, GoesShape
    <2>4. CASE StartFlash(k)
      <3>1. Flashing(k[1]) /\ Target(k) \in Cameras /\ Goes(k, "upload")
        BY <2>4 DEF TypeOK, StartFlash
      <3> QED
        BY <2>1, <3>1, GoesShape
    <2> QED
      BY <1>1, <2>2, <2>3, <2>4
  <1>2. CASE Config(k) \/ Post(k)
    <2>1. call[k] \in {"read", "image", "recording"} /\ UNCHANGED <<request, present, cancelled, hurt, edits>>
      BY <1>2 DEF Config, Post, Posting
    <2>2. result[k] = "none" /\ Settings(k[1]) /\ Target(k) \in Cameras
      BY <2>1 DEF Placed
    <2>3. \/ Goes(k, "image") /\ DOMAIN request[k[1]].image # {}
          \/ Goes(k, "recording") /\ DOMAIN request[k[1]].recording # {}
          \/ Ends(k, "ok")
      BY <1>2 DEF Config, Post, Then
    <2> QED
      BY <2>1, <2>2, <2>3, EndsShape, GoesShape
  <1>3. CASE ConfigFails(k) \/ PostBad(k) \/ PostFails(k) \/ UploadFails(k)
    <2>1. /\ call[k] # "over" /\ UNCHANGED <<request, present, cancelled, edits>>
          /\ Ends(k, "error") /\ hurt' \in {hurt, hurt \cup {k}}
      BY <1>3 DEF ConfigFails, PostBad, PostFails, UploadFails, Posting, Fails, Hurt
    <2> QED
      BY <2>1, EndsShape
  <1>4. CASE Upload(k)
    <2>1. call[k] # "over" /\ UNCHANGED <<request, present, cancelled, hurt, edits>> /\ Ends(k, "ok")
      BY <1>4 DEF Upload
    <2> QED
      BY <2>1, EndsShape
  <1> QED
    BY <1>1, <1>2, <1>3, <1>4 DEF Step

LEMMA StepPlaced == ASSUME TypeOK, Placed, NEW k \in Calls, Step(k) PROVE Placed'
  <1>1. \A m \in Calls : /\ Names(m)' = Names(m) /\ Target(m)' = Target(m)
                         /\ Settings(m[1])' = Settings(m[1]) /\ Flashing(m[1])' = Flashing(m[1])
                         /\ request'[m[1]] = request[m[1]]
    BY StepShape DEF Names, Target, Settings, Flashing
  <1>2. Names(k)
    BY StepShape DEF Placed
  <1>3. \A m \in Calls \ {k} : call'[m] = call[m] /\ result'[m] = result[m]
    BY StepShape
  <1>4. /\ call'[k] # "over" => result'[k] = "none"
        /\ call'[k] \in {"read", "image", "recording"} => Settings(k[1]) /\ Target(k) \in Cameras
        /\ call'[k] = "image" => DOMAIN request[k[1]].image # {}
        /\ call'[k] = "recording" => DOMAIN request[k[1]].recording # {}
        /\ call'[k] = "upload" => Flashing(k[1]) /\ Target(k) \in Cameras
    BY StepShape
  <1> QED
    BY <1>1, <1>2, <1>3, <1>4 DEF Placed

(* Only the posts change settings, and only uploads firmware. *)
LEMMA StepType == ASSUME TypeOK, Placed, NEW k \in Calls, Step(k) PROVE TypeOK'
  <1>1. /\ request' \in Requests /\ present' \subseteq Cameras
        /\ call' \in [Calls -> {"waiting", "read", "image", "recording", "upload", "over"}]
        /\ result' \in [Calls -> {"none", "ok", "error", "no such camera", "not attempted"}]
        /\ cancelled' \subseteq Ops /\ edits' \in 0..MaxEdits /\ hurt' \subseteq Calls
    <2>1. hurt' \subseteq Calls
      <3>1. hurt' = hurt \/ hurt' = hurt \cup {k}
        BY StepShape
      <3>2. hurt \subseteq Calls
        BY DEF TypeOK
      <3> QED
        BY <3>1, <3>2
    <2> QED
      BY <2>1, StepShape DEF TypeOK
  <1>2. k[1] \in Ops
    BY DEF Calls
  <1>3. faults' \in 0..MaxFaults
    <2>1. faults' = faults \/ (faults < MaxFaults /\ faults' = faults + 1)
      BY DEF Step, NotAttempted, NoSuchCamera, StartSettings, StartFlash, Turn, Config, ConfigFails,
             PostBad, Post, PostFails, Upload, UploadFails, Hurt
    <2>2. faults \in 0..MaxFaults
      BY DEF TypeOK
    <2> QED
      BY <2>1, <2>2
  <1>4. CASE NotAttempted(k) \/ NoSuchCamera(k) \/ StartSettings(k) \/ StartFlash(k)
    <2>1. UNCHANGED <<config, firmware, read, changed, refused>>
      BY <1>4 DEF NotAttempted, NoSuchCamera, StartSettings, StartFlash, Turn
    <2> QED
      BY <1>1, <1>3, <2>1 DEF TypeOK
  <1>5. CASE Config(k)
    <2>1. config[Target(k)] \in [Fields -> Values]
      BY <1>5 DEF TypeOK, Placed, Config
    <2>2. read' \in [Calls -> [Fields -> Values]] /\ changed' \in [Calls -> SUBSET Fields]
      BY <1>5, <2>1 DEF TypeOK, Config
    <2>3. UNCHANGED <<config, firmware, refused>>
      BY <1>5 DEF Config
    <2> QED
      BY <1>1, <1>3, <2>2, <2>3 DEF TypeOK
  <1>6. CASE ConfigFails(k) \/ PostBad(k)
    <2>1. UNCHANGED <<config, firmware, read, changed, refused>>
      BY <1>6 DEF ConfigFails, PostBad
    <2> QED
      BY <1>1, <1>3, <2>1 DEF TypeOK
  <1>7. CASE Post(k) \/ PostFails(k)
    <2>1. UNCHANGED <<firmware, read>>
      BY <1>7 DEF Post, PostFails
    <2>2. ASSUME NEW kept \in Kept(k), Reaches(k, kept)
          PROVE  /\ config' \in [Cameras -> [Fields -> Values]] /\ changed' \in [Calls -> SUBSET Fields]
                 /\ refused' \in [Calls -> SUBSET Refusable]
      <3>1. ~ IsBad(k) /\ Target(k) \in Cameras
        BY <1>7 DEF Post, PostFails, Posting, Placed
      <3>2. Posted(k, config[Target(k)], kept) \in [Fields -> Values]
        BY <3>1, PostedShape DEF TypeOK
      <3>3. config' \in [Cameras -> [Fields -> Values]] /\ changed' \in [Calls -> SUBSET Fields]
        BY <2>2, <3>1, <3>2, ChangesShape DEF Reaches
      <3>4. kept \subseteq Refusable
        BY DEF Kept
      <3> QED
        BY <2>2, <3>3, <3>4 DEF Reaches, TypeOK
    <2>3. CASE UNCHANGED <<config, changed, refused>>
      BY <1>1, <1>3, <2>1, <2>3 DEF TypeOK
    <2>4. CASE \E kept \in Kept(k) : Reaches(k, kept)
      BY <1>1, <1>3, <2>1, <2>2, <2>4 DEF TypeOK
    <2> QED
      BY <1>7, <2>3, <2>4 DEF Post, PostFails
  <1>8. CASE Upload(k) \/ UploadFails(k)
    <2>1. UNCHANGED <<config, read, changed, refused>> /\ Target(k) \in Cameras
      BY <1>8 DEF Upload, UploadFails, Placed
    <2>2. firmware[Target(k)] \in Ops \cup {"old", "cut"}
      BY <2>1 DEF TypeOK
    <2>3. firmware' \in [Cameras -> Ops \cup {"old", "cut"}]
      BY <1>2, <1>8, <2>1, <2>2 DEF TypeOK, Upload, UploadFails
    <2> QED
      BY <1>1, <1>3, <2>1, <2>3 DEF TypeOK
  <1> QED
    BY <1>4, <1>5, <1>6, <1>7, <1>8 DEF Step

(* What goes on beside the calls. *)
LEMMA WorldShape ==
  ASSUME TypeOK, (\E o \in Ops : Cancel(o)) \/ \E c \in Cameras : Delete(c) \/ \E f \in Fields : Edit(c, f)
  PROVE  /\ TypeOK' /\ UNCHANGED <<request, calls, refused, hurt, firmware>>
         /\ \A k \in Calls : changed[k] \subseteq changed'[k]
         /\ \A k \in Calls : Names(k) /\ Target(k) \in Cameras =>
              \A f \in Fields : config'[Target(k)][f] # config[Target(k)][f] => f \in changed'[k]
         /\ config' # config => edits' # edits
  <1>0. cancelled \subseteq Ops /\ present \subseteq Cameras /\ faults \in 0..MaxFaults /\ edits \in 0..MaxEdits
    BY DEF TypeOK
  <1>1. CASE \E o \in Ops : Cancel(o)
    <2>1. UNCHANGED <<request, present, config, firmware, calls, changed, refused, hurt, edits>>
      BY <1>1 DEF Cancel
    <2>2. cancelled' \subseteq Ops /\ faults' \in 0..MaxFaults
      BY <1>0, <1>1 DEF Cancel
    <2>3. TypeOK'
      BY <2>1, <2>2 DEF TypeOK, calls
    <2> QED
      BY <2>1, <2>3
  <1>2. CASE \E c \in Cameras : Delete(c)
    <2>1. UNCHANGED <<request, config, firmware, calls, changed, refused, cancelled, hurt, faults>>
      BY <1>2 DEF Delete
    <2>2. present' \subseteq Cameras /\ edits' \in 0..MaxEdits
      BY <1>0, <1>2 DEF Delete
    <2>3. TypeOK'
      BY <2>1, <2>2 DEF TypeOK, calls
    <2> QED
      BY <2>1, <2>3
  <1>3. ASSUME NEW c \in Cameras, NEW f \in Fields, Edit(c, f)
        PROVE  /\ TypeOK' /\ UNCHANGED <<request, calls, refused, hurt, firmware>>
               /\ \A k \in Calls : changed[k] \subseteq changed'[k]
               /\ \A k \in Calls : Names(k) /\ Target(k) \in Cameras =>
                    \A g \in Fields : config'[Target(k)][g] # config[Target(k)][g] => g \in changed'[k]
               /\ edits' # edits
    <2>0. PICK v \in {0, 1} : Changes(c, [config[c] EXCEPT ![f] = v], {})
      BY <1>3 DEF Edit
    <2>1. \E new \in [Fields -> Values] : Changes(c, new, {})
      <3>1. [config[c] EXCEPT ![f] = v] \in [Fields -> Values]
        BY DEF TypeOK, Values
      <3> QED
        BY <2>0, <3>1
    <2>2. PICK new \in [Fields -> Values] : Changes(c, new, {})
      BY <2>1
    <2>4. edits' \in 0..MaxEdits /\ edits' # edits
      BY <1>0, <1>3 DEF Edit
    <2>5. /\ config' \in [Cameras -> [Fields -> Values]] /\ changed' \in [Calls -> SUBSET Fields]
          /\ config'[c] = new /\ \A d \in Cameras \ {c} : config'[d] = config[d]
          /\ \A k \in Calls : changed[k] \subseteq changed'[k]
          /\ \A k \in Calls : Names(k) /\ Target(k) = c =>
               \A g \in Fields : new[g] # config[c][g] => g \in changed'[k]
      <3>1. \A k \in Calls : k \notin {}
        OBVIOUS
      <3>2. /\ config' \in [Cameras -> [Fields -> Values]] /\ changed' \in [Calls -> SUBSET Fields]
            /\ config'[c] = new /\ \A d \in Cameras \ {c} : config'[d] = config[d]
            /\ \A k \in Calls : changed[k] \subseteq changed'[k]
        BY <2>2, ChangesShape
      <3>3. \A k \in Calls \ {} : Names(k) /\ Target(k) = c =>
              \A g \in Fields : new[g] # config[c][g] => g \in changed'[k]
        BY <2>2, ChangesShape
      <3> QED
        BY <3>1, <3>2, <3>3
    <2>6. UNCHANGED <<request, present, calls, firmware, refused, cancelled, hurt, faults>>
      BY <1>3 DEF Edit
    <2>7. TypeOK'
      BY <2>4, <2>5, <2>6 DEF TypeOK, calls
    <2> QED
      BY <2>4, <2>5, <2>6, <2>7
  <1> QED
    BY <1>1, <1>2, <1>3

LEMMA NextType == TypeOK /\ Placed /\ [Next]_vars => TypeOK' /\ Placed'
  <1> SUFFICES ASSUME TypeOK, Placed, [Next]_vars PROVE TypeOK' /\ Placed'
    OBVIOUS
  <1>1. CASE UNCHANGED vars
    BY <1>1 DEF TypeOK, Placed, vars, calls, Names, Target, Settings, Flashing
  <1>2. ASSUME NEW k \in Calls, Step(k) PROVE TypeOK' /\ Placed'
    BY <1>2, StepType, StepPlaced
  <1>3. CASE (\E o \in Ops : Cancel(o)) \/ \E c \in Cameras : Delete(c) \/ \E f \in Fields : Edit(c, f)
    BY <1>3, WorldShape DEF Placed, calls, Names, Target, Settings, Flashing
  <1> QED
    BY <1>1, <1>2, <1>3 DEF Next

(* Every state of the requests and of the cameras they are about has its     *)
(* type.                                                                    *)
THEOREM TypeCorrect == Spec => []TypeOK
  BY InitType, NextType, PTL DEF Spec
-----------------------------------------------------------------------------
(* Whose failure is whose.  A Flash comes to a camera only after it is done   *)
(* with all before it.                                                      *)

Earlier(k) == {m \in Calls : m[1] = k[1] /\ m[2] < k[2]}

InOrder ==
  \A k \in Calls : Flashing(k[1]) /\ Names(k) /\ call[k] # "waiting" =>
    \A m \in Earlier(k) : call[m] = "over"

FirstFailure ==
  \A k \in Calls : Flashing(k[1]) /\ (call[k] = "upload" \/ result[k] = "error") =>
    \A m \in Earlier(k) : result[m] # "error"

LEMMA TurnShape ==
  ASSUME TypeOK, NEW k \in Calls, Step(k), call[k] = "waiting", Flashing(k[1])
  PROVE  \A m \in Earlier(k) : call[m] = "over"
  <1>1. Turn(k)
    BY DEF Step, Config, ConfigFails, PostBad, Post, Posting, PostFails, Upload, UploadFails,
           NotAttempted, NoSuchCamera, StartSettings, StartFlash
  <1> SUFFICES ASSUME NEW m \in Earlier(k) PROVE call[m] = "over"
    OBVIOUS
  <1>2. m = <<k[1], m[2]>> /\ m[2] \in 1..(k[2] - 1)
    BY DEF Earlier, Calls
  <1> QED
    BY <1>1, <1>2 DEF Turn

LEMMA StepOrder == ASSUME TypeOK, Placed, InOrder, NEW k \in Calls, Step(k) PROVE InOrder'
  <1>1. /\ call[k] # "over" /\ request' = request /\ Names(k)
        /\ \A m \in Calls \ {k} : call'[m] = call[m]
    BY StepShape DEF Placed
  <1> SUFFICES ASSUME NEW n \in Calls, Flashing(n[1]), Names(n), call'[n] # "waiting", NEW m \in Earlier(n)
               PROVE  call'[m] = "over"
    BY <1>1 DEF InOrder, Flashing, Names, Earlier, Calls
  <1>2. m \in Calls /\ m # n
    BY DEF Earlier, Calls
  <1>3. call[m] = "over"
    <2>1. CASE call[n] = "waiting"
      <3>1. n = k
        BY <1>1, <2>1
      <3> QED
        BY <2>1, <3>1, TurnShape
    <2>2. CASE call[n] # "waiting"
      BY <2>2 DEF InOrder
    <2> QED
      BY <2>1, <2>2
  <1> QED
    BY <1>1, <1>2, <1>3

(* The fields of the two forms differ, so that a call asks of a field once.   *)
LEMMA AskedOnce ==
  ASSUME TypeOK, NEW k \in Calls
  PROVE  /\ DOMAIN request[k[1]].image \subseteq ImageForm
         /\ DOMAIN request[k[1]].recording \subseteq RecordingForm
         /\ \A f \in DOMAIN request[k[1]].image : Asked(k, f) = request[k[1]].image[f]
         /\ \A f \in DOMAIN request[k[1]].recording : Asked(k, f) = request[k[1]].recording[f]
  <1>1. k[1] \in Ops
    BY DEF Calls
  <1>2. PICK S \in SUBSET ImageForm, R \in SUBSET RecordingForm :
          /\ request[k[1]].image \in [S -> Values]
          /\ request[k[1]].recording \in [R -> Values]
    BY <1>1, RequestShape DEF TypeOK
  <1>3. DOMAIN request[k[1]].image = S /\ DOMAIN request[k[1]].recording = R
    BY <1>2
  <1> QED
    BY <1>3 DEF Asked

(* A call that is to post knows that the form is one it was asked for. *)
LEMMA BadIsUnfit ==
  ASSUME TypeOK, Placed, NEW k \in Calls, call[k] \in {"image", "recording"}, IsBad(k)
  PROVE  Unfit(k)
  <1> DEFINE image == request[k[1]].image
             recording == request[k[1]].recording
  <1>1. /\ DOMAIN image \subseteq ImageForm /\ DOMAIN recording \subseteq RecordingForm
        /\ \A f \in DOMAIN image : Asked(k, f) = image[f]
        /\ \A f \in DOMAIN recording : Asked(k, f) = recording[f]
    BY AskedOnce
  <1>2. /\ FormOf(k) \in {ImageForm, RecordingForm} /\ DOMAIN PatchOf(k) = FormOf(k) \cap Asks(k)
        /\ \A f \in DOMAIN PatchOf(k) : Asked(k, f) = PatchOf(k)[f]
    <2>1. CASE call[k] = "image"
      BY <1>1, <2>1, FieldsAssumption DEF FormOf, PatchOf, Asks
    <2>2. CASE call[k] = "recording"
      BY <1>1, <2>2, FieldsAssumption DEF FormOf, PatchOf, Asks
    <2> QED
      BY <2>1, <2>2
  <1>3. DOMAIN PatchOf(k) # {}
    BY DEF Placed, PatchOf
  <1>4. PICK f \in DOMAIN Merged(k) : Merged(k)[f] = Bad
    BY DEF IsBad
  <1>5. CASE f \in DOMAIN PatchOf(k)
    <2>1. PatchOf(k)[f] = Bad
      BY <1>4, <1>5 DEF Merged
    <2> QED
      BY <1>2, <1>5, <2>1 DEF Unfit
  <1>6. CASE f \notin DOMAIN PatchOf(k)
    <2>1. f \in FormOf(k) \cap Known /\ read[k][f] = Bad
      BY <1>4, <1>6 DEF Merged
    <2>2. f \in (FormOf(k) \cap Known) \ Asks(k) /\ FormOf(k) \cap Asks(k) # {}
      BY <1>2, <1>3, <1>6, <2>1
    <2> QED
      BY <1>2, <2>1, <2>2 DEF Unfit
  <1> QED
    BY <1>5, <1>6

(* Who comes to have a bad result, and why. *)
LEMMA StepBlame ==
  ASSUME TypeOK, Placed, NEW k \in Calls, Step(k)
  PROVE  /\ result'[k] = "error" =>
              /\ k \in hurt' \/ (Unfit(k) /\ read' = read)
              /\ Flashing(k[1]) => call[k] = "upload"
         /\ result'[k] = "not attempted" => Flashing(k[1]) /\ Stopped(k[1]) /\ call[k] = "waiting"
         /\ call'[k] = "upload" => ~ Stopped(k[1])
  <1>1. k[1] \in Ops /\ request[k[1]].kind # "" /\ (Settings(k[1]) => ~ Flashing(k[1]))
    BY RequestShape DEF TypeOK, Calls, Settings, Flashing
  <1>2. CASE NotAttempted(k) \/ NoSuchCamera(k) \/ StartSettings(k) \/ StartFlash(k)
    <2>1. result[k] = "none" /\ call[k] = "waiting"
      BY <1>2 DEF Placed, NotAttempted, NoSuchCamera, StartSettings, StartFlash, Turn
    <2>2. CASE NotAttempted(k)
      BY <2>1, <2>2 DEF TypeOK, NotAttempted, Ends
    <2>3. CASE NoSuchCamera(k)
      BY <2>1, <2>3 DEF TypeOK, NoSuchCamera, Ends
    <2>4. CASE StartSettings(k)
      BY <2>1, <2>4 DEF TypeOK, StartSettings, Ends, Goes
    <2>5. CASE StartFlash(k)
      BY <2>1, <2>5 DEF TypeOK, StartFlash, Goes
    <2> QED
      BY <1>2, <2>2, <2>3, <2>4, <2>5
  <1>3. CASE Config(k) \/ Post(k)
    <2>1. result[k] = "none"
      BY <1>3 DEF Placed, Config, Post, Posting
    <2>2. Goes(k, "image") \/ Goes(k, "recording") \/ Ends(k, "ok")
      BY <1>3 DEF Config, Post, Then
    <2> QED
      BY <2>1, <2>2 DEF TypeOK, Ends, Goes
  <1>4. CASE ConfigFails(k) \/ PostFails(k)
    <2>1. Ends(k, "error") /\ k \in hurt' /\ Settings(k[1])
      BY <1>4 DEF ConfigFails, PostFails, Posting, Fails, Hurt, Placed
    <2> QED
      BY <1>1, <2>1 DEF TypeOK, Ends
  <1>5. CASE PostBad(k)
    <2>1. Ends(k, "error") /\ Settings(k[1]) /\ read' = read
      BY <1>5 DEF PostBad, Fails, Placed
    <2>2. Unfit(k)
      BY <1>5, BadIsUnfit DEF PostBad
    <2> QED
      BY <1>1, <2>1, <2>2 DEF TypeOK, Ends
  <1>6. CASE Upload(k)
    BY <1>6 DEF TypeOK, Upload, Ends
  <1>7. CASE UploadFails(k)
    <2>1. Ends(k, "error") /\ k \in hurt' /\ call[k] = "upload"
      BY <1>7 DEF UploadFails, Fails, Hurt
    <2> QED
      BY <2>1 DEF TypeOK, Ends
  <1> QED
    BY <1>2, <1>3, <1>4, <1>5, <1>6, <1>7 DEF Step

(* What a call has read is its own. *)
LEMMA StepReads ==
  ASSUME TypeOK, NEW k \in Calls, Step(k)
  PROVE  \A m \in Calls \ {k} : read'[m] = read[m]
  BY DEF Step, NotAttempted, NoSuchCamera, StartSettings, StartFlash, Turn, Config, ConfigFails,
         PostBad, Post, PostFails, Upload, UploadFails, TypeOK

Blame == InOrder /\ FirstFailure /\ OwnFailures

LEMMA StepOwn == ASSUME TypeOK, Placed, Blame, NEW k \in Calls, Step(k) PROVE Blame'
  <1>1. /\ call[k] # "over" /\ request' = request /\ Names(k) /\ hurt \subseteq hurt'
        /\ \A m \in Calls \ {k} : call'[m] = call[m] /\ result'[m] = result[m]
        /\ \A m \in Calls \ {k} : read'[m] = read[m]
        /\ result[k] = "none"
    BY StepShape, StepReads DEF Placed
  <1>2. \A m \in Calls : /\ Flashing(m[1])' = Flashing(m[1]) /\ Names(m)' = Names(m)
                         /\ Earlier(m)' = Earlier(m)
    BY <1>1 DEF Flashing, Names, Earlier, Calls
  <1>3. InOrder'
    BY StepOrder DEF Blame
  <1>4. ASSUME NEW n \in Calls, Flashing(n[1]), call'[n] = "upload" \/ result'[n] = "error",
               NEW m \in Earlier(n)
        PROVE  result'[m] # "error"
    <2>1. m \in Calls /\ m # n
      BY DEF Earlier, Calls
    <2>2. CASE n = k
      <3>1. CASE call[k] = "upload"
        BY <1>1, <1>4, <2>1, <2>2, <3>1 DEF Blame, FirstFailure
      <3>2. CASE call[k] # "upload"
        <4>1. ~ Stopped(k[1])
          BY <1>4, <2>2, <3>2, StepBlame
        <4>2. m = <<k[1], m[2]>> /\ m[2] \in 1..MaxIds
          BY <2>2 DEF Earlier, Calls
        <4> QED
          BY <1>1, <2>1, <2>2, <4>1, <4>2 DEF Stopped
      <3> QED
        BY <3>1, <3>2
    <2>3. CASE n # k
      <3>1. call[n] = "upload" \/ result[n] = "error"
        BY <1>1, <1>4, <2>3
      <3>2. call[n] # "waiting" /\ Names(n)
        BY <3>1 DEF Placed
      <3>3. call[m] = "over"
        BY <1>4, <3>2 DEF Blame, InOrder
      <3> QED
        BY <1>1, <1>4, <2>1, <3>1, <3>3 DEF Blame, FirstFailure
    <2> QED
      BY <2>2, <2>3
  <1>5. FirstFailure'
    BY <1>2, <1>4 DEF FirstFailure
  <1>6. ASSUME NEW n \in Calls, result'[n] = "error"
        PROVE  n \in hurt' \/ Unfit(n)'
    <2>1. n \in hurt' \/ (Unfit(n) /\ read'[n] = read[n])
      BY <1>1, <1>6, StepBlame DEF Blame, OwnFailures
    <2> QED
      BY <1>1, <2>1 DEF Unfit, Asks, Asked
  <1>7. ASSUME NEW n \in Calls, result'[n] = "not attempted"
        PROVE  Flashing(n[1]) /\ \E i \in 1..(n[2] - 1) : result'[<<n[1], i>>] = "error"
    <2>1. CASE n = k
      <3>1. Flashing(k[1]) /\ Stopped(k[1]) /\ call[k] = "waiting"
        BY <1>7, <2>1, StepBlame
      <3>2. PICK i \in 1..MaxIds : result[<<k[1], i>>] = "error"
        BY <3>1 DEF Stopped
      <3>3. <<k[1], i>> \in Calls /\ k = <<k[1], k[2]>> /\ k[2] \in 1..MaxIds
        BY DEF Calls
      <3>4. i # k[2]
        BY <1>1, <3>2, <3>3
      <3>5. ~ (i > k[2])
        <4> SUFFICES ASSUME i > k[2] PROVE FALSE
          OBVIOUS
        <4>1. k \in Earlier(<<k[1], i>>) /\ Names(<<k[1], i>>) /\ call[<<k[1], i>>] # "waiting"
          BY <3>2, <3>3 DEF Earlier, Placed
        <4> QED
          BY <3>1, <3>3, <4>1 DEF Blame, InOrder
      <3>6. i \in 1..(k[2] - 1) /\ <<k[1], i>> # k
        BY <3>3, <3>4, <3>5
      <3> QED
        BY <1>1, <2>1, <3>1, <3>2, <3>3, <3>6
    <2>2. CASE n # k
      <3>1. PICK i \in 1..(n[2] - 1) : result[<<n[1], i>>] = "error"
        BY <1>1, <1>7, <2>2 DEF Blame, OwnFailures
      <3>2. Flashing(n[1])
        BY <1>1, <1>7, <2>2 DEF Blame, OwnFailures
      <3>3. <<n[1], i>> \in Calls
        BY DEF Calls
      <3>4. <<n[1], i>> # k
        BY <1>1, <3>1
      <3> QED
        BY <1>1, <3>1, <3>2, <3>3, <3>4
    <2> QED
      BY <2>1, <2>2
  <1>8. OwnFailures'
    BY <1>1, <1>6, <1>7 DEF OwnFailures, Flashing
  <1> QED
    BY <1>3, <1>5, <1>8 DEF Blame

LEMMA InitBlame == Init => Blame
  <1> SUFFICES ASSUME Init PROVE Blame
    OBVIOUS
  <1>1. \A k \in Calls : (Names(k) => call[k] = "waiting") /\ call[k] # "upload" /\ result[k] = "none"
    BY DEF Init
  <1> QED
    BY <1>1 DEF Blame, InOrder, FirstFailure, OwnFailures

LEMMA NextBlame == TypeOK /\ Placed /\ Blame /\ [Next]_vars => Blame'
  <1> SUFFICES ASSUME TypeOK, Placed, Blame, [Next]_vars PROVE Blame'
    OBVIOUS
  <1>1. CASE UNCHANGED <<request, calls, hurt>>
    <2>1. InOrder' /\ FirstFailure'
      BY <1>1 DEF Blame, InOrder, FirstFailure, Earlier, Calls, calls, Flashing, Names
    <2>2. \A m \in Calls : Unfit(m)' = Unfit(m) /\ Flashing(m[1])' = Flashing(m[1])
      BY <1>1 DEF Unfit, Asks, Asked, Flashing, calls
    <2>3. OwnFailures'
      BY <1>1, <2>2 DEF Blame, OwnFailures, calls
    <2> QED
      BY <2>1, <2>3 DEF Blame
  <1>2. ASSUME NEW k \in Calls, Step(k) PROVE Blame'
    BY <1>2, StepOwn
  <1> QED
    BY <1>1, <1>2, WorldShape DEF Next, vars, calls

(* A call that fails did so for a reason of its own, and a camera goes        *)
(* unattempted only when one before it failed.                              *)
THEOREM FailuresAreOwn == Spec => []OwnFailures
  BY InitType, InitBlame, NextType, NextBlame, PTL DEF Spec, Blame
-----------------------------------------------------------------------------
(* What a form does to settings.                                            *)

(* What a call does to the settings of its camera is noted at all the others. *)
LEMMA StepSeen ==
  ASSUME TypeOK, Placed, NEW k \in Calls, Step(k)
  PROVE  \/ UNCHANGED <<config, read, changed>>
         \/ Config(k)
         \/ /\ Post(k) \/ PostFails(k)
            /\ ~ IsBad(k) /\ read' = read /\ Target(k) \in Cameras
            /\ \E kept \in Kept(k) :
                 /\ config'[Target(k)] = Posted(k, config[Target(k)], kept)
                 /\ refused'[k] = refused[k] \cup kept
            /\ \A d \in Cameras \ {Target(k)} : config'[d] = config[d]
            /\ changed'[k] = changed[k]
            /\ \A m \in Calls \ {k} : Names(m) /\ Target(m) = Target(k) =>
                 \A f \in Fields : config'[Target(k)][f] # config[Target(k)][f] => f \in changed'[m]
            /\ \A m \in Calls : changed[m] \subseteq changed'[m]
  <1>1. CASE NotAttempted(k) \/ NoSuchCamera(k) \/ StartSettings(k) \/ StartFlash(k)
    BY <1>1 DEF NotAttempted, NoSuchCamera, StartSettings, StartFlash, Turn
  <1>2. CASE ConfigFails(k) \/ PostBad(k) \/ Upload(k) \/ UploadFails(k)
    BY <1>2 DEF ConfigFails, PostBad, Upload, UploadFails
  <1>3. CASE Post(k) \/ PostFails(k)
    <2>1. ~ IsBad(k) /\ Target(k) \in Cameras /\ read' = read
      BY <1>3 DEF Post, PostFails, Posting, Placed
    <2>2. CASE \E kept \in Kept(k) : Reaches(k, kept)
      <3>1. PICK kept \in Kept(k) : Reaches(k, kept)
        BY <2>2
      <3>2. Posted(k, config[Target(k)], kept) \in [Fields -> Values]
        BY <2>1, PostedShape DEF TypeOK
      <3>3. /\ config'[Target(k)] = Posted(k, config[Target(k)], kept)
            /\ \A d \in Cameras \ {Target(k)} : config'[d] = config[d]
            /\ \A m \in Calls : changed[m] \subseteq changed'[m]
            /\ \A m \in Calls \ {k} : Names(m) /\ Target(m) = Target(k) =>
                 \A f \in Fields : Posted(k, config[Target(k)], kept)[f] # config[Target(k)][f]
                                     => f \in changed'[m]
        BY <2>1, <3>1, <3>2, ChangesShape DEF Reaches
      <3>4. changed'[k] = changed[k] /\ refused'[k] = refused[k] \cup kept
        BY <3>1 DEF Reaches, Changes, TypeOK
      <3> QED
        BY <1>3, <2>1, <3>3, <3>4
    <2>3. CASE UNCHANGED <<config, changed, refused>>
      BY <2>1, <2>3
    <2> QED
      BY <1>3, <2>2, <2>3 DEF Post, PostFails
  <1> QED
    BY <1>1, <1>2, <1>3 DEF Step

(* What a camera kept of a form stays known. *)
LEMMA StepRefused ==
  ASSUME TypeOK, NEW k \in Calls, Step(k)
  PROVE  \A m \in Calls : refused[m] \subseteq refused'[m]
  <1>1. CASE Post(k) \/ PostFails(k)
    <2>1. \/ \E kept : Reaches(k, kept)
          \/ refused' = refused
      BY <1>1 DEF Post, PostFails
    <2>2. ASSUME NEW kept, Reaches(k, kept)
          PROVE  \A m \in Calls : refused[m] \subseteq refused'[m]
      <3>1. refused' = [refused EXCEPT ![k] = refused[k] \cup kept]
        BY <2>2 DEF Reaches
      <3>2. refused \in [Calls -> SUBSET Refusable]
        BY DEF TypeOK
      <3> QED
        BY <3>1, <3>2
    <2> QED
      BY <2>1, <2>2
  <1>2. CASE ~ Post(k) /\ ~ PostFails(k)
    BY <1>2 DEF Step, NotAttempted, NoSuchCamera, StartSettings, StartFlash, Turn, Config, ConfigFails,
                PostBad, Upload, UploadFails
  <1> QED
    BY <1>1, <1>2

(* What another call knows of its camera is still so, or noted. *)
LEMMA OthersSeen ==
  ASSUME TypeOK, Placed, NEW k \in Calls, Step(k), NEW m \in Calls \ {k}, Names(m), Target(m) \in Cameras
  PROVE  /\ changed[m] \subseteq changed'[m] /\ refused[m] \subseteq refused'[m] /\ read'[m] = read[m]
         /\ \A f \in Fields : config'[Target(m)][f] = config[Target(m)][f] \/ f \in changed'[m]
  <1>1. CASE Config(k)
    BY <1>1 DEF Config, TypeOK
  <1>2. CASE ~ Config(k)
    BY <1>2, StepSeen, StepRefused
  <1> QED
    BY <1>1, <1>2

(* What a call that is to post has read still stands, but for what is noted   *)
(* and what it posted itself.                                               *)
Current ==
  \A k \in Calls : call[k] \in {"image", "recording"} =>
    \A f \in (IF call[k] = "image" THEN Fields ELSE RecordingForm) :
      f \in changed[k] \/ read[k][f] = config[Target(k)][f]

LEMMA StepCurrent ==
  ASSUME TypeOK, Placed, Current, NEW k \in Calls, Step(k)
  PROVE  Current'
  <1>1. \A m \in Calls : Target(m)' = Target(m) /\ (m # k => call'[m] = call[m])
    BY StepShape DEF Target
  <1>2. ASSUME NEW m \in Calls \ {k}, call'[m] \in {"image", "recording"},
               NEW f \in (IF call'[m] = "image" THEN Fields ELSE RecordingForm)
        PROVE  f \in changed'[m] \/ read'[m][f] = config'[Target(m)][f]
    <2>1. call[m] = call'[m] /\ Names(m) /\ Target(m) \in Cameras /\ f \in Fields
      BY <1>1, <1>2 DEF Placed, Fields
    <2>2. f \in changed[m] \/ read[m][f] = config[Target(m)][f]
      BY <1>2, <2>1 DEF Current
    <2> QED
      BY <2>1, <2>2, OthersSeen
  <1>3. ASSUME call'[k] \in {"image", "recording"},
               NEW f \in (IF call'[k] = "image" THEN Fields ELSE RecordingForm)
        PROVE  f \in changed'[k] \/ read'[k][f] = config'[Target(k)][f]
    <2>1. CASE Config(k)
      BY <2>1 DEF Config, TypeOK
    <2>2. CASE Post(k)
      <3>1. call[k] = "image" /\ call'[k] = "recording"
        <4>1. call[k] \in {"image", "recording"} /\ Then(k, call[k])
          BY <2>2 DEF Post, Posting
        <4>2. Ends(k, "ok") \/ (Goes(k, "recording") /\ call[k] = "image")
          BY <4>1 DEF Then
        <4> QED
          BY <1>3, <4>2, EndsShape, GoesShape
      <3>2. f \in Fields \ FormOf(k) /\ f \in Fields
        BY <1>3, <3>1 DEF FormOf, Fields
      <3>3. f \in changed[k] \/ read[k][f] = config[Target(k)][f]
        BY <3>1, <3>2 DEF Current
      <3>4. Target(k) \in Cameras /\ ~ IsBad(k)
        BY <3>1, <2>2 DEF Placed, Post, Posting
      <3>5. \A kept : Posted(k, config[Target(k)], kept)[f] = config[Target(k)][f]
        BY <3>2 DEF Posted
      <3>6. config'[Target(k)][f] = config[Target(k)][f] /\ read' = read /\ changed'[k] = changed[k]
        BY <2>2, <3>1, <3>5, StepSeen DEF Config
      <3> QED
        BY <3>3, <3>6
    <2>3. CASE ~ Config(k) /\ ~ Post(k)
      <3>1. call'[k] \in {"read", "upload", "over"}
        BY <2>3 DEF Step, NotAttempted, NoSuchCamera, StartSettings, StartFlash, ConfigFails, PostBad,
                    PostFails, Upload, UploadFails, Fails, Ends, Goes, TypeOK
      <3> QED
        BY <1>3, <3>1
    <2> QED
      BY <2>1, <2>2, <2>3
  <1> QED
    BY <1>1, <1>2, <1>3 DEF Current

LEMMA NextCurrent == TypeOK /\ Placed /\ Current /\ [Next]_vars => Current'
  <1> SUFFICES ASSUME TypeOK, Placed, Current, [Next]_vars PROVE Current'
    OBVIOUS
  <1>1. CASE UNCHANGED vars
    BY <1>1 DEF Current, vars, calls, Target
  <1>2. ASSUME NEW k \in Calls, Step(k) PROVE Current'
    BY <1>2, StepCurrent
  <1>3. CASE (\E o \in Ops : Cancel(o)) \/ \E c \in Cameras : Delete(c) \/ \E f \in Fields : Edit(c, f)
    <2> SUFFICES ASSUME NEW m \in Calls, call'[m] \in {"image", "recording"},
                        NEW f \in (IF call'[m] = "image" THEN Fields ELSE RecordingForm)
                 PROVE  f \in changed'[m] \/ read'[m][f] = config'[Target(m)'][f]
      BY DEF Current, Target
    <2>1. UNCHANGED <<request, calls>> /\ changed[m] \subseteq changed'[m] /\ Target(m)' = Target(m)
      BY <1>3, WorldShape DEF Target
    <2>2. f \in Fields /\ Names(m) /\ Target(m) \in Cameras
      BY <2>1 DEF Fields, Placed, calls
    <2>3. f \in changed[m] \/ read[m][f] = config[Target(m)][f]
      BY <2>1 DEF Current, calls
    <2>4. config'[Target(m)][f] = config[Target(m)][f] \/ f \in changed'[m]
      BY <1>3, <2>2, WorldShape
    <2> QED
      BY <2>1, <2>3, <2>4 DEF calls
  <1> QED
    BY <1>1, <1>2, <1>3 DEF Next

(* A setting changes by a form only if the form was to change it, or somebody *)
(* did after the read.                                                      *)
LEMMA StepKept ==
  ASSUME TypeOK, Placed, Current, NEW k \in Calls, Step(k), Fields \subseteq Known,
         NEW c \in Cameras, NEW f \in Fields, config'[c][f] # config[c][f]
  PROVE  /\ call[k] \in {"image", "recording"} /\ call'[k] # call[k]
         /\ Target(k) = c /\ f \in DOMAIN PatchOf(k) \cup changed[k]
  <1>1. ~ Config(k)
    BY DEF Config
  <1>2. /\ Post(k) \/ PostFails(k)
        /\ ~ IsBad(k) /\ Target(k) = c
        /\ \E kept \in Kept(k) : config'[c] = Posted(k, config[c], kept)
    BY <1>1, StepSeen
  <1>0. PICK kept \in Kept(k) : config'[c] = Posted(k, config[c], kept)
    BY <1>2
  <1>3. call[k] \in {"image", "recording"}
    BY <1>2 DEF Post, PostFails, Posting
  <1>4. call'[k] # call[k]
    <2>1. CASE Post(k)
      BY <1>3, <2>1, ThenShape DEF Post
    <2>2. CASE PostFails(k)
      BY <1>3, <2>2, EndsShape DEF PostFails, Fails
    <2> QED
      BY <1>2, <2>1, <2>2
  <1>5. f \in FormOf(k) /\ f \notin kept
    BY <1>0 DEF Posted
  <1>6. f \in changed[k] \/ read[k][f] = config[c][f]
    BY <1>2, <1>3, <1>5 DEF Current, FormOf
  <1>7. f \notin DOMAIN PatchOf(k) => Posted(k, config[c], kept)[f] = read[k][f]
    <2>1. config[c] \in [Fields -> Values]
      BY DEF TypeOK
    <2> QED
      BY <1>2, <1>5, <2>1, PostedShape
  <1> QED
    BY <1>0, <1>2, <1>3, <1>4, <1>6, <1>7

(* As long as the firmware has no field that imageFields and recordingFields  *)
(* do not list, a setting no request names stays as it is, unless it changed   *)
(* between the read and the post.                                           *)
THEOREM SettingsKept == ASSUME Fields \subseteq Known PROVE Spec => KeptUnlessRaced
  <1> DEFINE Keeps ==
        \A c \in Cameras : \A f \in Fields : config'[c][f] # config[c][f] /\ edits' = edits =>
          \E k \in Calls : /\ call[k] \in {"image", "recording"} /\ call'[k] # call[k]
                           /\ Target(k) = c /\ f \in DOMAIN PatchOf(k) \cup changed[k]
  <1>1. Init => Current
    BY DEF Init, Current
  <1>2. TypeOK /\ Placed /\ Current /\ [Next]_vars => [Keeps]_vars
    <2> SUFFICES ASSUME TypeOK, Placed, Current, Next PROVE Keeps
      OBVIOUS
    <2>1. ASSUME NEW k \in Calls, Step(k) PROVE Keeps
      BY <2>1, StepKept
    <2>2. CASE (\E o \in Ops : Cancel(o)) \/ \E c \in Cameras : Delete(c) \/ \E f \in Fields : Edit(c, f)
      BY <2>2, WorldShape
    <2> QED
      BY <2>1, <2>2 DEF Next
  <1> QED
    BY <1>1, <1>2, InitType, NextType, NextCurrent, PTL DEF Spec, KeptUnlessRaced
-----------------------------------------------------------------------------
(* A camera that is reported as done has what was asked.                     *)

HasOf(k, form) ==
  \A f \in DOMAIN form : f \in changed[k] \cup refused[k] \/ config[Target(k)][f] = form[f]

Applied ==
  \A k \in Calls :
    /\ call[k] = "recording" => HasOf(k, request[k[1]].image)
    /\ Settings(k[1]) /\ result[k] = "ok" =>
         /\ HasOf(k, request[k[1]].image) /\ HasOf(k, request[k[1]].recording)
         /\ Asks(k) # {} => Target(k) \in Cameras

(* After its form a camera has what the form asked, unless it kept what it     *)
(* had, and what it had of the other.                                       *)
LEMMA PostApplies ==
  ASSUME TypeOK, Placed, NEW k \in Calls, Post(k)
  PROVE  /\ call[k] \in {"image", "recording"} /\ Target(k) \in Cameras /\ changed'[k] = changed[k]
         /\ refused[k] \subseteq refused'[k]
         /\ \A f \in DOMAIN PatchOf(k) : f \in refused'[k] \/ config'[Target(k)][f] = PatchOf(k)[f]
         /\ \A f \in Fields \ FormOf(k) : config'[Target(k)][f] = config[Target(k)][f]
  <1>1. call[k] \in {"image", "recording"} /\ Target(k) \in Cameras /\ ~ IsBad(k)
    BY DEF Post, Posting, Placed
  <1>2. PICK kept \in Kept(k) : Reaches(k, kept)
    BY DEF Post
  <1>3. config[Target(k)] \in [Fields -> Values]
    BY <1>1 DEF TypeOK
  <1>4. /\ Posted(k, config[Target(k)], kept) \in [Fields -> Values]
        /\ \A f \in Fields \ FormOf(k) :
             Posted(k, config[Target(k)], kept)[f] = config[Target(k)][f]
        /\ \A f \in DOMAIN PatchOf(k) \ kept : Posted(k, config[Target(k)], kept)[f] = PatchOf(k)[f]
    BY <1>1, <1>3, PostedShape
  <1>5. /\ config'[Target(k)] = Posted(k, config[Target(k)], kept) /\ changed'[k] = changed[k]
        /\ refused'[k] = refused[k] \cup kept
    BY <1>1, <1>2 DEF Reaches, Changes, TypeOK
  <1> QED
    BY <1>1, <1>4, <1>5

LEMMA StepApplied ==
  ASSUME TypeOK, Placed, Applied, NEW k \in Calls, Step(k)
  PROVE  Applied'
  <1> DEFINE image == request[k[1]].image
             recording == request[k[1]].recording
  <1>0. request' = request /\ call[k] # "over" /\ result[k] = "none"
    BY StepShape DEF Placed
  <1>1. ASSUME NEW m \in Calls \ {k}
        PROVE  /\ call'[m] = "recording" => HasOf(m, request[m[1]].image)'
               /\ Settings(m[1]) /\ result'[m] = "ok" =>
                    /\ HasOf(m, request[m[1]].image)' /\ HasOf(m, request[m[1]].recording)'
                    /\ Asks(m) # {} => Target(m) \in Cameras
    <2>1. call'[m] = call[m] /\ result'[m] = result[m] /\ Target(m)' = Target(m)
      BY <1>0, StepShape DEF Target
    <2>2. DOMAIN request[m[1]].image \subseteq Fields /\ DOMAIN request[m[1]].recording \subseteq Fields
      BY AskedOnce DEF Fields
    <2>3. ASSUME Names(m), Target(m) \in Cameras
          PROVE  /\ HasOf(m, request[m[1]].image) => HasOf(m, request[m[1]].image)'
                 /\ HasOf(m, request[m[1]].recording) => HasOf(m, request[m[1]].recording)'
      <3>1. /\ changed[m] \subseteq changed'[m] /\ refused[m] \subseteq refused'[m]
            /\ \A f \in Fields : config'[Target(m)][f] = config[Target(m)][f] \/ f \in changed'[m]
        BY <2>3, OthersSeen
      <3> QED
        BY <1>0, <2>1, <2>2, <3>1 DEF HasOf
    <2>4. call'[m] = "recording" => HasOf(m, request[m[1]].image)'
      BY <2>1, <2>3 DEF Applied, Placed
    <2>5. ASSUME Settings(m[1]), result'[m] = "ok"
          PROVE  /\ HasOf(m, request[m[1]].image)' /\ HasOf(m, request[m[1]].recording)'
                 /\ Asks(m) # {} => Target(m) \in Cameras
      <3>1. /\ HasOf(m, request[m[1]].image) /\ HasOf(m, request[m[1]].recording)
            /\ Asks(m) # {} => Target(m) \in Cameras
        BY <2>1, <2>5 DEF Applied
      <3>2. CASE Asks(m) = {}
        BY <1>0, <3>2 DEF HasOf, Asks
      <3>3. CASE Asks(m) # {}
        BY <2>1, <2>3, <2>5, <3>1, <3>3 DEF Placed
      <3> QED
        BY <3>1, <3>2, <3>3
    <2> QED
      BY <2>4, <2>5
  <1>2. /\ call'[k] = "recording" => HasOf(k, image)'
        /\ Settings(k[1]) /\ result'[k] = "ok" =>
             /\ HasOf(k, image)' /\ HasOf(k, recording)'
             /\ Asks(k) # {} => Target(k) \in Cameras
    <2>1. CASE Config(k)
      <3>1. Target(k) \in Cameras /\ Then(k, "read")
        BY <2>1 DEF Config, Placed
      <3>2. \/ call'[k] = "image" /\ result'[k] = "none"
            \/ call'[k] = "recording" /\ result'[k] = "none" /\ DOMAIN image = {} /\ DOMAIN recording # {}
            \/ call'[k] = "over" /\ DOMAIN image = {} /\ DOMAIN recording = {}
        BY <1>0, <3>1, ThenShape
      <3> QED
        BY <1>0, <3>1, <3>2 DEF HasOf
    <2>2. CASE Post(k)
      <3>1. /\ call[k] \in {"image", "recording"} /\ Target(k) \in Cameras /\ changed'[k] = changed[k]
            /\ refused[k] \subseteq refused'[k]
            /\ \A f \in DOMAIN PatchOf(k) : f \in refused'[k] \/ config'[Target(k)][f] = PatchOf(k)[f]
            /\ \A f \in Fields \ FormOf(k) : config'[Target(k)][f] = config[Target(k)][f]
        BY <2>2, PostApplies
      <3>2. Then(k, call[k])
        BY <2>2 DEF Post
      <3>3. CASE call[k] = "image"
        <4>1. HasOf(k, image)'
          BY <1>0, <3>1, <3>3 DEF HasOf, PatchOf, Target
        <4>2. \/ call'[k] = "recording" /\ result'[k] = "none" /\ DOMAIN recording # {}
              \/ call'[k] = "over" /\ DOMAIN recording = {}
          BY <1>0, <3>2, <3>3, ThenShape
        <4> QED
          BY <1>0, <3>1, <4>1, <4>2 DEF HasOf
      <3>4. CASE call[k] = "recording"
        <4>1. HasOf(k, recording)'
          BY <1>0, <3>1, <3>4 DEF HasOf, PatchOf, Target
        <4>2. HasOf(k, image)
          BY <3>4 DEF Applied
        <4>3. DOMAIN image \subseteq Fields \ FormOf(k)
          BY <3>4, AskedOnce, FieldsAssumption DEF FormOf, Fields
        <4>4. HasOf(k, image)'
          BY <1>0, <3>1, <4>2, <4>3 DEF HasOf, Target
        <4>5. call'[k] = "over"
          BY <3>2, <3>4, ThenShape
        <4> QED
          BY <3>1, <4>1, <4>4, <4>5
      <3> QED
        BY <3>1, <3>3, <3>4
    <2>3. CASE StartSettings(k)
      <3>1. \/ call'[k] = "read" /\ result'[k] = "none"
            \/ call'[k] = "over" /\ Asks(k) = {}
        BY <1>0, <2>3 DEF StartSettings, Goes, Ends, TypeOK
      <3> QED
        BY <1>0, <3>1 DEF HasOf, Asks
    <2>4. CASE Upload(k)
      <3>1. ~ Settings(k[1])
        BY <2>4 DEF Upload, Placed, Settings, Flashing
      <3>2. call'[k] = "over"
        BY <2>4 DEF Upload, Ends, TypeOK
      <3> QED
        BY <3>1, <3>2
    <2>5. CASE ~ Config(k) /\ ~ Post(k) /\ ~ StartSettings(k) /\ ~ Upload(k)
      <3>1. \/ Goes(k, "upload")
            \/ \E r \in {"error", "no such camera", "not attempted"} : Ends(k, r)
        BY <2>5 DEF Step, NotAttempted, NoSuchCamera, StartFlash, ConfigFails, PostBad, PostFails,
                    UploadFails, Fails
      <3>2. call'[k] \in {"upload", "over"} /\ result'[k] # "ok"
        BY <1>0, <3>1, EndsShape, GoesShape
      <3> QED
        BY <3>2
    <2> QED
      BY <2>1, <2>2, <2>3, <2>4, <2>5
  <1>3. \A m \in Calls : Settings(m[1])' = Settings(m[1]) /\ Asks(m)' = Asks(m) /\ Target(m)' = Target(m)
    BY <1>0 DEF Settings, Asks, Target
  <1> QED
    BY <1>0, <1>1, <1>2, <1>3 DEF Applied

LEMMA NextApplied == TypeOK /\ Placed /\ Applied /\ [Next]_vars => Applied'
  <1> SUFFICES ASSUME TypeOK, Placed, Applied, [Next]_vars PROVE Applied'
    OBVIOUS
  <1>1. CASE UNCHANGED vars
    BY <1>1 DEF Applied, vars, calls, HasOf, Target, Settings, Asks
  <1>2. ASSUME NEW k \in Calls, Step(k) PROVE Applied'
    BY <1>2, StepApplied
  <1>3. CASE (\E o \in Ops : Cancel(o)) \/ \E c \in Cameras : Delete(c) \/ \E f \in Fields : Edit(c, f)
    <2>1. UNCHANGED <<request, calls>>
      BY <1>3, WorldShape
    <2>2. \A m \in Calls : Settings(m[1])' = Settings(m[1]) /\ Asks(m)' = Asks(m) /\ Target(m)' = Target(m)
      BY <2>1 DEF Settings, Asks, Target
    <2>3. ASSUME NEW m \in Calls, Names(m), Target(m) \in Cameras
          PROVE  /\ HasOf(m, request[m[1]].image) => HasOf(m, request[m[1]].image)'
                 /\ HasOf(m, request[m[1]].recording) => HasOf(m, request[m[1]].recording)'
      <3>1. DOMAIN request[m[1]].image \subseteq Fields /\ DOMAIN request[m[1]].recording \subseteq Fields
        BY AskedOnce DEF Fields
      <3>2. /\ changed[m] \subseteq changed'[m]
            /\ \A f \in Fields : config'[Target(m)][f] = config[Target(m)][f] \/ f \in changed'[m]
            /\ refused' = refused
        BY <1>3, <2>3, WorldShape
      <3> QED
        BY <2>1, <2>2, <3>1, <3>2 DEF HasOf
    <2>4. ASSUME NEW m \in Calls, Asks(m) = {}
          PROVE  HasOf(m, request[m[1]].image)' /\ HasOf(m, request[m[1]].recording)'
      BY <2>1, <2>4 DEF HasOf, Asks
    <2>5. \A m \in Calls : /\ call[m] \in {"image", "recording"} => Names(m) /\ Target(m) \in Cameras
                           /\ result[m] = "ok" => Names(m)
      BY DEF Placed
    <2>6. call' = call /\ result' = result
      BY <2>1 DEF calls
    <2>7. ASSUME NEW m \in Calls, call[m] = "recording"
          PROVE  HasOf(m, request[m[1]].image)'
      BY <2>1, <2>3, <2>5, <2>7 DEF Applied
    <2>8. ASSUME NEW m \in Calls, Settings(m[1]), result[m] = "ok"
          PROVE  /\ HasOf(m, request[m[1]].image)' /\ HasOf(m, request[m[1]].recording)'
                 /\ Asks(m) # {} => Target(m) \in Cameras
      BY <2>3, <2>4, <2>5, <2>8 DEF Applied
    <2> QED
      BY <2>2, <2>6, <2>7, <2>8 DEF Applied
  <1> QED
    BY <1>1, <1>2, <1>3 DEF Next

(* A camera that is reported as done has both forms' settings as asked, but   *)
(* for what others changed since.                                           *)
THEOREM DoneIsDone == Spec => []DoneIsApplied
  <1>1. Init => Applied
    <2> SUFFICES ASSUME Init PROVE Applied
      OBVIOUS
    <2>1. \A k \in Calls : call[k] \in {"waiting", "over"} /\ result[k] = "none"
      BY DEF Init
    <2> QED
      BY <2>1 DEF Applied
  <1>2. TypeOK /\ Applied => DoneIsApplied
    <2> SUFFICES ASSUME TypeOK, Applied, NEW k \in Calls, Settings(k[1]), result[k] = "ok",
                        NEW f \in Asks(k)
                 PROVE  f \in changed[k] \cup refused[k] \/ config[Target(k)][f] = Asked(k, f)
      BY DEF DoneIsApplied
    <2>1. HasOf(k, request[k[1]].image) /\ HasOf(k, request[k[1]].recording)
      BY DEF Applied
    <2> QED
      BY <2>1, AskedOnce DEF HasOf, Asks
  <1> QED
    BY <1>1, <1>2, InitType, NextType, NextApplied, PTL DEF Spec
-----------------------------------------------------------------------------
(* What is known of a fleet after a Flash.                                   *)

Ran == \A c \in Cameras : Told(c, "error") = {} =>
         firmware[c] \in IF Told(c, "ok") = {} THEN {"old"} ELSE {k[1] : k \in Told(c, "ok")}

LEMMA StepRan ==
  ASSUME TypeOK, Placed, Ran, NEW k \in Calls, Step(k)
  PROVE  Ran'
  <1>1. /\ request' = request /\ call[k] # "over" /\ result[k] = "none" /\ Names(k)
        /\ \A m \in Calls \ {k} : result'[m] = result[m]
    BY StepShape DEF Placed
  <1>2. \A m \in Calls : /\ Flashing(m[1])' = Flashing(m[1]) /\ Names(m)' = Names(m)
                         /\ Target(m)' = Target(m)
    BY <1>1 DEF Flashing, Names, Target
  <1> SUFFICES ASSUME NEW c \in Cameras, Told(c, "error")' = {}
               PROVE  firmware'[c] \in IF Told(c, "ok")' = {} THEN {"old"}
                                       ELSE {m[1] : m \in Told(c, "ok")'}
    BY DEF Ran
  <1>3. Told(c, "error") = {} /\ Told(c, "ok") \subseteq Told(c, "ok")'
    BY <1>1, <1>2 DEF Told
  <1>4. CASE Upload(k) /\ Target(k) = c
    <2>1. Flashing(k[1]) /\ result'[k] = "ok" /\ firmware'[c] = k[1]
      BY <1>4 DEF Upload, Ends, Placed, TypeOK
    <2>2. k \in Told(c, "ok")'
      BY <1>1, <1>2, <1>4, <2>1 DEF Told
    <2> QED
      BY <2>1, <2>2
  <1>5. CASE UploadFails(k) /\ Target(k) = c
    <2>1. Flashing(k[1]) /\ result'[k] = "error"
      BY <1>5 DEF UploadFails, Fails, Ends, Placed, TypeOK
    <2>2. k \in Told(c, "error")'
      BY <1>1, <1>2, <1>5, <2>1 DEF Told
    <2> QED
      BY <2>2
  <1>6. CASE ~ (Upload(k) /\ Target(k) = c) /\ ~ (UploadFails(k) /\ Target(k) = c)
    <2>1. firmware'[c] = firmware[c]
      BY <1>6 DEF Step, NotAttempted, NoSuchCamera, StartSettings, StartFlash, Turn, Config, ConfigFails,
                  PostBad, Post, PostFails, Upload, UploadFails, TypeOK
    <2>2. Target(k) = c /\ Flashing(k[1]) => result'[k] # "ok"
      <3>1. Flashing(k[1]) => ~ Settings(k[1]) /\ call[k] \notin {"read", "image", "recording"}
        BY DEF Flashing, Settings, Placed
      <3> QED
        BY <1>1, <1>6, <3>1 DEF Step, NotAttempted, NoSuchCamera, StartSettings, StartFlash, Config,
              ConfigFails, PostBad, Post, Posting, PostFails, UploadFails, Fails, Ends, Goes, TypeOK
    <2>3. Told(c, "ok")' = Told(c, "ok")
      BY <1>1, <1>2, <2>2 DEF Told
    <2> QED
      BY <1>3, <2>1, <2>3 DEF Ran
  <1> QED
    BY <1>4, <1>5, <1>6

(* A Flash fails at one camera at most, and a camera at which none failed runs *)
(* the image of one that reports it done, or else what it ran before.         *)
THEOREM FleetStaysKnown == Spec => []FleetKnown
  <1>1. Init => Ran
    <2> SUFFICES ASSUME Init PROVE Ran
      OBVIOUS
    <2>1. (\A k \in Calls : result[k] = "none") /\ \A c \in Cameras : firmware[c] = "old"
      BY DEF Init
    <2> QED
      BY <2>1 DEF Ran, Told
  <1>2. TypeOK /\ Placed /\ Ran /\ [Next]_vars => Ran'
    <2> SUFFICES ASSUME TypeOK, Placed, Ran, [Next]_vars PROVE Ran'
      OBVIOUS
    <2>1. CASE UNCHANGED <<request, calls, firmware>>
      <3>1. /\ result' = result /\ firmware' = firmware
            /\ \A m \in Calls : /\ Flashing(m[1])' = Flashing(m[1]) /\ Names(m)' = Names(m)
                               /\ Target(m)' = Target(m)
        BY <2>1 DEF calls, Flashing, Names, Target
      <3>2. \A c, r : Told(c, r)' = Told(c, r)
        BY <3>1 DEF Told
      <3> QED
        BY <3>1, <3>2 DEF Ran
    <2>2. ASSUME NEW k \in Calls, Step(k) PROVE Ran'
      BY <2>2, StepRan
    <2> QED
      BY <2>1, <2>2, WorldShape DEF Next, vars
  <1>3. TypeOK /\ Placed /\ Blame /\ Ran => FleetKnown
    <2> SUFFICES ASSUME TypeOK, Placed, Blame, Ran, NEW o \in Ops, Flashing(o) PROVE
          Cardinality({k \in Calls : k[1] = o /\ (call[k] = "upload" \/ result[k] = "error")}) <= 1
      BY DEF FleetKnown, Ran
    <2> DEFINE unknown == {k \in Calls : k[1] = o /\ (call[k] = "upload" \/ result[k] = "error")}
    <2>1. ASSUME NEW k \in unknown, NEW m \in unknown PROVE ~ (m[2] < k[2])
      <3> SUFFICES ASSUME m[2] < k[2] PROVE FALSE
        OBVIOUS
      <3>1. m \in Earlier(k) /\ call[k] # "waiting" /\ Names(k) /\ Flashing(k[1])
        BY DEF Earlier, Placed
      <3>2. call[m] = "over"
        BY <3>1 DEF Blame, InOrder
      <3>3. result[m] = "error"
        BY <3>2
      <3> QED
        BY <3>1, <3>3 DEF Blame, FirstFailure
    <2>2. \A k, m \in unknown : k = m
      <3> SUFFICES ASSUME NEW k \in unknown, NEW m \in unknown PROVE k = m
        OBVIOUS
      <3>1. k = <<o, k[2]>> /\ m = <<o, m[2]>> /\ k[2] \in Nat /\ m[2] \in Nat
        BY DEF Calls
      <3>2. k[2] = m[2]
        BY <2>1, <3>1
      <3> QED
        BY <3>1, <3>2
    <2> HIDE DEF unknown
    <2>3. unknown = {} => Cardinality(unknown) <= 1
      <3>1. Cardinality({}) = 0
        BY FS_EmptySet
      <3> QED
        BY <3>1
    <2>4. ASSUME unknown # {} PROVE Cardinality(unknown) <= 1
      <3>1. PICK k \in unknown : TRUE
        BY <2>4
      <3>2. unknown = {k}
        BY <2>2, <3>1
      <3>3. Cardinality({k}) = 1
        BY FS_Singleton
      <3> QED
        BY <3>2, <3>3
    <2>5. Cardinality(unknown) <= 1
      BY <2>3, <2>4
    <2> QED
      BY <2>5 DEF unknown
  <1> QED
    BY <1>1, <1>2, <1>3, InitType, InitBlame, NextType, NextBlame, PTL DEF Spec
=============================================================================
