--------------------------------- MODULE Bulk ---------------------------------
(***************************************************************************)
(* What the service does to several cameras in one request: ApplySettings    *)
(* and Flash (backend/internal/manager/bulk.go) with the calls they make of   *)
(* the camera (camera/settings.go, camera/firmware.go) and the handlers that  *)
(* start them (httpapi/api.go).                                             *)
(*                                                                         *)
(* A value is 0 or 1, or Bad: one that is no number, nor on or off.  A       *)
(* checkbox is off at 0.  A day of the schedule is a checkbox: a field schday *)
(* that is in the form or is not.                                           *)
(***************************************************************************)
EXTENDS Integers, Sequences, FiniteSets

CONSTANTS Ops,            \* requests to /api/settings and /api/firmware
          Cameras, Ids,   \* cameras the manager has, and ids a request may give
          Starts,         \* how the cameras may be set at first
          Refusable,      \* fields a camera that answers may leave as they were: controls its
                          \* sensor refuses, or that it ignores
          Requests,       \* what the requests at one time may ask
          MaxIds,         \* bound: ids in one request
          ImageForm, RecordingForm,  \* the fields of the camera's two forms
          Known,          \* those of them that imageFields and recordingFields list
          Checkboxes,     \* those that read as off when they are left out
          Bad,            \* a value that fits no field, in a request or in /config
          MaxFaults,      \* bound: failing exchanges and operators who leave
          MaxEdits        \* bound: changes made on a camera's own page

Fields == ImageForm \cup RecordingForm
Values == {0, 1, Bad}
Patch(form) == UNION {[S -> Values] : S \in SUBSET form}

ASSUME FieldsAssumption == /\ ImageForm \cap RecordingForm = {} /\ Checkboxes \subseteq Fields
                           /\ Known \subseteq Fields /\ Refusable \subseteq Fields
                           /\ Cameras \subseteq Ids /\ Starts \subseteq [Cameras -> [Fields -> Values]]
                           /\ Bad \notin {0, 1} /\ Ops \cap {"old", "cut"} = {}
ASSUME RequestsAssumption ==
  \A asks \in Requests : DOMAIN asks = Ops /\ \A o \in Ops : LET r == asks[o] IN
    /\ r.kind \in {"settings", "flash"} /\ r.ids \in Seq(Ids) /\ Len(r.ids) <= MaxIds
    /\ r.image \in Patch(ImageForm) /\ r.recording \in Patch(RecordingForm)
ASSUME BulkBoundsAssumption == MaxIds \in Nat /\ MaxFaults \in Nat /\ MaxEdits \in Nat

VARIABLES
  request,                \* what each request asks
  present,                \* the devices the manager has
  config, firmware,       \* of each camera: its settings, and whose image it runs
  call, read, result,     \* of each id of each request: where its call is, the /config it read, its Result
  changed,                \* the settings of its camera that others changed since the read
  refused,                \* those the camera left as they were, though it answered
  cancelled, hurt,        \* operators who left, and calls that failed for no fault of theirs
  faults, edits

calls == <<call, read, result>>
vars == <<request, present, config, firmware, calls, changed, refused, cancelled, hurt, faults, edits>>

Calls == Ops \X (1..MaxIds)
Settings(o) == request[o].kind = "settings"
Flashing(o) == request[o].kind = "flash"
Names(k) == k[2] \in DOMAIN request[k[1]].ids
Target(k) == request[k[1]].ids[k[2]]
Asks(k) == DOMAIN request[k[1]].image \cup DOMAIN request[k[1]].recording
Asked(k, f) == LET asks == request[k[1]] IN
               IF f \in DOMAIN asks.image THEN asks.image[f] ELSE asks.recording[f]

TypeOK ==
  /\ request \in Requests /\ present \subseteq Cameras
  /\ config \in [Cameras -> [Fields -> Values]]
  /\ firmware \in [Cameras -> Ops \cup {"old", "cut"}]
  /\ call \in [Calls -> {"waiting", "read", "image", "recording", "upload", "over"}]
  /\ read \in [Calls -> [Fields -> Values]]
  /\ result \in [Calls -> {"none", "ok", "error", "no such camera", "not attempted"}]
  /\ changed \in [Calls -> SUBSET Fields] /\ refused \in [Calls -> SUBSET Refusable]
  /\ cancelled \subseteq Ops /\ hurt \subseteq Calls
  /\ faults \in 0..MaxFaults /\ edits \in 0..MaxEdits

Init ==
  /\ request \in Requests /\ present = Cameras
  /\ config \in Starts
  /\ firmware = [c \in Cameras |-> "old"]
  /\ call = [k \in Calls |-> IF Names(k) THEN "waiting" ELSE "over"]
  /\ read = [k \in Calls |-> [f \in Fields |-> 0]] /\ result = [k \in Calls |-> "none"]
  /\ changed = [k \in Calls |-> {}] /\ refused = [k \in Calls |-> {}]
  /\ cancelled = {} /\ hurt = {} /\ faults = 0 /\ edits = 0

Ends(k, r) == call' = [call EXCEPT ![k] = "over"] /\ result' = [result EXCEPT ![k] = r]
Goes(k, step) == call' = [call EXCEPT ![k] = step] /\ UNCHANGED result

-----------------------------------------------------------------------------
(* The loops over the ids.  ApplySettings starts a goroutine for each and    *)
(* goes on, Flash waits for each.                                           *)

Turn(k) ==
  /\ call[k] = "waiting"
  /\ \A i \in 1..(k[2] - 1) : IF Flashing(k[1]) THEN call[<<k[1], i>>] = "over"
                              ELSE call[<<k[1], i>>] # "waiting"
  /\ UNCHANGED <<request, present, config, firmware, read, changed, refused, cancelled, hurt, faults,
                 edits>>

(* Mutant: the run goes on after a failure. *)
StoppedNever(o) == FALSE

Stopped(o) == \E i \in 1..MaxIds : result[<<o, i>>] = "error"

NotAttempted(k) ==
  Turn(k) /\ Flashing(k[1]) /\ Stopped(k[1]) /\ Ends(k, "not attempted")

NoSuchCamera(k) ==
  /\ Turn(k) /\ Target(k) \notin present /\ ~ (Flashing(k[1]) /\ Stopped(k[1]))
  /\ Ends(k, "no such camera")

StartSettings(k) ==
  /\ Turn(k) /\ Target(k) \in present /\ Settings(k[1])
  /\ IF Asks(k) = {} THEN Ends(k, "ok") ELSE Goes(k, "read")

StartFlash(k) ==
  /\ Turn(k) /\ Target(k) \in present /\ Flashing(k[1]) /\ ~ Stopped(k[1])
  /\ Goes(k, "upload")

(* An exchange fails, or its context ends: the timeout of the call, or the   *)
(* request's when the operator leaves.                                      *)
Hurt(k) == /\ hurt' = hurt \cup {k}
           /\ IF k[1] \in cancelled THEN UNCHANGED faults
              ELSE faults < MaxFaults /\ faults' = faults + 1

(* Mutant: one camera's failure is everybody's. *)
FailsAll(k) ==
  /\ call' = [j \in Calls |-> IF j[1] = k[1] THEN "over" ELSE call[j]]
  /\ result' = [j \in Calls |-> IF j[1] = k[1] /\ result[j] = "none" THEN "error" ELSE result[j]]
Fails(k) == Ends(k, "error")
-----------------------------------------------------------------------------
(* Client.ApplySettings: a read of /config, then a post of each form.        *)

(* Mutant: one form or the other. *)
ThenOneForm(k, step) ==
  IF step = "read" /\ DOMAIN request[k[1]].image # {} THEN Goes(k, "image")
  ELSE IF step = "read" /\ DOMAIN request[k[1]].recording # {} THEN Goes(k, "recording")
  ELSE Ends(k, "ok")

Then(k, step) ==
  LET asks == request[k[1]] IN
  IF step = "read" /\ DOMAIN asks.image # {} THEN Goes(k, "image")
  ELSE IF step # "recording" /\ DOMAIN asks.recording # {} THEN Goes(k, "recording")
  ELSE Ends(k, "ok")

Config(k) ==
  /\ call[k] = "read" /\ k[1] \notin cancelled
  /\ read' = [read EXCEPT ![k] = config[Target(k)]] /\ changed' = [changed EXCEPT ![k] = {}]
  /\ Then(k, "read")
  /\ UNCHANGED <<request, present, config, firmware, refused, cancelled, hurt, faults, edits>>

ConfigFails(k) ==
  /\ call[k] = "read" /\ Hurt(k) /\ Fails(k)
  /\ UNCHANGED <<request, present, config, firmware, read, changed, refused, cancelled, edits>>

PatchOf(k) == IF call[k] = "image" THEN request[k[1]].image ELSE request[k[1]].recording
FormOf(k) == IF call[k] = "image" THEN ImageForm ELSE RecordingForm

(* Mutant: what the patch does not name is left out. *)
BuildPatch(k) ==
  LET form == {f \in DOMAIN PatchOf(k) : f \in Checkboxes => PatchOf(k)[f] = 1}
  IN [f \in form |-> PatchOf(k)[f]]

(* The patch over what was read, of the fields that are known or named. *)
Merged(k) == [f \in (FormOf(k) \cap Known) \cup DOMAIN PatchOf(k) |->
               IF f \in DOMAIN PatchOf(k) THEN PatchOf(k)[f] ELSE read[k][f]]

(* A form with a value that fits no field, asked for or read, is not built.   *)
IsBad(k) == \E f \in DOMAIN Merged(k) : Merged(k)[f] = Bad

(* The form: a checkbox that is off is left out. *)
Build(k) == LET form == {f \in DOMAIN Merged(k) : f \in Checkboxes => Merged(k)[f] = 1}
            IN [f \in form |-> Merged(k)[f]]

(* What the camera makes of a form: it answers, and yet keeps some fields.    *)
Posted(k, old, kept) ==
  [f \in Fields |-> IF f \notin FormOf(k) \/ f \in kept THEN old[f]
                    ELSE IF f \in DOMAIN Build(k) THEN Build(k)[f]
                    ELSE IF f \in Checkboxes THEN 0 ELSE old[f]]

(* The other calls of a camera whose settings change see that they did. *)
Changes(c, new, own) ==
  /\ config' = [config EXCEPT ![c] = new]
  /\ changed' = [k \in Calls |->
       IF Names(k) /\ Target(k) = c /\ k \notin own
       THEN changed[k] \cup {f \in Fields : new[f] # config[c][f]} ELSE changed[k]]

Posting(k) == call[k] \in {"image", "recording"} /\ ~ IsBad(k)
Kept(k) == SUBSET (Refusable \cap FormOf(k))
Reaches(k, kept) == /\ Changes(Target(k), Posted(k, config[Target(k)], kept), {k})
                    /\ refused' = [refused EXCEPT ![k] = @ \cup kept]

PostBad(k) ==
  /\ call[k] \in {"image", "recording"} /\ IsBad(k) /\ Fails(k)
  /\ UNCHANGED <<request, present, config, firmware, read, changed, refused, cancelled, hurt, faults, edits>>

Post(k) ==
  /\ Posting(k) /\ k[1] \notin cancelled /\ Then(k, call[k])
  /\ \E kept \in Kept(k) : Reaches(k, kept)
  /\ UNCHANGED <<request, present, firmware, read, cancelled, hurt, faults, edits>>

(* The form may have reached the camera though its answer did not return. *)
PostFails(k) ==
  /\ Posting(k) /\ Hurt(k) /\ Fails(k)
  /\ (\E kept \in Kept(k) : Reaches(k, kept)) \/ UNCHANGED <<config, changed, refused>>
  /\ UNCHANGED <<request, present, firmware, read, cancelled, edits>>
-----------------------------------------------------------------------------
(* Client.Flash.                                                            *)

Upload(k) ==
  /\ call[k] = "upload" /\ k[1] \notin cancelled /\ Ends(k, "ok")
  /\ firmware' = [firmware EXCEPT ![Target(k)] = k[1]]
  /\ UNCHANGED <<request, present, config, read, changed, refused, cancelled, hurt, faults, edits>>

(* An upload that fails may have got anywhere. *)
UploadFails(k) ==
  /\ call[k] = "upload" /\ Hurt(k) /\ Fails(k)
  /\ \E image \in {firmware[Target(k)], k[1], "cut"} :
       firmware' = [firmware EXCEPT ![Target(k)] = image]
  /\ UNCHANGED <<request, present, config, read, changed, refused, cancelled, edits>>
-----------------------------------------------------------------------------
Returned(o) == \A i \in 1..MaxIds : call[<<o, i>>] = "over"

(* The operator closes the page: the request's context ends. *)
Cancel(o) ==
  /\ o \notin cancelled /\ ~ Returned(o) /\ faults < MaxFaults /\ faults' = faults + 1
  /\ cancelled' = cancelled \cup {o}
  /\ UNCHANGED <<request, present, config, firmware, calls, changed, refused, hurt, edits>>

(* Somebody deletes a camera. *)
Delete(c) ==
  /\ c \in present /\ edits < MaxEdits /\ edits' = edits + 1 /\ present' = present \ {c}
  /\ UNCHANGED <<request, config, firmware, calls, changed, refused, cancelled, hurt, faults>>

(* Somebody changes a setting on the camera's own page. *)
Edit(c, f) ==
  /\ edits < MaxEdits /\ edits' = edits + 1
  /\ \E v \in {0, 1} \ {config[c][f]} : Changes(c, [config[c] EXCEPT ![f] = v], {})
  /\ UNCHANGED <<request, present, firmware, calls, refused, cancelled, hurt, faults>>

Step(k) == \/ NotAttempted(k) \/ NoSuchCamera(k) \/ StartSettings(k) \/ StartFlash(k)
           \/ Config(k) \/ ConfigFails(k) \/ PostBad(k) \/ Post(k) \/ PostFails(k)
           \/ Upload(k) \/ UploadFails(k)

Next == \/ \E k \in Calls : Step(k)
        \/ \E o \in Ops : Cancel(o)
        \/ \E c \in Cameras : Delete(c) \/ \E f \in Fields : Edit(c, f)

(* Every call ends by its answer or by its timeout. *)
Fairness == \A k \in Calls : WF_vars(Step(k))
Spec == Init /\ [][Next]_vars /\ Fairness
-----------------------------------------------------------------------------
(* Properties.                                                              *)

(* A setting that a request does not name is changed by it only if somebody  *)
(* else changed it after the request's read of /config: what is left out of   *)
(* a patch survives the form it is sent in, of both forms, whichever call     *)
(* fails and whatever else goes on at the camera.                           *)
KeptUnlessRaced ==
  [][\A c \in Cameras : \A f \in Fields : config'[c][f] # config[c][f] /\ edits' = edits =>
       \E k \in Calls : /\ call[k] \in {"image", "recording"} /\ call'[k] # call[k]
                        /\ Target(k) = c /\ f \in DOMAIN PatchOf(k) \cup changed[k]]_vars

(* A camera that is reported as done has every setting asked for, of both     *)
(* forms, but for what others changed since and what the camera answered to    *)
(* but kept: the result does not tell of the latter.                         *)
DoneIsApplied ==
  \A k \in Calls : Settings(k[1]) /\ result[k] = "ok" =>
    \A f \in Asks(k) : f \in changed[k] \cup refused[k] \/
      config[Target(k)][f] = Asked(k, f)

(* A value that fits no field: one that was asked for, or one of the camera's  *)
(* own that would have to go into a form beside what was asked for.          *)
Unfit(k) ==
  \/ \E f \in Asks(k) : Asked(k, f) = Bad
  \/ \E form \in {ImageForm, RecordingForm} :
       /\ form \cap Asks(k) # {}
       /\ \E f \in (form \cap Known) \ Asks(k) : read[k][f] = Bad

(* One camera does not decide for the others: a call fails only for a failure *)
(* of its own, an operator who left, or a value that fits no field, and a     *)
(* camera goes unattempted only after one before it in the same Flash failed. *)
OwnFailures ==
  \A k \in Calls :
    /\ result[k] = "error" => k \in hurt \/ Unfit(k)
    /\ result[k] = "not attempted" =>
         Flashing(k[1]) /\ \E i \in 1..(k[2] - 1) : result[<<k[1], i>>] = "error"

Told(c, r) == {k \in Calls : Flashing(k[1]) /\ Names(k) /\ Target(k) = c /\ result[k] = r}

(* The results tell what the fleet runs, whatever other Flashes go on: each   *)
(* Flash fails at one camera at most, and a camera at which none failed runs  *)
(* the image of one that reports it done or, if none does, what it ran        *)
(* before.  In particular the cameras after a failure are untouched.         *)
FleetKnown ==
  /\ \A o \in Ops : Flashing(o) =>
       Cardinality({k \in Calls : k[1] = o /\ (call[k] = "upload" \/ result[k] = "error")}) <= 1
  /\ \A c \in Cameras : Told(c, "error") = {} =>
       firmware[c] \in IF Told(c, "ok") = {} THEN {"old"} ELSE {k[1] : k \in Told(c, "ok")}

(* Every request is answered, with a result for each id. *)
RequestsReturn == <>(\A o \in Ops : Returned(o))

(* README.md:105: applying a change never silently flattens the ones you did *)
(* not touch.  Refuted: another change between the read and the post.        *)
NothingFlattened ==
  [][\A c \in Cameras : \A f \in Fields : config'[c][f] # config[c][f] /\ edits' = edits =>
       \E k \in Calls : /\ call[k] \in {"image", "recording"} /\ call'[k] # call[k]
                        /\ Target(k) = c /\ f \in DOMAIN PatchOf(k)]_vars

(* docs/bulk-api.md:127: cameras are flashed one at a time, never in          *)
(* parallel.  Refuted: by two requests.                                     *)
OneAtATime == Cardinality({k \in Calls : call[k] = "upload"}) <= 1

(* bulk.go:19: an upload is not cut off, it has five minutes.  Refuted: the   *)
(* upload ends with the request of the operator who closes the page.         *)
NeverCutOff == [][\A k \in Calls : UploadFails(k) => k[1] \notin cancelled]_vars

(* bulk.go:74: the cameras after one that failed are reported untouched.      *)
(* Refuted: by a camera that was named twice.                               *)
ReportedUntouched ==
  \A k, m \in Calls : result[k] = "not attempted" /\ m[1] = k[1] /\ result[m] \in {"ok", "error"} =>
    Target(m) # Target(k)

(* DoneIsApplied without its exception for what the camera kept.  Refuted: a   *)
(* camera whose sensor refuses a control is reported done all the same, as    *)
(* settings.go:137 means it to be.                                          *)
DoneIsTaken ==
  \A k \in Calls : Settings(k[1]) /\ result[k] = "ok" =>
    \A f \in Asks(k) : f \in changed[k] \/ config[Target(k)][f] = Asked(k, f)
=============================================================================
