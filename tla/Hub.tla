-------------------------------- MODULE Hub --------------------------------
(***************************************************************************)
(* The stream fan-out (backend/internal/camera/stream.go): viewers that     *)
(* come and go, the pumps they start, and the camera they read from.        *)
(*                                                                         *)
(* A pump is a number in the order of starting; each holds the channel the  *)
(* next one waits on, closed when the pump is "dead".  Each action is the   *)
(* code between two acquisitions of Hub.mu, channel operations or network   *)
(* events.  A frame is only there or not: broadcast replaces what a slow    *)
(* viewer has not read.                                                     *)
(***************************************************************************)
EXTENDS Integers, FiniteSets

CONSTANTS Viewers,    \* goroutines that Subscribe: pages, snapshots, the stand-in
          MaxPumps,   \* bound: pumps started
          MaxErrors,  \* bound: dials that fail and streams that break
          MaxUnauth,  \* bound: dials the camera refuses the credentials of
          MaxCloses   \* bound: calls of Close

ASSUME BoundsAssumption == /\ MaxPumps \in Nat /\ MaxErrors \in Nat
                           /\ MaxUnauth \in Nat /\ MaxCloses \in Nat

Pumps == 1..MaxPumps
NoPump == 0

VARIABLES
  subs,       \* Hub.subs
  running,    \* Hub.running, "yes" or "no"
  cancel,     \* the pump Hub.cancel stops, or NoPump
  current,    \* the pump Hub.pumpDone belongs to, or NoPump
  view,       \* [Viewers -> {"away", "watching"}]: between Subscribe and its cancel
  chan,       \* [Viewers -> {"empty", "frame", "closed"}]: the subscriber's channel
  served,     \* viewers that were given a frame since they subscribed
  pc, stopped,   \* each pump's progress, and those whose context is cancelled
  errors, unauths, closes

hub      == <<subs, running, cancel, current>>
viewVars == <<view, chan, served>>
pumpVars == <<pc, stopped>>
bounds   == <<errors, unauths, closes>>
vars == <<hub, viewVars, pumpVars, bounds>>

TypeOK ==
  /\ subs \subseteq Viewers /\ running \in {"yes", "no"}
  /\ cancel \in Pumps \cup {NoPump} /\ current \in Pumps \cup {NoPump}
  /\ view \in [Viewers -> {"away", "watching"}]
  /\ chan \in [Viewers -> {"empty", "frame", "closed"}] /\ served \subseteq Viewers
  /\ pc \in [Pumps -> {"new", "wait", "dial", "open", "retry", "drop", "stand", "close", "dead"}]
  /\ stopped \subseteq Pumps
  /\ errors \in 0..MaxErrors /\ unauths \in 0..MaxUnauth /\ closes \in 0..MaxCloses

Init ==
  /\ subs = {} /\ running = "no" /\ cancel = NoPump /\ current = NoPump
  /\ view = [v \in Viewers |-> "away"] /\ chan = [v \in Viewers |-> "empty"] /\ served = {}
  /\ pc = [p \in Pumps |-> "new"] /\ stopped = {}
  /\ errors = 0 /\ unauths = 0 /\ closes = 0

-----------------------------------------------------------------------------
(* Viewers.                                                                 *)

(* The next pump waits for the one current now; the first has none to wait  *)
(* for.                                                                     *)
Start == LET p == current + 1
         IN  /\ p \in Pumps
             /\ current' = p /\ cancel' = p /\ running' = "yes"
             /\ pc' = [pc EXCEPT ![p] = IF current = NoPump THEN "dial" ELSE "wait"]

Subscribe(v) ==
  /\ view[v] = "away"
  /\ view' = [view EXCEPT ![v] = "watching"] /\ chan' = [chan EXCEPT ![v] = "empty"]
  /\ served' = served \ {v} /\ subs' = subs \cup {v}
  /\ IF running = "yes" THEN UNCHANGED <<running, cancel, current, pc>> ELSE Start
  /\ UNCHANGED <<stopped, bounds>>

(* Mutants: the last one out does not cancel the pump; or leaves it marked  *)
(* as running.                                                              *)
RemoveNoCancel(v) ==
  /\ view[v] = "watching"
  /\ view' = [view EXCEPT ![v] = "away"] /\ chan' = [chan EXCEPT ![v] = "closed"]
  /\ subs' = subs \ {v}
  /\ IF v \in subs /\ subs' = {} THEN running' = "no" ELSE UNCHANGED running
  /\ UNCHANGED <<current, cancel, stopped, served, pc, bounds>>
RemoveStillRunning(v) ==
  /\ view[v] = "watching"
  /\ view' = [view EXCEPT ![v] = "away"] /\ chan' = [chan EXCEPT ![v] = "closed"]
  /\ subs' = subs \ {v}
  /\ IF v \in subs /\ subs' = {} /\ cancel # NoPump
     THEN stopped' = stopped \cup {cancel} /\ cancel' = NoPump
     ELSE UNCHANGED <<stopped, cancel>>
  /\ UNCHANGED <<current, running, served, pc, bounds>>

(* The deferred cancel of a subscription; the last one out stops the pump.  *)
Remove(v) ==
  /\ view[v] = "watching"
  /\ view' = [view EXCEPT ![v] = "away"] /\ chan' = [chan EXCEPT ![v] = "closed"]
  /\ subs' = subs \ {v}
  /\ IF v \in subs /\ subs' = {} /\ cancel # NoPump
     THEN stopped' = stopped \cup {cancel} /\ cancel' = NoPump /\ running' = "no"
     ELSE UNCHANGED <<stopped, cancel, running>>
  /\ UNCHANGED <<current, served, pc, bounds>>

Receive(v) ==
  /\ view[v] = "watching" /\ chan[v] = "frame"
  /\ chan' = [chan EXCEPT ![v] = "empty"] /\ served' = served \cup {v}
  /\ UNCHANGED <<hub, view, pumpVars, bounds>>

(* Mutant: the table still holds who was told. *)
EndAllKeepsSubs == /\ chan' = [v \in Viewers |-> IF v \in subs THEN "closed" ELSE chan[v]]
                   /\ UNCHANGED subs

(* close(s.ch) for every subscriber, and none left: dropAll and Close. *)
EndAll == /\ chan' = [v \in Viewers |-> IF v \in subs THEN "closed" ELSE chan[v]]
          /\ subs' = {}

Close ==
  /\ closes < MaxCloses /\ closes' = closes + 1
  /\ stopped' = stopped \cup ({cancel} \ {NoPump})
  /\ cancel' = NoPump /\ running' = "no" /\ EndAll
  /\ UNCHANGED <<current, view, served, pc, errors, unauths>>

-----------------------------------------------------------------------------
(* pump and readOnce.                                                       *)

PumpAt(p, from) == pc[p] = from /\ UNCHANGED <<view, served, cancel, current, stopped, closes>>
PumpTo(p, to)   == pc' = [pc EXCEPT ![p] = to]
Quiet           == UNCHANGED <<subs, running, chan>>
NoError         == UNCHANGED <<errors, unauths>>

(* The previous pump's done, or this one's context. *)
PumpWait(p) ==
  /\ PumpAt(p, "wait") /\ Quiet /\ NoError
  /\ \/ pc[p - 1] = "dead" /\ p \notin stopped /\ PumpTo(p, "dial")
     \/ p \in stopped /\ PumpTo(p, "stand")

Breaks == errors < MaxErrors /\ errors' = errors + 1 /\ UNCHANGED unauths

(* OpenStream: a stream, an error to retry after, or ErrUnauthorized. *)
PumpDial(p) ==
  /\ PumpAt(p, "dial") /\ Quiet
  /\ \/ NoError /\ PumpTo(p, "open")
     \/ Breaks /\ p \notin stopped /\ PumpTo(p, "retry")
     \/ /\ unauths < MaxUnauth /\ unauths' = unauths + 1 /\ UNCHANGED errors
        /\ p \notin stopped /\ PumpTo(p, "drop")
     \/ NoError /\ p \in stopped /\ PumpTo(p, "stand")

Broadcast(p) ==
  /\ PumpAt(p, "open") /\ NoError
  /\ chan' = [v \in Viewers |-> IF v \in subs THEN "frame" ELSE chan[v]]
  /\ UNCHANGED <<subs, running, pc>>

(* Mutant: the stream is not opened with the pump's context. *)
PumpEndOnError(p) == PumpAt(p, "open") /\ Quiet /\ Breaks /\ PumpTo(p, "retry")

(* readOnce returns, and its deferred Close lets the socket go. *)
PumpEnd(p) ==
  /\ PumpAt(p, "open") /\ Quiet
  /\ \/ NoError /\ p \in stopped /\ PumpTo(p, "stand")
     \/ Breaks /\ p \notin stopped /\ PumpTo(p, "retry")

PumpRetry(p) ==
  /\ PumpAt(p, "retry") /\ Quiet /\ NoError
  /\ PumpTo(p, IF p \in stopped THEN "stand" ELSE "dial")

PumpDrop(p) ==
  /\ PumpAt(p, "drop") /\ NoError
  /\ EndAll /\ PumpTo(p, "stand") /\ UNCHANGED running

(* Only the live pump says that nothing runs any more. *)
PumpStand(p) ==
  /\ PumpAt(p, "stand") /\ NoError
  /\ running' = IF current = p THEN "no" ELSE running
  /\ PumpTo(p, "close") /\ UNCHANGED <<subs, chan>>

PumpClose(p) ==
  /\ PumpAt(p, "close") /\ Quiet /\ NoError /\ PumpTo(p, "dead")

RunOn(p) == \/ PumpWait(p) \/ PumpDial(p) \/ PumpEnd(p) \/ PumpRetry(p)
            \/ PumpDrop(p) \/ PumpStand(p) \/ PumpClose(p)
Pump(p)  == RunOn(p) \/ Broadcast(p)

Next == \/ \E v \in Viewers : Subscribe(v) \/ Remove(v) \/ Receive(v)
        \/ Close
        \/ \E p \in Pumps : Pump(p)

Spec == Init /\ [][Next]_vars

(* A pump runs, and ends when its context is cancelled; a camera that is    *)
(* reached sends frames; a viewer reads.  No error is ever bound to come.   *)
Fairness == /\ \A p \in Pumps : WF_vars(RunOn(p) /\ UNCHANGED errors) /\ WF_vars(Broadcast(p))
            /\ \A v \in Viewers : WF_vars(Receive(v))

FairSpec == Spec /\ Fairness

-----------------------------------------------------------------------------
(* A pump that will go on taking frames off the camera. *)
Live(p) == pc[p] \in {"wait", "dial", "open", "retry"} /\ p \notin stopped

(* However viewers come and go while pumps wait, dial, retry and stand      *)
(* down, at most one pump is meant to run (Subscribe, remove, pump).        *)
OneLivePump == \A p, q \in Pumps : Live(p) /\ Live(q) => p = q

(* A viewer that is attached has the current pump running for it, unless    *)
(* the camera refused the credentials: no pump that stands down late takes  *)
(* that away from the one that replaced it (pump's deferred check).         *)
WatchedIsPumped == subs # {} /\ unauths = 0 => running = "yes" /\ Live(current)

(* Nothing is sent on a closed channel, nor closed twice: who is in subs    *)
(* has an open one.                                                         *)
OpenChannels == \A v \in subs : view[v] = "watching" /\ chan[v] # "closed"

(* Who stays gets a frame, or is told that the stream has ended, while the  *)
(* camera accepts the credentials (Subscribe, pump).                        *)
ServedUnlessRefused ==
  \A v \in Viewers : view[v] = "watching"
                       ~> (v \in served \/ chan[v] = "closed" \/ view[v] = "away" \/ unauths # 0)

(* "Starting the upstream connection if this is the first viewer"           *)
(* (Subscribe), and the end of the stream for who cannot be served (pump).  *)
ViewerServed ==
  \A v \in Viewers : view[v] = "watching" ~> (v \in served \/ chan[v] = "closed" \/ view[v] = "away")

(* A pump nobody needs lets the camera go, and so does what waits for it.   *)
PumpsEnd == \A p \in Pumps : p \in stopped ~> pc[p] = "dead"

(* "The replacement must not dial the camera until the old socket is gone"  *)
(* (Hub.pumpDone).                                                          *)
Upstream(p) == pc[p] \in {"dial", "open"}
OneUpstream == \A p, q \in Pumps : Upstream(p) /\ Upstream(q) => p = q

(* "Dropping the last subscriber closes the upstream connection"            *)
(* (Subscribe): with nobody attached no pump is meant to run.               *)
NotUnwatched == subs = {} => \A p \in Pumps : ~Live(p)
=============================================================================
