------------------------------- MODULE Session -------------------------------
(***************************************************************************)
(* The authenticated session of one camera                                  *)
(* (backend/internal/camera/client.go): concurrent calls that share a        *)
(* session, find it dead, and log in again under one lock, against a camera  *)
(* that keeps its sessions in RAM, in a table that evicts the oldest.        *)
(*                                                                         *)
(* A session is the number of the login that made it.  Each action is the    *)
(* code between two acquisitions of Client.mu or one exchange with the       *)
(* camera; what the request asks for is left out.                           *)
(***************************************************************************)
EXTENDS Integers, FiniteSets

CONSTANTS Callers,      \* goroutines that call do: poller, puller, hub, handlers
          Table,        \* sessions the camera keeps
          Nobody,       \* not a caller: who holds Client.mu when nobody does
          MaxSessions,  \* bound: sessions the camera makes, for anyone
          MaxReboots,   \* bound: reboots of the camera
          MaxFaults,    \* bound: exchanges that fail or whose answer is lost
          MaxChanges    \* bound: changes of the camera's password, there and back

ASSUME TableAssumption == Table \in Nat \ {0}
ASSUME NobodyAssumption == Nobody \notin Callers
ASSUME BoundsAssumption == /\ MaxSessions \in Nat /\ MaxReboots \in Nat
                           /\ MaxFaults \in Nat /\ MaxChanges \in Nat

Sessions == 1..MaxSessions
NoSession == 0

VARIABLES
  sid, gen, mu,       \* Client.sid, Client.gen, and who logs in holding Client.mu
  alive, made,        \* the camera's table of sessions, and how many it ever made
  accepts,            \* whether the camera takes the stored credentials, "yes" or "no"
  pc, my, myGen,      \* each call's progress, its sid, its gen or staleGen
  answer,             \* [Callers -> {"none", "ok", "error", "unauthorized"}]
  troubled,           \* calls during which the camera lost a session or an exchange failed
  rejected,           \* calls whose own login the camera rejected
  reboots, faults, changes

clientVars == <<sid, gen, mu>>
cameraVars == <<alive, made, accepts>>
callVars   == <<pc, my, myGen, answer>>
bounds     == <<reboots, faults, changes>>
vars == <<clientVars, cameraVars, callVars, troubled, rejected, bounds>>

TypeOK ==
  /\ sid \in Sessions \cup {NoSession} /\ gen \in 0..MaxSessions
  /\ mu \in Callers \cup {Nobody}
  /\ alive \subseteq Sessions /\ made \in 0..MaxSessions /\ accepts \in {"yes", "no"}
  /\ pc \in [Callers -> {"idle", "first", "again", "needed", "expired",
                         "loginNeeded", "loginExpired", "gen"}]
  /\ my \in [Callers -> Sessions \cup {NoSession}] /\ myGen \in [Callers -> 0..MaxSessions]
  /\ answer \in [Callers -> {"none", "ok", "error", "unauthorized"}]
  /\ troubled \subseteq Callers /\ rejected \subseteq Callers
  /\ reboots \in 0..MaxReboots /\ faults \in 0..MaxFaults /\ changes \in 0..MaxChanges

Init ==
  /\ sid = NoSession /\ gen = 0 /\ mu = Nobody
  /\ alive = {} /\ made = 0 /\ accepts = "yes"
  /\ pc = [c \in Callers |-> "idle"] /\ my = [c \in Callers |-> NoSession]
  /\ myGen = [c \in Callers |-> 0] /\ answer = [c \in Callers |-> "none"]
  /\ troubled = {} /\ rejected = {}
  /\ reboots = 0 /\ faults = 0 /\ changes = 0

-----------------------------------------------------------------------------
(* The camera.                                                              *)

Active == {c \in Callers : pc[c] # "idle"}

(* Whatever leaves the table troubles the calls under way. *)
Trouble(more) == troubled' = troubled \cup more \cup (IF alive \subseteq alive' THEN {} ELSE Active)

(* A new session, which evicts the oldest of a full table. *)
Evicted == {s \in alive : Cardinality(alive) >= Table /\ \A t \in alive : s <= t}
Admit   == /\ made < MaxSessions /\ made' = made + 1
           /\ alive' = (alive \ Evicted) \cup {made + 1}

Reboot ==
  /\ reboots < MaxReboots /\ reboots' = reboots + 1
  /\ alive' = {} /\ Trouble({})
  /\ UNCHANGED <<clientVars, made, accepts, callVars, rejected, faults, changes>>

(* Somebody else signs in: the camera's own page, another service. *)
OtherLogin ==
  /\ Admit /\ Trouble({})
  /\ UNCHANGED <<clientVars, accepts, callVars, rejected, bounds>>

ChangePassword ==
  /\ changes < MaxChanges /\ changes' = changes + 1
  /\ accepts' = IF accepts = "yes" THEN "no" ELSE "yes"
  /\ UNCHANGED <<clientVars, alive, made, callVars, troubled, rejected, reboots, faults>>

-----------------------------------------------------------------------------
(* do, session and relogin.                                                 *)

CallTo(c, to) == pc' = [pc EXCEPT ![c] = to]
Return(c, a)  == CallTo(c, "idle") /\ answer' = [answer EXCEPT ![c] = a]
CameraStays   == UNCHANGED <<cameraVars, reboots, changes>>
NoFault       == UNCHANGED <<faults, troubled>>

(* Beyond MaxSessions the camera answers no login any more. *)
Fault(c) == /\ \/ faults < MaxFaults /\ faults' = faults + 1
               \/ made = MaxSessions /\ UNCHANGED faults
            /\ Trouble({c})

(* session: the session there is, or a login. *)
Begin(c) ==
  /\ pc[c] = "idle" /\ mu = Nobody
  /\ my' = [my EXCEPT ![c] = sid] /\ myGen' = [myGen EXCEPT ![c] = gen]
  /\ CallTo(c, IF sid # NoSession THEN "first" ELSE "needed")
  /\ answer' = [answer EXCEPT ![c] = "none"]
  /\ troubled' = troubled \ {c} /\ rejected' = rejected \ {c}
  /\ CameraStays /\ UNCHANGED <<clientVars, faults>>

(* attempt: the camera knows the session, does not, or cannot be asked. *)
Attempt(c) ==
  /\ pc[c] \in {"first", "again"} /\ CameraStays
  /\ \/ /\ my[c] \in alive /\ Return(c, "ok") /\ NoFault
     \/ /\ my[c] \notin alive /\ NoFault
        /\ IF pc[c] = "first" THEN CallTo(c, "expired") /\ UNCHANGED answer
                              ELSE Return(c, "unauthorized")
     \/ Return(c, "error") /\ Fault(c)
  /\ UNCHANGED <<clientVars, my, myGen, rejected>>

(* What follows relogin: session reads gen again, do tries once more. *)
Afterwards(c) == CallTo(c, IF pc[c] \in {"needed", "loginNeeded"} THEN "gen" ELSE "again")

(* Mutant: any session there is will do. *)
ReloginAny(c) ==
  /\ pc[c] \in {"needed", "expired"} /\ mu = Nobody
  /\ IF sid # NoSession
     THEN my' = [my EXCEPT ![c] = sid] /\ Afterwards(c) /\ UNCHANGED mu
     ELSE /\ mu' = c /\ CallTo(c, IF pc[c] = "needed" THEN "loginNeeded" ELSE "loginExpired")
          /\ UNCHANGED my
  /\ CameraStays /\ NoFault /\ UNCHANGED <<sid, gen, myGen, answer, rejected>>

(* relogin: the newer session of somebody else, or a login of its own,      *)
(* through which it holds mu.                                               *)
Relogin(c) ==
  /\ pc[c] \in {"needed", "expired"} /\ mu = Nobody
  /\ IF gen # myGen[c] /\ sid # NoSession
     THEN my' = [my EXCEPT ![c] = sid] /\ Afterwards(c) /\ UNCHANGED mu
     ELSE /\ mu' = c /\ CallTo(c, IF pc[c] = "needed" THEN "loginNeeded" ELSE "loginExpired")
          /\ UNCHANGED my
  /\ CameraStays /\ NoFault /\ UNCHANGED <<sid, gen, myGen, answer, rejected>>

(* Mutant: a login that cannot be made leaves the lock taken. *)
LoginFailsLocked(c) ==
  /\ pc[c] \in {"loginNeeded", "loginExpired"} /\ mu = c /\ UNCHANGED mu
  /\ sid' = NoSession /\ UNCHANGED gen /\ Return(c, "error")
  /\ (UNCHANGED <<alive, made>> \/ Admit) /\ Fault(c)
  /\ UNCHANGED <<accepts, my, myGen, rejected, reboots, changes>>

(* The exchange failed, before or after the camera made a session. *)
LoginFails(c) ==
  /\ pc[c] \in {"loginNeeded", "loginExpired"} /\ mu = c /\ mu' = Nobody
  /\ sid' = NoSession /\ UNCHANGED gen /\ Return(c, "error")
  /\ (UNCHANGED <<alive, made>> \/ Admit) /\ Fault(c)
  /\ UNCHANGED <<accepts, my, myGen, rejected, reboots, changes>>

(* The form again, without a cookie: the credentials are wrong. *)
LoginRejected(c) ==
  /\ pc[c] \in {"loginNeeded", "loginExpired"} /\ mu = c /\ mu' = Nobody /\ accepts = "no"
  /\ sid' = NoSession /\ UNCHANGED gen /\ Return(c, "unauthorized")
  /\ rejected' = rejected \cup {c}
  /\ CameraStays /\ NoFault /\ UNCHANGED <<my, myGen>>

LoginDone(c) ==
  /\ pc[c] \in {"loginNeeded", "loginExpired"} /\ mu = c /\ mu' = Nobody /\ accepts = "yes"
  /\ Admit /\ Trouble({})
  /\ sid' = made' /\ gen' = gen + 1 /\ my' = [my EXCEPT ![c] = made'] /\ Afterwards(c)
  /\ UNCHANGED <<accepts, myGen, answer, rejected, bounds>>

(* Mutant: session hands back the gen it read before the login. *)
ReadGenBefore(c) ==
  /\ pc[c] = "gen" /\ mu = Nobody
  /\ UNCHANGED myGen /\ CallTo(c, "first")
  /\ CameraStays /\ NoFault /\ UNCHANGED <<clientVars, my, answer, rejected>>

(* session takes mu once more for the gen of the session it returns. *)
ReadGen(c) ==
  /\ pc[c] = "gen" /\ mu = Nobody
  /\ myGen' = [myGen EXCEPT ![c] = gen] /\ CallTo(c, "first")
  /\ CameraStays /\ NoFault /\ UNCHANGED <<clientVars, my, answer, rejected>>

Call(c) == \/ Attempt(c) \/ Relogin(c) \/ ReadGen(c)
           \/ LoginFails(c) \/ LoginRejected(c) \/ LoginDone(c)

Next == \/ Reboot \/ OtherLogin \/ ChangePassword
        \/ \E c \in Callers : Begin(c) \/ Call(c)

Spec == Init /\ [][Next]_vars

(* Every exchange has a timeout, so a call goes on; sync.Mutex hands itself *)
(* to whoever has waited long.                                              *)
Fairness == \A c \in Callers : SF_vars(Call(c))

FairSpec == Spec /\ Fairness

-----------------------------------------------------------------------------
(* The session a call found dead is never what relogin hands it back: when  *)
(* the numbers differ, the session is another one, however the logins of    *)
(* other calls fall between its two looks at gen (session, relogin).        *)
NeverTheDeadOne ==
  [][\A c \in Callers : pc[c] = "expired" /\ pc'[c] = "again" => my'[c] # my[c]]_vars

(* A call is turned down only when the camera did lose a session while it   *)
(* was under way, or an exchange of its own failed or was rejected: a       *)
(* session lost before is always made good (do).                            *)
QuietCallsSucceed ==
  \A c \in Callers : answer[c] \in {"error", "unauthorized"} => c \in troubled \cup rejected

(* No failed login leaves a call waiting (relogin): every call returns.     *)
CallsReturn == \A c \in Callers : pc[c] # "idle" ~> pc[c] = "idle"

(* "ErrUnauthorized means the camera rejected our credentials, as opposed   *)
(* to merely having forgotten the session" (client.go).                     *)
UnauthorizedIsRejected == \A c \in Callers : answer[c] = "unauthorized" => c \in rejected

(* "Concurrent callers who all saw the same dead session trigger exactly    *)
(* one re-login between them" (Client.gen): nobody logs in again while the  *)
(* client has another session than the one it found dead.                   *)
OneRelogin ==
  [][\A c \in Callers : pc[c] = "expired" /\ pc'[c] = "loginExpired" => sid \in {NoSession, my[c]}]_vars
=============================================================================
