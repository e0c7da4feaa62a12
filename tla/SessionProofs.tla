---------------------------- MODULE SessionProofs ----------------------------
(***************************************************************************)
(* For any number of calls, sessions, reboots, faults and password changes:  *)
(* relogin never hands back the session that was found dead, and no call is  *)
(* turned down unless something went wrong while it was under way.           *)
(***************************************************************************)
EXTENDS Session, TLAPS

InLogin == {"loginNeeded", "loginExpired"}
Holding == {"first", "expired", "loginExpired"}

(* Every session anyone speaks of was made, and gen counts some of them.    *)
Known == /\ gen <= made /\ sid <= made
         /\ \A c \in Callers : my[c] <= made

(* A call that holds the client's session holds its gen too.                *)
GenFits == \A c \in Callers : pc[c] \in Holding /\ my[c] = sid /\ sid # NoSession => myGen[c] = gen

(* A session that came while an untroubled call was under way is alive, and *)
(* so is the one such a call tries again with.                              *)
Fresh == \A c \in Callers : c \notin troubled =>
  /\ pc[c] \in InLogin \cup {"first", "needed", "expired"} /\ gen # myGen[c] /\ sid # NoSession
       => sid \in alive
  /\ pc[c] = "again" => my[c] \in alive

Inductive == TypeOK /\ Known /\ GenFits /\ Fresh /\ QuietCallsSucceed

LEMMA AdmitMakesOne ==
  ASSUME TypeOK, Admit
  PROVE  /\ made' = made + 1 /\ made' \in Sessions /\ made' \in 0..MaxSessions
         /\ alive' \subseteq Sessions /\ made' \in alive'
<1>1. made < MaxSessions /\ made' = made + 1 /\ made \in 0..MaxSessions
  BY DEF TypeOK, Admit
<1>2. made' \in Sessions /\ made' \in 0..MaxSessions
  BY <1>1, BoundsAssumption DEF Sessions
<1>3. alive' \subseteq alive \cup {made'} /\ made' \in alive'
  BY <1>1 DEF Admit
<1> QED BY <1>1, <1>2, <1>3 DEF TypeOK

LEMMA InitInductive == Init => Inductive
BY BoundsAssumption, NobodyAssumption
   DEF Init, Inductive, TypeOK, Known, GenFits, Fresh, QuietCallsSucceed, InLogin, Holding, NoSession, Sessions

LEMMA TypeStep == TypeOK /\ Known /\ [Next]_vars => TypeOK' /\ Known'
<1> SUFFICES ASSUME TypeOK, Known, [Next]_vars PROVE TypeOK' /\ Known'
  OBVIOUS
<1> USE BoundsAssumption, NobodyAssumption DEF TypeOK, Known, Sessions, NoSession
<1>1. CASE Reboot
  BY <1>1 DEF Reboot, Trouble, Active, clientVars, callVars
<1>2. CASE OtherLogin
  BY <1>2, AdmitMakesOne DEF OtherLogin, Trouble, Active, clientVars, callVars, bounds
<1>3. CASE ChangePassword
  BY <1>3 DEF ChangePassword, clientVars, callVars
<1>4. ASSUME NEW c \in Callers, Begin(c) PROVE TypeOK' /\ Known'
  BY <1>4 DEF Begin, CallTo, CameraStays, cameraVars, clientVars
<1>5. ASSUME NEW c \in Callers, Attempt(c) PROVE TypeOK' /\ Known'
  <2> USE <1>5 DEF Attempt, CallTo, CameraStays, cameraVars, clientVars
  <2>1. CASE Return(c, "ok") /\ NoFault
    BY <2>1 DEF Return, NoFault
  <2>2. CASE my[c] \notin alive /\ NoFault
    BY <2>2 DEF Return, NoFault
  <2>3. CASE Return(c, "error") /\ Fault(c)
    BY <2>3 DEF Return, Fault, Trouble, Active
  <2> QED BY <2>1, <2>2, <2>3
<1>6. ASSUME NEW c \in Callers, Relogin(c) PROVE TypeOK' /\ Known'
  BY <1>6 DEF Relogin, Afterwards, CallTo, NoFault, CameraStays, cameraVars
<1>7. ASSUME NEW c \in Callers, LoginFails(c) PROVE TypeOK' /\ Known'
  <2>1. /\ alive' \subseteq Sessions /\ made' \in 0..MaxSessions /\ made <= made'
        /\ accepts' = accepts
    <3>1. CASE Admit
      BY <1>7, <3>1, AdmitMakesOne DEF LoginFails
    <3>2. CASE UNCHANGED <<alive, made>>
      BY <1>7, <3>2 DEF LoginFails
    <3> QED BY <1>7, <3>1, <3>2 DEF LoginFails
  <2>2. troubled' \subseteq Callers /\ faults' \in 0..MaxFaults
    BY <1>7 DEF LoginFails, Fault, Trouble, Active
  <2>3. pc' = [pc EXCEPT ![c] = "idle"] /\ answer' = [answer EXCEPT ![c] = "error"]
    BY <1>7 DEF LoginFails, Return, CallTo
  <2> QED BY <1>7, <2>1, <2>2, <2>3 DEF LoginFails
<1>8. ASSUME NEW c \in Callers, LoginRejected(c) PROVE TypeOK' /\ Known'
  BY <1>8 DEF LoginRejected, Return, CallTo, NoFault, CameraStays, cameraVars
<1>9. ASSUME NEW c \in Callers, LoginDone(c) PROVE TypeOK' /\ Known'
  BY <1>9, AdmitMakesOne DEF LoginDone, Afterwards, CallTo, Trouble, Active, bounds
<1>10. ASSUME NEW c \in Callers, ReadGen(c) PROVE TypeOK' /\ Known'
  BY <1>10 DEF ReadGen, CallTo, NoFault, CameraStays, cameraVars, clientVars
<1>11. CASE UNCHANGED vars
  BY <1>11 DEF vars, clientVars, cameraVars, callVars, bounds
<1> QED BY <1>1, <1>2, <1>3, <1>4, <1>5, <1>6, <1>7, <1>8, <1>9, <1>10, <1>11 DEF Next, Call

LEMMA GenStep == Inductive /\ [Next]_vars => GenFits'
<1> SUFFICES ASSUME Inductive, [Next]_vars PROVE GenFits'
  OBVIOUS
<1> USE BoundsAssumption, NobodyAssumption DEF Inductive, TypeOK, Known, GenFits, Holding, Sessions, NoSession
<1>1. CASE Reboot
  BY <1>1 DEF Reboot, clientVars, callVars
<1>2. CASE OtherLogin
  BY <1>2 DEF OtherLogin, clientVars, callVars
<1>3. CASE ChangePassword
  BY <1>3 DEF ChangePassword, clientVars, callVars
<1>4. ASSUME NEW c \in Callers, Begin(c) PROVE GenFits'
  BY <1>4 DEF Begin, CallTo, clientVars
<1>5. ASSUME NEW c \in Callers, Attempt(c) PROVE GenFits'
  BY <1>5 DEF Attempt, Return, CallTo, clientVars
<1>6. ASSUME NEW c \in Callers, Relogin(c) PROVE GenFits'
  BY <1>6 DEF Relogin, Afterwards, CallTo
<1>7. ASSUME NEW c \in Callers, LoginFails(c) PROVE GenFits'
  BY <1>7 DEF LoginFails
<1>8. ASSUME NEW c \in Callers, LoginRejected(c) PROVE GenFits'
  BY <1>8 DEF LoginRejected
<1>9. ASSUME NEW c \in Callers, LoginDone(c) PROVE GenFits'
  <2>1. sid' = made + 1
    BY <1>9, AdmitMakesOne DEF LoginDone
  <2>2. \A d \in Callers \ {c} : my'[d] # sid'
    BY <1>9, <2>1 DEF LoginDone
  <2>3. pc'[c] \notin Holding
    BY <1>9 DEF LoginDone, Afterwards, CallTo
  <2> QED BY <2>2, <2>3
<1>10. ASSUME NEW c \in Callers, ReadGen(c) PROVE GenFits'
  BY <1>10 DEF ReadGen, CallTo, clientVars
<1>11. CASE UNCHANGED vars
  BY <1>11 DEF vars, clientVars, callVars
<1> QED BY <1>1, <1>2, <1>3, <1>4, <1>5, <1>6, <1>7, <1>8, <1>9, <1>10, <1>11 DEF Next, Call

(* Whatever the camera loses troubles every call under way.                 *)
LEMMA LossTroubles ==
  ASSUME TypeOK, NEW more \in SUBSET Callers, Trouble(more)
  PROVE  \A d \in Callers : pc[d] # "idle" /\ d \notin troubled' => alive \subseteq alive' /\ d \notin troubled
BY DEF Trouble, Active

LEMMA FreshStep == Inductive /\ [Next]_vars => Fresh'
<1> SUFFICES ASSUME Inductive, [Next]_vars PROVE Fresh'
  OBVIOUS
<1> USE BoundsAssumption, NobodyAssumption DEF Inductive, TypeOK, Known, Fresh, InLogin, Sessions, NoSession
<1>1. CASE Reboot
  <2>1. \A d \in Callers : pc[d] # "idle" /\ d \notin troubled' => alive \subseteq alive' /\ d \notin troubled
    BY <1>1, LossTroubles DEF Reboot
  <2> QED BY <1>1, <2>1 DEF Reboot, clientVars, callVars
<1>2. CASE OtherLogin
  <2>1. \A d \in Callers : pc[d] # "idle" /\ d \notin troubled' => alive \subseteq alive' /\ d \notin troubled
    BY <1>2, LossTroubles DEF OtherLogin
  <2> QED BY <1>2, <2>1 DEF OtherLogin, clientVars, callVars
<1>3. CASE ChangePassword
  BY <1>3 DEF ChangePassword, clientVars, callVars
<1>4. ASSUME NEW c \in Callers, Begin(c) PROVE Fresh'
  BY <1>4 DEF Begin, CallTo, CameraStays, cameraVars, clientVars
<1>5. ASSUME NEW c \in Callers, Attempt(c) PROVE Fresh'
  BY <1>5 DEF Attempt, Return, CallTo, NoFault, Fault, Trouble, CameraStays, cameraVars, clientVars
<1>6. ASSUME NEW c \in Callers, Relogin(c) PROVE Fresh'
  BY <1>6 DEF Relogin, Afterwards, CallTo, NoFault, CameraStays, cameraVars
<1>7. ASSUME NEW c \in Callers, LoginFails(c) PROVE Fresh'
  <2>1. \A d \in Callers : pc[d] # "idle" /\ d \notin troubled' => alive \subseteq alive' /\ d \notin troubled
    BY <1>7, LossTroubles DEF LoginFails, Fault
  <2> QED BY <1>7, <2>1 DEF LoginFails, Return, CallTo
<1>8. ASSUME NEW c \in Callers, LoginRejected(c) PROVE Fresh'
  BY <1>8 DEF LoginRejected, Return, CallTo, NoFault, CameraStays, cameraVars
<1>9. ASSUME NEW c \in Callers, LoginDone(c) PROVE Fresh'
  <2>1. \A d \in Callers : pc[d] # "idle" /\ d \notin troubled' => alive \subseteq alive' /\ d \notin troubled
    BY <1>9, LossTroubles DEF LoginDone
  <2>2. sid' \in alive' /\ my' = [my EXCEPT ![c] = sid']
    BY <1>9, AdmitMakesOne DEF LoginDone
  <2>3. /\ pc[c] \in InLogin /\ pc'[c] \in {"gen", "again"}
        /\ \A d \in Callers \ {c} : pc'[d] = pc[d]
    BY <1>9 DEF LoginDone, Afterwards, CallTo
  <2> QED BY <1>9, <2>1, <2>2, <2>3 DEF LoginDone
<1>10. ASSUME NEW c \in Callers, ReadGen(c) PROVE Fresh'
  BY <1>10 DEF ReadGen, CallTo, NoFault, CameraStays, cameraVars, clientVars
<1>11. CASE UNCHANGED vars
  BY <1>11 DEF vars, clientVars, cameraVars, callVars
<1> QED BY <1>1, <1>2, <1>3, <1>4, <1>5, <1>6, <1>7, <1>8, <1>9, <1>10, <1>11 DEF Next, Call

LEMMA QuietStep == Inductive /\ [Next]_vars => QuietCallsSucceed'
<1> SUFFICES ASSUME Inductive, [Next]_vars PROVE QuietCallsSucceed'
  OBVIOUS
<1> USE NobodyAssumption DEF Inductive, TypeOK, Fresh, QuietCallsSucceed
<1>1. CASE Reboot
  BY <1>1 DEF Reboot, Trouble, callVars
<1>2. CASE OtherLogin
  BY <1>2 DEF OtherLogin, Trouble, callVars
<1>3. CASE ChangePassword
  BY <1>3 DEF ChangePassword, callVars
<1>4. ASSUME NEW c \in Callers, Begin(c) PROVE QuietCallsSucceed'
  BY <1>4 DEF Begin
<1>5. ASSUME NEW c \in Callers, Attempt(c) PROVE QuietCallsSucceed'
  BY <1>5 DEF Attempt, Return, CallTo, NoFault, Fault, Trouble
<1>6. ASSUME NEW c \in Callers, Relogin(c) PROVE QuietCallsSucceed'
  BY <1>6 DEF Relogin, NoFault
<1>7. ASSUME NEW c \in Callers, LoginFails(c) PROVE QuietCallsSucceed'
  BY <1>7 DEF LoginFails, Return, Fault, Trouble
<1>8. ASSUME NEW c \in Callers, LoginRejected(c) PROVE QuietCallsSucceed'
  BY <1>8 DEF LoginRejected, Return, NoFault
<1>9. ASSUME NEW c \in Callers, LoginDone(c) PROVE QuietCallsSucceed'
  BY <1>9 DEF LoginDone, Trouble
<1>10. ASSUME NEW c \in Callers, ReadGen(c) PROVE QuietCallsSucceed'
  BY <1>10 DEF ReadGen, NoFault
<1>11. CASE UNCHANGED vars
  BY <1>11 DEF vars, callVars
<1> QED BY <1>1, <1>2, <1>3, <1>4, <1>5, <1>6, <1>7, <1>8, <1>9, <1>10, <1>11 DEF Next, Call

LEMMA InductiveInvariant == Spec => []Inductive
<1>1. Inductive /\ [Next]_vars => Inductive'
  BY TypeStep, GenStep, FreshStep, QuietStep DEF Inductive
<1> QED BY <1>1, InitInductive, PTL DEF Spec

(* Every variable of the client, the camera and the calls keeps its type.   *)
THEOREM TypeCorrect == Spec => []TypeOK
BY InductiveInvariant, PTL DEF Inductive

(* No call is turned down, by an error or as unauthorized, that the camera  *)
(* gave no cause for while it was under way.                                *)
THEOREM QuietCallsAreAnswered == Spec => []QuietCallsSucceed
BY InductiveInvariant, PTL DEF Inductive

(* What relogin hands back in place of a session found dead is another one. *)
THEOREM NotTheDeadOneAgain == Spec => NeverTheDeadOne
<1>1. ASSUME Inductive, [Next]_vars, NEW c \in Callers, pc[c] = "expired", pc'[c] = "again"
      PROVE  my'[c] # my[c]
  <2> USE <1>1 DEF Inductive, TypeOK
  <2>1. Relogin(c)
    BY DEF Next, Call, Reboot, OtherLogin, ChangePassword, Begin, Attempt, Relogin, LoginFails,
           LoginRejected, LoginDone, ReadGen, Return, CallTo, Afterwards, vars, callVars
  <2>2. gen # myGen[c] /\ sid # NoSession /\ my' = [my EXCEPT ![c] = sid]
    BY <2>1 DEF Relogin, Afterwards, CallTo
  <2> QED BY <2>2 DEF GenFits, Holding
<1>2. Inductive /\ [Next]_vars => [\A c \in Callers : pc[c] = "expired" /\ pc'[c] = "again" => my'[c] # my[c]]_vars
  BY <1>1
<1> QED BY <1>2, InductiveInvariant, PTL DEF Spec, NeverTheDeadOne
=============================================================================
