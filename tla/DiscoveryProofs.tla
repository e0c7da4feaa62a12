--------------------------- MODULE DiscoveryProofs ---------------------------
(***************************************************************************)
(* Proofs about Discovery: its type, how old an answer of ResolveAddress can *)
(* be, and what a window records.                                           *)
(***************************************************************************)
EXTENDS Discovery, TLAPS

USE NamesAssumption, StartAssumption, TTLAssumption, BoundsAssumption

(* What an entry is after expire has looked at it. *)
LEMMA OlderHost == ASSUME NEW e \in Host \cup {None}
                   PROVE  /\ Older(e) \in Host \cup {None}
                          /\ Older(e) # None => /\ e # None /\ Older(e).name = e.name
                                                /\ Older(e).seen = e.seen + 1
  <1>1. CASE e = None
    BY <1>1 DEF Older
  <1>2. CASE e \in Host /\ e # None
    BY <1>2 DEF Older, Host, Ages
  <1> QED
    BY <1>1, <1>2

LEMMA OlderAddress == ASSUME NEW e \in Address \cup {None}
                      PROVE  /\ Older(e) \in Address \cup {None}
                             /\ Older(e) # None => /\ e # None /\ Older(e).ip = e.ip
                                                   /\ Older(e).seen = e.seen + 1
  <1>1. CASE e = None
    BY <1>1 DEF Older
  <1>2. CASE e \in Address /\ e # None
    BY <1>2 DEF Older, Address, Ages
  <1> QED
    BY <1>1, <1>2

(* What Record does to the hosts: one that was heard at an address replaces  *)
(* the one there, the others stay; no goodbye has a host's name.            *)
LEMMA Recorded ==
  ASSUME TypeOK, Record, NEW i \in Ips
  PROVE  /\ hosts'[i] = hosts[i] \/ \E n \in Heard(i) : hosts'[i] = [name |-> n, seen |-> 0]
         /\ Heard(i) # {} => \E n \in Heard(i) : hosts'[i] = [name |-> n, seen |-> 0]
         /\ hosts' \in [Ips -> Host \cup {None}]
  <1>1. PICK h \in [Ips -> {[name |-> n, seen |-> 0] : n \in Complete} \cup {hosts[j] : j \in Ips}] :
          /\ Folded(h)
          /\ hosts' = [j \in Ips |-> IF h[j] # None /\ SaidGoodbye(h[j]) THEN None ELSE h[j]]
    BY DEF Record
  <1>2. \A k \in Names : <<"label", k>> \notin gone /\ <<"host", k>> \notin gone
    BY DEF TypeOK
  <1>3. \A j \in Ips : h[j] \in Host \cup {None}
    <2>1. \A n \in Complete : [name |-> n, seen |-> 0] \in Host
      BY DEF Complete, Host, Ages
    <2> QED
      BY <2>1 DEF TypeOK
  <1>4. \A j \in Ips : h[j] # None => ~ SaidGoodbye(h[j])
    BY <1>2, <1>3 DEF SaidGoodbye, Host
  <1>5. \A j \in Ips : hosts'[j] = h[j]
    BY <1>1, <1>4
  <1> QED
    BY <1>1, <1>3, <1>5 DEF Folded
-----------------------------------------------------------------------------
(* Type correctness.                                                        *)

LEMMA InitType == Init => TypeOK
  BY DEF Init, TypeOK

LEMMA HearType ==
  ASSUME TypeOK, NEW n \in Names, HearName(n) \/ HearPlace(n) \/ HearAddress(n)
  PROVE  TypeOK'
  <1>1. /\ records' \in 0..MaxRecords /\ net[n] \in Ips
        /\ UNCHANGED <<netVars, windowVars, viewVars, asked, stored, bounds>>
    BY DEF TypeOK, HearName, HearPlace, HearAddress, Hear
  <1>2. gone' = gone
    BY DEF HearName, HearPlace, HearAddress
  <1>3. /\ services' \in [Names -> {"unheard", "named", "placed"}]
        /\ heard' \in [Names -> Ips \cup {None}]
        /\ last' \in [Names -> {"silent", "here", "bye"}]
        /\ told' \in [Names -> SUBSET {"place", "address"}]
    <2>1. CASE HearName(n)
      BY <2>1 DEF TypeOK, HearName, Hear, Note, Says
    <2>2. CASE HearPlace(n)
      BY <2>2 DEF TypeOK, HearPlace, Hear, Note, Says
    <2>3. CASE HearAddress(n)
      BY <2>3, <1>1 DEF TypeOK, HearAddress
    <2> QED
      BY <2>1, <2>2, <2>3
  <1> QED
    BY <1>1, <1>2, <1>3 DEF TypeOK, netVars, windowVars, viewVars, bounds

LEMMA NetType ==
  ASSUME TypeOK, NEW n \in Names, Move(n) \/ Leave(n) \/ Restart(n)
  PROVE  TypeOK'
  <1>1. /\ moves' \in 0..MaxMoves /\ UNCHANGED <<windowVars, viewVars, asked, stored, records, faults>>
    BY DEF TypeOK, Move, Leave, Restart, Moved
  <1>2. /\ net' \in [Names -> Ips \cup {None}] /\ had' \in [Names -> [Ips -> 0..(TTL + 1)]]
    <2>1. ASSUME NEW i \in Ips, Moved(n, i)
          PROVE  /\ net' \in [Names -> Ips \cup {None}] /\ had' \in [Names -> [Ips -> 0..(TTL + 1)]]
      BY <2>1 DEF TypeOK, Moved
    <2>2. CASE Leave(n)
      BY <2>2 DEF TypeOK, Leave
    <2> QED
      BY <2>1, <2>2 DEF TypeOK, Move, Restart
  <1>3. /\ services' \in [Names -> {"unheard", "named", "placed"}]
        /\ heard' \in [Names -> Ips \cup {None}] /\ gone' \subseteq {"instance"} \X Names
        /\ last' \in [Names -> {"silent", "here", "bye"}]
        /\ told' \in [Names -> SUBSET {"place", "address"}]
    <2>1. CASE SaysGoodbye(n)
      BY <2>1 DEF TypeOK, SaysGoodbye, Goodbye
    <2>2. CASE AddressGone(n) /\ UNCHANGED <<services, gone, last>>
      BY <2>2 DEF TypeOK, AddressGone
    <2>3. CASE UNCHANGED <<sightingVars, saidVars>>
      BY <2>3 DEF TypeOK, sightingVars, saidVars
    <2> QED
      BY <2>1, <2>2, <2>3 DEF Move, Leave, Restart
  <1> QED
    BY <1>1, <1>2, <1>3 DEF TypeOK, windowVars, viewVars

LEMMA NothingType ==
  ASSUME Nothing
  PROVE  /\ services' \in [Names -> {"unheard", "named", "placed"}]
         /\ heard' \in [Names -> Ips \cup {None}] /\ gone' \subseteq {"instance"} \X Names
         /\ last' \in [Names -> {"silent", "here", "bye"}]
         /\ told' \in [Names -> SUBSET {"place", "address"}]
  BY DEF Nothing

LEMMA SweepType ==
  ASSUME TypeOK, Browse \/ AskAgain \/ Record \/ BrowseFails \/ Expire
  PROVE  TypeOK'
  <1>1. CASE Browse \/ AskAgain
    BY <1>1 DEF TypeOK, Browse, AskAgain, netVars, sightingVars, viewVars, saidVars, bounds
  <1>2. CASE Record
    <2>1. hosts' \in [Ips -> Host \cup {None}]
      <3>1. CASE Ips = {}
        BY <3>1, <1>2 DEF Record
      <3>2. CASE \E i \in Ips : TRUE
        BY <3>2, <1>2, Recorded
      <3> QED
        BY <3>1, <3>2
    <2>2. addrs' \in [Names -> Address \cup {None}]
      BY <1>2 DEF TypeOK, Record, Address, Ages
    <2> QED
      BY <1>2, <2>1, <2>2, NothingType DEF TypeOK, Record, netVars, bounds
  <1>3. CASE BrowseFails
    BY <1>3, NothingType DEF TypeOK, BrowseFails, netVars, viewVars
  <1>4. CASE Expire
    <2>1. hosts' \in [Ips -> Host \cup {None}] /\ addrs' \in [Names -> Address \cup {None}]
      BY <1>4, OlderHost, OlderAddress DEF TypeOK, Expire
    <2>2. asked' \in [Names -> Ages \cup {None}]
      <3>1. PICK early \in SUBSET {n \in Wanted : asked[n] = TTL - 1} :
              asked' = [n \in Names |-> IF asked[n] = None \/ asked[n] = TTL \/ n \in early THEN None
                                        ELSE asked[n] + 1]
        BY <1>4 DEF Expire
      <3>2. ASSUME NEW n \in Names, asked[n] # None, asked[n] # TTL PROVE asked[n] + 1 \in Ages
        <4>1. asked[n] \in 0..TTL
          BY <3>2 DEF TypeOK, Ages
        <4> QED
          BY <4>1, <3>2 DEF Ages
      <3> QED
        BY <3>1, <3>2
    <2>3. had' \in [Names -> [Ips -> 0..(TTL + 1)]]
      <3>1. \A n \in Names : \A i \in Ips : had[n][i] \in 0..(TTL + 1)
        BY DEF TypeOK
      <3>2. \A n \in Names : \A i \in Ips : had[n][i] <= TTL => had[n][i] + 1 \in 0..(TTL + 1)
        BY <3>1
      <3>3. 0 \in 0..(TTL + 1)
        OBVIOUS
      <3> QED
        BY <1>4, <3>1, <3>2, <3>3 DEF Expire
    <2> QED
      BY <1>4, <2>1, <2>2, <2>3 DEF TypeOK, Expire, sightingVars, saidVars, bounds
  <1> QED
    BY <1>1, <1>2, <1>3, <1>4

LEMMA WatchType == ASSUME TypeOK, NEW c \in Cameras, Watch(c) PROVE TypeOK'
  <1>1. Answers(c) \subseteq Ips
    BY DEF TypeOK, Answers, Address
  <1>2. asked' \in [Names -> Ages \cup {None}]
    <2>1. 0 \in Ages
      BY DEF Ages
    <2> QED
      BY <2>1 DEF TypeOK, Watch, Want
  <1>3. stored' \in [Cameras -> Ips \cup {ByName}]
    <2>1. stored' = stored \/ \E i \in Ips : stored' = [stored EXCEPT ![c] = i]
      BY <1>1 DEF Watch
    <2>2. stored \in [Cameras -> Ips \cup {ByName}]
      BY DEF TypeOK
    <2> QED
      BY <2>1, <2>2
  <1>4. faults' \in 0..MaxFaults
    <2>1. faults' = faults \/ (faults < MaxFaults /\ faults' = faults + 1)
      BY DEF Watch
    <2>2. faults \in 0..MaxFaults
      BY DEF TypeOK
    <2> QED
      BY <2>1, <2>2
  <1> QED
    BY <1>2, <1>3, <1>4 DEF TypeOK, Watch, netVars, windowVars, sightingVars, viewVars, saidVars

LEMMA NextType == TypeOK /\ [Next]_vars => TypeOK'
  <1> SUFFICES ASSUME TypeOK, [Next]_vars PROVE TypeOK'
    OBVIOUS
  <1>1. CASE UNCHANGED vars
    BY <1>1 DEF TypeOK, vars, netVars, windowVars, sightingVars, viewVars, saidVars, bounds
  <1> QED
    BY <1>1, HearType, NetType, SweepType, WatchType DEF Next

(* Every state of the sweeps, the view they keep and the stored addresses    *)
(* has its type.                                                            *)
THEOREM TypeCorrect == Spec => []TypeOK
  BY InitType, NextType, PTL DEF Spec
-----------------------------------------------------------------------------
(* How old an answer can be.  An entry is as old as the sighting it was made *)
(* from, and no sighting outlives its window.                               *)

Fresh ==
  /\ \A n \in Names : net[n] # None => had[n][net[n]] = 0
  /\ \A n \in Names : heard[n] # None => phase = "listening" /\ had[n][heard[n]] = 0
  /\ \A i \in Ips : hosts[i] # None => had[hosts[i].name][i] <= hosts[i].seen
  /\ \A n \in Names : addrs[n] # None => had[n][addrs[n].ip] <= addrs[n].seen

LEMMA InitFresh == Init => Fresh
  BY DEF Init, Fresh

(* An address that a device has is one it had no time ago, so that what it   *)
(* says of itself is fresh.                                                 *)
LEMMA HearFresh ==
  ASSUME TypeOK, Fresh, NEW n \in Names, HearName(n) \/ HearPlace(n) \/ HearAddress(n)
  PROVE  Fresh'
  <1>1. UNCHANGED <<net, had, phase, hosts, addrs>>
    BY DEF HearName, HearPlace, HearAddress, Hear, netVars, windowVars, viewVars
  <1>2. \A m \in Names : heard'[m] # None => phase = "listening" /\ had[m][heard'[m]] = 0
    <2>1. CASE UNCHANGED heard
      BY <2>1 DEF Fresh
    <2>2. CASE HearAddress(n)
      BY <2>2 DEF TypeOK, Fresh, HearAddress, Hear
    <2> QED
      BY <2>1, <2>2 DEF HearName, HearPlace
  <1> QED
    BY <1>1, <1>2 DEF Fresh

LEMMA NetFresh ==
  ASSUME TypeOK, Fresh, NEW n \in Names, Move(n) \/ Leave(n) \/ Restart(n)
  PROVE  Fresh'
  <1>1. UNCHANGED <<phase, hosts, addrs>>
    BY DEF Move, Leave, Restart, Moved, windowVars, viewVars
  <1>2. \A m \in Names : \A i \in Ips : had'[m][i] = had[m][i] \/ had'[m][i] = 0
    <2>1. ASSUME NEW j \in Ips, Moved(n, j), NEW m \in Names, NEW i \in Ips
          PROVE  had'[m][i] = had[m][i] \/ had'[m][i] = 0
      BY <2>1 DEF TypeOK, Moved
    <2>2. CASE Leave(n)
      BY <2>2 DEF Leave
    <2> QED
      BY <2>1, <2>2 DEF TypeOK, Move, Restart
  <1>3. \A m \in Names : net'[m] # None => had'[m][net'[m]] = 0
    <2>1. ASSUME NEW i \in Ips, Moved(n, i), NEW m \in Names, net'[m] # None
          PROVE  had'[m][net'[m]] = 0
      <3>1. CASE m = n
        BY <2>1, <3>1 DEF TypeOK, Moved
      <3>2. CASE m # n
        BY <2>1, <3>2 DEF TypeOK, Fresh, Moved
      <3> QED
        BY <3>1, <3>2
    <2>2. CASE Leave(n)
      BY <2>2 DEF TypeOK, Fresh, Leave
    <2> QED
      BY <2>1, <2>2 DEF TypeOK, Move, Restart
  <1>4. \A m \in Names : heard'[m] = heard[m] \/ heard'[m] = None
    BY DEF TypeOK, Move, Leave, Restart, SaysGoodbye, AddressGone, sightingVars
  <1>5. \A m \in Names : heard'[m] # None => phase = "listening" /\ had'[m][heard'[m]] = 0
    BY <1>2, <1>4 DEF TypeOK, Fresh
  <1>6. \A i \in Ips : hosts[i] # None => had'[hosts[i].name][i] <= hosts[i].seen
    <2> SUFFICES ASSUME NEW i \in Ips, hosts[i] # None
                 PROVE  had'[hosts[i].name][i] <= hosts[i].seen
      OBVIOUS
    <2>1. hosts[i].name \in Names /\ hosts[i].seen \in Nat
      BY DEF TypeOK, Host, Ages
    <2> QED
      BY <1>2, <2>1 DEF Fresh
  <1>7. \A m \in Names : addrs[m] # None => had'[m][addrs[m].ip] <= addrs[m].seen
    <2> SUFFICES ASSUME NEW m \in Names, addrs[m] # None
                 PROVE  had'[m][addrs[m].ip] <= addrs[m].seen
      OBVIOUS
    <2>1. addrs[m].ip \in Ips /\ addrs[m].seen \in Nat
      BY DEF TypeOK, Address, Ages
    <2> QED
      BY <1>2, <2>1 DEF Fresh
  <1> QED
    BY <1>1, <1>3, <1>5, <1>6, <1>7 DEF Fresh

LEMMA RecordFresh == ASSUME TypeOK, Fresh, Record PROVE Fresh'
  <1>1. UNCHANGED <<net, had>> /\ \A n \in Names : heard'[n] = None
    BY DEF Record, Nothing, netVars
  <1>2. \A i \in Ips : hosts'[i] # None => had[hosts'[i].name][i] <= hosts'[i].seen
    <2> SUFFICES ASSUME NEW i \in Ips, hosts'[i] # None
                 PROVE  had[hosts'[i].name][i] <= hosts'[i].seen
      OBVIOUS
    <2>1. CASE hosts'[i] = hosts[i]
      BY <2>1 DEF Fresh
    <2>2. ASSUME NEW n \in Heard(i), hosts'[i] = [name |-> n, seen |-> 0]
          PROVE  had[hosts'[i].name][i] <= hosts'[i].seen
      <3>1. had[n][i] = 0
        BY DEF Heard, Complete, Fresh
      <3> QED
        BY <2>2, <3>1
    <2> QED
      BY <2>1, <2>2, Recorded
  <1>3. \A n \in Names : addrs'[n] # None => had[n][addrs'[n].ip] <= addrs'[n].seen
    <2> SUFFICES ASSUME NEW n \in Names, addrs'[n] # None
                 PROVE  had[n][addrs'[n].ip] <= addrs'[n].seen
      OBVIOUS
    <2>1. CASE heard[n] = None
      BY <2>1 DEF Record, Fresh
    <2>2. CASE heard[n] # None
      <3>1. addrs'[n] = [ip |-> heard[n], seen |-> 0]
        BY <2>2 DEF Record
      <3>2. had[n][heard[n]] = 0
        BY <2>2 DEF Fresh
      <3> QED
        BY <3>1, <3>2
    <2> QED
      BY <2>1, <2>2
  <1> QED
    BY <1>1, <1>2, <1>3 DEF Fresh

(* Both ages grow by one in a sweep, that of an address a device has left    *)
(* and that of the entry made from it.                                      *)
LEMMA ExpireFresh == ASSUME TypeOK, Fresh, Expire PROVE Fresh'
  <1>1. net' = net /\ heard' = heard
    BY DEF Expire, sightingVars
  <1>2. \A n \in Names : heard[n] = None
    BY DEF Fresh, Expire
  <1>3. \A n \in Names : net[n] # None => had'[n][net[n]] = 0
    BY DEF TypeOK, Expire
  <1>4. \A n \in Names : \A i \in Ips : had[n][i] \in Nat /\ had'[n][i] <= had[n][i] + 1
    <2> SUFFICES ASSUME NEW n \in Names, NEW i \in Ips
                 PROVE  had[n][i] \in Nat /\ had'[n][i] <= had[n][i] + 1
      OBVIOUS
    <2>1. had[n][i] \in 0..(TTL + 1)
      BY DEF TypeOK
    <2>2. had'[n][i] = IF net[n] = i THEN 0
                       ELSE IF had[n][i] <= TTL THEN had[n][i] + 1 ELSE had[n][i]
      BY DEF Expire
    <2> QED
      BY <2>1, <2>2
  <1>5. \A i \in Ips : hosts'[i] # None => had'[hosts'[i].name][i] <= hosts'[i].seen
    <2> SUFFICES ASSUME NEW i \in Ips, hosts'[i] # None
                 PROVE  had'[hosts'[i].name][i] <= hosts'[i].seen
      OBVIOUS
    <2>1. hosts[i] \in Host \cup {None} /\ hosts'[i] = Older(hosts[i])
      BY DEF TypeOK, Expire
    <2>2. hosts[i] # None /\ hosts'[i].name = hosts[i].name /\ hosts'[i].seen = hosts[i].seen + 1
      BY <2>1, OlderHost
    <2>3. hosts[i].name \in Names /\ hosts[i].seen \in Nat
      BY <2>1, <2>2 DEF Host, Ages
    <2>4. had[hosts[i].name][i] <= hosts[i].seen
      BY <2>2 DEF Fresh
    <2>5. had[hosts[i].name][i] \in Nat /\ had'[hosts[i].name][i] <= had[hosts[i].name][i] + 1
      BY <1>4, <2>3
    <2>6. had'[hosts[i].name][i] \in Nat
      <3>1. had' \in [Names -> [Ips -> 0..(TTL + 1)]]
        BY SweepType DEF TypeOK
      <3> QED
        BY <2>3, <3>1
    <2> QED
      BY <2>2, <2>3, <2>4, <2>5, <2>6
  <1>6. \A n \in Names : addrs'[n] # None => had'[n][addrs'[n].ip] <= addrs'[n].seen
    <2> SUFFICES ASSUME NEW n \in Names, addrs'[n] # None
                 PROVE  had'[n][addrs'[n].ip] <= addrs'[n].seen
      OBVIOUS
    <2>1. addrs[n] \in Address \cup {None} /\ addrs'[n] = Older(addrs[n])
      BY DEF TypeOK, Expire
    <2>2. addrs[n] # None /\ addrs'[n].ip = addrs[n].ip /\ addrs'[n].seen = addrs[n].seen + 1
      BY <2>1, OlderAddress
    <2>3. addrs[n].ip \in Ips /\ addrs[n].seen \in Nat
      BY <2>1, <2>2 DEF Address, Ages
    <2>4. had[n][addrs[n].ip] <= addrs[n].seen
      BY <2>2 DEF Fresh
    <2>5. had[n][addrs[n].ip] \in Nat /\ had'[n][addrs[n].ip] <= had[n][addrs[n].ip] + 1
      BY <1>4, <2>3
    <2>6. had'[n][addrs[n].ip] \in Nat
      <3>1. had' \in [Names -> [Ips -> 0..(TTL + 1)]]
        BY SweepType DEF TypeOK
      <3> QED
        BY <2>3, <3>1
    <2> QED
      BY <2>2, <2>3, <2>4, <2>5, <2>6
  <1> QED
    BY <1>1, <1>2, <1>3, <1>5, <1>6 DEF Fresh

LEMMA NextFresh == TypeOK /\ Fresh /\ [Next]_vars => Fresh'
  <1> SUFFICES ASSUME TypeOK, Fresh, [Next]_vars PROVE Fresh'
    OBVIOUS
  <1>1. CASE UNCHANGED vars
    BY <1>1 DEF Fresh, vars, netVars, windowVars, sightingVars, viewVars
  <1>2. CASE Browse \/ AskAgain
    BY <1>2 DEF Fresh, Browse, AskAgain, netVars, sightingVars, viewVars
  <1>3. CASE BrowseFails
    BY <1>3 DEF Fresh, BrowseFails, Nothing, netVars, viewVars
  <1>4. ASSUME NEW c \in Cameras, Watch(c) PROVE Fresh'
    BY <1>4 DEF Fresh, Watch, netVars, windowVars, sightingVars, viewVars
  <1> QED
    BY <1>1, <1>2, <1>3, <1>4, HearFresh, NetFresh, RecordFresh, ExpireFresh DEF Next

(* ResolveAddress answers with addresses the device had at most entryTTL     *)
(* ago, for any number of devices, addresses and moves.                     *)
THEOREM AnswersAreTrue == Spec => []AnswersWereTrue
  <1>1. TypeOK /\ Fresh => AnswersWereTrue
    <2> SUFFICES ASSUME TypeOK, Fresh, NEW n \in Names, NEW i \in Answers(n)
                 PROVE  had[n][i] <= TTL
      BY DEF AnswersWereTrue
    <2>1. CASE i \in Ips /\ hosts[i] # None /\ hosts[i].name = n
      <3>1. hosts[i].seen \in 0..TTL /\ had[n][i] <= hosts[i].seen
        BY <2>1 DEF TypeOK, Fresh, Host, Ages
      <3>2. had[n][i] \in Nat
        BY <2>1 DEF TypeOK
      <3> QED
        BY <3>1, <3>2
    <2>2. CASE addrs[n] # None /\ i = addrs[n].ip
      <3>1. addrs[n].seen \in 0..TTL /\ i \in Ips /\ had[n][i] <= addrs[n].seen
        BY <2>2 DEF TypeOK, Fresh, Address, Ages
      <3>2. had[n][i] \in Nat
        BY <3>1 DEF TypeOK
      <3> QED
        BY <3>1, <3>2
    <2> QED
      BY <2>1, <2>2 DEF Answers
  <1> QED
    BY <1>1, InitType, InitFresh, NextType, NextFresh, PTL DEF Spec
-----------------------------------------------------------------------------
(* What a window records.  What the devices said and what the sighting kept  *)
(* of it stay in step, in whatever order the records come.                  *)

Kept ==
  \A n \in Names :
    /\ "address" \in told[n] => heard[n] # None
    /\ "place" \in told[n] /\ <<"instance", n>> \notin gone => services[n] = "placed"
    /\ last[n] = "bye" => <<"instance", n>> \in gone
    /\ <<"instance", n>> \in gone => services[n] = "unheard"

LEMMA NothingKept == ASSUME Nothing PROVE Kept'
  BY DEF Nothing, Kept

LEMMA HearKept ==
  ASSUME TypeOK, Kept, NEW n \in Names, HearName(n) \/ HearPlace(n) \/ HearAddress(n)
  PROVE  Kept'
  <1>1. ASSUME NEW what \in {"name", "place"}, Note(n, what), Says(n, what),
               UNCHANGED <<heard, gone>>
        PROVE  Kept'
    <2>1. \A m \in Names \ {n} : /\ services'[m] = services[m] /\ last'[m] = last[m]
                                  /\ told'[m] = told[m]
      BY <1>1 DEF TypeOK, Note, Says
    <2>2. last'[n] = "here" /\ told'[n] = told[n] \cup ({what} \cap {"place"})
      BY <1>1 DEF TypeOK, Says
    <2>3. CASE <<"instance", n>> \in gone
      BY <1>1, <2>1, <2>2, <2>3 DEF TypeOK, Kept, Note
    <2>4. CASE <<"instance", n>> \notin gone
      <3>1. services'[n] = IF what = "place" THEN "placed"
                           ELSE IF services[n] = "unheard" THEN "named" ELSE services[n]
        BY <1>1, <2>4 DEF TypeOK, Note
      <3> QED
        BY <1>1, <2>1, <2>2, <2>4, <3>1 DEF TypeOK, Kept
    <2> QED
      BY <2>3, <2>4
  <1>2. CASE HearName(n) \/ HearPlace(n)
    BY <1>1, <1>2 DEF HearName, HearPlace
  <1>3. CASE HearAddress(n)
    BY <1>3 DEF TypeOK, Kept, HearAddress, Hear
  <1> QED
    BY <1>2, <1>3

LEMMA NetKept ==
  ASSUME TypeOK, Kept, NEW n \in Names, Move(n) \/ Leave(n) \/ Restart(n)
  PROVE  Kept'
  <1>1. CASE SaysGoodbye(n)
    <2>1. /\ gone' = gone \cup {<<"instance", n>>}
          /\ services' = [services EXCEPT ![n] = "unheard"] /\ heard' = heard
          /\ last' = [last EXCEPT ![n] = "bye"] /\ told' = [told EXCEPT ![n] = @ \ {"place"}]
      BY <1>1 DEF SaysGoodbye, Goodbye
    <2>2. SUFFICES ASSUME NEW m \in Names
                   PROVE  /\ "address" \in told'[m] => heard'[m] # None
                          /\ "place" \in told'[m] /\ <<"instance", m>> \notin gone' => services'[m] = "placed"
                          /\ last'[m] = "bye" => <<"instance", m>> \in gone'
                          /\ <<"instance", m>> \in gone' => services'[m] = "unheard"
      BY DEF Kept
    <2>3. CASE m = n
      BY <2>1, <2>3 DEF TypeOK, Kept
    <2>4. CASE m # n
      BY <2>1, <2>4 DEF TypeOK, Kept
    <2> QED
      BY <2>3, <2>4
  <1>2. CASE AddressGone(n) /\ UNCHANGED <<services, gone, last>>
    BY <1>2 DEF TypeOK, Kept, AddressGone
  <1>3. CASE UNCHANGED <<sightingVars, saidVars>>
    BY <1>3 DEF Kept, sightingVars, saidVars
  <1> QED
    BY <1>1, <1>2, <1>3 DEF Move, Leave, Restart

LEMMA NextKept == TypeOK /\ Kept /\ [Next]_vars => Kept'
  <1> SUFFICES ASSUME TypeOK, Kept, [Next]_vars PROVE Kept'
    OBVIOUS
  <1>1. CASE UNCHANGED <<sightingVars, saidVars>>
    BY <1>1 DEF Kept, sightingVars, saidVars
  <1>2. CASE Record \/ BrowseFails
    BY <1>2, NothingKept DEF Record, BrowseFails
  <1> QED
    BY <1>1, <1>2, HearKept, NetKept DEF Next, Browse, AskAgain, Expire, Watch, vars

LEMMA InitKept == Init => Kept
  BY DEF Init, Kept

(* A device that gave its place and its address in a window is listed at its *)
(* end, in whatever order and however many answers its records came.        *)
THEOREM AnswersAreAssembled == Spec => AnswersAssembled
  <1>1. ASSUME TypeOK, Kept, Record, NEW n \in Names,
               told[n] = {"place", "address"}, <<"instance", n>> \notin gone
        PROVE  /\ heard[n] # None /\ hosts'[heard[n]] # None /\ hosts'[heard[n]].seen = 0
               /\ hosts'[heard[n]].name = n \/ heard[hosts'[heard[n]].name] = heard[n]
    <2>1. heard[n] \in Ips /\ heard[n] # None /\ n \in Heard(heard[n])
      BY <1>1 DEF TypeOK, Kept, Heard, Complete
    <2>2. PICK m \in Heard(heard[n]) : hosts'[heard[n]] = [name |-> m, seen |-> 0]
      BY <1>1, <2>1, Recorded
    <2>3. hosts'[heard[n]] # None
      <3>1. [name |-> m, seen |-> 0] \in [name : Names, seen : 0..TTL]
        BY DEF Heard, Complete
      <3> QED
        BY <2>2, <3>1
    <2> QED
      BY <2>1, <2>2, <2>3 DEF Heard
  <1>2. TypeOK /\ Kept /\ [Next]_vars =>
          [Record => \A n \in Names :
             told[n] = {"place", "address"} /\ <<"instance", n>> \notin gone =>
               /\ heard[n] # None /\ hosts'[heard[n]] # None /\ hosts'[heard[n]].seen = 0
               /\ hosts'[heard[n]].name = n \/ heard[hosts'[heard[n]].name] = heard[n]]_vars
    BY <1>1
  <1> QED
    BY <1>2, InitType, InitKept, NextType, NextKept, PTL DEF Spec, AnswersAssembled

(* A device whose last word in a window was goodbye is not offered anew for  *)
(* what it said before it.                                                  *)
THEOREM GoodbyesNotRenewed == Spec => GoodbyeNotRenewed
  <1>1. ASSUME TypeOK, Kept, Record, NEW n \in Names, last[n] = "bye", NEW i \in Ips,
               hosts'[i].name = n, hosts'[i] # hosts[i]
        PROVE  FALSE
    <2>1. PICK m \in Heard(i) : hosts'[i] = [name |-> m, seen |-> 0]
      BY <1>1, Recorded
    <2>2. services[n] = "unheard"
      BY <1>1 DEF Kept
    <2>3. hosts'[i].name = m
      BY <2>1
    <2> QED
      BY <1>1, <2>2, <2>3 DEF Heard, Complete
  <1>2. TypeOK /\ Kept /\ [Next]_vars =>
          [Record => \A n \in Names : last[n] = "bye" =>
             \A i \in Ips : hosts'[i] # None /\ hosts'[i].name = n => hosts'[i] = hosts[i]]_vars
    BY <1>1
  <1> QED
    BY <1>2, InitType, InitKept, NextType, NextKept, PTL DEF Spec, GoodbyeNotRenewed
=============================================================================
