------------------------------ MODULE Discovery ------------------------------
(***************************************************************************)
(* What is known of the network: the sweeps of Discoverer.Run               *)
(* (backend/internal/discovery/discovery.go) with the answers each puts      *)
(* together (sighting.go), ResolveAddress, and WatchAddresses, which stores  *)
(* what it answers (manager/addresses.go).                                  *)
(*                                                                         *)
(* A device advertises one service, under its own name.  An answer is taken  *)
(* apart into its records, one a step.  Times are ages counted in sweeps.    *)
(***************************************************************************)
EXTENDS Integers, FiniteSets

CONSTANTS Names,          \* devices on the network, by host name
          Cameras,        \* those that are configured, by name at first
          Ips,            \* addresses a device may be given
          Start,          \* where each device is when the service starts
          None,           \* no address, no entry
          ByName,         \* a stored address that is still a name
          TTL,            \* entryTTL, in sweeps
          MaxDirect,      \* maxDirectQuestions
          MaxRecords,     \* bound: records heard in one window
          MaxMoves,       \* bound: arrivals, departures and moves of devices
          MaxFaults       \* bound: browses that fail, and addresses that cannot be saved

ASSUME NamesAssumption == Cameras \subseteq Names /\ None \notin Ips \cup Names
                          /\ ByName \notin Ips \cup {None} /\ IsFiniteSet(Names)
ASSUME StartAssumption ==
  /\ Start \in [Names -> Ips \cup {None}]
  /\ \A m, n \in Names : m # n /\ Start[m] # None => Start[m] # Start[n]
ASSUME TTLAssumption ==
  TTL \in Nat \ {0} /\ None \notin Nat \cup [name : Names, seen : 0..TTL]
ASSUME BoundsAssumption == /\ MaxDirect \in Nat /\ MaxRecords \in Nat
                           /\ MaxMoves \in Nat /\ MaxFaults \in Nat

VARIABLES
  net, had,               \* where each device is, and how long ago it was at each address
  phase, questions,       \* the sweep, and the names its queries asked about
  services, heard, gone,  \* the sighting: adverts, address records, goodbyes
  hosts, addrs, asked,    \* the rolling view, and the names wanted
  stored,                 \* the address in the store of each camera
  last, told,             \* what each device said in this window: its last word, and its records
  records, moves, faults

netVars      == <<net, had>>
windowVars   == <<phase, questions>>
sightingVars == <<services, heard, gone>>
viewVars     == <<hosts, addrs>>
saidVars     == <<last, told>>
bounds       == <<moves, faults>>
vars == <<netVars, windowVars, sightingVars, viewVars, asked, stored, saidVars, records, bounds>>

Ages == 0..TTL
Host == [name : Names, seen : Ages]
Address == [ip : Ips, seen : Ages]

TypeOK ==
  /\ net \in [Names -> Ips \cup {None}] /\ had \in [Names -> [Ips -> 0..(TTL + 1)]]
  /\ phase \in {"asleep", "listening", "expiring"} /\ questions \subseteq Names
  /\ services \in [Names -> {"unheard", "named", "placed"}]
  /\ heard \in [Names -> Ips \cup {None}] /\ gone \subseteq {"instance"} \X Names
  /\ hosts \in [Ips -> Host \cup {None}] /\ addrs \in [Names -> Address \cup {None}]
  /\ asked \in [Names -> Ages \cup {None}] /\ stored \in [Cameras -> Ips \cup {ByName}]
  /\ last \in [Names -> {"silent", "here", "bye"}]
  /\ told \in [Names -> SUBSET {"place", "address"}]
  /\ records \in 0..MaxRecords /\ moves \in 0..MaxMoves /\ faults \in 0..MaxFaults

(* newSighting *)
Nothing ==
  /\ services' = [n \in Names |-> "unheard"] /\ heard' = [n \in Names |-> None] /\ gone' = {}
  /\ last' = [n \in Names |-> "silent"] /\ told' = [n \in Names |-> {}]

Init ==
  /\ net = Start
  /\ had = [n \in Names |-> [i \in Ips |-> IF net[n] = i THEN 0 ELSE TTL + 1]]
  /\ phase = "asleep" /\ questions = {}
  /\ services = [n \in Names |-> "unheard"] /\ heard = [n \in Names |-> None] /\ gone = {}
  /\ hosts = [i \in Ips |-> None] /\ addrs = [n \in Names |-> None]
  /\ asked = [n \in Names |-> None] /\ stored = [c \in Cameras |-> ByName]
  /\ last = [n \in Names |-> "silent"] /\ told = [n \in Names |-> {}]
  /\ records = 0 /\ moves = 0 /\ faults = 0

-----------------------------------------------------------------------------
(* One window: ask, listen, ask again.                                      *)

Unresolved == {n \in Names : services[n] = "placed" /\ heard[n] = None}
Listed == {n \in Names : \E i \in Ips : hosts[i] # None /\ hosts[i].name = n}
Wanted == {n \in Names : asked[n] # None}

(* The names one query asks about: those named in this window first, then   *)
(* those of the hosts, then the wanted ones, up to the limit; the order      *)
(* within each is that of a map.                                            *)
Fills(q) ==
  LET all == Unresolved \cup Listed \cup Wanted IN
  /\ q \subseteq all
  /\ Cardinality(q) = IF Cardinality(all) < MaxDirect THEN Cardinality(all) ELSE MaxDirect
  /\ q \subseteq Unresolved \/ Unresolved \subseteq q
  /\ q \subseteq Unresolved \cup Listed \/ Unresolved \cup Listed \subseteq q

Browse ==
  /\ phase = "asleep" /\ phase' = "listening" /\ records' = 0
  /\ \E q \in SUBSET Names : Fills(q) /\ questions' = q
  /\ UNCHANGED <<netVars, sightingVars, viewVars, asked, stored, saidVars, bounds>>

AskAgain ==
  /\ phase = "listening"
  /\ \E q \in SUBSET Names : Fills(q) /\ questions' = questions \cup q
  /\ UNCHANGED <<netVars, phase, sightingVars, viewVars, asked, stored, saidVars, records, bounds>>

Hear(n) ==
  /\ phase = "listening" /\ net[n] # None
  /\ records < MaxRecords /\ records' = records + 1
  /\ UNCHANGED <<netVars, windowVars, viewVars, asked, stored, bounds>>

(* What note keeps of a service that has not said goodbye in this window.   *)
Note(n, what) ==
  IF <<"instance", n>> \in gone THEN UNCHANGED services
  ELSE services' = [services EXCEPT ![n] = IF what = "place" THEN "placed"
                                           ELSE IF @ = "unheard" THEN "named" ELSE @]

Says(n, what) ==
  /\ last' = [last EXCEPT ![n] = "here"]
  /\ told' = [told EXCEPT ![n] = @ \cup ({what} \cap {"place"})]

(* A PTR or TXT record. *)
HearName(n) == Hear(n) /\ Note(n, "name") /\ Says(n, "name") /\ UNCHANGED <<heard, gone>>

(* Mutant: each answer is looked at alone. *)
HearPlaceAlone(n) ==
  /\ Hear(n) /\ Note(n, "place") /\ Says(n, "place") /\ UNCHANGED gone
  /\ heard' = [heard EXCEPT ![n] = None]

(* An SRV record. *)
HearPlace(n) == Hear(n) /\ Note(n, "place") /\ Says(n, "place") /\ UNCHANGED <<heard, gone>>

(* An A record, unasked or in answer to a question about the name. *)
HearAddress(n) ==
  /\ Hear(n) /\ heard' = [heard EXCEPT ![n] = net[n]]
  /\ told' = [told EXCEPT ![n] = @ \cup {"address"}]
  /\ UNCHANGED <<services, gone, last>>

(* Mutant: the goodbye is noted, what was heard before it is kept. *)
GoodbyeNoted(n) ==
  /\ gone' = gone \cup {<<"instance", n>>} /\ UNCHANGED services
  /\ last' = [last EXCEPT ![n] = "bye"] /\ told' = [told EXCEPT ![n] = @ \ {"place"}]

(* A PTR, SRV or TXT record without time to live. *)
Goodbye(n) ==
  /\ gone' = gone \cup {<<"instance", n>>} /\ services' = [services EXCEPT ![n] = "unheard"]
  /\ last' = [last EXCEPT ![n] = "bye"] /\ told' = [told EXCEPT ![n] = @ \ {"place"}]

(* Its A record without time to live. *)
AddressGone(n) == heard' = [heard EXCEPT ![n] = None] /\ told' = [told EXCEPT ![n] = @ \ {"address"}]
-----------------------------------------------------------------------------
(* The network: a device is given an address, moves, leaves or starts again; *)
(* its goodbye is heard if somebody listens.                                *)

Moved(n, i) ==
  /\ moves < MaxMoves /\ moves' = moves + 1
  /\ \A m \in Names \ {n} : net[m] # i
  /\ net' = [net EXCEPT ![n] = i] /\ had' = [had EXCEPT ![n][i] = 0]
  /\ UNCHANGED <<windowVars, viewVars, asked, stored, records, faults>>

Move(n) == \E i \in Ips \ {net[n]} : Moved(n, i) /\ UNCHANGED <<sightingVars, saidVars>>

SaysGoodbye(n) == phase = "listening" /\ Goodbye(n) /\ UNCHANGED heard

Leave(n) ==
  /\ net[n] # None /\ moves < MaxMoves /\ moves' = moves + 1
  /\ net' = [net EXCEPT ![n] = None]
  /\ \/ SaysGoodbye(n)
     \/ phase = "listening" /\ AddressGone(n) /\ UNCHANGED <<services, gone, last>>
     \/ UNCHANGED <<sightingVars, saidVars>>
  /\ UNCHANGED <<had, windowVars, viewVars, asked, stored, records, faults>>

(* Only the service stops, or starts again. *)
Restart(n) == net[n] # None /\ Moved(n, net[n]) /\ SaysGoodbye(n)
-----------------------------------------------------------------------------
(* record and expire, at the end of a window.                               *)

Complete == {n \in Names : services[n] = "placed" /\ heard[n] # None}
Heard(i) == {n \in Complete : heard[n] = i}

(* The hosts as they are after the window's are folded in; of two at one    *)
(* address the later in the order of a map stays.                           *)
Folded(h) ==
  /\ DOMAIN h = Ips
  /\ \A i \in Ips : IF Heard(i) = {} THEN h[i] = hosts[i]
                    ELSE \E n \in Heard(i) : h[i] = [name |-> n, seen |-> 0]

(* A goodbye has the name of the instance, a host its label and host name.  *)
SaidGoodbye(host) == <<"label", host.name>> \in gone \/ <<"host", host.name>> \in gone

Record ==
  /\ phase = "listening" /\ phase' = "expiring"
  /\ \E h \in [Ips -> {[name |-> n, seen |-> 0] : n \in Complete} \cup {hosts[i] : i \in Ips}] :
       /\ Folded(h)
       /\ hosts' = [i \in Ips |-> IF h[i] # None /\ SaidGoodbye(h[i]) THEN None ELSE h[i]]
  /\ addrs' = [n \in Names |-> IF heard[n] = None THEN addrs[n] ELSE [ip |-> heard[n], seen |-> 0]]
  /\ Nothing /\ questions' = {} /\ records' = 0
  /\ UNCHANGED <<netVars, asked, stored, bounds>>

(* No socket, no query sent, or a read that fails: nothing is recorded. *)
BrowseFails ==
  /\ phase \in {"asleep", "listening"} /\ phase' = "expiring"
  /\ faults < MaxFaults /\ faults' = faults + 1
  /\ Nothing /\ questions' = {} /\ records' = 0
  /\ UNCHANGED <<netVars, viewVars, asked, stored, moves>>

(* Mutant: only the hosts are looked at. *)
OlderHosts(entry) == IF entry = None \/ "ip" \in DOMAIN entry THEN entry
                     ELSE IF entry.seen < TTL THEN [entry EXCEPT !.seen = @ + 1] ELSE None
Older(entry) == IF entry = None THEN None
                ELSE IF entry.seen < TTL THEN [entry EXCEPT !.seen = @ + 1] ELSE None

(* expire, and the sleep after it.  A name was asked about between two       *)
(* sweeps, and may be too old one sweep earlier.                            *)
Expire ==
  /\ phase = "expiring" /\ phase' = "asleep"
  /\ hosts' = [i \in Ips |-> Older(hosts[i])] /\ addrs' = [n \in Names |-> Older(addrs[n])]
  /\ \E early \in SUBSET {n \in Wanted : asked[n] = TTL - 1} :
       asked' = [n \in Names |-> IF asked[n] = None \/ asked[n] = TTL \/ n \in early THEN None
                                 ELSE asked[n] + 1]
  /\ had' = [n \in Names |-> [i \in Ips |-> IF net[n] = i THEN 0
                                            ELSE IF had[n][i] <= TTL THEN had[n][i] + 1
                                            ELSE had[n][i]]]
  /\ UNCHANGED <<net, questions, sightingVars, stored, saidVars, records, bounds>>

-----------------------------------------------------------------------------
(* ResolveAddress, and the round of WatchAddresses.                         *)

Answers(n) ==
  LET listed == {i \in Ips : hosts[i] # None /\ hosts[i].name = n} IN
  IF listed # {} THEN listed ELSE IF addrs[n] # None THEN {addrs[n].ip} ELSE {}

(* Mutant: a name that cannot be answered yet is not remembered. *)
WantNothing(n) == UNCHANGED asked

Want(n) ==
  IF Cardinality(Wanted) >= MaxDirect /\ n \notin Wanted THEN UNCHANGED asked
  ELSE asked' = [asked EXCEPT ![n] = 0]

(* A stored address that is an address is left as it is; SetAddress may fail. *)
Watch(c) ==
  /\ stored[c] = ByName /\ Want(c)
  /\ \/ Answers(c) = {} /\ UNCHANGED <<stored, faults>>
     \/ \E i \in Answers(c) : stored' = [stored EXCEPT ![c] = i] /\ UNCHANGED faults
     \/ Answers(c) # {} /\ faults < MaxFaults /\ faults' = faults + 1 /\ UNCHANGED stored
  /\ UNCHANGED <<netVars, windowVars, sightingVars, viewVars, saidVars, records, moves>>

Next == \/ Browse \/ AskAgain \/ Record \/ BrowseFails \/ Expire
        \/ \E n \in Names : \/ HearName(n) \/ HearPlace(n) \/ HearAddress(n)
                            \/ Move(n) \/ Leave(n) \/ Restart(n)
        \/ \E c \in Cameras : Watch(c)

(* Run and WatchAddresses are loops on timers; an answer stands for two      *)
(* rounds of WatchAddresses.  A device that is asked about its name again    *)
(* and again answers now and then.                                          *)
Answer(n) == n \in questions /\ HearAddress(n)
Found(c) == Answers(c) # {} /\ Watch(c)
Fairness == /\ WF_vars(Browse) /\ WF_vars(Record) /\ WF_vars(Expire)
            /\ \A c \in Cameras : WF_vars(Watch(c)) /\ SF_vars(Found(c)) /\ SF_vars(Answer(c))

Spec == Init /\ [][Next]_vars /\ Fairness
-----------------------------------------------------------------------------
(* Properties.                                                              *)

(* ResolveAddress answers only with addresses the device had, at most       *)
(* entryTTL ago: nothing outlives expire, through missed sweeps, moves and   *)
(* devices that take over each other's address.                             *)
AnswersWereTrue == \A n \in Names : \A i \in Answers(n) : had[n][i] <= TTL

(* What a window heard of a device, in whatever order and however many       *)
(* answers it came in, is put together: a device that gave its place and its *)
(* address and did not say goodbye is listed there when the window ends, or  *)
(* another is that gave the same address.                                   *)
AnswersAssembled ==
  [][Record => \A n \in Names :
       told[n] = {"place", "address"} /\ <<"instance", n>> \notin gone =>
         /\ heard[n] # None /\ hosts'[heard[n]] # None /\ hosts'[heard[n]].seen = 0
         /\ hosts'[heard[n]].name = n \/ heard[hosts'[heard[n]].name] = heard[n]]_vars

(* A device whose last word in a window was goodbye is not offered for what  *)
(* it said before it.                                                       *)
GoodbyeNotRenewed ==
  [][Record => \A n \in Names : last[n] = "bye" =>
       \A i \in Ips : hosts'[i] # None /\ hosts'[i].name = n => hosts'[i] = hosts[i]]_vars

(* Once the network stays as it is, ResolveAddress comes to answer nothing   *)
(* but where a device is.                                                   *)
StaleAnswersEnd == <>[](\A n \in Names : Answers(n) \subseteq {net[n]})

(* A camera configured by name, that is on the network and answers for its   *)
(* name, gets an address, whether or not it ever advertises its service.    *)
NamesResolved ==
  \A c \in Cameras : stored[c] = ByName /\ net[c] # None ~> stored[c] # ByName \/ net[c] = None

(* README.md:93: address changes are followed.  Refuted: a stored address    *)
(* that is an address is never resolved again.                              *)
Followed == <>[](\A c \in Cameras : net[c] # None => stored[c] = net[c])

(* discovery.go:229: a device that said goodbye is gone now.  Refuted: the   *)
(* names compared are never equal.                                          *)
GoodbyeIsGone ==
  [][Record => \A n \in Names : last[n] = "bye" =>
       \A i \in Ips : hosts'[i] = None \/ hosts'[i].name # n]_vars

(* A device that came back in the window it left in is listed.  Refuted: a   *)
(* goodbye stands for the rest of the window.                               *)
ReturnListed ==
  [][Record => \A n \in Names : last[n] = "here" /\ told[n] = {"place", "address"} =>
       hosts'[heard[n]] # None /\ hosts'[heard[n]].seen = 0]_vars

(* A name asked for is answered with the address it last gave.  Refuted: the *)
(* hosts are looked at first, and an old one stays until it expires.        *)
NewestAnswer == \A n \in Names :
  addrs[n] # None /\ addrs[n].seen = 0 => Answers(n) = {addrs[n].ip}
=============================================================================
