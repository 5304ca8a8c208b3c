----------------------------- MODULE Discovery -----------------------------
(***************************************************************************)
(* Devices finding each other on the LAN (desktop/internal/discovery:      *)
(* service.go, beacon.go) and the probe that drops a device that no longer *)
(* answers (desktop/relay_app.go runLANProbe).  Every node runs the same   *)
(* code; a node is its address.                                            *)
(*                                                                         *)
(* Time is counted in beacon intervals; datagrams arrive or are lost       *)
(* within one.                                                             *)
(***************************************************************************)
EXTENDS Integers, FiniteSets

CONSTANTS
  Nodes,        \* devices
  RelayPeers,   \* pairs <<n, m>>: n's relay client lists m
  TTL,          \* peerTTL, in beacon intervals
  ProbeFails,   \* probeFailures
  MaxMoves,     \* bound on nodes coming to and leaving the network
  MaxKicks      \* bound on kicks of the beacon, losses and mDNS sightings

VARIABLES
  on,       \* the nodes on the network
  age,      \* [Nodes -> [Nodes -> intervals since the last sighting, or Unseen]]
  air,      \* datagrams under way: from, to, whether it is a query
  replied,  \* [Nodes -> those answered within the last second]
  due,      \* [Nodes -> whether the beacon's ticker has ticked]
  kicked,   \* [Nodes -> whether the beacon's kick channel is full]
  browsing, \* [Nodes -> whether an mDNS session runs]
  rescan,   \* [Nodes -> whether the rescan channel is full]
  probe,    \* [Nodes -> what the LAN probe is dialing and whether it was there then]
  fails,    \* [Nodes -> [Nodes -> failed dials in a row]]
  moves, kicks

dVars == <<on, age, air, replied, due, kicked, browsing, rescan, probe, fails, moves, kicks>>

Unseen == -1
NoProbe == [of |-> {}, there |-> FALSE]
Listed(n) == {m \in Nodes : age[n][m] # Unseen}

TypeOK ==
  /\ on \subseteq Nodes
  /\ age \in [Nodes -> [Nodes -> (0..TTL) \union {Unseen}]]
  /\ \A n \in Nodes : n \notin Listed(n)
  /\ air \subseteq [from : Nodes, to : Nodes, q : BOOLEAN]
  /\ replied \in [Nodes -> SUBSET Nodes] /\ due \in [Nodes -> BOOLEAN]
  /\ kicked \in [Nodes -> BOOLEAN] /\ browsing \in [Nodes -> BOOLEAN]
  /\ rescan \in [Nodes -> BOOLEAN]
  /\ \A n \in Nodes : Cardinality(probe[n].of) <= 1
  /\ fails \in [Nodes -> [Nodes -> 0..ProbeFails - 1]]

Init ==
  /\ on \in {{}, Nodes}
  /\ age = [n \in Nodes |-> [m \in Nodes |-> Unseen]]
  /\ air = {} /\ replied = [n \in Nodes |-> {}]
  /\ due = [n \in Nodes |-> TRUE] /\ kicked = [n \in Nodes |-> FALSE]
  /\ browsing = [n \in Nodes |-> FALSE] /\ rescan = [n \in Nodes |-> FALSE]
  /\ probe = [n \in Nodes |-> NoProbe]
  /\ fails = [n \in Nodes |-> [m \in Nodes |-> 0]]
  /\ moves = 0 /\ kicks = 0

-----------------------------------------------------------------------------
(* The list of peers. *)

Upsert(n, m) == age' = [age EXCEPT ![n][m] = 0]

Drop(n, ms) == age' = [age EXCEPT ![n] = [m \in Nodes |-> IF m \in ms THEN Unseen ELSE @[m]]]

Stale(n) == {m \in Listed(n) : age[n][m] = TTL}

(* evictStalePeers. *)
Reap(n) ==
  /\ Stale(n) # {}
  /\ Drop(n, Stale(n))
  /\ UNCHANGED <<on, air, replied, due, kicked, browsing, rescan, probe, fails, moves, kicks>>

-----------------------------------------------------------------------------
(* The beacon. *)

Sent(n, ms, q) == IF n \in on THEN {[from |-> n, to |-> m, q |-> q] : m \in ms} ELSE {}

(* Wrong variant: the beacon only asks when it is kicked. *)
Query_OnKick(n) ==
  /\ kicked[n]
  /\ due' = [due EXCEPT ![n] = FALSE] /\ kicked' = [kicked EXCEPT ![n] = FALSE]
  /\ air' = air \union Sent(n, on \ {n}, TRUE)
  /\ UNCHANGED <<on, age, replied, browsing, rescan, probe, fails, moves, kicks>>

(* run: one query per tick or kick, broadcast to the network.              *)
Query(n) ==
  /\ \/ due[n] /\ due' = [due EXCEPT ![n] = FALSE] /\ UNCHANGED kicked
     \/ kicked[n] /\ kicked' = [kicked EXCEPT ![n] = FALSE] /\ UNCHANGED due
  /\ air' = air \union Sent(n, on \ {n}, TRUE)
  /\ UNCHANGED <<on, age, replied, browsing, rescan, probe, fails, moves, kicks>>

(* listen: a sighting; a query is answered once per second and address.    *)
Hear(x) ==
  LET n == x.to reply == x.q /\ x.from \notin replied[n] IN
  /\ x \in air /\ n \in on
  /\ Upsert(n, x.from)
  /\ air' = (air \ {x}) \union IF reply THEN Sent(n, {x.from}, FALSE) ELSE {}
  /\ replied' = IF reply THEN [replied EXCEPT ![n] = @ \union {x.from}] ELSE replied
  /\ UNCHANGED <<on, due, kicked, browsing, rescan, probe, fails, moves, kicks>>

(* A datagram does not arrive: its receiver is gone, or the network drops  *)
(* it.                                                                     *)
Lose(x) ==
  /\ x \in air /\ (x.to \in on => kicks < MaxKicks)
  /\ air' = air \ {x}
  /\ kicks' = IF x.to \in on THEN kicks + 1 ELSE kicks
  /\ UNCHANGED <<on, age, replied, due, kicked, browsing, rescan, probe, fails, moves>>

Second ==
  /\ replied' = [n \in Nodes |-> {}] /\ replied # replied'
  /\ UNCHANGED <<on, age, air, due, kicked, browsing, rescan, probe, fails, moves, kicks>>

-----------------------------------------------------------------------------
(* mDNS. *)

(* Rescan: each of its two channels holds one request. *)
Rescan(n) ==
  /\ kicks < MaxKicks
  /\ kicks' = kicks + 1
  /\ rescan' = [rescan EXCEPT ![n] = TRUE] /\ kicked' = [kicked EXCEPT ![n] = TRUE]
  /\ UNCHANGED <<on, age, air, replied, due, browsing, probe, fails, moves>>

(* browseLoop: a session ends with its interval or for a rescan, and the   *)
(* next begins after a pause.                                              *)
Browse(n) ==
  /\ \/ browsing' = [browsing EXCEPT ![n] = ~@] /\ UNCHANGED rescan
     \/ /\ browsing[n] /\ rescan[n]
        /\ browsing' = [browsing EXCEPT ![n] = FALSE]
        /\ rescan' = [rescan EXCEPT ![n] = FALSE]
  /\ UNCHANGED <<on, age, air, replied, due, kicked, probe, fails, moves, kicks>>

(* handleEntry: mDNS works on some networks only. *)
Resolve(n, m) ==
  /\ browsing[n] /\ {n, m} \subseteq on /\ n # m /\ kicks < MaxKicks
  /\ kicks' = kicks + 1
  /\ Upsert(n, m)
  /\ UNCHANGED <<on, air, replied, due, kicked, browsing, rescan, probe, fails, moves>>

-----------------------------------------------------------------------------
(* runLANProbe, for peers that are on the relay too. *)

ProbeDial(n, m) ==
  /\ probe[n] = NoProbe /\ m \in Listed(n) /\ <<n, m>> \in RelayPeers
  /\ probe' = [probe EXCEPT ![n] = [of |-> {m}, there |-> {n, m} \subseteq on]]
  /\ UNCHANGED <<on, age, air, replied, due, kicked, browsing, rescan, fails, moves, kicks>>

(* The dial answers at best if the node was there at its beginning or is   *)
(* at its end, and need not do so in its second and a half.  One that does *)
(* clears the count, the second that does not evicts the address, sighted  *)
(* again meanwhile or not.  Counts of addresses that are no longer listed  *)
(* are dropped.                                                            *)
ProbeEnds(n, m) ==
  /\ m \in probe[n].of
  /\ probe' = [probe EXCEPT ![n] = NoProbe]
  /\ \E answers \in BOOLEAN :
       LET f == fails[n][m] + 1
           evict == ~answers /\ f >= ProbeFails
       IN
       /\ answers => probe[n].there \/ {n, m} \subseteq on
       /\ fails' = [fails EXCEPT ![n] = [x \in Nodes |->
                      IF x = m THEN IF answers \/ evict THEN 0 ELSE f
                      ELSE IF x \in Listed(n) THEN @[x] ELSE 0]]
       /\ IF evict THEN Drop(n, {m}) ELSE UNCHANGED age
  /\ UNCHANGED <<on, air, replied, due, kicked, browsing, rescan, moves, kicks>>

-----------------------------------------------------------------------------
Move(n) ==
  /\ moves < MaxMoves
  /\ moves' = moves + 1
  /\ on' = IF n \in on THEN on \ {n} ELSE on \union {n}
  /\ UNCHANGED <<age, air, replied, due, kicked, browsing, rescan, probe, fails, kicks>>

(* One beacon interval passes. *)
Interval ==
  /\ air = {} /\ \A n \in Nodes : ~due[n] /\ replied[n] = {} /\ Stale(n) = {}
  /\ due' = [n \in Nodes |-> TRUE]
  /\ age' = [n \in Nodes |-> [m \in Nodes |-> IF m \in Listed(n) THEN age[n][m] + 1 ELSE Unseen]]
  /\ UNCHANGED <<on, air, replied, kicked, browsing, rescan, probe, fails, moves, kicks>>

ProbeStep(n) == \E m \in Nodes : ProbeEnds(n, m)

NodeStep(n) == Reap(n) \/ Query(n) \/ ProbeStep(n)

AirStep == \E x \in air : Hear(x) \/ Lose(x)

Next ==
  \/ \E n \in Nodes : NodeStep(n) \/ Rescan(n) \/ Browse(n) \/ Move(n)
  \/ \E n, m \in Nodes : Resolve(n, m) \/ ProbeDial(n, m)
  \/ AirStep \/ Second \/ Interval

Spec == Init /\ [][Next]_dVars

(* Time passes, loops run, dials end, and datagrams arrive or are lost.    *)
Fairness ==
  /\ WF_dVars(AirStep) /\ WF_dVars(Second) /\ WF_dVars(Interval)
  /\ \A n \in Nodes : WF_dVars(Reap(n)) /\ WF_dVars(Query(n)) /\ WF_dVars(ProbeStep(n))

FairSpec == Spec /\ Fairness

-----------------------------------------------------------------------------
(* Two devices that stay on the network list each other again and again,   *)
(* whatever a late probe evicted and even where mDNS does not work; and a  *)
(* device that left is in the end listed by nobody.                        *)
PresenceSettles ==
  \A n, m \in Nodes : n # m =>
    /\ <>[]({n, m} \subseteq on) => []<>(m \in Listed(n))
    /\ <>[](m \notin on) => <>[](m \notin Listed(n))
=============================================================================
