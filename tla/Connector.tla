----------------------------- MODULE Connector -----------------------------
(***************************************************************************)
(* The connector (desktop/links_app.go runConnector, connect): each pass   *)
(* gathers where every paired device can be tried, then dials the ones     *)
(* without a link, or with a slower one, backing off from those that fail. *)
(*                                                                         *)
(* Time is counted in ticks of connectInterval.  A route is the relay or a *)
(* LAN path of some speed; dials over one device's routes are one step,    *)
(* which ends with what the network lets through at that moment.           *)
(***************************************************************************)
EXTENDS Integers, FiniteSets

CONSTANTS
  Devices,      \* the other devices
  MaxSpeed,     \* LAN paths are numbered by their speed, 1..MaxSpeed
  Reused,       \* paths whose address a device of another group can get
  BackoffSeen, BackoffKnown, BackoffOtherGroup,   \* caps, in ticks
  MaxFailures,  \* failures are counted up to here: more change nothing
  MaxChanges    \* bound on changes of the network

VARIABLES
  seen,       \* [Devices -> LAN paths discovery sees the device on]
  relayed,    \* the devices on the relay client's list
  lastPath,   \* [Devices -> the path in devices.json, or NoPath]
  reach,      \* [Devices -> routes that work]
  strange,    \* paths whose address a device of another group has now
  links,      \* [Devices -> the route of the link, or NoPath]
  dead,       \* devices whose link no longer answers
  probing,    \* devices whose link is being probed
  kick,       \* whether connectKick holds a kick
  todo,       \* what this pass has yet to look at: device and candidate
  wait, failures,  \* [Devices -> ticks until the next dial; failed dials]
  dial,       \* [Devices -> the candidate being dialed, or Idle]
  turns       \* changes of the network so far

cVars == <<seen, relayed, lastPath, reach, strange, links, dead, probing, kick, todo,
           wait, failures, dial, turns>>

NoPath == -1
Relay  == 0
Paths  == 1..MaxSpeed
Routes == Paths \union {Relay}
Idle   == [busy |-> FALSE, lan |-> {}, seen |-> FALSE, relay |-> FALSE, have |-> FALSE]
Candidates == [lan : SUBSET Paths, seen : BOOLEAN, relay : BOOLEAN]

TypeOK ==
  /\ seen \in [Devices -> SUBSET Paths] /\ relayed \subseteq Devices
  /\ lastPath \in [Devices -> Paths \union {NoPath}]
  /\ reach \in [Devices -> SUBSET Routes] /\ strange \subseteq Reused
  /\ links \in [Devices -> Routes \union {NoPath}]
  /\ dead \subseteq {d \in Devices : links[d] # NoPath} /\ probing \subseteq Devices
  /\ kick \in BOOLEAN /\ todo \subseteq Devices \X Candidates
  /\ wait \in [Devices -> 0..BackoffOtherGroup] /\ failures \in [Devices -> 0..MaxFailures]
  /\ \A d \in Devices : dial[d].lan \subseteq Paths /\ dial[d].busy \in BOOLEAN

Init ==
  /\ seen = [d \in Devices |-> {}] /\ relayed = {}
  /\ lastPath = [d \in Devices |-> NoPath]
  /\ reach = [d \in Devices |-> {}] /\ strange = {}
  /\ links = [d \in Devices |-> NoPath]
  /\ dead = {} /\ probing = {} /\ kick = FALSE /\ todo = {}
  /\ wait = [d \in Devices |-> 0] /\ failures = [d \in Devices |-> 0]
  /\ dial = [d \in Devices |-> Idle]
  /\ turns = 0

Least(x, y) == IF x < y THEN x ELSE y

-----------------------------------------------------------------------------
(* A pass. *)

(* Where d can be tried: where discovery sees it, or else the address that *)
(* worked last, and the relay.                                             *)
Candidate(d) ==
  [lan   |-> IF seen[d] = {} /\ lastPath[d] # NoPath THEN {lastPath[d]} ELSE seen[d],
   seen  |-> seen[d] # {},
   relay |-> d \in relayed]

Gathered == {<<d, Candidate(d)>> : d \in {x \in Devices : Candidate(x).lan # {} \/ x \in relayed}}

Tick ==
  /\ todo = {}
  /\ wait' = [d \in Devices |-> IF wait[d] = 0 THEN 0 ELSE wait[d] - 1]
  /\ todo' = Gathered
  /\ UNCHANGED <<seen, relayed, lastPath, reach, strange, links, dead, probing, kick, failures, dial, turns>>

(* A kick starts a pass at once, for those that have not failed often.     *)
Kicked ==
  /\ todo = {} /\ kick
  /\ kick' = FALSE
  /\ wait' = [d \in Devices |-> IF failures[d] < 3 THEN 0 ELSE wait[d]]
  /\ todo' = Gathered
  /\ UNCHANGED <<seen, relayed, lastPath, reach, strange, links, dead, probing, failures, dial, turns>>

(* The paths worth dialing: all of them without a direct link, else those  *)
(* clearly faster than the link's.                                         *)
Worth(d, c) == {p \in c.lan : links[d] \notin Paths \/ p > links[d]}

(* The device showing up at several addresses has a direct link checked,   *)
(* unless one was checked in the last ten seconds (left to chance here).   *)
MayProbe(d, c) ==
  \/ UNCHANGED probing
  \/ /\ links[d] \in Paths /\ c.seen /\ Cardinality(c.lan) > 1
     /\ probing' = probing \union {d}

Consider(d, c) ==
  LET go == /\ links[d] # NoPath => Worth(d, c) # {}
            /\ ~dial[d].busy /\ wait[d] = 0
  IN
  /\ <<d, c>> \in todo
  /\ todo' = todo \ {<<d, c>>}
  /\ MayProbe(d, c)
  /\ dial' = IF go THEN [dial EXCEPT ![d] = [busy |-> TRUE, lan |-> Worth(d, c), seen |-> c.seen,
                                             relay |-> c.relay, have |-> links[d] # NoPath]]
                   ELSE dial
  /\ UNCHANGED <<seen, relayed, lastPath, reach, strange, links, dead, kick, wait, failures, turns>>

ProbeEnds(d) ==
  /\ d \in probing
  /\ probing' = probing \ {d}
  /\ IF d \in dead
       THEN /\ links' = [links EXCEPT ![d] = NoPath]
            /\ dead' = dead \ {d} /\ kick' = TRUE
       ELSE UNCHANGED <<links, dead, kick>>
  /\ UNCHANGED <<seen, relayed, lastPath, reach, strange, todo, wait, failures, dial, turns>>

-----------------------------------------------------------------------------
(* connect and what the goroutine does with its result. *)

(* The paths over which the link manager would take a link to d, and those *)
(* where a device of another group answers before.                         *)
Good(d) == {p \in dial[d].lan \intersect reach[d] : p > links[d]}

Strangers(d) == {p \in dial[d].lan \intersect strange : \A q \in Good(d) : p > q}

(* The relay is tried last, and only without a link. *)
ByRelay(d) ==
  Good(d) = {} /\ dial[d].relay /\ ~dial[d].have /\ Relay \in reach[d]
    /\ d \in relayed /\ links[d] = NoPath

Connects(d) == Strangers(d) = {} /\ (Good(d) # {} \/ ByRelay(d))

(* The link manager has a new link to d, whose address is remembered.      *)
Opened(d, r) ==
  /\ links' = [links EXCEPT ![d] = r]
  /\ dead' = dead \ {d}
  /\ lastPath' = IF r \in Paths THEN [lastPath EXCEPT ![d] = r] ELSE lastPath

DialSucceeds(d) ==
  /\ dial[d].busy /\ Connects(d)
  /\ IF Good(d) = {} THEN Opened(d, Relay)
     ELSE \E r \in Good(d) : (\A s \in Good(d) : r >= s) /\ Opened(d, r)
  /\ dial' = [dial EXCEPT ![d] = Idle]
  /\ failures' = [failures EXCEPT ![d] = 0]
  /\ wait' = [wait EXCEPT ![d] = 0]
  /\ UNCHANGED <<seen, relayed, reach, strange, probing, kick, todo, turns>>

Backoff(d, n) ==
  IF Strangers(d) # {} THEN BackoffOtherGroup
  ELSE Least(2 ^ n, IF dial[d].seen THEN BackoffSeen ELSE BackoffKnown)

(* Wrong variant: the state stays busy after a failure. *)
DialFails_StaysBusy(d) ==
  LET n == Least(failures[d] + 1, MaxFailures) IN
  /\ dial[d].busy /\ ~Connects(d)
  /\ failures' = [failures EXCEPT ![d] = n]
  /\ wait' = [wait EXCEPT ![d] = Backoff(d, n)]
  /\ UNCHANGED <<seen, relayed, lastPath, reach, strange, links, dead, probing, kick, todo, dial, turns>>

(* No address answers, or one with another group's key: the others and the *)
(* relay are then not tried, and the pause is the longest.                 *)
DialFails(d) ==
  LET n == Least(failures[d] + 1, MaxFailures) IN
  /\ dial[d].busy /\ ~Connects(d)
  /\ dial' = [dial EXCEPT ![d] = Idle]
  /\ failures' = [failures EXCEPT ![d] = n]
  /\ wait' = [wait EXCEPT ![d] = Backoff(d, n)]
  /\ UNCHANGED <<seen, relayed, lastPath, reach, strange, links, dead, probing, kick, todo, turns>>

-----------------------------------------------------------------------------
(* Everything else. *)

(* serve ends a link that died, after deadAfter without a packet.          *)
LinkTimesOut(d) ==
  /\ d \in dead
  /\ links' = [links EXCEPT ![d] = NoPath]
  /\ dead' = dead \ {d}
  /\ UNCHANGED <<seen, relayed, lastPath, reach, strange, probing, kick, todo, wait, failures, dial, turns>>

(* Sightings and the relay's list change, and kick the connector.          *)
Notice(d) ==
  /\ \/ \E p \in SUBSET Paths : seen' = [seen EXCEPT ![d] = p] /\ UNCHANGED relayed
     \/ \E r \in SUBSET Devices : relayed' = r /\ UNCHANGED seen
  /\ kick' = TRUE
  /\ UNCHANGED <<lastPath, reach, strange, links, dead, probing, todo, wait, failures, dial>>

(* Routes come and go, and the address of one can pass to a stranger; a    *)
(* link over one that went no longer answers.                              *)
Move(d) ==
  /\ \E r \in SUBSET Routes, s \in SUBSET Reused :
       /\ r \intersect s = {}
       /\ reach' = [reach EXCEPT ![d] = r] /\ strange' = s
       /\ dead' = IF links[d] # NoPath /\ links[d] \notin r THEN dead \union {d} ELSE dead
  /\ UNCHANGED <<seen, relayed, lastPath, links, probing, kick, todo, wait, failures, dial>>

(* The other device opened a link. *)
PeerLinks(d) ==
  /\ \E r \in reach[d] : r > links[d] /\ Opened(d, r)
  /\ UNCHANGED <<seen, relayed, reach, strange, probing, kick, todo, wait, failures, dial>>

NetworkStep(d) ==
  /\ turns < MaxChanges
  /\ turns' = turns + 1
  /\ Notice(d) \/ Move(d) \/ PeerLinks(d)

PassGoesOn(d) == \E c \in Candidates : Consider(d, c)
DialEnds(d)   == DialSucceeds(d) \/ DialFails(d)

Work(d) == PassGoesOn(d) \/ ProbeEnds(d) \/ DialEnds(d) \/ LinkTimesOut(d)

Next == Tick \/ Kicked \/ \E d \in Devices : Work(d) \/ NetworkStep(d)

Spec == Init /\ [][Next]_cVars

(* The ticker ticks, the pass goes through its candidates, a dial and a    *)
(* probe have their timeouts, and a dead link its read deadline.           *)
Fairness ==
  /\ WF_cVars(Tick)
  /\ \A d \in Devices : WF_cVars(PassGoesOn(d)) /\ WF_cVars(DialEnds(d)) /\ WF_cVars(LinkTimesOut(d))

FairSpec == Spec /\ Fairness

-----------------------------------------------------------------------------
(* A route that works and that discovery or the relay shows, while no      *)
(* address d would be tried at belongs to another group's device: such an  *)
(* answer ends the attempt.                                                *)
Offered(d, r) ==
  /\ r \in reach[d] /\ (IF r = Relay THEN d \in relayed ELSE r \in seen[d])
  /\ Candidate(d).lan \intersect strange = {}

(* links_app.go: "the connector tries, for each paired device it knows     *)
(* about" and "a relay link is upgraded as soon as the LAN works again":   *)
(* while a route is offered, the device gets a link at least as fast,      *)
(* whatever failed before and however long that made the connector wait.   *)
BestRouteWins ==
  \A d \in Devices, r \in Routes :
    []<>(Offered(d, r) => links[d] >= r)
=============================================================================
