---------------------------- MODULE LinkManager ----------------------------
(***************************************************************************)
(* How two paired devices agree on the one link between them               *)
(* (desktop/internal/link/link.go, mobile/lib/services/link/link.dart,     *)
(* with the decision to dial of desktop/links_app.go and                   *)
(* mobile/lib/providers/link_provider.dart).                               *)
(*                                                                         *)
(* Either side may dial.  Every connection that reaches the link manager   *)
(* exchanges identities and is then registered on each side independently: *)
(* it replaces the current link when it is better, otherwise the current   *)
(* link is pinged and the new one is refused only if an answer comes back. *)
(*                                                                         *)
(* Packets are abstracted to identity, ping and pong.  A connection's path *)
(* can go silently dead (Wi-Fi off): nothing sent on it arrives any more,  *)
(* not even the closing of its other end.                                  *)
(***************************************************************************)
EXTENDS Integers, FiniteSets

CONSTANTS
  Low, High,   \* the two devices; Low has the lower device ID
  Phones,      \* those of them that run the mobile code
  Conns,       \* the connections that can be opened (each is used once)
  Prios,       \* the path speeds a computer dials with
  None,        \* no connection
  UserDials,   \* TRUE when a user may also dial by address
  MaxFaults,   \* bound on the number of paths that go dead
  MaxChecks    \* bound on the number of network-change checks

Dev == {Low, High}

ASSUME DevAssumption == Low # High /\ Phones \subseteq Dev
ASSUME ConnAssumption == None \notin Conns /\ IsFiniteSet(Conns)
ASSUME PrioAssumption == Prios \subseteq Nat \ {0}
ASSUME BoundAssumption ==
  UserDials \in BOOLEAN /\ MaxFaults \in Nat /\ MaxChecks \in Nat

VARIABLES
  plan,    \* [Dev -> what the connector's running attempt has left to try]
  conn,    \* [Conns -> what is fixed when the connection is dialed]
  end,     \* [Dev -> [Conns -> phase of the device's end of the connection]]
  links,   \* [Dev -> the link registered for the other device, or None]
  net,     \* [Dev -> [Conns -> packets on their way to the device]]
  probe,   \* [Dev -> [Conns -> the probe made before refusing the connection]]
  check,   \* [Dev -> the probe made after a network change]
  path,    \* [Conns -> BOOLEAN], FALSE once the path went dead
  checks   \* number of network-change checks made

vars == <<plan, conn, end, links, net, probe, check, path, checks>>

Peer(d) == IF d = Low THEN High ELSE Low

Routes  == {"direct", "relay"}
Packets == {"identity", "ping", "pong"}

(* dialing: the dialer waits for the accept byte; hello: RunPrio waits for *)
(* the peer's identity; probing: register waits for the old link's answer; *)
(* open: registered and served; closed: Close was called.                  *)
Phases == {"none", "dialing", "hello", "probing", "open", "closed"}

ConnInfo  == [dialer : Dev, route : Routes, prio : Nat, by : {"connector", "user"}]
ProbeInfo == [old : Conns \union {None}, heard : BOOLEAN, late : BOOLEAN]
NoProbe   == [old |-> None, heard |-> FALSE, late |-> FALSE]
Probing(o) == [old |-> o, heard |-> FALSE, late |-> FALSE]

Tries     == [route : Routes, prio : Nat]

TypeOK ==
  /\ plan \in [Dev -> SUBSET Tries]
  /\ conn \in [Conns -> ConnInfo]
  /\ end \in [Dev -> [Conns -> Phases]]
  /\ links \in [Dev -> Conns \union {None}]
  /\ net \in [Dev -> [Conns -> SUBSET Packets]]
  /\ probe \in [Dev -> [Conns -> ProbeInfo]]
  /\ check \in [Dev -> ProbeInfo]
  /\ path \in [Conns -> BOOLEAN]
  /\ checks \in Nat

Init ==
  /\ plan = [d \in Dev |-> {}]
  /\ conn = [c \in Conns |->
              [dialer |-> Low, route |-> "direct", prio |-> 0, by |-> "connector"]]
  /\ end = [d \in Dev |-> [c \in Conns |-> "none"]]
  /\ links = [d \in Dev |-> None]
  /\ net = [d \in Dev |-> [c \in Conns |-> {}]]
  /\ probe = [d \in Dev |-> [c \in Conns |-> NoProbe]]
  /\ check = [d \in Dev |-> NoProbe]
  /\ path = [c \in Conns |-> TRUE]
  /\ checks = 0

-----------------------------------------------------------------------------
(* Wrong variant: of two links of the same kind the newest is taken. *)
Better_NewestWins(a, b) ==
  \/ conn[a].route # conn[b].route /\ conn[a].route = "direct"
  \/ conn[a].route = conn[b].route /\ conn[a].prio >= conn[b].prio

(* Wrong variant: the dialer decides before the speed of the path. *)
Better_DialerFirst(a, b) ==
  \/ conn[a].dialer = Low /\ conn[b].dialer # Low
  \/ /\ conn[a].dialer = conn[b].dialer
     /\ \/ conn[a].route # conn[b].route /\ conn[a].route = "direct"
        \/ conn[a].route = conn[b].route /\ conn[a].prio > conn[b].prio

(* Which of two links to the same device is kept. *)
Better(a, b) ==
  \/ /\ conn[a].route # conn[b].route
     /\ conn[a].route = "direct"
  \/ /\ conn[a].route = conn[b].route
     /\ conn[a].prio > conn[b].prio
  \/ /\ conn[a].route = conn[b].route
     /\ conn[a].prio = conn[b].prio
     /\ conn[a].dialer = Low
     /\ conn[b].dialer # Low

(* The packets p sent on c to d: lost when the path is dead. *)
Sent(d, c, p) ==
  [net EXCEPT ![d][c] = IF path[c] THEN @ \union {p} ELSE @]

(* The link d has that is not closed, or None. *)
Current(d) ==
  IF links[d] # None /\ end[d][links[d]] # "closed" THEN links[d] ELSE None

Pending(d, c) == end[d][c] \in {"dialing", "hello", "probing"}

-----------------------------------------------------------------------------
(* Dialing.  The connector looks whether there is a link and, unless it is *)
(* at it already (busy), tries the addresses it knows, the fastest first   *)
(* and the relay last, until one works.  What it read may be old by then.  *)

(* What device d may try, given the link it has. *)
Options(d) ==
  LET cur    == links[d]
      relay  == IF cur = None THEN {[route |-> "relay", prio |-> 0]} ELSE {}
      speeds == IF d \in Phones THEN {0} ELSE Prios
      Worth(p) == \/ cur = None \/ conn[cur].route = "relay"
                  \/ d \notin Phones /\ p > conn[cur].prio
  IN  relay \union [route : {"direct"}, prio : {p \in speeds : cur # None => Worth(p)}]

Busy(d) ==
  \/ plan[d] # {}
  \/ \E c \in Conns : conn[c].dialer = d /\ conn[c].by = "connector" /\ Pending(d, c)

Tick(d) ==
  /\ ~Busy(d)
  /\ \E tries \in SUBSET Options(d) : tries # {} /\ plan' = [plan EXCEPT ![d] = tries]
  /\ UNCHANGED <<conn, end, links, net, probe, check, path, checks>>

NewConn(d, c, t, who) ==
  /\ conn' = [conn EXCEPT ![c] = [dialer |-> d, route |-> t.route, prio |-> t.prio, by |-> who]]
  /\ end' = [end EXCEPT ![d][c] = "dialing"]
  /\ UNCHANGED <<links, net, probe, check, path, checks>>

ConnectorDials(d, c) ==
  /\ \A x \in Conns : ~(conn[x].dialer = d /\ conn[x].by = "connector" /\ Pending(d, x))
  /\ \E t \in plan[d] :
       /\ \A u \in plan[d] \ {t} : u.route = "relay" \/ (t.route = "direct" /\ t.prio > u.prio)
       /\ NewConn(d, c, t, "connector")
       /\ plan' = [plan EXCEPT ![d] = @ \ {t}]

(* ConnectByIP dials whatever link there is already. *)
UserConnects(d, c) ==
  /\ UserDials /\ d \notin Phones
  /\ \E p \in Prios : NewConn(d, c, [route |-> "direct", prio |-> p], "user")
  /\ UNCHANGED plan

(* The peer answers the link offer with the accept byte; both sides enter  *)
(* RunPrio, which first sends their identity.                              *)
Accepted(d, c) ==
  LET p == Peer(d) IN
  /\ end[d][c] = "dialing" /\ path[c]
  /\ end' = [end EXCEPT ![d][c] = "hello", ![p][c] = "hello"]
  /\ net' = [net EXCEPT ![d][c] = {"identity"}, ![p][c] = {"identity"}]
  /\ UNCHANGED <<plan, conn, links, probe, check, path, checks>>

DialFails(d, c) ==
  /\ end[d][c] = "dialing" /\ ~path[c]
  /\ end' = [end EXCEPT ![d][c] = "closed"]
  /\ UNCHANGED <<plan, conn, links, net, probe, check, path, checks>>

-----------------------------------------------------------------------------
(* Registering. *)

(* Wrong variant: the link that is replaced stays open. *)
Take_KeepsOld(d, c, old) ==
  /\ plan' = IF conn[c].dialer = d /\ conn[c].by = "connector"
               THEN [plan EXCEPT ![d] = {}] ELSE plan
  /\ links' = [links EXCEPT ![d] = c]
  /\ end' = [end EXCEPT ![d][c] = "open"]

(* c becomes the link of d, its connector is done if it dialed c, and the  *)
(* link c replaces, if any, is closed.                                     *)
Take(d, c, old) ==
  /\ plan' = IF conn[c].dialer = d /\ conn[c].by = "connector"
               THEN [plan EXCEPT ![d] = {}] ELSE plan
  /\ links' = [links EXCEPT ![d] = c]
  /\ end' = [end EXCEPT ![d] = [x \in Conns |->
               IF x = c THEN "open" ELSE IF x = old THEN "closed" ELSE @[x]]]

Refuse(d, c) ==
  /\ end' = [end EXCEPT ![d][c] = "closed"]
  /\ UNCHANGED <<plan, links>>

(* The identity arrives and the link wins, or has no rival. *)
RegisterBetter(d, c) ==
  /\ end[d][c] = "hello" /\ "identity" \in net[d][c]
  /\ Current(d) # None => Better(c, Current(d))
  /\ Take(d, c, Current(d))
  /\ net' = [net EXCEPT ![d][c] = @ \ {"identity"}]
  /\ UNCHANGED <<conn, probe, check, path, checks>>

(* It would lose: ping the link there is, to see that it still works. *)
RegisterProbes(d, c) ==
  /\ end[d][c] = "hello" /\ "identity" \in net[d][c]
  /\ Current(d) # None /\ ~Better(c, Current(d))
  /\ end' = [end EXCEPT ![d][c] = "probing"]
  /\ probe' = [probe EXCEPT ![d][c] = Probing(Current(d))]
  /\ net' = [Sent(Peer(d), Current(d), "ping") EXCEPT ![d][c] = @ \ {"identity"}]
  /\ UNCHANGED <<plan, conn, links, check, path, checks>>

(* The identity never comes: the path is dead or the peer gave up on c. *)
HelloFails(d, c) ==
  /\ end[d][c] = "hello"
  /\ "identity" \notin net[d][c]
  /\ ~path[c] \/ end[Peer(d)][c] = "closed"
  /\ end' = [end EXCEPT ![d][c] = "closed"]
  /\ UNCHANGED <<plan, conn, links, net, probe, check, path, checks>>

(* Whether the probe of a link can end without an answer.  A peer that     *)
(* serves the link answers in time; one whose own register of it waits for *)
(* a probe does not read it for two seconds, as long as this probe lasts.  *)
CanTimeOut(d, pr) ==
  pr.late \/ ~path[pr.old] \/ end[Peer(d)][pr.old] \in {"probing", "closed"}

(* d serves c only now, after a probe: the peer's probes of c waited for it. *)
ServedLate(d, c) ==
  probe' = [probe EXCEPT
    ![d][c] = NoProbe,
    ![Peer(d)] = [x \in Conns |-> IF @[x].old = c THEN [@[x] EXCEPT !.late = TRUE] ELSE @[x]]]

(* What has come in since the probe shows that the old link works. *)
ProbeAnswered(d, c) ==
  /\ end[d][c] = "probing" /\ probe[d][c].heard
  /\ Refuse(d, c)
  /\ probe' = [probe EXCEPT ![d][c] = NoProbe]
  /\ UNCHANGED <<conn, net, check, path, checks>>

Unanswered(d, pr) ==
  \/ end[d][pr.old] = "closed"
  \/ ~pr.heard /\ CanTimeOut(d, pr)

(* Wrong variant: the old link must still be the registered one. *)
ProbeUnanswered_NoneRefuses(d, c) ==
  LET old == probe[d][c].old IN
  /\ d \notin Phones
  /\ end[d][c] = "probing" /\ Unanswered(d, probe[d][c])
  /\ IF links[d] = old
       THEN Take(d, c, old) /\ ServedLate(d, c)
       ELSE /\ end' = [end EXCEPT ![d][c] = "closed", ![d][old] = "closed"]
            /\ probe' = [probe EXCEPT ![d][c] = NoProbe]
            /\ UNCHANGED <<plan, links>>
  /\ UNCHANGED <<conn, net, check, path, checks>>

(* Wrong variant: the new link is taken without waiting for the probe. *)
ProbeUnanswered_NoWait(d, c) ==
  LET old == probe[d][c].old IN
  /\ d \notin Phones
  /\ end[d][c] = "probing"
  /\ links[d] \in {None, old}
  /\ Take(d, c, old) /\ ServedLate(d, c)
  /\ UNCHANGED <<conn, net, check, path, checks>>

(* Computer: close the old link, and take the new one unless a third link  *)
(* was registered meanwhile.                                               *)
ProbeUnanswered(d, c) ==
  LET old == probe[d][c].old IN
  /\ d \notin Phones
  /\ end[d][c] = "probing" /\ Unanswered(d, probe[d][c])
  /\ IF links[d] \in {None, old}
       THEN Take(d, c, old) /\ ServedLate(d, c)
       ELSE /\ end' = [end EXCEPT ![d][c] = "closed", ![d][old] = "closed"]
            /\ probe' = [probe EXCEPT ![d][c] = NoProbe]
            /\ UNCHANGED <<plan, links>>
  /\ UNCHANGED <<conn, net, check, path, checks>>

(* Phone: refuse unless the old link is still the registered one. *)
PhoneProbeUnanswered(d, c) ==
  LET old == probe[d][c].old IN
  /\ d \in Phones
  /\ end[d][c] = "probing" /\ Unanswered(d, probe[d][c])
  /\ IF links[d] = old
       THEN Take(d, c, old) /\ ServedLate(d, c)
       ELSE /\ Refuse(d, c)
            /\ probe' = [probe EXCEPT ![d][c] = NoProbe]
  /\ UNCHANGED <<conn, net, check, path, checks>>

-----------------------------------------------------------------------------
(* Serving. *)

(* A packet read by the serve loop: it proves the link alive to every      *)
(* probe of it, and a ping is answered.                                    *)
Receive(d, c, p) ==
  /\ end[d][c] = "open" /\ p \in net[d][c] \ {"identity"}
  /\ net' = LET got == IF p = "ping" THEN Sent(Peer(d), c, "pong") ELSE net
            IN  [got EXCEPT ![d][c] = @ \ {p}]
  /\ probe' = [probe EXCEPT ![d] = [x \in Conns |->
                 IF @[x].old = c THEN [@[x] EXCEPT !.heard = TRUE] ELSE @[x]]]
  /\ check' = IF check[d].old = c THEN [check EXCEPT ![d].heard = TRUE] ELSE check
  /\ UNCHANGED <<plan, conn, end, links, path, checks>>

(* The read fails: the peer closed, or nothing came for deadAfter. *)
ReadFails(d, c) ==
  /\ end[d][c] = "open"
  /\ ~path[c] \/ end[Peer(d)][c] = "closed"
  /\ end' = [end EXCEPT ![d][c] = "closed"]
  /\ links' = IF d \in Phones /\ links[d] = c THEN [links EXCEPT ![d] = None] ELSE links
  /\ UNCHANGED <<plan, conn, net, probe, check, path, checks>>

(* Wrong variant: any serve loop that ends removes the registered link. *)
Unregister_ByPeer(d) ==
  /\ links[d] # None /\ \E c \in Conns : end[d][c] = "closed"
  /\ links' = [links EXCEPT ![d] = None]
  /\ UNCHANGED <<plan, conn, end, net, probe, check, path, checks>>

(* Wrong variant: the entry is overwritten instead of deleted. *)
Unregister_Overwrites(d) ==
  /\ links[d] # None /\ end[d][links[d]] = "closed"
  /\ links' = [links EXCEPT ![d] = "closed"]
  /\ UNCHANGED <<plan, conn, end, net, probe, check, path, checks>>

(* The serve loop of a closed link ends and takes it off the map. *)
Unregister(d) ==
  /\ links[d] # None /\ end[d][links[d]] = "closed"
  /\ links' = [links EXCEPT ![d] = None]
  /\ UNCHANGED <<plan, conn, end, net, probe, check, path, checks>>

(* The network changed: ping the direct link ... *)
CheckLink(d) ==
  /\ checks < MaxChecks /\ check[d] = NoProbe
  /\ Current(d) # None /\ conn[Current(d)].route = "direct"
  /\ check' = [check EXCEPT ![d] = Probing(Current(d))]
  /\ net' = Sent(Peer(d), Current(d), "ping")
  /\ checks' = checks + 1
  /\ UNCHANGED <<plan, conn, end, links, probe, path>>

CheckAnswered(d) ==
  /\ check[d].old # None /\ check[d].heard
  /\ check' = [check EXCEPT ![d] = NoProbe]
  /\ UNCHANGED <<plan, conn, end, links, net, probe, path, checks>>

(* ... and close it when no answer comes: the peer does not read it any    *)
(* more (three seconds outlast a register of the peer).                    *)
CheckUnanswered(d) ==
  LET old == check[d].old IN
  /\ old # None
  /\ \/ end[d][old] = "closed"
     \/ ~check[d].heard /\ (~path[old] \/ end[Peer(d)][old] = "closed")
  /\ end' = [end EXCEPT ![d][old] = "closed"]
  /\ check' = [check EXCEPT ![d] = NoProbe]
  /\ UNCHANGED <<plan, conn, links, net, probe, path, checks>>

-----------------------------------------------------------------------------
(* The environment: a path goes dead and takes what is on its way with it. *)
PathDies(c) ==
  /\ path[c] /\ \E d \in Dev : end[d][c] # "none"
  /\ Cardinality({x \in Conns : ~path[x]}) < MaxFaults
  /\ path' = [path EXCEPT ![c] = FALSE]
  /\ net' = [d \in Dev |-> [net[d] EXCEPT ![c] = {}]]
  /\ UNCHANGED <<plan, conn, end, links, probe, check, checks>>

Dial(d, c) ==
  /\ end[Low][c] = "none" /\ end[High][c] = "none"
  /\ ConnectorDials(d, c) \/ UserConnects(d, c)

(* What the code does by itself once a connection was dialed. *)
Step(d, c) ==
  \/ Accepted(d, c) \/ DialFails(d, c)
  \/ RegisterBetter(d, c) \/ RegisterProbes(d, c) \/ HelloFails(d, c)
  \/ ProbeAnswered(d, c) \/ ProbeUnanswered(d, c) \/ PhoneProbeUnanswered(d, c)
  \/ \E p \in Packets : Receive(d, c, p)
  \/ ReadFails(d, c)

DeviceStep(d) ==
  \/ \E c \in Conns : Step(d, c)
  \/ Unregister(d) \/ CheckAnswered(d) \/ CheckUnanswered(d)

Next ==
  \/ \E d \in Dev, c \in Conns : Dial(d, c)
  \/ \E d \in Dev : Tick(d) \/ DeviceStep(d) \/ CheckLink(d)
  \/ \E c \in Conns : PathDies(c)

Spec == Init /\ [][Next]_vars

(* Goroutines and futures run, sent packets arrive, timers fire.  Nothing  *)
(* makes a user or the connector dial, a network change or a path die.     *)
Fairness ==
  \A d \in Dev :
    /\ \A c \in Conns :
         /\ WF_vars(Accepted(d, c)) /\ WF_vars(DialFails(d, c))
         /\ WF_vars(RegisterBetter(d, c)) /\ WF_vars(RegisterProbes(d, c))
         /\ WF_vars(HelloFails(d, c))
         /\ WF_vars(ProbeAnswered(d, c)) /\ WF_vars(ProbeUnanswered(d, c))
         /\ WF_vars(PhoneProbeUnanswered(d, c))
         /\ \A p \in Packets : WF_vars(Receive(d, c, p))
         /\ WF_vars(ReadFails(d, c))
    /\ WF_vars(Unregister(d))
    /\ WF_vars(CheckAnswered(d)) /\ WF_vars(CheckUnanswered(d))

FairSpec == Spec /\ Fairness
-----------------------------------------------------------------------------
(* What the two devices promise each other. *)

BothOpen(c) == \A d \in Dev : end[d][c] = "open" /\ links[d] = c
BothDown(c) == \A d \in Dev : end[d][c] \in {"none", "closed"} /\ links[d] # c

(* A device serves one link at most: whatever the order in which registers,*)
(* probes and closing serve loops interleave, the only open link is the one*)
(* links[peer] names, so none is served that Get and CloseAll cannot see.  *)
OneOpenLink ==
  \A d \in Dev, c \in Conns : end[d][c] = "open" => links[d] = c

(* link.go header: both sides keep the same one.  Whatever was dialed and  *)
(* whatever died, both ends of every connection end up served, or neither. *)
LinksSettle == <>[](\A c \in Conns : BothOpen(c) \/ BothDown(c))

(* When no path dies, dialing always ends in a link both sides serve: the  *)
(* resolution of duplicates never refuses or closes the last one.          *)
Accepting(c) == \A d \in Dev : end[d][c] # "none"
DialingPaysOff == (\E c \in Conns : Accepting(c)) => \E c \in Conns : BothOpen(c)
DialingLinks == <>[]DialingPaysOff

(* ... and no connection both accepted was direct where it is a relay, or  *)
(* over a faster path: neither side stays on the slow one.                 *)
OnTheFastest ==
  \A c, b \in Conns : Accepting(c) /\ BothOpen(b) =>
    /\ conn[c].route = "direct" => conn[b].route = "direct"
    /\ conn[c].route = conn[b].route => conn[b].prio >= conn[c].prio
KeepsTheFastest == <>[]OnTheFastest

(* So far no path has died and no user has dialed besides the connectors.  *)
Calm == \A c \in Conns : path[c] /\ conn[c].by = "connector"

(* A connection one device serves and the other one serves or is going to  *)
(* register, and the best of these.                                        *)
Shared(c) ==
  /\ \A d \in Dev : end[d][c] \in {"hello", "open"}
  /\ \E d \in Dev : end[d][c] = "open"
IsBest(c) == Shared(c) /\ \A b \in Conns : Shared(b) /\ b # c => Better(c, b)
Channel == IF \E c \in Conns : IsBest(c) THEN CHOOSE c \in Conns : IsBest(c) ELSE None

(* link.go header: there is one channel, and both sides keep the same one. *)
(* It is only replaced by a better one, and a device that gives up what    *)
(* both had accepted has a better one or follows the other device.         *)
Promise == INSTANCE OneChannel WITH
  Devices <- Dev,
  better  <- {p \in Conns \X Conns : Better(p[1], p[2])},
  channel <- Channel,
  using   <- [d \in Dev |-> Current(d)],
  gone    <- [d \in Dev |-> {c \in Conns : end[d][c] = "closed"}],
  calm    <- Calm
IsOneChannel == Promise!Spec

(* A link both ends serve is given up only for a better one: no probe, no  *)
(* network check and no race of registers kills a working link.            *)
GivenUpForBetter(c) ==
  BothOpen(c) /\ ~BothOpen(c)'
    => \E d \in Dev : end[d][c]' = "closed" /\ links'[d] # c /\ Better(links'[d], c)
WorkingLinkKept == [][Calm => \A c \in Conns : GivenUpForBetter(c)]_vars

(* Once no dial and no register is under way, the devices are on one link  *)
(* if both have accepted any, and it is the fastest of those.              *)
Quiet == \A d \in Dev, c \in Conns : end[d][c] \notin {"dialing", "hello", "probing"}
QuietOnTheFastest == Calm /\ Quiet => DialingPaysOff /\ OnTheFastest

(* register: a connection that lost is refused only when the old link was  *)
(* heard from, or another one took its place meanwhile.                    *)
RefusesForALink(d, c) ==
  end[d][c] = "probing" /\ end'[d][c] = "closed"
    => \/ probe[d][c].heard
       \/ links'[d] \notin {None, probe[d][c].old}
RefusedForALink == [][\A d \in Dev, c \in Conns : RefusesForALink(d, c)]_vars

(* A computer keeps to that, whatever its peer is.                         *)
ComputersRefuse == [][\A d \in Dev \ Phones, c \in Conns : RefusesForALink(d, c)]_vars
=============================================================================
