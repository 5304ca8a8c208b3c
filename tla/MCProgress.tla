------------------------------ MODULE MCProgress -----------------------------
(* The parts where something must happen in the end, each on a small       *)
(* instance of its own: the registry of the relay, the change of the       *)
(* group, the LAN discovery, the connector, the handlers of incoming       *)
(* connections, the limits of recording and ringing, and phones as         *)
(* touchpads.  They share no state in the code; part says which one a      *)
(* behaviour is of.                                                        *)
EXTENDS RelayRegistry, GroupChange, Incoming

VARIABLES
  part,
  seen, relayed, lastPath, reach, strange, links, dead, probing, kick, todo,
  wait, failures, dial, turns,
  on, age, air, replied, due, kicked, browsing, rescan, probe, fails, moves, kicks,
  job, recorded, files, recording, path, count, timers, fired, recorder, unstopped, asker,
  ringStop, ringNotif, ringShown, ringers, ringsStopped,
  pad, input, padLink, used, starts, begun, asked, restarting, holder, sessions, ended, created,
  session, idle, events, reader, focus, waiters

(* One connection of any kind, and a second one that is a plain offer, with *)
(* an id of its own or the first one's.                                    *)
Clientele ==
  [c1 |-> [who : {"member", "stranger", "plain", "liar"}, action : {"text", "offer", "link"}, id : {"i1"}],
   c2 |-> [who : {"plain"}, action : {"offer"}, id : {"i1", "i2"}]]

Dialing == INSTANCE Connector WITH
  Devices <- {"d1"}, MaxSpeed <- 2, Reused <- {1},
  BackoffSeen <- 2, BackoffKnown <- 4, BackoffOtherGroup <- 5, MaxFailures <- 3, MaxChanges <- 3
Lan == INSTANCE Discovery WITH
  Nodes <- {"a", "b"}, RelayPeers <- {<<"a", "b">>},
  TTL <- 3, ProbeFails <- 2, MaxMoves <- 2, MaxKicks <- 1
(* Packets about captures, packets about ringing. *)
Shots == INSTANCE Limits WITH
  Jobs <- {"j1", "j2", "j3"}, Captures <- {"c"}, Rings <- {}, told <- recorded, shown <- ringShown,
  stopped <- ringsStopped
Rings == INSTANCE Limits WITH
  Jobs <- {}, Captures <- {"c"}, Rings <- {1, 2, 3}, told <- recorded, shown <- ringShown,
  stopped <- ringsStopped
(* Phones as touchpads: one whose events start sessions again, and two.     *)
OnePad == INSTANCE RemoteInput WITH
  Phones <- {"p"}, MaxStarts <- 1, MaxEvents <- 2, MaxLinks <- 1,
  screen <- pad, link <- padLink, open <- sessions, closed <- ended
TwoPads == INSTANCE RemoteInput WITH
  Phones <- {"p", "q"}, MaxStarts <- 2, MaxEvents <- 0, MaxLinks <- 1,
  screen <- pad, link <- padLink, open <- sessions, closed <- ended

dialVars ==
  <<seen, relayed, lastPath, reach, strange, links, dead, probing, kick, todo, wait, failures, dial, turns>>
lanVars ==
  <<on, age, air, replied, due, kicked, browsing, rescan, probe, fails, moves, kicks>>
limitVars ==
  <<job, recorded, files, recording, path, count, timers, fired, recorder, unstopped, asker,
    ringStop, ringNotif, ringShown, ringers, ringsStopped>>
padVars ==
  <<pad, input, padLink, used, starts, begun, asked, restarting, holder, sessions, ended, created,
    session, idle, events, reader, focus, waiters>>
allVars == <<part, vars, groupVars, dialVars, lanVars, inVars, limitVars, padVars>>

ProgressInit ==
  /\ part \in {"relay", "group", "connector", "lan", "in", "shots", "rings", "pad", "pads"}
  /\ Init /\ GroupInit /\ Dialing!Init /\ Lan!Init /\ InInit
  /\ IF part = "rings" THEN Rings!Init ELSE Shots!Init
  /\ IF part = "pads" THEN TwoPads!Init ELSE OnePad!Init
  /\ part # "group" => pair = [key |-> "k1", relay |-> FALSE] /\ saved
  /\ on = IF part = "lan" THEN {"a", "b"} ELSE {}
  /\ kind["c1"].action = "offer" \/ kind["c2"].id = "i1"
  /\ part # "in" => keyed /\ \A c \in {"c1", "c2"} : kind[c] = [who |-> "plain", action |-> "offer", id |-> "i1"]

ProgressNext ==
  \/ /\ part = "relay" /\ Next
     /\ UNCHANGED <<part, groupVars, dialVars, lanVars, inVars, limitVars, padVars>>
  \/ /\ part = "group" /\ GroupNext
     /\ UNCHANGED <<part, vars, dialVars, lanVars, inVars, limitVars, padVars>>
  \/ /\ part = "connector" /\ Dialing!Next
     /\ UNCHANGED <<part, vars, groupVars, lanVars, inVars, limitVars, padVars>>
  \/ /\ part = "lan" /\ Lan!Next /\ ~browsing'["b"]  \* mDNS finds only what a looks for
     /\ UNCHANGED <<part, vars, groupVars, dialVars, inVars, limitVars, padVars>>
  \/ /\ part = "in" /\ InNext
     /\ UNCHANGED <<part, vars, groupVars, dialVars, lanVars, limitVars, padVars>>
  \/ /\ \/ part = "shots" /\ Shots!Next
        \/ part = "rings" /\ Rings!Next
     /\ UNCHANGED <<part, vars, groupVars, dialVars, lanVars, inVars, padVars>>
  \/ /\ \/ part = "pad" /\ OnePad!Next
        \/ part = "pads" /\ TwoPads!Next /\ (begun' = 0 \/ starts'[1].phone = "p")  \* p starts first
     /\ UNCHANGED <<part, vars, groupVars, dialVars, lanVars, inVars, limitVars>>

(* Each part's own fairness, while the behaviour is of that part. *)
RelayFairness ==
  /\ \A c \in Conns : WF_vars(part = "relay" /\ RelayStep(c))
  /\ \A s \in [to : Conns, list : SUBSET Devices] : WF_vars(part = "relay" /\ SendPeers(s))
  /\ \A d \in Devices : WF_vars(part = "relay" /\ ClientStep(d))

PairingFairness ==
  /\ WF_groupVars(part = "group" /\ UpdateStep)
  /\ \A c \in {"r1", "r2"} : /\ WF_groupVars(part = "group" /\ LoopStep(c))
                             /\ WF_groupVars(part = "group" /\ FailsWhenClosed(c))

ConnectorFairness ==
  /\ WF_dialVars(part = "connector" /\ Dialing!Tick)
  /\ WF_dialVars(part = "connector" /\ Dialing!PassGoesOn("d1"))
  /\ WF_dialVars(part = "connector" /\ Dialing!DialEnds("d1"))
  /\ WF_dialVars(part = "connector" /\ Dialing!LinkTimesOut("d1"))

LanFairness ==
  /\ WF_lanVars(part = "lan" /\ Lan!AirStep)
  /\ WF_lanVars(part = "lan" /\ Lan!Second)
  /\ WF_lanVars(part = "lan" /\ Lan!Interval)
  /\ \A n \in {"a", "b"} : /\ WF_lanVars(part = "lan" /\ Lan!Reap(n))
                           /\ WF_lanVars(part = "lan" /\ Lan!Query(n))
                           /\ WF_lanVars(part = "lan" /\ Lan!ProbeStep(n))

ProgressSpec ==
  /\ ProgressInit /\ [][ProgressNext]_allVars
  /\ RelayFairness /\ PairingFairness /\ ConnectorFairness /\ LanFairness
  /\ \A c \in {"c1", "c2"} : WF_inVars(part = "in" /\ HandlerStep(c))
  /\ WF_limitVars(part = "shots" /\ Shots!Steps)
  /\ WF_limitVars(part = "rings" /\ Rings!Steps)
  /\ WF_padVars(part = "pad" /\ OnePad!Steps)
  /\ WF_padVars(part = "pads" /\ TwoPads!Steps)

-----------------------------------------------------------------------------
(* Every variable of the part has its type. *)
TypesOK ==
  CASE part = "relay"     -> TypeOK
    [] part = "group"     -> PairingOK
    [] part = "connector" -> Dialing!TypeOK
    [] part = "lan"       -> Lan!TypeOK
    [] part = "in"        -> InOK
    [] part = "shots"     -> Shots!LimitsOK
    [] part = "rings"     -> Rings!LimitsOK
    [] part = "pad"       -> OnePad!InputOK
    [] part = "pads"      -> TwoPads!InputOK

(* While a route is offered, the device gets a link at least as fast.      *)
BestRouteWins == Dialing!BestRouteWins

(* Who stays is listed again and again, who left is in the end unlisted.   *)
PresenceSettles == Lan!PresenceSettles

(* Nothing is recorded, rings or is open to a phone's input for ever.      *)
LimitsHold == Shots!LimitsHold /\ OnePad!SessionsEnd
=============================================================================
