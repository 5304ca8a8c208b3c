--------------------------- MODULE RelayRegistry ---------------------------
(***************************************************************************)
(* The relay's registry of connected devices and the clients that keep     *)
(* themselves registered (relay/relay.go handleRegister, broadcastPeers;   *)
(* desktop/internal/relay/client.go loop, session, setPeers).              *)
(*                                                                         *)
(* One group: groups share nothing but the map that holds them.  The relay *)
(* writes to a device from its handler and from one goroutine per device   *)
(* and broadcast, in whatever order these get the device's write lock.     *)
(***************************************************************************)
EXTENDS Integers, FiniteSets, Sequences

CONSTANTS
  Devices,      \* device ids of the group
  Conns,        \* control connections that can be opened (each is used once)
  None,         \* no connection
  MaxDevices,   \* maxDevicesInGroup
  MaxBreaks     \* bound on connections that break without either side closing

ASSUME ConnAssumption == None \notin Conns /\ None \notin Devices
ASSUME LimitAssumption == MaxDevices \in Nat /\ MaxBreaks \in Nat

VARIABLES
  dev,      \* [Conns -> the device that dialed it, or None]
  handler,  \* [Conns -> what the relay's handleRegister is doing]
  sock,     \* [Conns -> "open", or who closed it, or "broken"]
  group,    \* [Devices -> the connection registered for the id, or None]
  sends,    \* the goroutines of broadcastPeers that have not written yet
  wire,     \* [Conns -> messages on their way to the client, in order]
  client,   \* [Devices -> what session is doing]
  ctl,      \* [Devices -> the client's control connection, or None]
  peers     \* [Devices -> the client's list of the other devices]

vars == <<dev, handler, sock, group, sends, wire, client, ctl, peers>>

HandlerSteps == {"none", "hello", "joined", "announcing", "serving", "leaving", "done"}
ClientSteps  == {"away", "registering", "online"}
Messages     == [t : {"ok", "err", "peers"}, list : SUBSET Devices]

(* Every variable has its type, and no client lists its own device. *)
TypeOK ==
  /\ dev \in [Conns -> Devices \union {None}]
  /\ handler \in [Conns -> HandlerSteps]
  /\ sock \in [Conns -> {"open", "relay", "client", "broken"}]
  /\ group \in [Devices -> Conns \union {None}]
  /\ sends \subseteq [to : Conns, list : SUBSET Devices]
  /\ \A c \in Conns : \A i \in DOMAIN wire[c] : wire[c][i] \in Messages
  /\ client \in [Devices -> ClientSteps]
  /\ ctl \in [Devices -> Conns \union {None}]
  /\ peers \in [Devices -> SUBSET Devices]
  /\ \A d \in Devices : d \notin peers[d]

Init ==
  /\ dev = [c \in Conns |-> None]
  /\ handler = [c \in Conns |-> "none"]
  /\ sock = [c \in Conns |-> "open"]
  /\ group = [d \in Devices |-> None]
  /\ sends = {}
  /\ wire = [c \in Conns |-> <<>>]
  /\ client = [d \in Devices |-> "away"]
  /\ ctl = [d \in Devices |-> None]
  /\ peers = [d \in Devices |-> {}]

-----------------------------------------------------------------------------
(* The relay. *)

Members == {d \in Devices : group[d] # None}

Msg(t, list) == [t |-> t, list |-> list]

(* A write to c: lost unless the connection is open. *)
Written(c, m) == IF sock[c] = "open" THEN [wire EXCEPT ![c] = Append(@, m)] ELSE wire

(* The relay closes c, unless its other end did before. *)
Closed(c) == [sock EXCEPT ![c] = IF @ = "open" THEN "relay" ELSE @]

(* Wrong variant: one device too many is let in. *)
Register_OffByOne(c) ==
  LET d == dev[c] old == group[d] IN
  /\ handler[c] = "hello"
  /\ old # None \/ Cardinality(Members) <= MaxDevices
  /\ group' = [group EXCEPT ![d] = c]
  /\ sock' = IF old = None THEN sock ELSE Closed(old)
  /\ handler' = [handler EXCEPT ![c] = "joined"]
  /\ UNCHANGED <<dev, sends, wire, client, ctl, peers>>

(* The id is taken over from an older connection, which is closed, or the  *)
(* device joins if there is room.                                          *)
Register(c) ==
  LET d == dev[c] old == group[d] IN
  /\ handler[c] = "hello"
  /\ IF old = None /\ Cardinality(Members) >= MaxDevices
       THEN /\ wire' = Written(c, Msg("err", {}))
            /\ sock' = Closed(c)
            /\ handler' = [handler EXCEPT ![c] = "done"]
            /\ UNCHANGED group
       ELSE /\ group' = [group EXCEPT ![d] = c]
            /\ sock' = IF old = None THEN sock ELSE Closed(old)
            /\ handler' = [handler EXCEPT ![c] = "joined"]
            /\ UNCHANGED wire
  /\ UNCHANGED <<dev, sends, client, ctl, peers>>

(* The line with the request never comes. *)
HelloFails(c) ==
  /\ handler[c] = "hello" /\ sock[c] # "open"
  /\ handler' = [handler EXCEPT ![c] = "done"]
  /\ UNCHANGED <<dev, sock, group, sends, wire, client, ctl, peers>>

SendOk(c) ==
  /\ handler[c] = "joined"
  /\ wire' = Written(c, Msg("ok", {}))
  /\ handler' = [handler EXCEPT ![c] = "announcing"]
  /\ UNCHANGED <<dev, sock, group, sends, client, ctl, peers>>

(* broadcastPeers: the list as it is now, one goroutine for each member. *)
Broadcast == sends \union {[to |-> group[d], list |-> Members] : d \in Members}

Announce(c) ==
  /\ handler[c] = "announcing"
  /\ sends' = Broadcast
  /\ handler' = [handler EXCEPT ![c] = "serving"]
  /\ UNCHANGED <<dev, sock, group, wire, client, ctl, peers>>

SendPeers(s) ==
  /\ s \in sends
  /\ sends' = sends \ {s}
  /\ wire' = Written(s.to, Msg("peers", s.list))
  /\ UNCHANGED <<dev, handler, sock, group, client, ctl, peers>>

(* Wrong variant: whatever connection the id has now leaves with this one. *)
Leave_ById(c) ==
  /\ handler[c] = "serving" /\ sock[c] # "open"
  /\ group' = [group EXCEPT ![dev[c]] = None]
  /\ handler' = [handler EXCEPT ![c] = IF group[dev[c]] = c THEN "leaving" ELSE "done"]
  /\ UNCHANGED <<dev, sock, sends, wire, client, ctl, peers>>

(* The read loop ends; the device leaves unless it has registered anew. *)
Leave(c) ==
  /\ handler[c] = "serving" /\ sock[c] # "open"
  /\ IF group[dev[c]] = c
       THEN /\ group' = [group EXCEPT ![dev[c]] = None]
            /\ handler' = [handler EXCEPT ![c] = "leaving"]
       ELSE /\ handler' = [handler EXCEPT ![c] = "done"]
            /\ UNCHANGED group
  /\ UNCHANGED <<dev, sock, sends, wire, client, ctl, peers>>

AnnounceLeft(c) ==
  /\ handler[c] = "leaving"
  /\ sends' = Broadcast
  /\ handler' = [handler EXCEPT ![c] = "done"]
  /\ UNCHANGED <<dev, sock, group, wire, client, ctl, peers>>

-----------------------------------------------------------------------------
(* The clients. *)

Dial(d, c) ==
  /\ client[d] = "away" /\ handler[c] = "none"
  /\ client' = [client EXCEPT ![d] = "registering"]
  /\ ctl' = [ctl EXCEPT ![d] = c]
  /\ dev' = [dev EXCEPT ![c] = d]
  /\ handler' = [handler EXCEPT ![c] = "hello"]
  /\ UNCHANGED <<sock, group, sends, wire, peers>>

(* Wrong variant: the connection is not closed when session returns. *)
EndSession_LeavesOpen(d) ==
  /\ client' = [client EXCEPT ![d] = "away"]
  /\ ctl' = [ctl EXCEPT ![d] = None]
  /\ peers' = [peers EXCEPT ![d] = {}]
  /\ UNCHANGED sock

(* session returns: the list is emptied and the loop backs off. *)
EndSession(d) ==
  /\ client' = [client EXCEPT ![d] = "away"]
  /\ ctl' = [ctl EXCEPT ![d] = None]
  /\ peers' = [peers EXCEPT ![d] = {}]
  /\ sock' = [sock EXCEPT ![ctl[d]] = IF @ = "open" THEN "client" ELSE @]

(* The first message must be the relay's ok. *)
ReadFirst(d) ==
  LET c == ctl[d] IN
  /\ client[d] = "registering" /\ wire[c] # <<>>
  /\ wire' = [wire EXCEPT ![c] = Tail(@)]
  /\ IF Head(wire[c]).t = "ok"
       THEN /\ client' = [client EXCEPT ![d] = "online"]
            /\ UNCHANGED <<sock, ctl, peers>>
       ELSE EndSession(d)
  /\ UNCHANGED <<dev, handler, group, sends>>

(* Wrong variant: setPeers keeps the device itself in its list. *)
ReadPeers_WithSelf(d) ==
  LET c == ctl[d] IN
  /\ client[d] = "online" /\ wire[c] # <<>>
  /\ wire' = [wire EXCEPT ![c] = Tail(@)]
  /\ peers' = IF Head(wire[c]).t = "peers"
                THEN [peers EXCEPT ![d] = Head(wire[c]).list]
                ELSE peers
  /\ UNCHANGED <<dev, handler, sock, group, sends, client, ctl>>

ReadPeers(d) ==
  LET c == ctl[d] IN
  /\ client[d] = "online" /\ wire[c] # <<>>
  /\ wire' = [wire EXCEPT ![c] = Tail(@)]
  /\ peers' = IF Head(wire[c]).t = "peers"
                THEN [peers EXCEPT ![d] = Head(wire[c]).list \ {d}]
                ELSE peers
  /\ UNCHANGED <<dev, handler, sock, group, sends, client, ctl>>

(* The relay closed the connection, or nothing came for too long. *)
ReadFails(d) ==
  LET c == ctl[d] IN
  /\ client[d] # "away" /\ sock[c] # "open" /\ wire[c] = <<>>
  /\ EndSession(d)
  /\ UNCHANGED <<dev, handler, group, sends, wire>>

(* The network: a connection breaks and takes what is under way with it. *)
Break(c) ==
  /\ dev[c] # None /\ sock[c] = "open"
  /\ Cardinality({x \in Conns : sock[x] = "broken"}) < MaxBreaks
  /\ sock' = [sock EXCEPT ![c] = "broken"]
  /\ wire' = [wire EXCEPT ![c] = <<>>]
  /\ UNCHANGED <<dev, handler, group, sends, client, ctl, peers>>

-----------------------------------------------------------------------------
RelayStep(c) ==
  Register(c) \/ HelloFails(c) \/ SendOk(c) \/ Announce(c) \/ Leave(c) \/ AnnounceLeft(c)

ClientStep(d) == ReadFirst(d) \/ ReadPeers(d) \/ ReadFails(d)

Next ==
  \/ \E c \in Conns : RelayStep(c) \/ Break(c)
  \/ \E s \in sends : SendPeers(s)
  \/ \E d \in Devices : ClientStep(d) \/ \E c \in Conns : Dial(d, c)

Spec == Init /\ [][Next]_vars

(* Handlers, sending goroutines and read loops run; nothing makes a client *)
(* dial at a given moment or a connection break.                           *)
Fairness ==
  /\ \A c \in Conns : WF_vars(RelayStep(c))
  /\ \A s \in [to : Conns, list : SUBSET Devices] : WF_vars(SendPeers(s))
  /\ \A d \in Devices : WF_vars(ClientStep(d))

FairSpec == Spec /\ Fairness

-----------------------------------------------------------------------------
(* The group never holds more devices than the limit, and an id in it      *)
(* belongs to a connection of that device whose handler will take it out:  *)
(* no socket stays registered after its handler returned.                  *)
GroupIsLive ==
  /\ Cardinality(Members) <= MaxDevices
  /\ \A d \in Members : /\ dev[group[d]] = d
                        /\ handler[group[d]] \in {"joined", "announcing", "serving"}

(* As long as a client is online over a connection neither side gave up,   *)
(* the relay finds it in the group: an older connection that ends late     *)
(* does not take the device out.                                           *)
OnlineIsReachable ==
  \A d \in Devices :
    client[d] = "online" /\ sock[ctl[d]] = "open" => group[d] = ctl[d]

(* relay_test.go register: the first thing a device the relay took in gets *)
(* is the ok, so its client does not give up ("relay refused").            *)
AcceptedIsOnline ==
  [][\A d \in Devices :
       client[d] = "registering" /\ wire[ctl[d]] # <<>> /\ client'[d] = "away"
         => group[d] # ctl[d]]_vars

(* relay_plan.md: a registered client gets live peers lists.  Once devices *)
(* stop coming and going, everyone online sees everyone else.              *)
ListsSettle ==
  <>[](\A d \in Members : client[d] = "online" /\ ctl[d] = group[d]
                            => peers[d] = Members \ {d})

(* Every connection ends in agreement: the device is a member over it and  *)
(* its client uses it, or both have given it up.                           *)
MembershipSettles ==
  <>[](\A d \in Devices : group[d] = ctl[d])

(* No handler, client or list has a step to take: devices may still come,  *)
(* and connections break.  Each device is a member then over the           *)
(* connection its client uses and has been told of, or uses none.          *)
AtRest ==
  /\ sends = {}
  /\ \A c \in Conns : /\ handler[c] \in {"none", "serving", "done"}
                      /\ handler[c] = "serving" => sock[c] = "open"
  /\ \A d \in Devices : client[d] # "away" => wire[ctl[d]] = <<>> /\ sock[ctl[d]] = "open"

RestAgrees ==
  AtRest => \A d \in Devices : /\ group[d] = ctl[d]
                              /\ client[d] = IF d \in Members THEN "online" ELSE "away"
=============================================================================
