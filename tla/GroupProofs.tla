---------------------------- MODULE GroupProofs ----------------------------
(***************************************************************************)
(* What the devices of a group keep to, for any number of them and any     *)
(* bounds: on the relay, where their presence is registered                *)
(* (RelayRegistry); on a computer while its group changes, for any number  *)
(* of keys, relay clients, links and changes (GroupChange); and in what a  *)
(* computer lets in over its connections, for any number of those and      *)
(* anything their clients are (Incoming).                                  *)
(***************************************************************************)
EXTENDS RelayRegistry, GroupChange, Incoming, FiniteSetTheorems, TLAPS

-----------------------------------------------------------------------------
(* The relay: presence. *)

(* TypeOK, and what it leaves out of the queues.                           *)
Typed == TypeOK /\ wire \in [Conns -> Seq(Messages)]

(* A handler that has registered its connection and not taken it out.      *)
In == {"joined", "announcing", "serving"}

(* Nothing is written to a connection before it asked to register, and the *)
(* relay's handler ends only when the connection has ended.                *)
HandlersRun ==
  \A c \in Conns :
    /\ handler[c] = "none" => dev[c] = None
    /\ handler[c] # "none" => dev[c] \in Devices
    /\ handler[c] \in {"none", "hello"} => wire[c] = <<>>
    /\ handler[c] \in {"leaving", "done"} => sock[c] # "open"

SendsAreLate == \A s \in sends : handler[s.to] \notin {"none", "hello"}

(* The connection of a running client is its own and past the dial.        *)
ClientsDialed ==
  \A d \in Devices :
    /\ client[d] # "away" => ctl[d] \in Conns
    /\ ctl[d] # None => dev[ctl[d]] = d /\ handler[ctl[d]] # "none"
    /\ client[d] = "online" => handler[ctl[d]] # "hello"

(* Of the open connections in the group each is its device's.              *)
Takeover ==
  \A c \in Conns : sock[c] = "open" /\ handler[c] \in In => group[dev[c]] = c

GroupOK == GroupIsLive /\ IsFiniteSet(Members)

IInv == Typed /\ HandlersRun /\ SendsAreLate /\ ClientsDialed /\ Takeover /\ GroupOK

-----------------------------------------------------------------------------
LEMMA InitIInv == Init => IInv
<1> SUFFICES ASSUME Init PROVE IInv
  OBVIOUS
<1>1. Typed
  BY DEF Init, Typed, TypeOK, HandlerSteps, ClientSteps
<1>2. Members = {}
  BY DEF Init, Members
<1>3. GroupOK
  BY <1>2, FS_EmptySet, LimitAssumption DEF GroupOK, GroupIsLive
<1> QED
  BY <1>1, <1>3, ConnAssumption
     DEF Init, IInv, HandlersRun, SendsAreLate, ClientsDialed, Takeover, In

LEMMA StutterIInv == ASSUME IInv, UNCHANGED vars PROVE IInv'
<1>1. Members' = Members
  BY DEF vars, Members
<1>2. Typed' /\ GroupOK'
  BY <1>1 DEF vars, IInv, Typed, TypeOK, GroupOK, GroupIsLive
<1> QED
  BY <1>2 DEF vars, IInv, HandlersRun, SendsAreLate, ClientsDialed, Takeover, In

LEMMA WrittenType ==
  ASSUME Typed, NEW c \in Conns, NEW m \in Messages
  PROVE  /\ Written(c, m) \in [Conns -> Seq(Messages)]
         /\ \A x \in Conns : x # c => Written(c, m)[x] = wire[x]
         /\ sock[c] # "open" => Written(c, m) = wire
  BY DEF Typed, Written

LEMMA WireTyped ==
  ASSUME wire' \in [Conns -> Seq(Messages)]
  PROVE  \A c \in Conns : \A i \in DOMAIN wire'[c] : wire'[c][i] \in Messages
<1> TAKE c \in Conns
<1>1. wire'[c] \in Seq(Messages)
  OBVIOUS
<1> QED
  BY <1>1

(* As long as no device comes or goes, only the handlers can matter to the *)
(* group.                                                                  *)
LEMMA GroupKept ==
  ASSUME GroupOK, UNCHANGED <<dev, group>>,
         \A d \in Members : handler'[group[d]] \in In
  PROVE  GroupOK'
<1>1. Members' = Members
  BY DEF Members
<1> QED
  BY <1>1 DEF GroupOK, GroupIsLive, In

-----------------------------------------------------------------------------
(* The relay. *)

LEMMA RegisterStep == ASSUME IInv, NEW c \in Conns, Register(c) PROVE IInv'
<1> DEFINE d == dev[c]  was == group[d]
<1>1. /\ Typed /\ TypeOK /\ handler[c] = "hello" /\ d \in Devices /\ wire[c] = <<>>
      /\ was \in Conns \union {None} /\ UNCHANGED <<dev, sends, client, ctl, peers>>
  BY DEF IInv, Typed, TypeOK, HandlersRun, Register
<1>2. CASE was = None /\ Cardinality(Members) >= MaxDevices
  <2>1. /\ wire' = Written(c, Msg("err", {})) /\ sock' = Closed(c)
        /\ handler' = [handler EXCEPT ![c] = "done"] /\ group' = group
    BY <1>2 DEF Register
  <2>2. Msg("err", {}) \in Messages
    BY DEF Msg, Messages
  <2>3. /\ wire' \in [Conns -> Seq(Messages)] /\ \A x \in Conns : x # c => wire'[x] = wire[x]
    BY <1>1, <2>1, <2>2, WrittenType
  <2>4. /\ sock' \in [Conns -> {"open", "relay", "client", "broken"}] /\ sock'[c] # "open"
        /\ \A x \in Conns : x # c => sock'[x] = sock[x]
    BY <1>1, <2>1 DEF TypeOK, Closed
  <2>5. Typed'
    BY <1>1, <2>1, <2>3, <2>4, WireTyped DEF Typed, TypeOK, HandlerSteps
  <2>6. GroupOK'
    <3>1. \A e \in Members : handler[group[e]] \in In /\ group[e] \in Conns
      BY <1>1 DEF IInv, GroupOK, GroupIsLive, In, TypeOK, Members
    <3> QED
      BY <1>1, <2>1, <3>1, GroupKept DEF IInv, TypeOK, In
  <2>7. HandlersRun' /\ SendsAreLate'
    BY <1>1, <2>1, <2>3, <2>4 DEF IInv, HandlersRun, SendsAreLate, TypeOK
  <2>8. ClientsDialed' /\ Takeover'
    BY <1>1, <2>1, <2>4 DEF IInv, ClientsDialed, Takeover, TypeOK, In
  <2> QED
    BY <2>5, <2>6, <2>7, <2>8 DEF IInv
<1>3. CASE ~(was = None /\ Cardinality(Members) >= MaxDevices)
  <2>1. /\ group' = [group EXCEPT ![d] = c] /\ wire' = wire
        /\ sock' = IF was = None THEN sock ELSE Closed(was)
        /\ handler' = [handler EXCEPT ![c] = "joined"]
    BY <1>3 DEF Register
  <2>2. /\ sock' \in [Conns -> {"open", "relay", "client", "broken"}]
        /\ \A x \in Conns : /\ x # was => sock'[x] = sock[x]
                            /\ x = was => sock'[x] # "open"
                            /\ sock[x] # "open" => sock'[x] # "open"
    BY <1>1, <2>1, ConnAssumption DEF TypeOK, Closed
  <2>3. Typed'
    BY <1>1, <2>1, <2>2, WireTyped DEF Typed, TypeOK, HandlerSteps
  <2>4. was # None => was \in Conns /\ dev[was] = d /\ handler[was] \in In /\ was # c
    BY <1>1 DEF IInv, GroupOK, GroupIsLive, Members, In
  <2>5. GroupOK'
    <3>1. Members' = Members \union {d}
      BY <1>1, <2>1, ConnAssumption DEF Members, TypeOK
    <3>2. /\ IsFiniteSet(Members) /\ Cardinality(Members) <= MaxDevices
          /\ Cardinality(Members) \in Nat
      BY FS_CardinalityType DEF IInv, GroupOK, GroupIsLive
    <3>3. IsFiniteSet(Members') /\ Cardinality(Members') <= MaxDevices
      <4>1. CASE was = None
        <5>1. d \notin Members
          BY <4>1 DEF Members
        <5>2. /\ IsFiniteSet(Members \union {d})
              /\ Cardinality(Members \union {d}) = Cardinality(Members) + 1
          BY <3>2, <5>1, FS_AddElement
        <5>3. Cardinality(Members) < MaxDevices
          BY <1>3, <3>2, <4>1, LimitAssumption
        <5> QED
          BY <3>1, <3>2, <5>2, <5>3, LimitAssumption
      <4>2. CASE was # None
        <5>1. d \in Members
          BY <1>1, <4>2 DEF Members
        <5>2. Members' = Members
          BY <3>1, <5>1
        <5> QED
          BY <3>2, <5>2
      <4> QED
        BY <4>1, <4>2
    <3>4. \A e \in Members' : /\ dev[group'[e]] = e
                               /\ handler'[group'[e]] \in In
      <4>1. \A e \in Members : dev[group[e]] = e /\ handler[group[e]] \in In /\ group[e] \in Conns
        BY <1>1 DEF IInv, GroupOK, GroupIsLive, In, Members, TypeOK
      <4> QED
        BY <1>1, <2>1, <3>1, <4>1 DEF TypeOK, Members, In
    <3> QED
      BY <1>1, <3>3, <3>4 DEF GroupOK, GroupIsLive, In
  <2>6. HandlersRun' /\ SendsAreLate'
    BY <1>1, <2>1, <2>2 DEF IInv, HandlersRun, SendsAreLate, TypeOK
  <2>7. ClientsDialed'
    BY <1>1, <2>1 DEF IInv, ClientsDialed, TypeOK
  <2>8. Takeover'
    BY <1>1, <2>1, <2>2, <2>4 DEF IInv, Takeover, HandlersRun, TypeOK, In
  <2> QED
    BY <2>3, <2>5, <2>6, <2>7, <2>8 DEF IInv
<1> QED
  BY <1>2, <1>3

(* A handler goes on and writes to its connection at most.                 *)
LEMMA HandlerGoesOn ==
  ASSUME IInv, NEW c \in Conns, NEW t \in HandlerSteps \ {"none", "hello"},
         handler' = [handler EXCEPT ![c] = t], UNCHANGED <<dev, sock, group, client, ctl, peers>>,
         handler[c] # "none",
         t \in In => handler[c] \in In,
         t \notin In => sock[c] # "open" /\ (handler[c] \notin In \/ group[dev[c]] # c),
         wire' \in [Conns -> Seq(Messages)], \A x \in Conns : x # c => wire'[x] = wire[x],
         sends' \subseteq [to : Conns, list : SUBSET Devices],
         \A s \in sends' \ sends : handler'[s.to] \notin {"none", "hello"}
  PROVE  IInv'
<1>1. Typed /\ TypeOK
  BY DEF IInv, Typed
<1>2. Typed'
  BY <1>1, WireTyped DEF Typed, TypeOK
<1>3. \A e \in Members : /\ group[e] \in Conns /\ dev[group[e]] = e
                          /\ handler[group[e]] \in In
  BY <1>1 DEF IInv, GroupOK, GroupIsLive, Members, In, TypeOK
<1>4. \A e \in Members : handler'[group[e]] \in In
  BY <1>1, <1>3 DEF TypeOK
<1>5. GroupOK'
  BY <1>4, GroupKept DEF IInv
<1>6. HandlersRun'
  BY <1>1 DEF IInv, HandlersRun, TypeOK, In
<1>7. SendsAreLate'
  BY <1>1 DEF IInv, SendsAreLate, TypeOK
<1>8. ClientsDialed' /\ Takeover'
  BY <1>1 DEF IInv, ClientsDialed, Takeover, TypeOK, In
<1> QED
  BY <1>2, <1>5, <1>6, <1>7, <1>8 DEF IInv

LEMMA HelloFailsStep == ASSUME IInv, NEW c \in Conns, HelloFails(c) PROVE IInv'
  BY HandlerGoesOn DEF HelloFails, HandlerSteps, In, IInv, Typed, TypeOK

LEMMA SendOkStep == ASSUME IInv, NEW c \in Conns, SendOk(c) PROVE IInv'
<1>1. Msg("ok", {}) \in Messages
  BY DEF Msg, Messages
<1>2. Typed /\ sends \subseteq [to : Conns, list : SUBSET Devices]
  BY DEF IInv, Typed, TypeOK
<1>3. wire' \in [Conns -> Seq(Messages)] /\ \A x \in Conns : x # c => wire'[x] = wire[x]
  BY <1>1, <1>2, WrittenType DEF SendOk
<1> QED
  BY <1>2, <1>3, HandlerGoesOn DEF SendOk, HandlerSteps, In

LEMMA BroadcastType ==
  ASSUME IInv
  PROVE  /\ Broadcast \subseteq [to : Conns, list : SUBSET Devices]
         /\ \A s \in Broadcast \ sends : handler[s.to] \in In /\ s.to \in Conns
<1>1. \A e \in Members : group[e] \in Conns /\ handler[group[e]] \in In
  BY DEF IInv, Typed, TypeOK, GroupOK, GroupIsLive, Members, In
<1>2. Members \in SUBSET Devices
  BY DEF Members
<1> QED
  BY <1>1, <1>2 DEF Broadcast, IInv, Typed, TypeOK

LEMMA AnnounceStep ==
  ASSUME IInv, NEW c \in Conns, Announce(c) \/ AnnounceLeft(c)
  PROVE  IInv'
<1>1. wire' = wire /\ wire \in [Conns -> Seq(Messages)] /\ handler \in [Conns -> HandlerSteps]
  BY DEF Announce, AnnounceLeft, IInv, Typed, TypeOK
<1>2. sends' = Broadcast /\ UNCHANGED <<dev, sock, group, client, ctl, peers>>
  BY DEF Announce, AnnounceLeft
<1>3. PICK t \in {"serving", "done"} :
        /\ handler' = [handler EXCEPT ![c] = t] /\ handler[c] \notin {"none", "hello"}
        /\ t \in In => handler[c] \in In
        /\ t \notin In => sock[c] # "open" /\ handler[c] \notin In
  BY DEF Announce, AnnounceLeft, In, IInv, HandlersRun
<1>4. \A s \in sends' \ sends : handler'[s.to] \notin {"none", "hello"}
  BY <1>1, <1>2, <1>3, BroadcastType DEF In
<1> QED
  BY <1>1, <1>2, <1>3, <1>4, BroadcastType, HandlerGoesOn DEF HandlerSteps

LEMMA SendPeersStep == ASSUME IInv, NEW s \in sends, SendPeers(s) PROVE IInv'
<1>1. /\ Typed /\ TypeOK /\ s.to \in Conns /\ s.list \in SUBSET Devices
      /\ handler[s.to] \notin {"none", "hello"}
  BY DEF IInv, Typed, TypeOK, SendsAreLate
<1>2. UNCHANGED <<dev, handler, sock, group, client, ctl, peers>> /\ sends' \subseteq sends
  BY DEF SendPeers
<1>3. Msg("peers", s.list) \in Messages
  BY <1>1 DEF Msg, Messages
<1>4. wire' \in [Conns -> Seq(Messages)] /\ \A x \in Conns : x # s.to => wire'[x] = wire[x]
  BY <1>1, <1>3, WrittenType DEF SendPeers
<1>5. Typed'
  BY <1>1, <1>2, <1>4, WireTyped DEF Typed, TypeOK
<1>6. GroupOK'
  BY <1>2, GroupKept DEF IInv, GroupOK, GroupIsLive, In
<1> QED
  BY <1>1, <1>2, <1>4, <1>5, <1>6
     DEF IInv, HandlersRun, SendsAreLate, ClientsDialed, Takeover, In

LEMMA LeaveStep == ASSUME IInv, NEW c \in Conns, Leave(c) PROVE IInv'
<1>1. /\ Typed /\ TypeOK /\ handler[c] = "serving" /\ sock[c] # "open" /\ dev[c] \in Devices
      /\ UNCHANGED <<dev, sock, sends, wire, client, ctl, peers>>
  BY DEF IInv, Typed, TypeOK, HandlersRun, Leave
<1>2. CASE group[dev[c]] # c
  <2>1. handler' = [handler EXCEPT ![c] = "done"] /\ group' = group
    BY <1>2 DEF Leave
  <2> QED
    BY <1>1, <1>2, <2>1, HandlerGoesOn DEF HandlerSteps, In, Typed, TypeOK
<1>3. CASE group[dev[c]] = c
  <2>1. /\ group' = [group EXCEPT ![dev[c]] = None]
        /\ handler' = [handler EXCEPT ![c] = "leaving"]
    BY <1>3 DEF Leave
  <2>2. Typed'
    BY <1>1, <2>1, WireTyped DEF Typed, TypeOK, HandlerSteps
  <2>3. GroupOK'
    <3>1. \A e \in Members : /\ group[e] \in Conns /\ dev[group[e]] = e
                            /\ handler[group[e]] \in In
      BY <1>1 DEF IInv, GroupOK, GroupIsLive, Members, In, TypeOK
    <3>2. Members' = Members \ {dev[c]}
      BY <1>1, <2>1, ConnAssumption DEF Members, TypeOK
    <3>3. dev[c] \in Members
      BY <1>1, <1>3, ConnAssumption DEF Members
    <3>4. /\ IsFiniteSet(Members \ {dev[c]})
          /\ Cardinality(Members \ {dev[c]}) = Cardinality(Members) - 1
          /\ Cardinality(Members) \in Nat /\ Cardinality(Members) <= MaxDevices
      BY <3>3, FS_RemoveElement, FS_CardinalityType DEF IInv, GroupOK, GroupIsLive
    <3>5. IsFiniteSet(Members') /\ Cardinality(Members') <= MaxDevices
      BY <3>2, <3>4, LimitAssumption
    <3>6. \A e \in Members' : dev'[group'[e]] = e /\ handler'[group'[e]] \in In
      BY <1>1, <2>1, <3>1, <3>2 DEF TypeOK, Members
    <3> QED
      BY <3>5, <3>6 DEF GroupOK, GroupIsLive, In
  <2>4. HandlersRun' /\ SendsAreLate' /\ ClientsDialed'
    BY <1>1, <2>1 DEF IInv, HandlersRun, SendsAreLate, ClientsDialed, TypeOK
  <2>5. Takeover'
    BY <1>1, <1>3, <2>1 DEF IInv, Takeover, HandlersRun, TypeOK, In
  <2> QED
    BY <2>2, <2>3, <2>4, <2>5 DEF IInv
<1> QED
  BY <1>2, <1>3

-----------------------------------------------------------------------------
(* The clients and the network: they leave the group alone.                *)

LEMMA DialStep ==
  ASSUME IInv, NEW d \in Devices, NEW c \in Conns, Dial(d, c)
  PROVE  IInv'
<1>1. /\ Typed /\ TypeOK /\ handler[c] = "none" /\ dev[c] = None /\ wire[c] = <<>>
  BY DEF IInv, Typed, TypeOK, HandlersRun, Dial
<1>2. /\ client' = [client EXCEPT ![d] = "registering"] /\ ctl' = [ctl EXCEPT ![d] = c]
      /\ dev' = [dev EXCEPT ![c] = d] /\ handler' = [handler EXCEPT ![c] = "hello"]
      /\ UNCHANGED <<sock, group, sends, wire, peers>>
  BY DEF Dial
<1>3. Typed'
  BY <1>1, <1>2, WireTyped DEF Typed, TypeOK, HandlerSteps, ClientSteps
<1>4. GroupOK'
  <2>1. Members' = Members
    BY <1>2 DEF Members
  <2>2. \A e \in Members : /\ group[e] \in Conns /\ dev[group[e]] = e
                          /\ handler[group[e]] \in In /\ group[e] # c
    BY <1>1 DEF IInv, GroupOK, GroupIsLive, Members, In, TypeOK
  <2> QED
    BY <1>1, <1>2, <2>1, <2>2 DEF IInv, GroupOK, GroupIsLive, In, TypeOK
<1>5. HandlersRun' /\ SendsAreLate'
  BY <1>1, <1>2 DEF IInv, HandlersRun, SendsAreLate, TypeOK
<1>6. ClientsDialed'
  BY <1>1, <1>2, ConnAssumption DEF IInv, ClientsDialed, TypeOK
<1>7. Takeover'
  BY <1>1, <1>2 DEF IInv, Takeover, TypeOK, In
<1> QED
  BY <1>3, <1>4, <1>5, <1>6, <1>7 DEF IInv

(* Connections end and messages are read, while the relay does nothing.    *)
LEMMA OnlyClients ==
  ASSUME IInv, UNCHANGED <<dev, handler, group, sends>>,
         sock' \in [Conns -> {"open", "relay", "client", "broken"}],
         \A c \in Conns : sock'[c] = "open" => sock[c] = "open",
         wire' \in [Conns -> Seq(Messages)], \A c \in Conns : wire[c] = <<>> => wire'[c] = <<>>,
         client' \in [Devices -> ClientSteps], ctl' \in [Devices -> Conns \union {None}],
         peers' \in [Devices -> SUBSET Devices], \A d \in Devices : d \notin peers'[d],
         ClientsDialed'
  PROVE  IInv'
<1>1. Typed'
  BY WireTyped DEF IInv, Typed, TypeOK
<1>2. GroupOK'
  BY GroupKept DEF IInv, GroupOK, GroupIsLive, In
<1> QED
  BY <1>1, <1>2 DEF IInv, HandlersRun, SendsAreLate, Takeover

LEMMA EndSessionMoves ==
  ASSUME IInv, NEW d \in Devices, ctl[d] \in Conns, EndSession(d), UNCHANGED <<dev, handler>>
  PROVE  /\ sock' \in [Conns -> {"open", "relay", "client", "broken"}]
         /\ \A c \in Conns : sock'[c] = "open" => sock[c] = "open"
         /\ client' \in [Devices -> ClientSteps] /\ ctl' \in [Devices -> Conns \union {None}]
         /\ peers' \in [Devices -> SUBSET Devices] /\ \A e \in Devices : e \notin peers'[e]
         /\ ClientsDialed'
<1>1. TypeOK /\ ClientsDialed
  BY DEF IInv, Typed
<1>2. ClientsDialed'
  BY <1>1, ConnAssumption DEF EndSession, ClientsDialed, TypeOK
<1> QED
  BY <1>1, <1>2 DEF EndSession, TypeOK, ClientSteps

(* Reading the next message of a connection that has one.                  *)
LEMMA ReadsOne ==
  ASSUME IInv, NEW c \in Conns, wire[c] # <<>>, wire' = [wire EXCEPT ![c] = Tail(@)]
  PROVE  /\ Head(wire[c]) \in Messages /\ wire' \in [Conns -> Seq(Messages)]
         /\ \A x \in Conns : wire[x] = <<>> => wire'[x] = <<>>
         /\ handler[c] \notin {"none", "hello"}
<1>1. wire \in [Conns -> Seq(Messages)]
  BY DEF IInv, Typed
<1>2. Head(wire[c]) \in Messages /\ Tail(wire[c]) \in Seq(Messages)
  BY <1>1
<1> QED
  BY <1>1, <1>2 DEF IInv, HandlersRun

LEMMA ReadFirstStep == ASSUME IInv, NEW d \in Devices, ReadFirst(d) PROVE IInv'
<1> DEFINE c == ctl[d]
<1>1. /\ TypeOK /\ ClientsDialed /\ client[d] = "registering" /\ wire[c] # <<>> /\ c \in Conns
      /\ wire' = [wire EXCEPT ![c] = Tail(@)] /\ UNCHANGED <<dev, handler, group, sends>>
  BY DEF IInv, Typed, ClientsDialed, ReadFirst
<1>2. CASE EndSession(d)
  BY <1>1, <1>2, ReadsOne, EndSessionMoves, OnlyClients
<1>3. CASE client' = [client EXCEPT ![d] = "online"] /\ UNCHANGED <<sock, ctl, peers>>
  <2>1. handler[c] \notin {"none", "hello"} /\ dev[c] = d
    BY <1>1, ReadsOne, ConnAssumption DEF ClientsDialed
  <2>2. ClientsDialed'
    BY <1>1, <1>3, <2>1 DEF ClientsDialed, TypeOK
  <2> QED
    BY <1>1, <1>3, <2>2, ReadsOne, OnlyClients DEF TypeOK, ClientSteps
<1> QED
  BY <1>2, <1>3 DEF ReadFirst

LEMMA ReadPeersStep == ASSUME IInv, NEW d \in Devices, ReadPeers(d) PROVE IInv'
<1> DEFINE c == ctl[d]
<1>1. /\ TypeOK /\ ClientsDialed /\ wire[c] # <<>> /\ c \in Conns
      /\ wire' = [wire EXCEPT ![c] = Tail(@)]
      /\ UNCHANGED <<dev, handler, group, sends, sock, client, ctl>>
  BY DEF IInv, Typed, ClientsDialed, ReadPeers
<1>2. Head(wire[c]).list \in SUBSET Devices
  BY <1>1, ReadsOne DEF Messages
<1>3. peers' \in [Devices -> SUBSET Devices] /\ \A e \in Devices : e \notin peers'[e]
  BY <1>1, <1>2 DEF ReadPeers, TypeOK
<1>4. ClientsDialed'
  BY <1>1 DEF ClientsDialed
<1> QED
  BY <1>1, <1>3, <1>4, ReadsOne, OnlyClients DEF TypeOK

LEMMA ReadFailsStep == ASSUME IInv, NEW d \in Devices, ReadFails(d) PROVE IInv'
<1>1. /\ ctl[d] \in Conns /\ EndSession(d) /\ UNCHANGED <<dev, handler, group, sends, wire>>
      /\ wire \in [Conns -> Seq(Messages)]
  BY DEF IInv, Typed, ClientsDialed, ReadFails
<1> QED
  BY <1>1, EndSessionMoves, OnlyClients

LEMMA BreakStep == ASSUME IInv, NEW c \in Conns, Break(c) PROVE IInv'
<1>1. TypeOK /\ wire \in [Conns -> Seq(Messages)] /\ ClientsDialed
  BY DEF IInv, Typed
<1>2. /\ UNCHANGED <<dev, handler, group, sends, client, ctl, peers>>
      /\ wire' = [wire EXCEPT ![c] = <<>>] /\ sock' = [sock EXCEPT ![c] = "broken"]
  BY DEF Break
<1>3. <<>> \in Seq(Messages)
  OBVIOUS
<1>4. ClientsDialed'
  BY <1>1, <1>2 DEF ClientsDialed
<1>5. wire' \in [Conns -> Seq(Messages)] /\ \A x \in Conns : wire[x] = <<>> => wire'[x] = <<>>
  BY <1>1, <1>2, <1>3
<1> QED
  BY <1>1, <1>2, <1>4, <1>5, OnlyClients DEF TypeOK

-----------------------------------------------------------------------------
LEMMA NextIInv == ASSUME IInv, [Next]_vars PROVE IInv'
<1>1. ASSUME NEW c \in Conns, RelayStep(c) PROVE IInv'
  BY <1>1, RegisterStep, HelloFailsStep, SendOkStep, AnnounceStep, LeaveStep DEF RelayStep
<1>2. ASSUME NEW d \in Devices, ClientStep(d) PROVE IInv'
  BY <1>2, ReadFirstStep, ReadPeersStep, ReadFailsStep DEF ClientStep
<1> QED
  BY <1>1, <1>2, BreakStep, SendPeersStep, DialStep, StutterIInv DEF Next

LEMMA AlwaysIInv == Spec => []IInv
  BY InitIInv, NextIInv, PTL DEF Spec

(* The types hold for any devices and connections; in particular no client *)
(* ever lists its own device (setPeers).                                   *)
THEOREM TypeCorrect == Spec => []TypeOK
<1>1. IInv => TypeOK
  BY DEF IInv, Typed
<1> QED
  BY <1>1, AlwaysIInv, PTL

(* handleRegister: however devices register, take their id over, break off *)
(* and leave, the group never exceeds maxDevicesInGroup, and whoever is in *)
(* it has a handler that will take it out.                                 *)
THEOREM GroupStaysLive == Spec => []GroupIsLive
<1>1. IInv => GroupIsLive
  BY DEF IInv, GroupOK
<1> QED
  BY <1>1, AlwaysIInv, PTL

(* handleRegister's deferred "if group[id] == entry": a client that is     *)
(* online over an open connection is in the group over that very one, in   *)
(* whatever order its older connections are noticed to have ended.         *)
THEOREM OnlineStaysReachable == Spec => []OnlineIsReachable
<1>1. IInv => OnlineIsReachable
  <2> SUFFICES ASSUME IInv, NEW d \in Devices, client[d] = "online", sock[ctl[d]] = "open"
               PROVE  group[d] = ctl[d]
    BY DEF OnlineIsReachable
  <2>1. /\ ctl[d] \in Conns /\ dev[ctl[d]] = d /\ handler[ctl[d]] \notin {"none", "hello"}
    BY ConnAssumption DEF IInv, ClientsDialed
  <2>2. handler[ctl[d]] \in In
    BY <2>1 DEF IInv, Typed, TypeOK, HandlerSteps, HandlersRun, In
  <2> QED
    BY <2>1, <2>2 DEF IInv, Takeover
<1> QED
  BY <1>1, AlwaysIInv, PTL

-----------------------------------------------------------------------------
(* A relay at rest.  A client that is away uses no connection; one whose   *)
(* handler has written to it has something to read until it is online; and *)
(* an open connection is one its client still uses.                        *)
LinesAgree ==
  /\ \A d \in Devices : client[d] = "away" <=> ctl[d] = None
  /\ \A d \in Devices :
       client[d] = "registering" /\ handler[ctl[d]] \in {"announcing", "serving"}
         /\ sock[ctl[d]] = "open" => wire[ctl[d]] # <<>>
  /\ \A c \in Conns : dev[c] # None /\ sock[c] = "open" => ctl[dev[c]] = c

LEMMA InitLines == Init => LinesAgree
  BY DEF Init, LinesAgree

(* Clients go on as they are, and what was written stays until it breaks.  *)
LEMMA ClientsStay ==
  ASSUME IInv, LinesAgree, UNCHANGED <<dev, client, ctl>>,
         \A c \in Conns : sock'[c] = "open" =>
           /\ sock[c] = "open"
           /\ wire[c] # <<>> => wire'[c] # <<>>
           /\ handler'[c] \in {"announcing", "serving"} =>
                handler[c] \in {"announcing", "serving"} \/ wire'[c] # <<>>
  PROVE  LinesAgree'
<1>1. \A d \in Devices : client[d] = "registering" => ctl[d] \in Conns
  BY DEF IInv, ClientsDialed
<1>2. QED
  BY <1>1 DEF LinesAgree

LEMMA WrittenStays ==
  ASSUME IInv, NEW c \in Conns, NEW m \in Messages
  PROVE  /\ \A x \in Conns : wire[x] # <<>> => Written(c, m)[x] # <<>>
         /\ sock[c] = "open" => Written(c, m)[c] # <<>>
<1>1. wire \in [Conns -> Seq(Messages)]
  BY DEF IInv, Typed
<1>2. Append(wire[c], m) # <<>>
  <2>1. Len(Append(wire[c], m)) = Len(wire[c]) + 1 /\ Len(wire[c]) \in Nat
    BY <1>1
  <2>2. Len(<<>>) = 0
    OBVIOUS
  <2>3. QED
    BY <2>1, <2>2
<1>3. QED
  BY <1>1, <1>2 DEF Written

LEMMA RelayAnswers ==
  ASSUME IInv, LinesAgree, NEW c \in Conns, RelayStep(c) \/ Break(c)
  PROVE  LinesAgree'
<1>1. /\ TypeOK /\ wire \in [Conns -> Seq(Messages)]
      /\ Msg("ok", {}) \in Messages /\ Msg("err", {}) \in Messages
  BY DEF IInv, Typed, Msg, Messages
<1>2. CASE Register(c)
  <2>1. UNCHANGED <<dev, client, ctl>>
    BY <1>2 DEF Register
  <2>2. \A x \in Conns : wire[x] # <<>> => wire'[x] # <<>>
    BY <1>1, <1>2, WrittenStays DEF Register
  <2>3. \A x \in Conns : /\ sock'[x] = "open" => sock[x] = "open"
                         /\ handler'[x] \in {"announcing", "serving"} => handler'[x] = handler[x]
    BY <1>1, <1>2 DEF Register, Closed, TypeOK
  <2>4. QED
    BY <2>1, <2>2, <2>3, ClientsStay
<1>3. CASE SendOk(c)
  <2>1. UNCHANGED <<dev, sock, client, ctl>>
    BY <1>3 DEF SendOk
  <2>2. \A x \in Conns : wire[x] # <<>> => wire'[x] # <<>>
    BY <1>1, <1>3, WrittenStays DEF SendOk
  <2>3. sock[c] = "open" => wire'[c] # <<>>
    BY <1>1, <1>3, WrittenStays DEF SendOk
  <2>4. \A x \in Conns : x # c => handler'[x] = handler[x]
    BY <1>1, <1>3 DEF SendOk, TypeOK
  <2>5. QED
    BY <2>1, <2>2, <2>3, <2>4, ClientsStay
<1>4. CASE HelloFails(c) \/ Announce(c) \/ Leave(c) \/ AnnounceLeft(c)
  <2>1. UNCHANGED <<dev, sock, wire, client, ctl>>
    BY <1>4 DEF HelloFails, Announce, Leave, AnnounceLeft
  <2>2. \A x \in Conns : handler'[x] \in {"announcing", "serving"} =>
                           handler[x] \in {"announcing", "serving"}
    BY <1>1, <1>4 DEF HelloFails, Announce, Leave, AnnounceLeft, TypeOK
  <2>3. QED
    BY <2>1, <2>2, ClientsStay
<1>5. CASE Break(c)
  <2>1. UNCHANGED <<dev, handler, client, ctl>>
    BY <1>5 DEF Break
  <2>2. \A x \in Conns : sock'[x] = "open" => x # c /\ sock[x] = "open" /\ wire'[x] = wire[x]
    BY <1>1, <1>5 DEF Break, TypeOK
  <2>3. QED
    BY <2>1, <2>2, ClientsStay
<1>6. QED
  BY <1>2, <1>3, <1>4, <1>5 DEF RelayStep

LEMMA SendPeersAnswers ==
  ASSUME IInv, LinesAgree, NEW s \in sends, SendPeers(s)
  PROVE  LinesAgree'
<1>1. s.to \in Conns /\ Msg("peers", s.list) \in Messages
  BY DEF IInv, Typed, TypeOK, Msg, Messages
<1>2. UNCHANGED <<dev, handler, sock, client, ctl>>
  BY DEF SendPeers
<1>3. \A x \in Conns : wire[x] # <<>> => wire'[x] # <<>>
  BY <1>1, WrittenStays DEF SendPeers
<1>4. QED
  BY <1>2, <1>3, ClientsStay

(* A step of one client; the connections of the others are not its own.    *)
LEMMA ClientAnswers ==
  ASSUME IInv, LinesAgree, NEW d \in Devices, ClientStep(d)
  PROVE  LinesAgree'
<1> DEFINE k == ctl[d]
<1>1. /\ TypeOK /\ wire \in [Conns -> Seq(Messages)] /\ client[d] # "away" /\ k \in Conns
      /\ dev[k] = d /\ UNCHANGED <<dev, handler>>
      /\ \A e \in Devices : client[e] # "away" => ctl[e] \in Conns /\ dev[ctl[e]] = e
      /\ \A x \in Conns : x # k => wire'[x] = wire[x]
  <2>1. client[d] # "away" /\ UNCHANGED <<dev, handler>>
    BY DEF ClientStep, ReadFirst, ReadPeers, ReadFails
  <2>2. \A e \in Devices : client[e] # "away" => ctl[e] \in Conns /\ dev[ctl[e]] = e
    BY ConnAssumption DEF IInv, ClientsDialed
  <2>3. wire' = wire \/ wire' = [wire EXCEPT ![k] = Tail(@)]
    BY DEF ClientStep, ReadFirst, ReadPeers, ReadFails
  <2>4. QED
    BY <2>1, <2>2, <2>3 DEF IInv, Typed
<1>2. \A e \in Devices : e # d /\ client[e] # "away" => ctl[e] # k
  BY <1>1
<1>3. CASE EndSession(d)
  <2>1. /\ \A e \in Devices : e # d => client'[e] = client[e] /\ ctl'[e] = ctl[e]
        /\ client'[d] = "away" /\ ctl'[d] = None
        /\ \A x \in Conns : x # k => sock'[x] = sock[x]
        /\ sock'[k] # "open"
    BY <1>1, <1>3 DEF EndSession, TypeOK
  <2> HIDE DEF k
  <2>2. \A x \in Conns : dev[x] # None /\ sock'[x] = "open" => dev[x] # d
    BY <1>1, <2>1 DEF LinesAgree, k
  <2>3. \A x \in Conns : dev[x] # None => dev[x] \in Devices
    BY <1>1 DEF TypeOK
  <2>4. \A x \in Conns : dev[x] # None /\ sock'[x] = "open" => ctl'[dev[x]] = x
    BY <2>1, <2>2, <2>3 DEF LinesAgree
  <2>5. \A e \in Devices : client'[e] = "away" <=> ctl'[e] = None
    BY <2>1 DEF LinesAgree
  <2>6. ASSUME NEW e \in Devices, client'[e] = "registering", sock'[ctl'[e]] = "open",
               handler[ctl'[e]] \in {"announcing", "serving"}
        PROVE  wire'[ctl'[e]] # <<>>
    <3>1. e # d /\ client[e] = "registering" /\ ctl'[e] = ctl[e] /\ ctl[e] \in Conns /\ ctl[e] # k
      BY <1>1, <1>2, <2>1, <2>6
    <3>2. QED
      BY <1>1, <2>1, <2>6, <3>1 DEF LinesAgree
  <2>7. QED
    BY <1>1, <2>4, <2>5, <2>6 DEF LinesAgree
<1>4. CASE ~EndSession(d)
  <2>1. UNCHANGED <<sock, ctl>> /\ \A e \in Devices : e # d => client'[e] = client[e]
    BY <1>4 DEF ClientStep, ReadFirst, ReadPeers, ReadFails, IInv, Typed, TypeOK
  <2>2. client'[d] = "online"
    BY <1>1, <1>4 DEF ClientStep, ReadFirst, ReadPeers, ReadFails, TypeOK
  <2> HIDE DEF k
  <2>3. \A e \in Devices : client'[e] = "away" <=> ctl'[e] = None
    BY <1>1, <2>1, <2>2 DEF LinesAgree
  <2>4. ASSUME NEW e \in Devices, client'[e] = "registering", sock'[ctl'[e]] = "open",
               handler[ctl'[e]] \in {"announcing", "serving"}
        PROVE  wire'[ctl'[e]] # <<>>
    <3>1. e # d /\ client[e] = "registering" /\ ctl[e] \in Conns /\ ctl[e] # k
      BY <1>1, <1>2, <2>1, <2>2, <2>4
    <3>2. QED
      BY <1>1, <2>1, <2>4, <3>1 DEF LinesAgree
  <2>5. QED
    BY <1>1, <2>1, <2>3, <2>4 DEF LinesAgree
<1>5. QED
  BY <1>3, <1>4

LEMMA DialAnswers ==
  ASSUME IInv, LinesAgree, NEW d \in Devices, NEW c \in Conns, Dial(d, c)
  PROVE  LinesAgree'
<1>1. /\ TypeOK /\ client[d] = "away" /\ ctl[d] = None /\ dev[c] = None /\ c # None
      /\ handler[c] = "none"
  BY ConnAssumption DEF IInv, Typed, HandlersRun, LinesAgree, Dial
<1>2. /\ client' = [client EXCEPT ![d] = "registering"] /\ ctl' = [ctl EXCEPT ![d] = c]
      /\ dev' = [dev EXCEPT ![c] = d] /\ handler' = [handler EXCEPT ![c] = "hello"]
      /\ UNCHANGED <<sock, wire>>
  BY DEF Dial
<1>3. \A e \in Devices : client[e] # "away" => ctl[e] \in Conns /\ ctl[e] # c
  BY <1>1, ConnAssumption DEF IInv, ClientsDialed
<1>4. \A e \in Devices : client'[e] = "away" <=> ctl'[e] = None
  BY <1>1, <1>2 DEF LinesAgree, TypeOK
<1>5. ASSUME NEW e \in Devices, client'[e] = "registering", sock'[ctl'[e]] = "open",
             handler'[ctl'[e]] \in {"announcing", "serving"}
      PROVE  wire'[ctl'[e]] # <<>>
  <2>1. e # d
    BY <1>1, <1>2, <1>5 DEF TypeOK
  <2>2. client[e] = "registering" /\ ctl'[e] = ctl[e] /\ ctl[e] \in Conns /\ ctl[e] # c
    BY <1>1, <1>2, <1>3, <1>5, <2>1 DEF TypeOK
  <2>3. QED
    BY <1>1, <1>2, <1>5, <2>2 DEF LinesAgree, TypeOK
<1>6. ASSUME NEW x \in Conns, dev'[x] # None, sock'[x] = "open"
      PROVE  ctl'[dev'[x]] = x
  <2>1. CASE x = c
    BY <1>1, <1>2, <2>1 DEF TypeOK
  <2>2. CASE x # c
    <3>1. dev'[x] = dev[x] /\ dev[x] \in Devices /\ ctl[dev[x]] = x
      BY <1>1, <1>2, <1>6, <2>2 DEF TypeOK, LinesAgree
    <3>2. dev[x] # d
      BY <1>1, <3>1, ConnAssumption
    <3>3. QED
      BY <1>1, <1>2, <3>1, <3>2 DEF TypeOK
  <2>3. QED
    BY <2>1, <2>2
<1>7. QED
  BY <1>4, <1>5, <1>6 DEF LinesAgree

LEMMA NextLines == ASSUME IInv, LinesAgree, [Next]_vars PROVE LinesAgree'
<1>1. CASE UNCHANGED vars
  BY <1>1, ClientsStay DEF vars
<1>2. QED
  BY <1>1, RelayAnswers, SendPeersAnswers, ClientAnswers, DialAnswers DEF Next

(* Nothing that can happen to connections and registrations leaves the     *)
(* relay and a client in disagreement for good: when neither has anything  *)
(* to do, no handler, message or broken connection is overlooked, and a    *)
(* device is in the group over the connection its client is online with or *)
(* not at all (handleRegister, session, loop).  The part of                *)
(* MembershipSettles that is left is that they come to rest.               *)
THEOREM RestIsAgreement == Spec => []RestAgrees
<1>1. ASSUME IInv, LinesAgree, AtRest, NEW d \in Devices
      PROVE  /\ group[d] = ctl[d]
             /\ client[d] = IF d \in Members THEN "online" ELSE "away"
  <2>1. /\ group[d] \in Conns \union {None} /\ client[d] \in ClientSteps
        /\ handler \in [Conns -> HandlerSteps]
    BY <1>1 DEF IInv, Typed, TypeOK
  <2>2. group[d] # None => ctl[d] = group[d]
    <3>1. SUFFICES ASSUME group[d] # None PROVE ctl[d] = group[d]
      OBVIOUS
    <3>2. dev[group[d]] = d /\ handler[group[d]] \in In
      BY <1>1, <3>1 DEF IInv, GroupOK, GroupIsLive, Members, In
    <3>3. sock[group[d]] = "open"
      BY <1>1, <2>1, <3>1, <3>2 DEF AtRest, In
    <3>4. QED
      BY <1>1, <2>1, <3>1, <3>2, <3>3, ConnAssumption DEF LinesAgree
  <2>3. client[d] # "away" => client[d] = "online" /\ group[d] = ctl[d]
    <3>1. SUFFICES ASSUME client[d] # "away" PROVE client[d] = "online" /\ group[d] = ctl[d]
      OBVIOUS
    <3>2. /\ ctl[d] \in Conns /\ dev[ctl[d]] = d /\ handler[ctl[d]] # "none"
          /\ sock[ctl[d]] = "open" /\ wire[ctl[d]] = <<>>
      BY <1>1, <3>1, ConnAssumption DEF IInv, ClientsDialed, AtRest
    <3>3. handler[ctl[d]] = "serving"
      BY <1>1, <3>2 DEF IInv, HandlersRun, AtRest
    <3>4. group[d] = ctl[d]
      BY <1>1, <3>2, <3>3 DEF IInv, Takeover, In
    <3>5. client[d] # "registering"
      BY <1>1, <3>2, <3>3 DEF LinesAgree
    <3>6. QED
      BY <2>1, <3>1, <3>4, <3>5 DEF ClientSteps
  <2>4. client[d] = "away" <=> ctl[d] = None
    BY <1>1 DEF LinesAgree
  <2>5. QED
    BY <2>2, <2>3, <2>4 DEF Members
<1>2. IInv /\ LinesAgree => RestAgrees
  BY <1>1 DEF RestAgrees
<1>3. IInv /\ LinesAgree /\ [Next]_vars => LinesAgree'
  BY NextLines
<1>4. QED
  BY <1>2, <1>3, InitLines, AlwaysIInv, PTL DEF Spec

-----------------------------------------------------------------------------
(* A computer: its group. *)

(* What the goroutine that changes the pairing holds at each step: only    *)
(* between taking a client out and clearing it has it one of its own, the  *)
(* app then has none, and the next one is made with the group's key.       *)
UpdateHolds ==
  /\ old # NoClient => update \in {"stop", "clear"}
  /\ update \in {"stop", "clear"} => old # NoClient
  /\ update \in {"stop", "clear", "start"} => app = NoClient
  /\ update = "clear" => old \in stopped
  /\ update = "idle" => (app # NoClient <=> pair.relay)
  /\ update = "idle" /\ app # NoClient => keyOf[app] = pair.key

(* A loop that goes on without having been stopped is the app's, or the    *)
(* one that is about to be stopped.                                        *)
LoopsOwned == \A c \in Clients :
  loop[c] \notin {"new", "ended"} /\ c \notin stopped => c \in {app, old}

(* Where the loop is while its connection can be read.  Stop closes the    *)
(* connection it finds in c.ctl; one that is put there later is given up   *)
(* by the check that follows.                                              *)
LinesHeld == \A c \in Clients :
  /\ link[c] = "local" => loop[c] = "dialed"
  /\ link[c] = "open" => loop[c] \in {"check", "register", "accepted", "serve", "peers", "return"}
  /\ link[c] = "open" /\ c \in stopped => loop[c] \in {"check", "return"}

(* Peers are known while a session is served, a loop ends when stopped.    *)
PeersServed == \A c \in Clients :
  /\ c \in known => loop[c] \in {"serve", "peers", "return"}
  /\ loop[c] = "ended" => c \in stopped

(* A file that was written holds what the app goes by.                     *)
FileHolds == saved => file = pair

GInv == PairingOK /\ FileHolds /\ UpdateHolds /\ LoopsOwned /\ LinesHeld /\ PeersServed

(* A client that was stopped is off the relay once its loop has ended, and *)
(* until then reads nothing from its connection.                           *)
StoppedReadsNothing ==
  \A c \in stopped :
    /\ loop[c] \in {"register", "serve"} => link[c] \notin {"open", "local"}
    /\ loop[c] = "ended" => link[c] \in {"none", "closed"} /\ c \notin known

-----------------------------------------------------------------------------
(* Member: the client has proved this computer's key.                      *)
Member(c) == kind[c].who = "member" /\ keyed

(* How far a client gets that has not.                                     *)
KeyProved == \A c \in Arrivals :
  /\ step[c] = "shake" => keyed
  /\ step[c] \in {"shaken", "offer", "link"} \/ c \in paired => Member(c)
  /\ step[c] = "ack" /\ kind[c].action = "link" => Member(c)

(* The user accepted an offer with the id of c's, and c got that accept.   *)
Agreed(c) == by[c] \in Arrivals /\ kind[by[c]].id = kind[c].id

(* An offer from someone else goes on only with an accept for its id.      *)
OffersAgreed == \A c \in Arrivals :
  /\ step[c] \in {"tell", "ask"} => kind[c].action = "offer"
  /\ asking[c] = "accept" => Agreed(c)
  /\ step[c] = "ack" /\ kind[c].action = "offer" => Member(c) \/ Agreed(c)
  /\ step[c] = "stream" => Member(c) \/ Agreed(c)

(* What waits under an id has that id.                                     *)
IdsKept == \A i \in Ids : pending[i] # NoOffer => kind[pending[i]].id = i

(* The user answers an offer once: one that was answered is not on the     *)
(* screen any more and does not get there again.                           *)
AnsweredOnce ==
  /\ screen # NoOffer => step[screen] \notin Reading \union {"new", "shaken", "serve", "tell"}
  /\ \A c \in Arrivals : by[c] # NoOffer =>
       /\ step[by[c]] \notin Reading \union {"new", "shaken", "serve", "tell"} /\ by[c] # screen
       /\ \A d \in Arrivals : by[c] = by[d] => c = d

(* The byte that a handler has sent, by where it is.                       *)
VerdictsKept == \A c \in Arrivals :
  /\ step[c] \notin {"show", "link", "stream", "closed"} => verdict[c] = "none"
  /\ step[c] \in {"show", "link", "stream"} => verdict[c] = "accept"
  /\ step[c] = "show" => kind[c].action = "text"

(* What is shown is a text whose sender was told so, and the sender calls  *)
(* only such a text sent.                                                  *)
TextsTrue == \A c \in Arrivals :
  /\ c \in shown => verdict[c] = "accept" /\ kind[c].action = "text"
  /\ told[c] = "sent" => verdict[c] = "accept"

NInv == InOK /\ KeyProved /\ OffersAgreed /\ IdsKept /\ AnsweredOnce /\ VerdictsKept /\ TextsTrue

(* serve: one byte answers an offer, and no second one.                    *)
OneVerdict == \A c \in Arrivals : verdict[c] # "none" => verdict'[c] = verdict[c]

-----------------------------------------------------------------------------
(* Changing the group. *)

LEMMA GroupStarts == GroupInit => GInv
<1> SUFFICES ASSUME GroupInit PROVE GInv
  OBVIOUS
<1>1. PairingOK
  BY GroupAssumption DEF GroupInit, PairingOK, Pairs, UpdateSteps, LoopSteps
<1>2. UpdateHolds /\ LoopsOwned /\ LinesHeld /\ PeersServed
  BY DEF GroupInit, UpdateHolds, LoopsOwned, LinesHeld, PeersServed
<1> QED
  BY <1>1, <1>2 DEF GroupInit, GInv, FileHolds

LEMMA ChangeKeeps ==
  ASSUME GInv, NEW new \in Pairs, Change(new) \/ SaveFails(new)
  PROVE  GInv'
<1>1. changes' \in 0..MaxChanges
  BY GroupAssumption DEF Change, SaveFails, GInv, PairingOK
<1>2. PairingOK'
  BY <1>1 DEF Change, SaveFails, GInv, PairingOK, UpdateSteps, loopVars
<1>3. FileHolds'
  BY DEF Change, SaveFails, GInv, FileHolds
<1>4. UpdateHolds'
  BY DEF Change, SaveFails, GInv, UpdateHolds, loopVars
<1>5. LoopsOwned' /\ LinesHeld' /\ PeersServed'
  BY DEF Change, SaveFails, GInv, LoopsOwned, LinesHeld, PeersServed, loopVars
<1> QED
  BY <1>2, <1>3, <1>4, <1>5 DEF GInv

LEMMA UpdateKeeps ==
  ASSUME GInv, UpdateStep
  PROVE  GInv'
<1>1. CASE CloseAll
  <2>1. call' \in [Calls -> {"none", "shaking", "up", "down"}]
    BY <1>1 DEF CloseAll, GInv, PairingOK
  <2>2. PairingOK'
    BY <1>1, <2>1 DEF CloseAll, GInv, PairingOK, UpdateSteps, loopVars
  <2>3. UpdateHolds' /\ LoopsOwned' /\ LinesHeld' /\ PeersServed' /\ FileHolds'
    BY <1>1 DEF CloseAll, GInv, UpdateHolds, LoopsOwned, LinesHeld, PeersServed, loopVars, FileHolds
  <2> QED
    BY <2>2, <2>3 DEF GInv
<1>2. CASE TakeOld
  <2>1. PairingOK'
    BY <1>2 DEF TakeOld, GInv, PairingOK, UpdateSteps, loopVars
  <2>2. UpdateHolds'
    BY <1>2 DEF TakeOld, GInv, UpdateHolds, loopVars
  <2>3. old = NoClient
    BY <1>2 DEF TakeOld, GInv, UpdateHolds
  <2>4. LoopsOwned'
    BY <1>2, <2>3, GroupAssumption DEF TakeOld, GInv, LoopsOwned, loopVars
  <2>5. LinesHeld' /\ PeersServed' /\ FileHolds'
    BY <1>2 DEF TakeOld, GInv, LinesHeld, PeersServed, loopVars, FileHolds
  <2> QED
    BY <2>1, <2>2, <2>4, <2>5 DEF GInv
<1>3. CASE StopOld
  <2>1. old \in Clients /\ app = NoClient
    BY <1>3 DEF StopOld, GInv, UpdateHolds, PairingOK
  <2>2. PairingOK'
    BY <1>3, <2>1 DEF StopOld, GInv, PairingOK, UpdateSteps
  <2>3. UpdateHolds'
    BY <1>3 DEF StopOld, GInv, UpdateHolds
  <2>4. LoopsOwned' /\ PeersServed' /\ FileHolds'
    BY <1>3 DEF StopOld, GInv, LoopsOwned, PeersServed, FileHolds
  <2>5. LinesHeld'
    <3> SUFFICES ASSUME NEW c \in Clients
                 PROVE  /\ link'[c] = "local" => loop[c] = "dialed"
                        /\ link'[c] = "open" => loop[c] \in {"check", "register", "accepted", "serve",
                                                             "peers", "return"}
                        /\ link'[c] = "open" /\ c \in stopped' => loop[c] \in {"check", "return"}
      BY <1>3 DEF StopOld, LinesHeld
    <3>1. CASE c = old
      BY <1>3, <3>1 DEF StopOld, GInv, LinesHeld, PairingOK
    <3>2. CASE c # old
      BY <1>3, <3>2 DEF StopOld, GInv, LinesHeld, PairingOK
    <3> QED
      BY <3>1, <3>2
  <2> QED
    BY <2>2, <2>3, <2>4, <2>5 DEF GInv
<1>4. CASE ClearOld
  <2>1. PairingOK'
    BY <1>4 DEF ClearOld, GInv, PairingOK, UpdateSteps
  <2>2. UpdateHolds'
    BY <1>4 DEF ClearOld, GInv, UpdateHolds
  <2>3. LoopsOwned'
    BY <1>4 DEF ClearOld, GInv, LoopsOwned, UpdateHolds
  <2>4. LinesHeld' /\ PeersServed' /\ FileHolds'
    BY <1>4 DEF ClearOld, GInv, LinesHeld, PeersServed, FileHolds
  <2> QED
    BY <2>1, <2>2, <2>3, <2>4 DEF GInv
<1>5. CASE StartNew
  <2>1. old = NoClient /\ app = NoClient
    BY <1>5 DEF StartNew, GInv, UpdateHolds
  <2>2. CASE ~pair.relay
    <3>1. UNCHANGED <<app, loop, keyOf>>
      BY <1>5, <2>2 DEF StartNew
    <3>2. PairingOK'
      BY <1>5, <3>1 DEF StartNew, GInv, PairingOK, UpdateSteps
    <3>3. UpdateHolds'
      BY <1>5, <2>1, <2>2, <3>1 DEF StartNew, GInv, UpdateHolds
    <3>4. LoopsOwned' /\ LinesHeld' /\ PeersServed' /\ FileHolds'
      BY <1>5, <3>1 DEF StartNew, GInv, LoopsOwned, LinesHeld, PeersServed, FileHolds
    <3> QED
      BY <3>2, <3>3, <3>4 DEF GInv
  <2>3. CASE pair.relay
    <3>1. PICK c \in Clients : /\ loop[c] = "new" /\ app' = c
                               /\ loop' = [loop EXCEPT ![c] = "top"]
                               /\ keyOf' = [keyOf EXCEPT ![c] = pair.key]
      BY <1>5, <2>3 DEF StartNew
    <3>2. PairingOK'
      BY <1>5, <3>1 DEF StartNew, GInv, PairingOK, UpdateSteps, LoopSteps, Pairs
    <3>3. keyOf'[c] = pair.key
      BY <3>1 DEF GInv, PairingOK
    <3>4. UpdateHolds'
      BY <1>5, <2>1, <2>3, <3>1, <3>3, GroupAssumption DEF StartNew, GInv, UpdateHolds
    <3>5. LoopsOwned'
      BY <1>5, <2>1, <3>1, GroupAssumption DEF StartNew, GInv, LoopsOwned, PairingOK
    <3>6. LinesHeld' /\ PeersServed' /\ FileHolds'
      BY <1>5, <3>1 DEF StartNew, GInv, LinesHeld, PeersServed, PairingOK, FileHolds
    <3> QED
      BY <3>2, <3>4, <3>5, <3>6 DEF GInv
  <2> QED
    BY <2>2, <2>3
<1> QED
  BY <1>1, <1>2, <1>3, <1>4, <1>5 DEF UpdateStep

(* A step of a loop leaves the pairing and its goroutine as they are.      *)
LEMMA LoopsApart ==
  ASSUME GInv, NEW c \in Clients, LoopStep(c) \/ ReadControl(c) \/ ControlFails(c)
  PROVE  UNCHANGED <<pair, file, saved, update, changes, app, old, call, callKey, keyOf, stopped>>
<1>1. CASE Top(c) \/ DialRelay(c) \/ SetCtl(c) \/ CheckStopped(c)
  BY <1>1 DEF Top, DialRelay, SetCtl, CheckStopped, AppVars
<1>2. CASE SetOnline(c) \/ SetPeers(c) \/ Return(c) \/ Report(c) \/ Wait(c)
  BY <1>2 DEF SetOnline, SetPeers, Return, Report, Wait, AppVars
<1>3. CASE ReadControl(c) \/ ControlFails(c)
  BY <1>3 DEF ReadControl, ControlFails, AppVars
<1> QED
  BY <1>1, <1>2, <1>3 DEF LoopStep

(* It moves that loop from a step to a step, never back to the first.      *)
LEMMA LoopMoves ==
  ASSUME GInv, NEW c \in Clients, LoopStep(c) \/ ReadControl(c) \/ ControlFails(c)
  PROVE  /\ loop[c] \notin {"new", "ended"}
         /\ \E to \in LoopSteps \ {"new"} : loop' = [loop EXCEPT ![c] = to]
<1>1. CASE Top(c) \/ DialRelay(c) \/ SetCtl(c) \/ CheckStopped(c)
  BY <1>1 DEF Top, DialRelay, SetCtl, CheckStopped, LoopTo, LoopSteps
<1>2. CASE SetOnline(c) \/ SetPeers(c) \/ Return(c) \/ Report(c) \/ Wait(c)
  BY <1>2 DEF SetOnline, SetPeers, Return, Report, Wait, LoopTo, LoopSteps
<1>3. CASE ReadControl(c) \/ ControlFails(c)
  BY <1>3 DEF ReadControl, ControlFails, LoopTo, LoopSteps
<1> QED
  BY <1>1, <1>2, <1>3 DEF LoopStep

(* The types of the rest of what it changes.                               *)
LEMMA LoopTypes ==
  ASSUME GInv, NEW c \in Clients, LoopStep(c) \/ ReadControl(c) \/ ControlFails(c)
  PROVE  /\ link' \in [Clients -> {"none", "local", "open", "closed"}]
         /\ status' \in [Clients -> {"off", "connecting", "online", "error"}]
         /\ known' \subseteq Clients
<1>1. CASE Top(c) \/ DialRelay(c) \/ SetCtl(c) \/ CheckStopped(c)
  BY <1>1 DEF Top, DialRelay, SetCtl, CheckStopped, GInv, PairingOK
<1>2. CASE SetOnline(c) \/ SetPeers(c) \/ Report(c) \/ Wait(c)
  BY <1>2 DEF SetOnline, SetPeers, Report, Wait, GInv, PairingOK
<1>3. CASE Return(c)
  BY <1>3 DEF Return, GInv, PairingOK
<1>4. CASE ReadControl(c) \/ ControlFails(c)
  BY <1>4 DEF ReadControl, ControlFails, GInv, PairingOK
<1> QED
  BY <1>1, <1>2, <1>3, <1>4 DEF LoopStep

(* Nobody else's connection or peers change.                               *)
LEMMA LoopAlone ==
  ASSUME GInv, NEW c \in Clients, LoopStep(c) \/ ReadControl(c) \/ ControlFails(c),
         NEW d \in Clients, d # c
  PROVE  link'[d] = link[d] /\ loop'[d] = loop[d] /\ (d \in known' <=> d \in known)
<1>1. CASE Top(c) \/ DialRelay(c) \/ SetCtl(c) \/ CheckStopped(c)
  BY <1>1 DEF Top, DialRelay, SetCtl, CheckStopped, LoopTo, GInv, PairingOK
<1>2. CASE SetOnline(c) \/ SetPeers(c) \/ Report(c) \/ Wait(c)
  BY <1>2 DEF SetOnline, SetPeers, Report, Wait, LoopTo, GInv, PairingOK
<1>3. CASE Return(c)
  BY <1>3 DEF Return, LoopTo, GInv, PairingOK
<1>4. CASE ReadControl(c) \/ ControlFails(c)
  BY <1>4 DEF ReadControl, ControlFails, LoopTo, GInv, PairingOK
<1> QED
  BY <1>1, <1>2, <1>3, <1>4 DEF LoopStep

(* Its own stay in keeping with where the loop is.                         *)
LEMMA LoopOwn ==
  ASSUME GInv, NEW c \in Clients, LoopStep(c) \/ ReadControl(c) \/ ControlFails(c)
  PROVE  /\ link'[c] = "local" => loop'[c] = "dialed"
         /\ link'[c] = "open" => loop'[c] \in {"check", "register", "accepted", "serve", "peers", "return"}
         /\ link'[c] = "open" /\ c \in stopped => loop'[c] \in {"check", "return"}
         /\ c \in known' => loop'[c] \in {"serve", "peers", "return"}
         /\ loop'[c] = "ended" => c \in stopped
<1>1. CASE Top(c)
  BY <1>1 DEF Top, LoopTo, GInv, PairingOK, LinesHeld, PeersServed
<1>2. CASE DialRelay(c)
  BY <1>2 DEF DialRelay, LoopTo, GInv, PairingOK, LinesHeld, PeersServed
<1>3. CASE SetCtl(c)
  BY <1>3 DEF SetCtl, LoopTo, GInv, PairingOK, LinesHeld, PeersServed
<1>4. CASE CheckStopped(c)
  BY <1>4 DEF CheckStopped, LoopTo, GInv, PairingOK, LinesHeld, PeersServed
<1>5. CASE SetOnline(c) \/ SetPeers(c)
  BY <1>5 DEF SetOnline, SetPeers, LoopTo, GInv, PairingOK, LinesHeld, PeersServed
<1>6. CASE Return(c)
  BY <1>6 DEF Return, LoopTo, GInv, PairingOK, LinesHeld, PeersServed
<1>7. CASE Report(c) \/ Wait(c)
  BY <1>7 DEF Report, Wait, LoopTo, GInv, PairingOK, LinesHeld, PeersServed
<1>8. CASE ReadControl(c)
  BY <1>8 DEF ReadControl, LoopTo, GInv, PairingOK, LinesHeld, PeersServed
<1>9. CASE ControlFails(c)
  BY <1>9 DEF ControlFails, LoopTo, GInv, PairingOK, LinesHeld, PeersServed
<1> QED
  BY <1>1, <1>2, <1>3, <1>4, <1>5, <1>6, <1>7, <1>8, <1>9 DEF LoopStep

LEMMA LoopKeeps ==
  ASSUME GInv, NEW c \in Clients, LoopStep(c) \/ ReadControl(c) \/ ControlFails(c)
  PROVE  GInv'
<1>1. UNCHANGED <<pair, file, saved, update, changes, app, old, call, callKey, keyOf, stopped>>
  BY LoopsApart
<1>2. loop[c] \notin {"new", "ended"} /\ \E to \in LoopSteps \ {"new"} : loop' = [loop EXCEPT ![c] = to]
  BY LoopMoves
<1>3. PairingOK'
  BY <1>1, <1>2, LoopTypes DEF GInv, PairingOK
<1>4. UpdateHolds' /\ FileHolds'
  BY <1>1 DEF GInv, UpdateHolds, FileHolds
<1>5. LoopsOwned'
  BY <1>1, <1>2 DEF GInv, LoopsOwned, PairingOK
<1>6. LinesHeld' /\ PeersServed'
  BY <1>1, LoopAlone, LoopOwn DEF GInv, LinesHeld, PeersServed
<1> QED
  BY <1>3, <1>4, <1>5, <1>6 DEF GInv

LEMMA CallKeeps ==
  ASSUME GInv, NEW k \in Calls,
         OpenDirect(k) \/ FinishShake(k) \/ LinkEnds(k) \/ \E c \in Clients : AcceptRelayed(k, c)
  PROVE  GInv'
<1>1. UNCHANGED <<pair, file, saved, update, changes, app, old, loop, keyOf, stopped, link, known, status>>
  BY DEF OpenDirect, AcceptRelayed, Shake, FinishShake, LinkEnds, loopVars
<1>2. call' \in [Calls -> {"none", "shaking", "up", "down"}] /\ callKey' \in [Calls -> Keys]
  BY DEF OpenDirect, AcceptRelayed, Shake, FinishShake, LinkEnds, GInv, PairingOK, Pairs
<1> QED
  BY <1>1, <1>2 DEF GInv, PairingOK, FileHolds, UpdateHolds, LoopsOwned, LinesHeld, PeersServed

LEMMA GroupSteps == GInv /\ [GroupNext]_groupVars => GInv'
<1> SUFFICES ASSUME GInv, [GroupNext]_groupVars PROVE GInv'
  OBVIOUS
<1>1. CASE UNCHANGED groupVars
  BY <1>1 DEF groupVars, loopVars, GInv, PairingOK, FileHolds, UpdateHolds, LoopsOwned, LinesHeld, PeersServed
<1>2. ASSUME NEW new \in Pairs, Change(new) \/ SaveFails(new) PROVE GInv'
  BY <1>2, ChangeKeeps
<1>4. CASE UpdateStep
  BY <1>4, UpdateKeeps
<1>5. ASSUME NEW c \in Clients, LoopStep(c) \/ ReadControl(c) \/ ControlFails(c) PROVE GInv'
  BY <1>5, LoopKeeps
<1>6. ASSUME NEW k \in Calls, OpenDirect(k) \/ FinishShake(k) \/ LinkEnds(k) PROVE GInv'
  BY <1>6, CallKeeps
<1>7. ASSUME NEW k \in Calls, NEW c \in Clients, AcceptRelayed(k, c) PROVE GInv'
  BY <1>7, CallKeeps
<1> QED
  BY <1>1, <1>2, <1>4, <1>5, <1>6, <1>7 DEF GroupNext

LEMMA AlwaysGInv == GroupSpec => []GInv
  BY GroupStarts, GroupSteps, PTL DEF GroupSpec

(* Every variable of a computer that changes its group has its type.       *)
THEOREM PairingTypeCorrect == GroupSpec => []PairingOK
<1>1. GInv => PairingOK
  BY DEF GInv
<1> QED
  BY <1>1, AlwaysGInv, PTL

(* startRelay, stopRelay: between two changes the app uses a relay client  *)
(* exactly if the pairing that is saved names a relay, with that pairing's *)
(* key; and however changes, dials and stops fall together, a client that  *)
(* is neither the app's nor about to be stopped does not run on.           *)
THEOREM RelayAlwaysFollows == GroupSpec => []RelayFollowsPairing
<1>1. GInv => RelayFollowsPairing
  BY DEF GInv, FileHolds, UpdateHolds, LoopsOwned, RelayFollowsPairing
<1> QED
  BY <1>1, AlwaysGInv, PTL

(* Stop, session: a client that is stopped in the middle of its dial gives *)
(* the connection up before it registers; one that is stopped later reads  *)
(* nothing more; and when its loop has ended it has neither a connection   *)
(* nor peers.  (That it ends at all is StoppedClientsEnd.)                 *)
THEOREM StoppedStayOff == GroupSpec => []StoppedReadsNothing
<1>1. GInv => StoppedReadsNothing
  <2> SUFFICES ASSUME GInv, NEW c \in stopped
               PROVE  /\ loop[c] \in {"register", "serve"} => link[c] \notin {"open", "local"}
                      /\ loop[c] = "ended" => link[c] \in {"none", "closed"} /\ c \notin known
    BY DEF StoppedReadsNothing
  <2>1. c \in Clients /\ link[c] \in {"none", "local", "open", "closed"}
    BY DEF GInv, PairingOK
  <2>2. loop[c] \in {"register", "serve", "ended"} => link[c] \notin {"open", "local"}
    BY <2>1 DEF GInv, LinesHeld
  <2>3. loop[c] = "ended" => c \notin known
    BY <2>1 DEF GInv, PeersServed
  <2> QED
    BY <2>1, <2>2, <2>3
<1> QED
  BY <1>1, AlwaysGInv, PTL

-----------------------------------------------------------------------------
(* What comes in. *)

LEMMA InStarts == InInit => NInv
<1> SUFFICES ASSUME InInit PROVE NInv
  OBVIOUS
<1>1. InOK
  BY DEF InInit, InOK, Steps, Reading
<1>2. KeyProved /\ OffersAgreed /\ VerdictsKept /\ TextsTrue
  BY DEF InInit, KeyProved, OffersAgreed, VerdictsKept, TextsTrue
<1>3. IdsKept /\ AnsweredOnce
  BY DEF InInit, IdsKept, AnsweredOnce
<1> QED
  BY <1>1, <1>2, <1>3 DEF NInv

(* What a client says or does changes nothing of what was let in.          *)
LEMMA ClientTalks ==
  ASSUME NInv, NEW c \in Arrivals, Say(c) \/ HangUp(c) \/ TextEnds(c)
  PROVE  /\ UNCHANGED ServerVars
         /\ said' \in [Arrivals -> 0..4] /\ hungUp' \subseteq Arrivals
         /\ told' \in [Arrivals -> {"nothing", "sent", "error"}]
         /\ \A d \in Arrivals : told'[d] = "sent" => verdict[d] = "accept"
<1>1. CASE Say(c)
  <2>1. said[c] \in 0..4 /\ said[c] < 4
    BY <1>1 DEF Say, NInv, InOK
  <2>2. said' \in [Arrivals -> 0..4]
    BY <1>1, <2>1 DEF Say, NInv, InOK
  <2>3. UNCHANGED <<ServerVars, hungUp, told>>
    BY <1>1 DEF Say
  <2> QED
    BY <2>2, <2>3 DEF NInv, InOK, TextsTrue
<1>2. CASE HangUp(c)
  BY <1>2 DEF HangUp, NInv, InOK, TextsTrue
<1>3. CASE TextEnds(c)
  BY <1>3 DEF TextEnds, NInv, InOK, TextsTrue
<1> QED
  BY <1>1, <1>2, <1>3

LEMMA ClientKeeps ==
  ASSUME NInv, NEW c \in Arrivals, Say(c) \/ HangUp(c) \/ TextEnds(c)
  PROVE  NInv' /\ UNCHANGED verdict
<1>1. UNCHANGED <<running, keyed, kind, step, timed, paired, verdict, pending, asking, screen, by, shown>>
  BY ClientTalks DEF ServerVars, appVars
<1>2. InOK'
  BY <1>1, ClientTalks DEF NInv, InOK
<1>3. KeyProved' /\ OffersAgreed' /\ IdsKept' /\ AnsweredOnce' /\ VerdictsKept'
  BY <1>1 DEF NInv, KeyProved, OffersAgreed, Agreed, IdsKept, AnsweredOnce, VerdictsKept, Member
<1>4. TextsTrue'
  BY <1>1, ClientTalks DEF NInv, TextsTrue
<1> QED
  BY <1>1, <1>2, <1>3, <1>4 DEF NInv

(* The reads: where a handler can go, and what a connection must have      *)
(* shown by then.                                                          *)
LEMMA ReadStep ==
  ASSUME NInv, NEW c \in Arrivals, Accept(c) \/ Read(c) \/ Shaken(c) \/ ReadEnds(c)
  PROVE  /\ step[c] \in Reading \union {"new", "shaken"}
         /\ \E to \in Reading \union {"shaken", "serve", "ack", "closed"} :
              /\ step' = [step EXCEPT ![c] = to]
              /\ to = "shake" => keyed
              /\ to \in {"shaken", "offer"} => Member(c)
              /\ to = "ack" => kind[c].action = "link" /\ Member(c)
         /\ paired \subseteq paired' /\ paired' \subseteq Arrivals
         /\ \A d \in paired' : d \in paired \/ (d = c /\ Member(c))
         /\ timed' \subseteq Arrivals
         /\ UNCHANGED <<running, keyed, kind, verdict, clientVars, appVars>>
<1>1. CASE Accept(c)
  BY <1>1 DEF Accept, Goto, Reading, NInv, InOK
<1>2. CASE Read(c)
  <2>1. UNCHANGED <<running, keyed, kind, verdict, clientVars, appVars>> /\ step[c] \in Reading
    BY <1>2 DEF Read
  <2>2. CASE ReadPrefix(c) \/ ReadBody(c)
    BY <2>1, <2>2 DEF ReadPrefix, ReadBody, Goto, Reading, NInv, InOK
  <2>3. CASE ReadHello(c)
    <3>1. UNCHANGED <<timed, paired>> /\ timed \subseteq Arrivals /\ paired \subseteq Arrivals
      BY <2>3 DEF ReadHello, NInv, InOK
    <3>2. PICK to \in {"shake", "closed"} : step' = [step EXCEPT ![c] = to] /\ (to = "shake" => keyed)
      BY <2>3 DEF ReadHello, Goto
    <3> QED
      BY <2>1, <3>1, <3>2 DEF Reading
  <2>4. CASE ReadShake(c)
    <3>1. /\ UNCHANGED paired /\ timed' \subseteq Arrivals /\ paired \subseteq Arrivals
          /\ step[c] = "shake" /\ keyed
      BY <2>4 DEF ReadShake, NInv, InOK, KeyProved
    <3>2. PICK to \in {"shaken", "closed"} :
            step' = [step EXCEPT ![c] = to] /\ (to = "shaken" => Member(c))
      BY <2>4, <3>1 DEF ReadShake, Goto, Member
    <3> QED
      BY <2>1, <3>1, <3>2 DEF Reading
  <2>5. CASE ReadOffer(c)
    <3>1. /\ timed' \subseteq Arrivals /\ paired' = paired \union {c} /\ paired \subseteq Arrivals
          /\ Member(c)
      BY <2>5 DEF ReadOffer, NInv, InOK, KeyProved
    <3>2. PICK to \in {"ack", "serve"} :
            step' = [step EXCEPT ![c] = to] /\ (to = "ack" => kind[c].action = "link")
      BY <2>5 DEF ReadOffer, Goto
    <3> QED
      BY <2>1, <3>1, <3>2 DEF Reading
  <2> QED
    BY <1>2, <2>2, <2>3, <2>4, <2>5 DEF Read
<1>3. CASE Shaken(c)
  BY <1>3 DEF Shaken, Goto, Reading, NInv, InOK, KeyProved
<1>4. CASE ReadEnds(c)
  BY <1>4 DEF ReadEnds, Goto, Reading, NInv, InOK
<1> QED
  BY <1>1, <1>2, <1>3, <1>4

LEMMA ReadKeeps ==
  ASSUME NInv, NEW c \in Arrivals, Accept(c) \/ Read(c) \/ Shaken(c) \/ ReadEnds(c)
  PROVE  NInv' /\ UNCHANGED verdict
<1>1. UNCHANGED <<running, keyed, kind, verdict, said, hungUp, told, pending, asking, screen, by, shown>>
  BY ReadStep DEF clientVars, appVars
<1>2. PICK to \in Reading \union {"shaken", "serve", "ack", "closed"} :
              /\ step' = [step EXCEPT ![c] = to]
              /\ to = "shake" => keyed
              /\ to \in {"shaken", "offer"} => Member(c)
              /\ to = "ack" => kind[c].action = "link" /\ Member(c)
  BY ReadStep
<1>3. step \in [Arrivals -> Steps] /\ to \in Steps /\ step[c] \in Reading \union {"new", "shaken"}
  BY ReadStep DEF NInv, InOK, Steps
<1>4. InOK'
  BY <1>1, <1>2, <1>3, ReadStep DEF NInv, InOK
<1>5. KeyProved'
  <2> SUFFICES ASSUME NEW d \in Arrivals
               PROVE  /\ step'[d] = "shake" => keyed
                      /\ step'[d] \in {"shaken", "offer", "link"} \/ d \in paired' => Member(d)
                      /\ step'[d] = "ack" /\ kind[d].action = "link" => Member(d)
    BY <1>1 DEF KeyProved, Member
  <2>1. d \in paired' => Member(d)
    BY ReadStep DEF NInv, KeyProved
  <2>2. CASE d = c
    BY <1>2, <1>3, <2>1, <2>2 DEF Reading
  <2>3. CASE d # c
    BY <1>2, <1>3, <2>1, <2>3 DEF NInv, KeyProved
  <2> QED
    BY <2>2, <2>3
<1>6. OffersAgreed'
  BY <1>1, <1>2, <1>3 DEF NInv, OffersAgreed, Agreed, Member, Reading
<1>9. IdsKept' /\ AnsweredOnce'
  BY <1>1, <1>2, <1>3, InAssumption DEF NInv, InOK, IdsKept, AnsweredOnce, Reading
<1>7. VerdictsKept'
  <2>1. verdict[c] = "none"
    BY <1>3 DEF NInv, VerdictsKept, Reading
  <2> QED
    BY <1>1, <1>2, <1>3, <2>1 DEF NInv, VerdictsKept, Reading
<1>8. TextsTrue'
  BY <1>1 DEF NInv, TextsTrue
<1> QED
  BY <1>1, <1>4, <1>5, <1>6, <1>7, <1>8, <1>9 DEF NInv

(* A handler that has its offer. *)
LEMMA ServeKeeps ==
  ASSUME NInv, NEW c \in Arrivals, Serve(c)
  PROVE  NInv' /\ OneVerdict
<1>1. UNCHANGED <<running, keyed, kind, timed, paired, said, hungUp, told, screen, by, shown>>
  BY DEF Serve, clientVars
<1>2. step \in [Arrivals -> Steps] /\ step[c] = "serve" /\ verdict[c] = "none"
      /\ verdict \in [Arrivals -> {"none", "accept", "reject"}]
      /\ asking \in [Arrivals -> {"no", "waiting", "accept", "reject"}]
      /\ pending \in [Ids -> Arrivals \union {NoOffer}]
      /\ kind[c].action \in {"text", "offer", "link"} /\ kind[c].id \in Ids
  BY DEF Serve, NInv, InOK, VerdictsKept, Kinds
<1>3. CASE kind[c].action = "text" \/ (kind[c].action = "offer" /\ c \in paired)
  <2>1. UNCHANGED <<asking, pending>>
    BY <1>2, <1>3 DEF Serve
  <2>2. PICK to \in {"ack", "closed"} :
          /\ step' = [step EXCEPT ![c] = to]
          /\ verdict' = IF to = "closed" THEN [verdict EXCEPT ![c] = "reject"] ELSE verdict
    BY <1>2, <1>3 DEF Serve, Goto
  <2>3. InOK'
    BY <1>1, <1>2, <2>1, <2>2 DEF NInv, InOK, Steps
  <2>4. KeyProved'
    BY <1>1, <1>2, <1>3, <2>2 DEF NInv, KeyProved, Member
  <2>5. OffersAgreed'
    BY <1>1, <1>2, <1>3, <2>1, <2>2 DEF NInv, OffersAgreed, Agreed, KeyProved, Member
  <2>6. VerdictsKept' /\ TextsTrue' /\ OneVerdict
    BY <1>1, <1>2, <2>2 DEF NInv, VerdictsKept, TextsTrue, OneVerdict
  <2>7. IdsKept' /\ AnsweredOnce'
    BY <1>1, <1>2, <2>1, <2>2, InAssumption DEF NInv, InOK, IdsKept, AnsweredOnce, Reading
  <2> QED
    BY <2>3, <2>4, <2>5, <2>6, <2>7 DEF NInv
<1>4. CASE kind[c].action = "offer" /\ c \notin paired
  <2>1. /\ step' = [step EXCEPT ![c] = "tell"] /\ asking' = [asking EXCEPT ![c] = "waiting"]
        /\ pending' = [pending EXCEPT ![kind[c].id] = c] /\ UNCHANGED verdict
    BY <1>4 DEF Serve, Goto
  <2>2. InOK'
    BY <1>1, <1>2, <2>1 DEF NInv, InOK, Steps
  <2>3. KeyProved' /\ OffersAgreed'
    BY <1>1, <1>2, <1>4, <2>1 DEF NInv, KeyProved, OffersAgreed, Agreed, Member
  <2>4. VerdictsKept' /\ TextsTrue' /\ OneVerdict
    BY <1>1, <1>2, <2>1 DEF NInv, VerdictsKept, TextsTrue, OneVerdict
  <2>5. IdsKept'
    BY <1>1, <1>2, <2>1 DEF NInv, IdsKept
  <2>6. AnsweredOnce'
    BY <1>1, <1>2, <2>1, InAssumption DEF NInv, InOK, AnsweredOnce, Reading
  <2> QED
    BY <2>2, <2>3, <2>4, <2>5, <2>6 DEF NInv
<1>5. CASE kind[c].action = "link"
  <2>1. step' = [step EXCEPT ![c] = "closed"] /\ UNCHANGED <<asking, pending, verdict>>
    BY <1>5 DEF Serve, Goto
  <2>2. InOK'
    BY <1>1, <1>2, <2>1 DEF NInv, InOK, Steps
  <2>3. KeyProved' /\ OffersAgreed'
    BY <1>1, <1>2, <2>1 DEF NInv, KeyProved, OffersAgreed, Agreed, Member
  <2>4. VerdictsKept' /\ TextsTrue' /\ OneVerdict
    BY <1>1, <1>2, <2>1 DEF NInv, VerdictsKept, TextsTrue, OneVerdict
  <2>5. IdsKept' /\ AnsweredOnce'
    BY <1>1, <1>2, <2>1, InAssumption DEF NInv, InOK, IdsKept, AnsweredOnce, Reading
  <2> QED
    BY <2>2, <2>3, <2>4, <2>5 DEF NInv
<1> QED
  BY <1>2, <1>3, <1>4, <1>5

LEMMA TellKeeps ==
  ASSUME NInv, NEW c \in Arrivals, Tell(c)
  PROVE  NInv' /\ UNCHANGED verdict
<1>1. /\ UNCHANGED <<running, keyed, kind, timed, paired, verdict, said, hungUp, told>>
      /\ UNCHANGED <<pending, asking, by, shown>> /\ step[c] = "tell"
      /\ step' = [step EXCEPT ![c] = "ask"] /\ screen' = c
  BY DEF Tell, Goto, clientVars
<1>2. step \in [Arrivals -> Steps]
  BY DEF NInv, InOK
<1>3. InOK'
  BY <1>1, <1>2 DEF NInv, InOK, Steps
<1>4. KeyProved' /\ OffersAgreed' /\ IdsKept'
  BY <1>1, <1>2 DEF NInv, KeyProved, OffersAgreed, Agreed, IdsKept, Member
<1>5. AnsweredOnce'
  BY <1>1, <1>2, InAssumption DEF NInv, InOK, AnsweredOnce, Reading
<1>6. VerdictsKept' /\ TextsTrue'
  BY <1>1, <1>2 DEF NInv, VerdictsKept, TextsTrue
<1> QED
  BY <1>1, <1>3, <1>4, <1>5, <1>6 DEF NInv

(* The answer for the offer on the screen, to whoever is under its id. *)
LEMMA AnswerKeeps ==
  ASSUME NInv, NEW v \in {"accept", "reject"}, Answer(v)
  PROVE  NInv' /\ UNCHANGED verdict
<1> DEFINE c == pending[kind[screen].id]
<1>1. /\ UNCHANGED <<running, keyed, kind, step, timed, paired, verdict, said, hungUp, told, pending, shown>>
      /\ screen' = NoOffer
  BY DEF Answer, clientVars
<1>2. screen \in Arrivals /\ kind[screen].id \in Ids /\ c \in Arrivals \union {NoOffer}
  BY DEF Answer, NInv, InOK, Kinds
<1>3. KeyProved' /\ VerdictsKept' /\ TextsTrue' /\ IdsKept'
  BY <1>1 DEF NInv, KeyProved, VerdictsKept, TextsTrue, IdsKept, Member
<1>4. CASE UNCHANGED <<asking, by>>
  <2>1. InOK'
    BY <1>1, <1>2, <1>4 DEF NInv, InOK
  <2>2. OffersAgreed'
    BY <1>1, <1>2, <1>4 DEF NInv, OffersAgreed, Agreed, Member
  <2>3. AnsweredOnce'
    BY <1>1, <1>2, <1>4, InAssumption DEF NInv, InOK, AnsweredOnce
  <2> QED
    BY <1>1, <1>3, <2>1, <2>2, <2>3 DEF NInv
<1>5. CASE /\ c \in Arrivals /\ asking' = [asking EXCEPT ![c] = v]
           /\ by' = IF v = "accept" THEN [by EXCEPT ![c] = screen] ELSE by
  <2>1. kind[screen].id = kind[c].id
    BY <1>2, <1>5, InAssumption DEF NInv, IdsKept
  <2>2. InOK'
    BY <1>1, <1>2, <1>5 DEF NInv, InOK
  <2>3. OffersAgreed'
    <3> SUFFICES ASSUME NEW d \in Arrivals
                 PROVE  /\ asking'[d] = "accept" => Agreed(d)'
                        /\ Agreed(d) => Agreed(d)'
      BY <1>1 DEF NInv, OffersAgreed, Member
    <3>1. CASE d = c
      BY <1>1, <1>2, <1>5, <2>1, <3>1 DEF NInv, InOK, OffersAgreed, Agreed
    <3>2. CASE d # c
      BY <1>1, <1>5, <3>2 DEF NInv, InOK, OffersAgreed, Agreed
    <3> QED
      BY <3>1, <3>2
  <2>4. AnsweredOnce'
    BY <1>1, <1>2, <1>5, InAssumption DEF NInv, InOK, AnsweredOnce
  <2> QED
    BY <1>1, <1>3, <2>2, <2>3, <2>4 DEF NInv
<1> QED
  BY <1>2, <1>4, <1>5 DEF Answer

LEMMA AnsweredKeeps ==
  ASSUME NInv, NEW c \in Arrivals, Answered(c)
  PROVE  NInv' /\ OneVerdict
<1>1. /\ UNCHANGED <<running, keyed, kind, timed, paired, said, hungUp, told, screen, by, shown>>
      /\ step[c] = "ask" /\ asking[c] \in {"accept", "reject"}
      /\ step' = [step EXCEPT ![c] = IF asking[c] = "accept" THEN "ack" ELSE "closed"]
      /\ verdict' = IF asking[c] = "reject" THEN [verdict EXCEPT ![c] = "reject"] ELSE verdict
      /\ asking' = [asking EXCEPT ![c] = "no"]
      /\ pending' = [pending EXCEPT ![kind[c].id] = NoOffer]
  BY DEF Answered, clientVars, Goto
<1>2. step \in [Arrivals -> Steps] /\ verdict[c] = "none"
      /\ verdict \in [Arrivals -> {"none", "accept", "reject"}]
      /\ asking \in [Arrivals -> {"no", "waiting", "accept", "reject"}]
      /\ pending \in [Ids -> Arrivals \union {NoOffer}]
  BY <1>1 DEF NInv, InOK, VerdictsKept
<1>3. InOK'
  BY <1>1, <1>2 DEF NInv, InOK, Steps
<1>4. KeyProved'
  BY <1>1, <1>2 DEF NInv, KeyProved, OffersAgreed, Member
<1>5. OffersAgreed'
  BY <1>1, <1>2 DEF NInv, OffersAgreed, Agreed, Member
<1>6. VerdictsKept' /\ TextsTrue' /\ OneVerdict
  BY <1>1, <1>2 DEF NInv, VerdictsKept, TextsTrue, OneVerdict
<1>7. IdsKept'
  BY <1>1, <1>2 DEF NInv, IdsKept
<1>8. AnsweredOnce'
  BY <1>1, <1>2, InAssumption DEF NInv, InOK, AnsweredOnce, Reading
<1> QED
  BY <1>3, <1>4, <1>5, <1>6, <1>7, <1>8 DEF NInv

(* The accept byte is written before anything is taken or shown. *)
LEMMA AckKeeps ==
  ASSUME NInv, NEW c \in Arrivals, Ack(c)
  PROVE  NInv' /\ OneVerdict
<1>1. UNCHANGED <<running, keyed, kind, timed, paired, said, hungUp, told, pending, asking, screen, by, shown>>
      /\ step[c] = "ack"
  BY DEF Ack, clientVars, appVars
<1>2. step \in [Arrivals -> Steps] /\ verdict[c] = "none"
      /\ verdict \in [Arrivals -> {"none", "accept", "reject"}]
      /\ kind[c].action \in {"text", "offer", "link"}
  BY <1>1 DEF NInv, InOK, VerdictsKept, Kinds
<1>3. CASE step' = [step EXCEPT ![c] = "closed"] /\ UNCHANGED verdict
  <2>1. InOK'
    BY <1>1, <1>2, <1>3 DEF NInv, InOK, Steps
  <2>2. KeyProved' /\ OffersAgreed' /\ IdsKept' /\ AnsweredOnce'
    BY <1>1, <1>2, <1>3, InAssumption
       DEF NInv, InOK, KeyProved, OffersAgreed, Agreed, IdsKept, AnsweredOnce, Reading, Member
  <2>3. VerdictsKept' /\ TextsTrue' /\ OneVerdict
    BY <1>1, <1>2, <1>3 DEF NInv, VerdictsKept, TextsTrue, OneVerdict
  <2> QED
    BY <2>1, <2>2, <2>3 DEF NInv
<1>4. CASE verdict' = [verdict EXCEPT ![c] = "accept"]
  <2>1. PICK to \in {"show", "link", "stream"} :
          /\ step' = [step EXCEPT ![c] = to]
          /\ to = "show" => kind[c].action = "text"
          /\ to = "link" => kind[c].action = "link"
          /\ to = "stream" => kind[c].action = "offer"
    <3>1. verdict' # verdict
      BY <1>2, <1>4
    <3>2. step' = [step EXCEPT ![c] = CASE kind[c].action = "text" -> "show"
                                        [] kind[c].action = "link" -> "link" [] OTHER -> "stream"]
      BY <3>1 DEF Ack, Goto
    <3>3. CASE kind[c].action = "text"
      BY <3>2, <3>3
    <3>4. CASE kind[c].action = "link"
      BY <3>2, <3>4
    <3>5. CASE kind[c].action = "offer"
      BY <3>2, <3>5
    <3> QED
      BY <1>2, <3>3, <3>4, <3>5
  <2>2. InOK'
    BY <1>1, <1>2, <1>4, <2>1 DEF NInv, InOK, Steps
  <2>3. KeyProved'
    BY <1>1, <1>2, <2>1 DEF NInv, KeyProved, Member
  <2>4. OffersAgreed'
    BY <1>1, <1>2, <2>1 DEF NInv, OffersAgreed, Agreed, Member
  <2>6. IdsKept' /\ AnsweredOnce'
    BY <1>1, <1>2, <2>1, InAssumption DEF NInv, InOK, IdsKept, AnsweredOnce, Reading
  <2>5. VerdictsKept' /\ TextsTrue' /\ OneVerdict
    BY <1>1, <1>2, <1>4, <2>1 DEF NInv, VerdictsKept, TextsTrue, OneVerdict
  <2> QED
    BY <2>2, <2>3, <2>4, <2>5, <2>6 DEF NInv
<1> QED
  BY <1>3, <1>4 DEF Ack, Goto

LEMMA ShowKeeps ==
  ASSUME NInv, NEW c \in Arrivals, Show(c)
  PROVE  NInv' /\ UNCHANGED verdict
<1>1. /\ UNCHANGED <<running, keyed, kind, timed, paired, verdict, said, hungUp, told, pending, asking, screen, by>>
      /\ step[c] = "show" /\ step' = [step EXCEPT ![c] = "closed"] /\ shown' = shown \union {c}
  BY DEF Show, Goto, clientVars
<1>2. step \in [Arrivals -> Steps] /\ verdict[c] = "accept" /\ kind[c].action = "text"
  BY <1>1 DEF NInv, InOK, VerdictsKept
<1>3. InOK'
  BY <1>1, <1>2 DEF NInv, InOK, Steps
<1>4. KeyProved' /\ OffersAgreed' /\ IdsKept' /\ AnsweredOnce'
  BY <1>1, <1>2, InAssumption
     DEF NInv, InOK, KeyProved, OffersAgreed, Agreed, IdsKept, AnsweredOnce, Reading, Member
<1>5. VerdictsKept' /\ TextsTrue'
  BY <1>1, <1>2 DEF NInv, VerdictsKept, TextsTrue
<1> QED
  BY <1>1, <1>3, <1>4, <1>5 DEF NInv

LEMMA QuitKeeps ==
  ASSUME NInv, Quit
  PROVE  NInv' /\ UNCHANGED verdict
<1>1. /\ UNCHANGED <<keyed, kind, timed, paired, verdict, said, hungUp, told, pending, asking, screen, by, shown>>
      /\ running' = FALSE
      /\ step' = [c \in Arrivals |-> IF step[c] = "new" THEN "new" ELSE "closed"]
  BY DEF Quit, clientVars, appVars
<1>2. InOK'
  BY <1>1 DEF NInv, InOK, Steps
<1>3. KeyProved' /\ OffersAgreed' /\ IdsKept' /\ AnsweredOnce'
  BY <1>1, InAssumption
     DEF NInv, InOK, KeyProved, OffersAgreed, Agreed, IdsKept, AnsweredOnce, Reading, Member
<1>4. VerdictsKept' /\ TextsTrue'
  BY <1>1 DEF NInv, VerdictsKept, TextsTrue
<1> QED
  BY <1>1, <1>2, <1>3, <1>4 DEF NInv

LEMMA InSteps == NInv /\ [InNext]_inVars => NInv' /\ OneVerdict
<1> SUFFICES ASSUME NInv, [InNext]_inVars PROVE NInv' /\ OneVerdict
  OBVIOUS
<1>1. CASE UNCHANGED inVars
  BY <1>1 DEF inVars, NInv, InOK, KeyProved, OffersAgreed, Agreed, IdsKept, AnsweredOnce, VerdictsKept,
              TextsTrue, Member, OneVerdict
<1>2. ASSUME NEW c \in Arrivals, Say(c) \/ HangUp(c) \/ TextEnds(c) PROVE NInv' /\ OneVerdict
  BY <1>2, ClientKeeps DEF OneVerdict
<1>3. ASSUME NEW c \in Arrivals, HandlerStep(c) PROVE NInv' /\ OneVerdict
  <2>1. CASE Accept(c) \/ Read(c) \/ Shaken(c) \/ ReadEnds(c)
    BY <2>1, ReadKeeps DEF OneVerdict
  <2>2. CASE Serve(c)
    BY <2>2, ServeKeeps
  <2>3. CASE Answered(c)
    BY <2>3, AnsweredKeeps
  <2>4. CASE Ack(c)
    BY <2>4, AckKeeps
  <2>5. CASE Show(c)
    BY <2>5, ShowKeeps DEF OneVerdict
  <2>6. CASE Tell(c)
    BY <2>6, TellKeeps DEF OneVerdict
  <2> QED
    BY <1>3, <2>1, <2>2, <2>3, <2>4, <2>5, <2>6 DEF HandlerStep
<1>4. ASSUME NEW v \in {"accept", "reject"}, Answer(v) PROVE NInv' /\ OneVerdict
  BY <1>4, AnswerKeeps DEF OneVerdict
<1>5. CASE Quit
  BY <1>5, QuitKeeps DEF OneVerdict
<1> QED
  BY <1>1, <1>2, <1>3, <1>4, <1>5 DEF InNext

LEMMA AlwaysNInv == InSpec => []NInv
  BY InStarts, InSteps, PTL DEF InSpec

(* Every variable of a computer's incoming connections has its type.       *)
THEOREM IncomingTypeCorrect == InSpec => []InOK
<1>1. NInv => InOK
  BY DEF NInv
<1> QED
  BY <1>1, AlwaysNInv, PTL

(* HandlePaired, serve, OnOffer: whatever a connection's client is, says   *)
(* of itself and does, its files are taken only if it proved this          *)
(* computer's key or the user accepted an offer of its id, one for each    *)
(* connection that comes in, and it gets a link only if it proved the key; *)
(* although offers replace each other on the screen and in the map.        *)
THEOREM NothingComesUnasked == InSpec => []NothingUnasked
<1>1. NInv => NothingUnasked
  <2> SUFFICES ASSUME NInv PROVE NothingUnasked
    OBVIOUS
  <2>1. \A c, d \in Arrivals : by[c] = by[d] /\ c # d => by[c] = NoOffer
    BY DEF NInv, AnsweredOnce
  <2>2. \A c \in Arrivals : step[c] = "stream" => Member(c) \/ Agreed(c)
    BY DEF NInv, OffersAgreed
  <2>3. \A c \in Arrivals : step[c] = "link" => Member(c)
    BY DEF NInv, KeyProved
  <2> QED
    BY <2>1, <2>2, <2>3, InAssumption DEF NothingUnasked, Member, Agreed
<1> QED
  BY <1>1, AlwaysNInv, PTL

(* serve, SendText: a text is shown only after its sender was sent the     *)
(* accept byte, and a sender that reports its text as sent has been sent   *)
(* it; a text the receiver found too long or empty is neither.             *)
THEOREM TextsReportedTruly == InSpec => []TextsTrue
<1>1. NInv => TextsTrue
  BY DEF NInv
<1> QED
  BY <1>1, AlwaysNInv, PTL

(* serve: however the user's answer, the client's hanging up and the end   *)
(* of the program fall together, no offer gets a second verdict.           *)
THEOREM VerdictsFinal == InSpec => [][OneVerdict]_inVars
  BY AlwaysNInv, InSteps, PTL DEF InSpec
=============================================================================
